------------------------- MODULE MCHolmanAssignment --------------------------
(* Model values of HolmanAssignment for TLC.                                *)
EXTENDS HolmanAssignment


=============================================================================
