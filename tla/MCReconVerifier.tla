--------------------------- MODULE MCReconVerifier ---------------------------
(* Small instances of ReconVerifier: a canary run with one AMS ghost and one *)
(* Holman assign, which exercise both halves of the sweep.                   *)
EXTENDS ReconVerifier, TLC

CONSTANTS w1, s1, s2, r1, t1

MCOneWorker == {w1}
MCOneSweeper == {s1}
MCTwoSweepers == {s1, s2}
MCRuns == {r1}
MCTrucks == {t1}
MCItems == {1, 2}
MCRunOf == [i \in Items |-> r1]
MCRunKind == [r \in MCRuns |-> "canary"]
MCTruckOf == [i \in Items |-> t1]
MCGhostFirst == [i \in Items |-> IF i = 1 THEN "ams" ELSE "holman"]
MCGhostFirstAction == [i \in Items |-> IF i = 1 THEN "clear" ELSE "assign"]
MCSweeperSymmetry == Permutations(MCTwoSweepers)
=============================================================================
