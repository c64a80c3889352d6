---------------------------- MODULE MCReconNightly ---------------------------
(* Small instances of ReconNightly: two runs a and b with one item each.     *)
(* Either both items correct the same Holman or WMS value of one truck, or a *)
(* canary with a ghost stands before a backfill with a Holman write.         *)
EXTENDS ReconNightly, ReconDecision, TLC

CONSTANTS w1, s1, ra, rb, t1

MCWorkers == {w1}
MCSweepers == {s1}
MCRuns == {ra, rb}
MCTrucks == {t1}
MCItems == {1, 2}
MCRunOf == (1 :> ra) @@ (2 :> rb)
MCTruckOf == [i \in MCItems |-> t1]
MCNightly == [r \in Runs |-> "nightly"]
MCCanaryBackfill == (ra :> "canary") @@ (rb :> "backfill")
MCSameWms == [i \in MCItems |-> "wms"]
MCBothClear == [i \in MCItems |-> "clear"]
MCGhostThenHolman == (1 :> "ams") @@ (2 :> "holman")
MCClearAssign == (1 :> "clear") @@ (2 :> "assign")
MCNoCanary == [r \in Runs |-> NoRun]
MCCanaryOf == (ra :> NoRun) @@ (rb :> ra)
MCApproved == {rb}
MCNobody == {}

(* The decision of one truck, over all inputs of two techs and two cost      *)
(* centers, and of a fleet of three trucks.                                 *)
ASSUME DecisionsHold ==
    \A in \in Inputs :
       /\ RowsHaveOwnTargets(in)
       /\ WritesAreNotShown(in)
       /\ GuardCountsQueued(in)
       /\ RestIsProposedAgain(in)

ASSUME FleetHolds ==
    \A fleet \in [1..3 -> Techs \cup {None}], auth \in [1..3 -> DecidedAuthorities] :
       NoSecondTruck(fleet, auth)
=============================================================================
