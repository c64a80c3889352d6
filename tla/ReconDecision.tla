---------------------------- MODULE ReconDecision ----------------------------
(***************************************************************************)
(* What a run of the backstop proposes for one truck: the decision oracle    *)
(* (server/fleet-reconciliation/decision.ts), the inputs the engine gives it *)
(* (engine.ts) and the row the materializer makes of each leg                *)
(* (materializer.ts).  Pure operators: ReconNightly takes their outcome as a *)
(* choice, and the theorems of ReconDecisionProofs say which choices the     *)
(* code can make.                                                           *)
(***************************************************************************)
EXTENDS FiniteSets

CONSTANTS
    Techs,          \* enterprise ids
    CostCenters,
    None            \* null: nobody, or no cost center

ASSUME DecisionAssumption == None \notin Techs \cup CostCenters

Legs == {"wms", "wmsCostCenter", "ams", "holman"}

(* The authority of a truck: its owner and the cost center of the owner's   *)
(* district (None without a mapping), nobody, or contested.                 *)
DecidedAuthorities ==
    [kind : {"owner"}, tech : Techs, costCenter : CostCenters \cup {None}]
      \cup [kind : {"vacant", "contested"}, tech : {None}, costCenter : {None}]

(* What a live pull shows; a truck that is absent shows nothing.  A truck's *)
(* unresolved stamp puts a ghost in flight "within" 24 hours of it, or      *)
(* "elapsed" after 36; between the two it goes to the batch again.          *)
Flights == {"no", "within", "elapsed"}

WmsStates ==
    {w \in [present : BOOLEAN, tech : Techs \cup {None}, costCenter : CostCenters \cup {None},
            techOnOtherTruck : BOOLEAN] :
       ~w.present => w.tech = None /\ w.costCenter = None}
AmsStates ==
    {a \in [present : BOOLEAN, tech : Techs \cup {None}, inFlight : Flights] :
       /\ ~a.present => a.tech = None
       /\ a.tech = None => a.inFlight = "no"}
HolmanStates ==
    {h \in [present : BOOLEAN, tech : Techs \cup {None}, lifecycleConflict : BOOLEAN] :
       ~h.present => h.tech = None /\ ~h.lifecycleConflict}

(* What the engine knows of an active truck; an exempt one was changed here *)
(* after the extract was taken.                                             *)
Inputs == [exempt : BOOLEAN, authority : DecidedAuthorities,
           wms : WmsStates, ams : AmsStates, holman : HolmanStates]

-----------------------------------------------------------------------------
(* decideTruck.                                                            *)

(* The engine passes an exemption age of 0: no exemption is ever forced.    *)
Ladder(in) ==
    IF in.exempt THEN "SKIP_EXEMPT"
    ELSE IF in.holman.lifecycleConflict THEN "WRITE_HOLD_LIFECYCLE"
    ELSE IF in.authority.kind = "contested" THEN "HOLD_CONTESTED"
    ELSE "EVALUATE"

decideWmsLeg(auth, w) ==
    IF auth.kind = "owner"
    THEN IF ~w.present THEN "WMS_MISSING_FLAG"
         ELSE IF w.tech = auth.tech THEN "NOOP"
         ELSE IF w.tech = None /\ ~w.techOnOtherTruck THEN "WMS_ASSIGN" ELSE "FLAG_MOVE"
    ELSE IF w.present /\ w.tech # None THEN "WMS_GHOST_CLEAR" ELSE "NOOP"

(* Only where the assignment is right, or about to be.                      *)
decideWmsCostCenter(auth, w) ==
    IF auth.kind # "owner" \/ (decideWmsLeg(auth, w) # "WMS_ASSIGN" /\ w.tech # auth.tech)
    THEN "NO_LEG"
    ELSE IF auth.costCenter = None THEN "COSTCENTER_SKIP_FLAG"
    ELSE IF w.costCenter # auth.costCenter THEN "COSTCENTER_FIX" ELSE "NOOP"

decideAmsLeg(auth, a) ==
    IF ~a.present THEN "AMS_MISSING_FLAG"
    ELSE IF auth.kind = "owner" THEN IF a.tech # auth.tech THEN "AMS_ASSIGN" ELSE "NOOP"
    ELSE IF a.tech = None THEN "NOOP"
    ELSE IF a.inFlight = "within" THEN "AMS_SUPPRESS"
    ELSE IF a.inFlight = "elapsed" THEN "AMS_RESYNC_FLAG" ELSE "AMS_AWAIT_BATCH"

decideHolmanLeg(auth, h) ==
    IF ~h.present THEN "HOLMAN_MISSING_FLAG"
    ELSE IF auth.kind = "owner" THEN IF h.tech # auth.tech THEN "HOLMAN_ASSIGN" ELSE "NOOP"
    ELSE IF h.tech # None THEN "HOLMAN_GHOST_CLEAR" ELSE "NOOP"

decideTruck(in) ==
    [leg \in Legs |->
       IF Ladder(in) # "EVALUATE" THEN "NO_LEG"
       ELSE CASE leg = "wms" -> decideWmsLeg(in.authority, in.wms)
              [] leg = "wmsCostCenter" -> decideWmsCostCenter(in.authority, in.wms)
              [] leg = "ams" -> decideAmsLeg(in.authority, in.ams)
              [] leg = "holman" -> decideHolmanLeg(in.authority, in.holman)]

(* countsTowardGuard, and the number the volume guard adds up.              *)
CountsTowardGuard(outcome) ==
    outcome \in {"WMS_ASSIGN", "WMS_GHOST_CLEAR", "COSTCENTER_FIX", "AMS_ASSIGN",
                 "HOLMAN_ASSIGN", "HOLMAN_GHOST_CLEAR"}

CountedLegs(in) == {leg \in Legs : CountsTowardGuard(decideTruck(in)[leg])}
ProposedWriteCount(in) == Cardinality(CountedLegs(in))

-----------------------------------------------------------------------------
(* stageLeg: the row of a leg.                                             *)

Flags == {"WMS_MISSING_FLAG", "FLAG_MOVE", "COSTCENTER_SKIP_FLAG", "AMS_RESYNC_FLAG",
          "AMS_MISSING_FLAG", "HOLMAN_MISSING_FLAG"}

StagedLegs(in) ==
    {leg \in Legs : decideTruck(in)[leg] \notin {"NO_LEG", "NOOP", "AMS_SUPPRESS"}}

StageStatus(in, leg) ==
    IF decideTruck(in)[leg] \in Flags THEN "flagged"
    ELSE IF decideTruck(in)[leg] = "AMS_AWAIT_BATCH" THEN "awaiting_batch" ELSE "queued"

StageSystem(leg) == IF leg \in {"ams", "holman"} THEN leg ELSE "wms"

StageAction(in, leg) ==
    IF leg = "wmsCostCenter" THEN "cost_center"
    ELSE IF in.authority.kind = "owner" THEN "assign" ELSE "clear"

(* The value the row asks for: an enterprise id, a cost center, or nobody.  *)
StageDesired(in, leg) ==
    IF leg = "wmsCostCenter"
    THEN IF decideTruck(in)[leg] = "COSTCENTER_FIX" THEN in.authority.costCenter ELSE None
    ELSE IF in.authority.kind = "owner" THEN in.authority.tech ELSE None

(* {system, field}: the key of activeTargetUq within one truck.             *)
StageTarget(leg) == <<StageSystem(leg), leg = "wmsCostCenter">>

StageRow(in, leg) ==
    [target |-> StageTarget(leg), action |-> StageAction(in, leg),
     desired |-> StageDesired(in, leg), status |-> StageStatus(in, leg)]

-----------------------------------------------------------------------------
(* What live shows for a leg's field, and live after the rows of some legs   *)
(* took effect.                                                             *)

LiveValue(in, leg) ==
    CASE leg = "wms" -> in.wms.tech
      [] leg = "wmsCostCenter" -> in.wms.costCenter
      [] leg = "ams" -> in.ams.tech
      [] leg = "holman" -> in.holman.tech

(* Rows that ask for a write: of the executor, or of the AMS batch too.     *)
QueuedLegs(in) == {leg \in StagedLegs(in) : StageStatus(in, leg) = "queued"}
WriteLegs(in) == {leg \in StagedLegs(in) : StageStatus(in, leg) # "flagged"}

ValueAfter(in, done, leg) ==
    IF leg \in done THEN StageDesired(in, leg) ELSE LiveValue(in, leg)

(* A ghost that is still there has its stamp at some later age.             *)
Applied(in, done, flight) ==
    [exempt    |-> in.exempt,
     authority |-> in.authority,
     wms    |-> [in.wms EXCEPT !.tech = ValueAfter(in, done, "wms"),
                               !.costCenter = ValueAfter(in, done, "wmsCostCenter")],
     ams    |-> [present |-> in.ams.present,
                 tech |-> ValueAfter(in, done, "ams"),
                 inFlight |-> IF ValueAfter(in, done, "ams") = None THEN "no" ELSE flight],
     holman |-> [in.holman EXCEPT !.tech = ValueAfter(in, done, "holman")]]

(* The fleet: tech and authority of every truck WMS shows, by truck.  The    *)
(* pull's reverse index says whether a tech is on another truck.            *)
TechOnOtherTruck(fleet, x, t) == x # None /\ \E u \in DOMAIN fleet \ {t} : fleet[u] = x

FleetWmsLeg(fleet, auth, t) ==
    IF auth[t].kind = "contested" THEN "NO_LEG"
    ELSE decideWmsLeg(auth[t],
       [present |-> TRUE, tech |-> fleet[t], costCenter |-> None,
        techOnOtherTruck |-> TechOnOtherTruck(fleet, auth[t].tech, t)])

FleetApplied(fleet, auth, done) ==
    [t \in DOMAIN fleet |->
       IF t \notin done THEN fleet[t]
       ELSE CASE FleetWmsLeg(fleet, auth, t) = "WMS_ASSIGN" -> auth[t].tech
              [] FleetWmsLeg(fleet, auth, t) = "WMS_GHOST_CLEAR" -> None
              [] OTHER -> fleet[t]]

-----------------------------------------------------------------------------
(* Properties, of one truck's inputs in or of a fleet.                      *)

(* The rows of one run and truck never compete for the unique index on      *)
(* active targets, so none of them is dropped for another one.              *)
RowsHaveOwnTargets(in) ==
    \A l1, l2 \in StagedLegs(in) : StageTarget(l1) = StageTarget(l2) => l1 = l2

(* No row is queued for what live shows already: a kick that leases a fresh *)
(* row has something to correct.                                            *)
WritesAreNotShown(in) == \A leg \in WriteLegs(in) : LiveValue(in, leg) # StageDesired(in, leg)

(* The number the volume guard adds up in the decisions is the number of    *)
(* rows the insertion will queue: flags, ghosts and suppressed legs neither *)
(* trip the guard nor slip past it.                                         *)
GuardCountsQueued(in) ==
    ProposedWriteCount(in) = Cardinality(QueuedLegs(in))

(* A run that applied only some of its rows leaves the others to the next   *)
(* night unchanged: deciding again, with live as it was otherwise, queues   *)
(* the rest with the same values, and nothing for what took effect.         *)
RestIsProposedAgain(in) ==
    \A done \in SUBSET WriteLegs(in), flight \in Flights :
       LET new == Applied(in, done, flight)
       IN  /\ QueuedLegs(new) = QueuedLegs(in) \ done
           /\ WriteLegs(new) \cap done = {}
           /\ \A leg \in QueuedLegs(new) : StageRow(new, leg) = StageRow(in, leg)

OneTruckPerTech(fleet) ==
    \A t, u \in DOMAIN fleet : fleet[t] = fleet[u] /\ fleet[t] # None => t = u

OneTruckPerOwner(auth) ==
    \A t, u \in DOMAIN auth :
       auth[t].kind = "owner" /\ auth[u].kind = "owner" /\ auth[t].tech = auth[u].tech => t = u

(* The trucks are decided one by one from one pull; yet whichever of their  *)
(* rows take effect, and in whatever order, no tech gets a second truck in  *)
(* WMS, as long as the extract names nobody as the owner of two.            *)
NoSecondTruck(fleet, auth) ==
    OneTruckPerTech(fleet) /\ OneTruckPerOwner(auth) =>
       \A done \in SUBSET DOMAIN fleet : OneTruckPerTech(FleetApplied(fleet, auth, done))
=============================================================================
