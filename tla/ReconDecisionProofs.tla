------------------------- MODULE ReconDecisionProofs -------------------------
(***************************************************************************)
(* What the decision oracle proposes, for every set of techs and cost        *)
(* centers and every fleet.                                                 *)
(***************************************************************************)
EXTENDS ReconDecision, TLAPS

(* Four legs, four fields of the three systems: the assumption ReconNightly *)
(* makes about the items of a run.                                          *)
THEOREM TargetsAreOwn == \A in \in Inputs : RowsHaveOwnTargets(in)
  BY DEF RowsHaveOwnTargets, StagedLegs, StageTarget, StageSystem, Legs

(* The outcome of each leg, by the ladder and the leg's own decision.        *)
LEMMA OutcomeOfLeg ==
  ASSUME NEW in
  PROVE  \A leg \in Legs :
           /\ Ladder(in) # "EVALUATE" => decideTruck(in)[leg] = "NO_LEG"
           /\ Ladder(in) = "EVALUATE" =>
                /\ leg = "wms" => decideTruck(in)[leg] = decideWmsLeg(in.authority, in.wms)
                /\ leg = "wmsCostCenter" =>
                     decideTruck(in)[leg] = decideWmsCostCenter(in.authority, in.wms)
                /\ leg = "ams" => decideTruck(in)[leg] = decideAmsLeg(in.authority, in.ams)
                /\ leg = "holman" => decideTruck(in)[leg] = decideHolmanLeg(in.authority, in.holman)
  BY DEF decideTruck, Legs

(* The parts of a truck's inputs.                                           *)
LEMMA InputFields ==
  ASSUME NEW in \in Inputs
  PROVE  /\ in.authority \in DecidedAuthorities
         /\ in.wms \in WmsStates
         /\ in.ams \in AmsStates
         /\ in.holman \in HolmanStates
  BY DEF Inputs

(* Only an owner names a tech.                                              *)
LEMMA AuthorityFields ==
  ASSUME NEW auth \in DecidedAuthorities
  PROVE  /\ auth.kind \in {"owner", "vacant", "contested"}
         /\ auth.kind = "owner" => auth.tech \in Techs /\ auth.tech # None
         /\ auth.kind = "owner" => auth.costCenter \in CostCenters \cup {None}
         /\ auth.kind # "owner" => auth.tech = None
  BY DecisionAssumption DEF DecidedAuthorities

(* An evaluated truck has an owner or is vacant.                            *)
LEMMA EvaluatedIsSettled ==
  ASSUME NEW in \in Inputs, Ladder(in) = "EVALUATE"
  PROVE  in.authority.kind \in {"owner", "vacant"}
  BY InputFields, AuthorityFields DEF Ladder

(* Every outcome that is staged and not flagged counts toward the guard,    *)
(* save the ghost that waits for the batch: the volume guard compares with  *)
(* its ceiling what the insertion is going to queue.                        *)
THEOREM GuardCounts == \A in \in Inputs : GuardCountsQueued(in)
<1>1. SUFFICES ASSUME NEW in \in Inputs, NEW leg \in Legs
               PROVE  CountsTowardGuard(decideTruck(in)[leg]) <=>
                        /\ decideTruck(in)[leg] \notin {"NO_LEG", "NOOP", "AMS_SUPPRESS"}
                        /\ StageStatus(in, leg) = "queued"
  <2>1. ASSUME NEW in \in Inputs,
               \A leg \in Legs : CountsTowardGuard(decideTruck(in)[leg]) <=>
                        /\ decideTruck(in)[leg] \notin {"NO_LEG", "NOOP", "AMS_SUPPRESS"}
                        /\ StageStatus(in, leg) = "queued"
        PROVE  GuardCountsQueued(in)
    <3>1. CountedLegs(in) = QueuedLegs(in)
      BY <2>1 DEF CountedLegs, QueuedLegs, StagedLegs
    <3> QED BY <3>1 DEF GuardCountsQueued, ProposedWriteCount
  <2> QED BY <2>1
<1>2. CASE Ladder(in) # "EVALUATE"
  BY <1>2, OutcomeOfLeg DEF CountsTowardGuard, StageStatus
<1>3. CASE Ladder(in) = "EVALUATE" /\ leg = "wms"
  BY <1>3, OutcomeOfLeg DEF CountsTowardGuard, StageStatus, Flags, decideWmsLeg
<1>4. CASE Ladder(in) = "EVALUATE" /\ leg = "wmsCostCenter"
  BY <1>4, OutcomeOfLeg DEF CountsTowardGuard, StageStatus, Flags, decideWmsCostCenter
<1>5. CASE Ladder(in) = "EVALUATE" /\ leg = "ams"
  BY <1>5, OutcomeOfLeg DEF CountsTowardGuard, StageStatus, Flags, decideAmsLeg
<1>6. CASE Ladder(in) = "EVALUATE" /\ leg = "holman"
  BY <1>6, OutcomeOfLeg DEF CountsTowardGuard, StageStatus, Flags, decideHolmanLeg
<1> QED BY <1>2, <1>3, <1>4, <1>5, <1>6 DEF Legs

-----------------------------------------------------------------------------
(* When a leg is a write, in terms of what live shows.                      *)
LEMMA WriteOfLeg ==
  ASSUME NEW in, Ladder(in) = "EVALUATE"
  PROVE  /\ "wms" \in WriteLegs(in) <=>
              decideWmsLeg(in.authority, in.wms) \in {"WMS_ASSIGN", "WMS_GHOST_CLEAR"}
         /\ "wmsCostCenter" \in WriteLegs(in) <=>
              decideWmsCostCenter(in.authority, in.wms) = "COSTCENTER_FIX"
         /\ "ams" \in WriteLegs(in) <=>
              decideAmsLeg(in.authority, in.ams) \in {"AMS_ASSIGN", "AMS_AWAIT_BATCH"}
         /\ "holman" \in WriteLegs(in) <=>
              decideHolmanLeg(in.authority, in.holman) \in {"HOLMAN_ASSIGN", "HOLMAN_GHOST_CLEAR"}
<1>1. \A leg \in Legs : leg \in WriteLegs(in) <=>
         decideTruck(in)[leg] \notin {"NO_LEG", "NOOP", "AMS_SUPPRESS"} \cup Flags
  BY DEF WriteLegs, StagedLegs, StageStatus
<1>2. "wms" \in WriteLegs(in) <=>
         decideWmsLeg(in.authority, in.wms) \in {"WMS_ASSIGN", "WMS_GHOST_CLEAR"}
  BY <1>1, OutcomeOfLeg DEF Legs, Flags, decideWmsLeg
<1>3. "wmsCostCenter" \in WriteLegs(in) <=>
         decideWmsCostCenter(in.authority, in.wms) = "COSTCENTER_FIX"
  BY <1>1, OutcomeOfLeg DEF Legs, Flags, decideWmsCostCenter
<1>4. "ams" \in WriteLegs(in) <=>
         decideAmsLeg(in.authority, in.ams) \in {"AMS_ASSIGN", "AMS_AWAIT_BATCH"}
  BY <1>1, OutcomeOfLeg DEF Legs, Flags, decideAmsLeg
<1>5. "holman" \in WriteLegs(in) <=>
         decideHolmanLeg(in.authority, in.holman) \in {"HOLMAN_ASSIGN", "HOLMAN_GHOST_CLEAR"}
  BY <1>1, OutcomeOfLeg DEF Legs, Flags, decideHolmanLeg
<1> QED BY <1>2, <1>3, <1>4, <1>5

(* An exempt, held or contested truck has no rows at all.                   *)
LEMMA NoWriteUnlessEvaluated ==
  ASSUME NEW in, Ladder(in) # "EVALUATE"
  PROVE  StagedLegs(in) = {} /\ WriteLegs(in) = {}
  BY OutcomeOfLeg DEF WriteLegs, StagedLegs

(* No row is queued, and no ghost left to the batch, for a value that live  *)
(* shows already: ReconNightly's Decide stages nothing else.                *)
THEOREM NothingShownIsWritten == \A in \in Inputs : WritesAreNotShown(in)
<1> SUFFICES ASSUME NEW in \in Inputs, NEW leg \in WriteLegs(in)
             PROVE  LiveValue(in, leg) # StageDesired(in, leg)
  BY DEF WritesAreNotShown
<1>1. Ladder(in) = "EVALUATE" /\ leg \in Legs
  BY NoWriteUnlessEvaluated DEF WriteLegs, StagedLegs
<1>2. in.authority.kind \in {"owner", "vacant"}
  BY <1>1, EvaluatedIsSettled
<1>3. CASE leg = "wms"
  BY <1>1, <1>2, <1>3, WriteOfLeg, InputFields, AuthorityFields
     DEF LiveValue, StageDesired, decideWmsLeg
<1>4. CASE leg = "wmsCostCenter"
  <2>1. decideTruck(in)[leg] = "COSTCENTER_FIX"
    BY <1>1, <1>4, WriteOfLeg, OutcomeOfLeg
  <2>2. decideWmsCostCenter(in.authority, in.wms) = "COSTCENTER_FIX"
    BY <1>1, <1>4, WriteOfLeg
  <2> QED BY <1>4, <2>1, <2>2 DEF LiveValue, StageDesired, decideWmsCostCenter
<1>5. CASE leg = "ams"
  BY <1>1, <1>2, <1>5, WriteOfLeg, InputFields, AuthorityFields
     DEF LiveValue, StageDesired, decideAmsLeg
<1>6. CASE leg = "holman"
  BY <1>1, <1>2, <1>6, WriteOfLeg, InputFields, AuthorityFields
     DEF LiveValue, StageDesired, decideHolmanLeg
<1> QED BY <1>1, <1>3, <1>4, <1>5, <1>6 DEF Legs

-----------------------------------------------------------------------------
(* Live after some rows took effect, field by field.                        *)
LEMMA AppliedFields ==
  ASSUME NEW in \in Inputs, NEW done \in SUBSET Legs, NEW flight \in Flights
  PROVE  LET new == Applied(in, done, flight)
         IN  /\ new.exempt = in.exempt
             /\ new.authority = in.authority
             /\ new.wms.present = in.wms.present
             /\ new.wms.techOnOtherTruck = in.wms.techOnOtherTruck
             /\ new.wms.tech = ValueAfter(in, done, "wms")
             /\ new.wms.costCenter = ValueAfter(in, done, "wmsCostCenter")
             /\ new.ams.present = in.ams.present
             /\ new.ams.tech = ValueAfter(in, done, "ams")
             /\ new.ams.inFlight = IF ValueAfter(in, done, "ams") = None THEN "no" ELSE flight
             /\ new.holman.present = in.holman.present
             /\ new.holman.lifecycleConflict = in.holman.lifecycleConflict
             /\ new.holman.tech = ValueAfter(in, done, "holman")
  BY DEF Applied, Inputs, WmsStates, AmsStates, HolmanStates

(* What a write asks for, by leg.                                           *)
LEMMA DesiredOfWrite ==
  ASSUME NEW in, Ladder(in) = "EVALUATE"
  PROVE  /\ \A leg \in {"wms", "ams", "holman"} :
              StageDesired(in, leg) =
                IF in.authority.kind = "owner" THEN in.authority.tech ELSE None
         /\ "wmsCostCenter" \in WriteLegs(in) =>
              StageDesired(in, "wmsCostCenter") = in.authority.costCenter
  BY WriteOfLeg, OutcomeOfLeg DEF StageDesired, Legs

(* Where live shows the field of a leg.                                     *)
LEMMA LiveValues ==
  ASSUME NEW in
  PROVE  /\ LiveValue(in, "wms") = in.wms.tech
         /\ LiveValue(in, "wmsCostCenter") = in.wms.costCenter
         /\ LiveValue(in, "ams") = in.ams.tech
         /\ LiveValue(in, "holman") = in.holman.tech
  BY DEF LiveValue

-----------------------------------------------------------------------------
(* Deciding again.  A row that took effect is proposed no more, and a leg    *)
(* whose row did not is decided as before.                                  *)
LEMMA DecidedAgain ==
  ASSUME NEW in \in Inputs, Ladder(in) = "EVALUATE",
         NEW done \in SUBSET WriteLegs(in), NEW flight \in Flights
  PROVE  LET new == Applied(in, done, flight)
             auth == in.authority
         IN  /\ Ladder(new) = "EVALUATE"
             /\ new.authority = auth
             /\ IF "wms" \in done THEN decideWmsLeg(auth, new.wms) = "NOOP"
                ELSE decideWmsLeg(auth, new.wms) = decideWmsLeg(auth, in.wms)
             /\ IF "wmsCostCenter" \in done THEN decideWmsCostCenter(auth, new.wms) = "NOOP"
                ELSE decideWmsCostCenter(auth, new.wms) = decideWmsCostCenter(auth, in.wms)
             /\ IF "ams" \in done \/ auth.kind # "owner"
                THEN "ams" \in done => decideAmsLeg(auth, new.ams) = "NOOP"
                ELSE decideAmsLeg(auth, new.ams) = decideAmsLeg(auth, in.ams)
             /\ auth.kind # "owner" =>
                  /\ decideAmsLeg(auth, new.ams) # "AMS_ASSIGN"
                  /\ decideAmsLeg(auth, in.ams) # "AMS_ASSIGN"
             /\ IF "holman" \in done THEN decideHolmanLeg(auth, new.holman) = "NOOP"
                ELSE decideHolmanLeg(auth, new.holman) = decideHolmanLeg(auth, in.holman)
<1> DEFINE new == Applied(in, done, flight)
           auth == in.authority
<1>1. done \in SUBSET Legs
  BY DEF WriteLegs, StagedLegs
<1>2. /\ new.exempt = in.exempt
      /\ new.authority = auth
      /\ new.holman.lifecycleConflict = in.holman.lifecycleConflict
  BY <1>1, AppliedFields
<1>3. auth.kind \in {"owner", "vacant"} /\ auth \in DecidedAuthorities
  BY EvaluatedIsSettled, InputFields
<1>4. Ladder(new) = "EVALUATE"
  BY <1>2 DEF Ladder
<1>5. /\ new.wms.present = in.wms.present
      /\ new.wms.techOnOtherTruck = in.wms.techOnOtherTruck
      /\ new.wms.tech = IF "wms" \in done THEN IF auth.kind = "owner" THEN auth.tech ELSE None
                        ELSE in.wms.tech
      /\ new.wms.costCenter =
           IF "wmsCostCenter" \in done THEN auth.costCenter ELSE in.wms.costCenter
  <2>1. /\ new.wms.present = in.wms.present
        /\ new.wms.techOnOtherTruck = in.wms.techOnOtherTruck
        /\ new.wms.tech = ValueAfter(in, done, "wms")
        /\ new.wms.costCenter = ValueAfter(in, done, "wmsCostCenter")
    BY <1>1, AppliedFields
  <2>2. "wmsCostCenter" \in done => StageDesired(in, "wmsCostCenter") = auth.costCenter
    BY DesiredOfWrite
  <2>3. StageDesired(in, "wms") = IF auth.kind = "owner" THEN auth.tech ELSE None
    BY DesiredOfWrite
  <2> HIDE DEF new
  <2> QED BY <2>1, <2>2, <2>3, LiveValues DEF ValueAfter
<1>6. /\ new.ams.present = in.ams.present
      /\ new.ams.tech = IF "ams" \in done THEN IF auth.kind = "owner" THEN auth.tech ELSE None
                        ELSE in.ams.tech
  BY <1>1, AppliedFields, DesiredOfWrite, LiveValues DEF ValueAfter
<1>7. /\ new.holman.present = in.holman.present
      /\ new.holman.tech = IF "holman" \in done
                           THEN IF auth.kind = "owner" THEN auth.tech ELSE None
                           ELSE in.holman.tech
  BY <1>1, AppliedFields, DesiredOfWrite, LiveValues DEF ValueAfter
<1>8. auth.kind = "owner" => auth.tech # None
  BY <1>3, AuthorityFields
<1> HIDE DEF new, auth
<1>9. /\ "wms" \in done => decideWmsLeg(auth, in.wms) \in {"WMS_ASSIGN", "WMS_GHOST_CLEAR"}
      /\ "wmsCostCenter" \in done => decideWmsCostCenter(auth, in.wms) = "COSTCENTER_FIX"
      /\ "ams" \in done => decideAmsLeg(auth, in.ams) \in {"AMS_ASSIGN", "AMS_AWAIT_BATCH"}
      /\ "holman" \in done =>
           decideHolmanLeg(auth, in.holman) \in {"HOLMAN_ASSIGN", "HOLMAN_GHOST_CLEAR"}
  BY WriteOfLeg DEF auth
<1>10. IF "wms" \in done THEN decideWmsLeg(auth, new.wms) = "NOOP"
       ELSE decideWmsLeg(auth, new.wms) = decideWmsLeg(auth, in.wms)
  BY <1>3, <1>5, <1>8, <1>9 DEF decideWmsLeg
<1>11. IF "wmsCostCenter" \in done THEN decideWmsCostCenter(auth, new.wms) = "NOOP"
       ELSE decideWmsCostCenter(auth, new.wms) = decideWmsCostCenter(auth, in.wms)
  <2>1. "wms" \in done /\ auth.kind = "owner" =>
          decideWmsLeg(auth, in.wms) = "WMS_ASSIGN" /\ new.wms.tech = auth.tech
    BY <1>5, <1>9 DEF decideWmsLeg
  <2>2. auth.kind = "owner" =>
          ((decideWmsLeg(auth, new.wms) # "WMS_ASSIGN" /\ new.wms.tech # auth.tech) <=>
           (decideWmsLeg(auth, in.wms) # "WMS_ASSIGN" /\ in.wms.tech # auth.tech))
    BY <1>5, <1>10, <2>1
  <2> QED BY <1>5, <1>9, <2>2 DEF decideWmsCostCenter
<1>12. /\ IF "ams" \in done \/ auth.kind # "owner"
          THEN "ams" \in done => decideAmsLeg(auth, new.ams) = "NOOP"
          ELSE decideAmsLeg(auth, new.ams) = decideAmsLeg(auth, in.ams)
       /\ auth.kind # "owner" =>
            /\ decideAmsLeg(auth, new.ams) # "AMS_ASSIGN"
            /\ decideAmsLeg(auth, in.ams) # "AMS_ASSIGN"
  BY <1>3, <1>6, <1>8, <1>9 DEF decideAmsLeg
<1>13. IF "holman" \in done THEN decideHolmanLeg(auth, new.holman) = "NOOP"
       ELSE decideHolmanLeg(auth, new.holman) = decideHolmanLeg(auth, in.holman)
  BY <1>3, <1>7, <1>8, <1>9 DEF decideHolmanLeg
<1> QED BY <1>2, <1>4, <1>10, <1>11, <1>12, <1>13 DEF new, auth

(* A ghost is never queued, so its stamp's age makes no queued row.         *)
LEMMA QueuedOfLeg ==
  ASSUME NEW in, Ladder(in) = "EVALUATE"
  PROVE  "ams" \in QueuedLegs(in) <=> decideAmsLeg(in.authority, in.ams) = "AMS_ASSIGN"
<1>1. "ams" \in QueuedLegs(in) <=>
        decideTruck(in)["ams"] \notin
          {"NO_LEG", "NOOP", "AMS_SUPPRESS", "AMS_AWAIT_BATCH"} \cup Flags
  BY DEF QueuedLegs, StagedLegs, StageStatus, Legs
<1> QED BY <1>1, OutcomeOfLeg DEF Legs, Flags, decideAmsLeg

(* A run cut short costs nothing but time: the next decision queues exactly *)
(* the rows that did not take effect, with the values they had.             *)
THEOREM RestProposed == \A in \in Inputs : RestIsProposedAgain(in)
<1> SUFFICES ASSUME NEW in \in Inputs, NEW done \in SUBSET WriteLegs(in), NEW flight \in Flights
             PROVE  LET new == Applied(in, done, flight)
                    IN  /\ QueuedLegs(new) = QueuedLegs(in) \ done
                        /\ WriteLegs(new) \cap done = {}
                        /\ \A leg \in QueuedLegs(new) : StageRow(new, leg) = StageRow(in, leg)
  BY DEF RestIsProposedAgain
<1> DEFINE new == Applied(in, done, flight)
<1>0. done \in SUBSET Legs
  BY DEF WriteLegs, StagedLegs
<1>1. CASE Ladder(in) # "EVALUATE"
  <2>1. Ladder(new) = Ladder(in)
    <3>1. /\ new.exempt = in.exempt /\ new.authority = in.authority
          /\ new.holman.lifecycleConflict = in.holman.lifecycleConflict
      BY <1>0, AppliedFields
    <3> HIDE DEF new
    <3> QED BY <3>1 DEF Ladder
  <2>2. /\ StagedLegs(new) = {} /\ WriteLegs(new) = {}
        /\ StagedLegs(in) = {} /\ WriteLegs(in) = {}
    BY <1>1, <2>1, NoWriteUnlessEvaluated
  <2> HIDE DEF new
  <2>3. QueuedLegs(new) = {} /\ QueuedLegs(in) = {}
    BY <2>2 DEF QueuedLegs
  <2> QED BY <2>2, <2>3 DEF new
<1>2. CASE Ladder(in) = "EVALUATE"
  <2>1. Ladder(new) = "EVALUATE" /\ new.authority = in.authority
    BY <1>2, DecidedAgain
  <2>2. \A leg \in Legs \ done :
          leg # "ams" \/ in.authority.kind = "owner" => decideTruck(new)[leg] = decideTruck(in)[leg]
    BY <1>2, <2>1, DecidedAgain, OutcomeOfLeg DEF Legs
  <2>3. \A leg \in done : leg \in Legs /\ decideTruck(new)[leg] = "NOOP"
    <3>1. /\ "wms" \in done => decideWmsLeg(new.authority, new.wms) = "NOOP"
          /\ "wmsCostCenter" \in done => decideWmsCostCenter(new.authority, new.wms) = "NOOP"
          /\ "ams" \in done => decideAmsLeg(new.authority, new.ams) = "NOOP"
          /\ "holman" \in done => decideHolmanLeg(new.authority, new.holman) = "NOOP"
      BY <1>2, <2>1, DecidedAgain
    <3> HIDE DEF new
    <3> QED BY <1>0, <2>1, <3>1, OutcomeOfLeg DEF Legs
  <2>4. in.authority.kind # "owner" => "ams" \notin QueuedLegs(new) /\ "ams" \notin QueuedLegs(in)
    BY <1>2, <2>1, DecidedAgain, QueuedOfLeg
  <2> HIDE DEF new
  <2>5. WriteLegs(new) \cap done = {}
    BY <2>3 DEF WriteLegs, StagedLegs
  <2>6. \A leg \in Legs \ done : leg \in QueuedLegs(new) <=> leg \in QueuedLegs(in)
    <3>1. \A leg \in Legs : decideTruck(new)[leg] = decideTruck(in)[leg] =>
             (leg \in QueuedLegs(new) <=> leg \in QueuedLegs(in))
      BY DEF QueuedLegs, StagedLegs, StageStatus
    <3> QED BY <2>2, <2>4, <3>1
  <2>7. QueuedLegs(new) = QueuedLegs(in) \ done
    <3>1. QueuedLegs(new) \subseteq Legs /\ QueuedLegs(in) \subseteq Legs
      BY DEF QueuedLegs, StagedLegs
    <3>2. QueuedLegs(new) \subseteq WriteLegs(new)
      BY DEF QueuedLegs, WriteLegs
    <3> QED BY <2>5, <2>6, <3>1, <3>2
  <2>8. ASSUME NEW leg \in QueuedLegs(new)
        PROVE  StageRow(new, leg) = StageRow(in, leg)
    <3>1. leg \in Legs \ done
      BY <2>7 DEF QueuedLegs, StagedLegs
    <3>2. decideTruck(new)[leg] = decideTruck(in)[leg]
      BY <2>2, <2>4, <3>1
    <3> QED BY <2>1, <3>2 DEF StageRow, StageAction, StageDesired, StageStatus
  <2> QED BY <2>5, <2>7, <2>8 DEF new
<1> QED BY <1>1, <1>2

-----------------------------------------------------------------------------
(* A truck that takes effect ends with its own authority's tech, or as it    *)
(* was, or empty.                                                           *)
LEMMA FleetAfter ==
  ASSUME NEW fleet, NEW done \in SUBSET DOMAIN fleet, NEW t \in DOMAIN fleet,
         NEW auth \in [DOMAIN fleet -> DecidedAuthorities],
         FleetApplied(fleet, auth, done)[t] # None
  PROVE  \/ FleetApplied(fleet, auth, done)[t] = fleet[t]
         \/ /\ FleetApplied(fleet, auth, done)[t] = auth[t].tech
            /\ auth[t].kind = "owner"
            /\ fleet[t] = None
            /\ \A u \in DOMAIN fleet \ {t} : fleet[u] # auth[t].tech
<1>1. CASE t \notin done
  BY <1>1 DEF FleetApplied
<1>2. CASE t \in done /\ FleetWmsLeg(fleet, auth, t) = "WMS_ASSIGN"
  <2>1. FleetApplied(fleet, auth, done)[t] = auth[t].tech
    BY <1>2 DEF FleetApplied
  <2>2. auth[t].kind = "owner" /\ fleet[t] = None /\ ~TechOnOtherTruck(fleet, auth[t].tech, t)
    BY <1>2 DEF FleetWmsLeg, decideWmsLeg
  <2>3. auth[t].tech # None
    BY <2>2, AuthorityFields
  <2> QED BY <2>1, <2>2, <2>3 DEF TechOnOtherTruck
<1>3. CASE t \in done /\ FleetWmsLeg(fleet, auth, t) = "WMS_GHOST_CLEAR"
  BY <1>3 DEF FleetApplied
<1>4. CASE t \in done /\ FleetWmsLeg(fleet, auth, t) \notin {"WMS_ASSIGN", "WMS_GHOST_CLEAR"}
  BY <1>4 DEF FleetApplied
<1> QED BY <1>1, <1>2, <1>3, <1>4

(* Trucks decided one by one do not give a tech two trucks in WMS: the tech *)
(* of an assignment is on no other truck of the pull, and is the owner of   *)
(* no other one that is assigned.                                           *)
THEOREM NoTechTwice ==
  ASSUME NEW fleet, NEW auth \in [DOMAIN fleet -> DecidedAuthorities]
  PROVE  NoSecondTruck(fleet, auth)
<1> SUFFICES ASSUME OneTruckPerTech(fleet), OneTruckPerOwner(auth),
                    NEW done \in SUBSET DOMAIN fleet,
                    NEW t \in DOMAIN fleet, NEW u \in DOMAIN fleet,
                    FleetApplied(fleet, auth, done)[t] = FleetApplied(fleet, auth, done)[u],
                    FleetApplied(fleet, auth, done)[t] # None
             PROVE  t = u
  <2>1. \A d \in SUBSET DOMAIN fleet : DOMAIN FleetApplied(fleet, auth, d) = DOMAIN fleet
    BY DEF FleetApplied
  <2> QED BY <2>1 DEF NoSecondTruck, OneTruckPerTech
<1> DEFINE after == FleetApplied(fleet, auth, done)
<1>1. \/ after[t] = fleet[t]
      \/ /\ after[t] = auth[t].tech /\ auth[t].kind = "owner"
         /\ \A v \in DOMAIN fleet \ {t} : fleet[v] # auth[t].tech
  BY FleetAfter
<1>2. \/ after[u] = fleet[u]
      \/ /\ after[u] = auth[u].tech /\ auth[u].kind = "owner"
         /\ \A v \in DOMAIN fleet \ {u} : fleet[v] # auth[u].tech
  BY FleetAfter
<1> HIDE DEF after
<1>3. after[t] = after[u] /\ after[t] # None
  BY DEF after
<1>4. DOMAIN auth = DOMAIN fleet
  OBVIOUS
<1> QED BY <1>1, <1>2, <1>3, <1>4 DEF OneTruckPerTech, OneTruckPerOwner
=============================================================================
