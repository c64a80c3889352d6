------------------------- MODULE ReconVerifierProofs -------------------------
(***************************************************************************)
(* Proofs about kicks and verifier sweeps running side by side: the lease   *)
(* discipline of the executor survives the sweeps, terminal statuses are    *)
(* final, and a canary is only stamped when it is settled and clean.        *)
(***************************************************************************)
EXTENDS ReconVerifier, ReconExecutorProofs

USE ConstantsAssumption, VerifierAssumption

(* What a sweep is about to do fits the run it was asked for and the row it *)
(* snapshotted; only a ghost is ever skipped.                               *)
SweepShape ==
    \A s \in Sweepers :
       /\ spc[s] # "idle" => sweepRun[s] \in Runs
       /\ \A i \in Items : (IsCurrent(s, i) /\ spc[s] \in {"repair", "lift", "mark"}) =>
             /\ goal[s] \in {"verified", "skipped", "flagged"}
             /\ goal[s] = "skipped" => seen[s][i] = "awaiting_batch"

(* The inductive invariant of the composition.                              *)
VInv == TypeOK /\ LeaseDiscipline /\ VerifierTypeOK /\ SweepShape

-----------------------------------------------------------------------------
(* The verifier's own variables.                                           *)

(* Ids are numbers, so a sweep has one current row.                         *)
LEMMA OneCurrent ==
    ASSUME NEW s \in Sweepers, NEW i \in Items, NEW j \in Items,
           IsCurrent(s, i), IsCurrent(s, j)
    PROVE  i = j
BY DEF IsCurrent, Work

(* The updates of a sweep's local state keep their types.                   *)
LEMMA SweepUpdatesTyped ==
    ASSUME VerifierTypeOK, NEW s \in Sweepers,
           \/ ResetSweep(s)
           \/ \E i \in Items : Handled(s, i)
           \/ \E step \in SweepPCs, g \in Goals : MoveOnTo(s, step, g)
    PROVE  /\ spc' \in [Sweepers -> SweepPCs]
           /\ sweepRun' \in [Sweepers -> Runs \cup {NoRun}]
           /\ seen' \in [Sweepers -> [Items -> PendingStatuses \cup {"absent"}]]
           /\ matched' \in [Sweepers -> SUBSET Items]
           /\ goal' \in [Sweepers -> Goals]
<1> USE DEF VerifierTypeOK, SweepPCs, Goals
<1>1. CASE ResetSweep(s)
  BY <1>1 DEF ResetSweep, NothingSeen
<1>2. CASE \E i \in Items : Handled(s, i)
  BY <1>2 DEF Handled
<1>3. CASE \E step \in SweepPCs, g \in Goals : MoveOnTo(s, step, g)
  BY <1>3 DEF MoveOnTo
<1> QED BY <1>1, <1>2, <1>3

(* What a step on the current row does to the sweep: it moves on with a     *)
(* goal that fits the row, or is done with it.                              *)
LEMMA VerifyItemMoves ==
    ASSUME VerifierTypeOK, SweepShape, NEW s \in Sweepers, NEW i \in Items, VerifyItem(s, i)
    PROVE  /\ IsCurrent(s, i) /\ spc[s] # "idle"
           /\ \/ Handled(s, i)
              \/ \E step \in {"repair", "lift", "mark"}, g \in Goals \ {"none"} :
                    /\ MoveOnTo(s, step, g)
                    /\ g = "skipped" => seen[s][i] = "awaiting_batch"
<1>1. CASE LandedMatch(s, i)
  BY <1>1 DEF LandedMatch, Goals
<1>2. CASE LandedMiss(s, i)
  BY <1>2 DEF LandedMiss, LeaveForLater, Goals
<1>3. CASE repairHolmanCache(s, i) \/ verifyFence(s, i)
  BY <1>3 DEF repairHolmanCache, verifyFence, SweepShape, Goals
<1>4. CASE MarkItem(s, i)
  BY <1>4 DEF MarkItem
<1>5. CASE Suppressed(s, i) \/ ConfirmUnavailable(s, i)
  BY <1>5 DEF Suppressed, ConfirmUnavailable, Escalating, Awaiting, LeaveForLater
<1>6. CASE BatchCleared(s, i) \/ ConfirmHeld(s, i) \/ ConfirmVacant(s, i)
  BY <1>6 DEF BatchCleared, ConfirmHeld, ConfirmVacant, Escalating, Awaiting, Goals
<1> QED BY <1>1, <1>2, <1>3, <1>4, <1>5, <1>6 DEF VerifyItem

(* What a step on the current row does to everything else: it moves the row *)
(* from the status it read to its goal, or leaves the statuses alone.       *)
LEMMA VerifyItemRows ==
    ASSUME TypeOK, VerifierTypeOK, SweepShape, NEW s \in Sweepers, NEW i \in Items,
           VerifyItem(s, i)
    PROVE  /\ UNCHANGED <<runVars, owner, leased, attempts, beforeImage, due, appliedAt,
                          kickVars, contested, accepted, crashes>>
           /\ fence' \in [Surfaces -> Items \cup {NoItem}]
           /\ mirror' \in [Surfaces -> Items \cup {NoItem}]
           /\ stampOpen' \in SUBSET Trucks
           /\ escalated' \in SUBSET Trucks
           /\ UNCHANGED <<shown, amsAge, verifiedRuns>>
           /\ \/ status' = status
              \/ /\ status' = [status EXCEPT ![i] = goal[s]]
                 /\ status[i] = seen[s][i]
                 /\ IsCurrent(s, i) /\ spc[s] = "mark"
<1> USE DEF TypeOK, VerifierTypeOK, execVars, rowVars, kickVars, stampVars
<1>1. CASE LandedMatch(s, i) \/ LandedMiss(s, i)
  BY <1>1 DEF LandedMatch, LandedMiss, LeaveForLater
<1>2. CASE repairHolmanCache(s, i) \/ verifyFence(s, i)
  <2>1. /\ mirror' \in [Surfaces -> Items \cup {NoItem}]
        /\ fence' \in [Surfaces -> Items \cup {NoItem}]
    BY <1>2 DEF repairHolmanCache, verifyFence
  <2> QED BY <1>2, <2>1 DEF repairHolmanCache, verifyFence
<1>3. CASE MarkItem(s, i)
  <2>1. \/ status' = status
        \/ status[i] = seen[s][i] /\ status' = [status EXCEPT ![i] = goal[s]]
    BY <1>3 DEF MarkItem, transition
  <2> QED BY <1>3, <2>1 DEF MarkItem
<1>4. CASE Suppressed(s, i) \/ ConfirmUnavailable(s, i)
  BY <1>4 DEF Suppressed, ConfirmUnavailable, LeaveForLater
<1>5. CASE BatchCleared(s, i) \/ ConfirmHeld(s, i) \/ ConfirmVacant(s, i)
  BY <1>5 DEF BatchCleared, ConfirmHeld, ConfirmVacant
<1> QED BY <1>1, <1>2, <1>3, <1>4, <1>5 DEF VerifyItem

LEMMA VerifierTypeStep ==
    ASSUME TypeOK, VerifierTypeOK, SweepShape, VNext
    PROVE  VerifierTypeOK'
<1>1. CASE Next /\ UNCHANGED verifVars
  BY <1>1 DEF VerifierTypeOK, verifVars, stampVars, sweepVars
<1>2. ASSUME NEW s \in Sweepers, NEW r \in Runs, StartSweep(s, r) PROVE VerifierTypeOK'
  BY <1>2 DEF StartSweep, VerifierTypeOK, stampVars, SweepPCs
<1>3. ASSUME NEW s \in Sweepers, ReadPending(s) PROVE VerifierTypeOK'
  <2>1. \A i \in Items : i \in FirstRows(PendingIn(sweepRun[s])) => status[i] \in PendingStatuses
    BY DEF FirstRows, PendingIn
  <2> QED BY <1>3, <2>1 DEF ReadPending, VerifierTypeOK, stampVars, SweepPCs
<1>4. ASSUME NEW s \in Sweepers, PullLive(s) \/ WalkDone(s) PROVE VerifierTypeOK'
  <2>1. CASE PullLive(s)
    <3>1. {i \in shown : seen[s][i] # "absent"} \in SUBSET Items
      BY DEF VerifierTypeOK
    <3>2. matched' \in [Sweepers -> SUBSET Items]
      BY <2>1, <3>1 DEF PullLive, VerifierTypeOK
    <3> QED BY <2>1, <3>2 DEF PullLive, VerifierTypeOK, stampVars, SweepPCs
  <2>2. CASE WalkDone(s)
    BY <2>2 DEF WalkDone, VerifierTypeOK, stampVars, SweepPCs
  <2> QED BY <1>4, <2>1, <2>2
<1>5. ASSUME NEW s \in Sweepers, NEW i \in Items, VerifyItem(s, i) PROVE VerifierTypeOK'
  <2>1. \/ Handled(s, i)
        \/ \E step \in SweepPCs, g \in Goals : MoveOnTo(s, step, g)
    <3>1. {"repair", "lift", "mark"} \subseteq SweepPCs /\ Goals \ {"none"} \subseteq Goals
      BY DEF SweepPCs
    <3> QED BY <1>5, <3>1, VerifyItemMoves
  <2>2. /\ spc' \in [Sweepers -> SweepPCs]
        /\ sweepRun' \in [Sweepers -> Runs \cup {NoRun}]
        /\ seen' \in [Sweepers -> [Items -> PendingStatuses \cup {"absent"}]]
        /\ matched' \in [Sweepers -> SUBSET Items]
        /\ goal' \in [Sweepers -> Goals]
    BY <2>1, SweepUpdatesTyped
  <2>3. /\ stampOpen' \in SUBSET Trucks
        /\ escalated' \in SUBSET Trucks
        /\ UNCHANGED <<shown, amsAge, verifiedRuns>>
    BY <1>5, VerifyItemRows
  <2> QED BY <2>2, <2>3 DEF VerifierTypeOK
<1>6. ASSUME NEW s \in Sweepers, CountCanary(s) \/ StampCanaryVerified(s) \/ SweepDies(s)
      PROVE  VerifierTypeOK'
  <2>1. CASE ResetSweep(s)
    <3>1. verifiedRuns' \in SUBSET Runs
      BY <1>6 DEF CountCanary, StampCanaryVerified, SweepDies, VerifierTypeOK, SweepShape
    <3> QED BY <1>6, <2>1, <3>1, SweepUpdatesTyped
            DEF CountCanary, StampCanaryVerified, SweepDies, VerifierTypeOK, stampVars
  <2>2. CASE ~ResetSweep(s)
    BY <1>6, <2>2 DEF CountCanary, StampCanaryVerified, SweepDies, VerifierTypeOK, stampVars,
                      SweepPCs
  <2> QED BY <2>1, <2>2
<1>7. ASSUME NEW i \in Items, LiveChanges(i) \/ GraceOver(i) \/ AmsTimePasses(i)
      PROVE  VerifierTypeOK'
  BY <1>7 DEF LiveChanges, GraceOver, AmsTimePasses, VerifierTypeOK, verifVars, stampVars,
              sweepVars, AmsAges
<1>8. ASSUME NEW f \in Surfaces, FenceExpires(f) PROVE VerifierTypeOK'
  BY <1>8 DEF FenceExpires, VerifierTypeOK, verifVars, stampVars, sweepVars
<1> QED BY <1>1, <1>2, <1>3, <1>4, <1>5, <1>6, <1>7, <1>8
        DEF VNext, VerifierNext, SweepStep, TimePasses

-----------------------------------------------------------------------------
(* The executor's variables under the sweeps' steps.                        *)

(* The rows a step of the verifier moves, and where to: the reaper's, or    *)
(* one pending row to the goal of a sweep that snapshotted it.              *)
LEMMA SweepMoves ==
    ASSUME TypeOK, VerifierTypeOK, SweepShape, VerifierNext
    PROVE  /\ UNCHANGED <<beforeImage, accepted, pc, todo, item, answer>>
           /\ \A j \in Items :
                 \/ status'[j] = status[j] /\ owner'[j] = owner[j]
                 \/ /\ status[j] = "applying" /\ owner'[j] = NoOwner
                    /\ status'[j] \in Rescued
                 \/ /\ status[j] \in PendingStatuses
                    /\ owner'[j] = owner[j]
                    /\ \/ status'[j] \in {"verified", "flagged"}
                       \/ status[j] = "awaiting_batch" /\ status'[j] = "skipped"
<1> DEFINE Moves ==
             /\ UNCHANGED <<beforeImage, accepted, pc, todo, item, answer>>
             /\ \A j \in Items :
                   \/ status'[j] = status[j] /\ owner'[j] = owner[j]
                   \/ /\ status[j] = "applying" /\ owner'[j] = NoOwner
                      /\ status'[j] \in Rescued
                   \/ /\ status[j] \in PendingStatuses
                      /\ owner'[j] = owner[j]
                      /\ \/ status'[j] \in {"verified", "flagged"}
                         \/ status[j] = "awaiting_batch" /\ status'[j] = "skipped"
<1>1. ASSUME NEW s \in Sweepers, NEW r \in Runs, StartSweep(s, r) PROVE Moves
  BY <1>1, ReapMoves DEF StartSweep, kickVars
<1>2. ASSUME NEW s \in Sweepers, NEW i \in Items, VerifyItem(s, i) PROVE Moves
  <2>1. UNCHANGED <<beforeImage, accepted, pc, todo, item, answer, owner>>
    BY <1>2, VerifyItemRows DEF kickVars
  <2>2. CASE status' = status
    BY <2>1, <2>2
  <2>3. CASE /\ status' = [status EXCEPT ![i] = goal[s]]
             /\ status[i] = seen[s][i]
             /\ IsCurrent(s, i) /\ spc[s] = "mark"
    <3>1. status[i] \in PendingStatuses
      BY <2>3 DEF VerifierTypeOK, IsCurrent, Work
    <3>2. goal[s] \in {"verified", "flagged"} \/ (status[i] = "awaiting_batch" /\ goal[s] = "skipped")
      BY <2>3 DEF SweepShape
    <3> QED BY <2>1, <2>3, <3>1, <3>2 DEF TypeOK
  <2> QED BY <1>2, <2>2, <2>3, VerifyItemRows
<1>3. ASSUME UNCHANGED <<beforeImage, accepted, pc, todo, item, answer, status, owner>> PROVE Moves
  BY <1>3
<1>4. ASSUME NEW s \in Sweepers,
             \/ ReadPending(s) \/ PullLive(s) \/ WalkDone(s) \/ CountCanary(s)
             \/ StampCanaryVerified(s) \/ SweepDies(s)
      PROVE  Moves
  BY <1>3, <1>4 DEF ReadPending, PullLive, WalkDone, CountCanary, StampCanaryVerified, SweepDies,
                    execVars, rowVars, kickVars
<1>5. ASSUME \/ \E i \in Items : LiveChanges(i)
             \/ TimePasses
      PROVE  Moves
  BY <1>3, <1>5 DEF TimePasses, LiveChanges, GraceOver, AmsTimePasses, FenceExpires,
                    execVars, rowVars, kickVars
<1> QED BY <1>1, <1>2, <1>4, <1>5 DEF VerifierNext, SweepStep

(* The executor's columns keep their types under the verifier's steps.      *)
LEMMA ExecTypeStep ==
    ASSUME TypeOK, VerifierTypeOK, SweepShape, VerifierNext
    PROVE  TypeOK'
<1>1. ASSUME UNCHANGED execVars PROVE TypeOK'
  BY <1>1 DEF TypeOK, execVars, runVars, rowVars, kickVars
<1>2. ASSUME NEW s \in Sweepers, NEW r \in Runs, StartSweep(s, r) PROVE TypeOK'
  BY <1>2 DEF StartSweep, reapStuckApplying, Stuck, TypeOK, runVars, kickVars, Statuses
<1>3. ASSUME NEW s \in Sweepers, NEW i \in Items, VerifyItem(s, i) PROVE TypeOK'
  <2>1. goal[s] \in Goals \ {"none"} => goal[s] \in Statuses
    BY DEF Goals, Statuses
  <2>2. status' \in [Items -> Statuses]
    BY <1>3, <2>1, VerifyItemRows DEF TypeOK, SweepShape, Goals
  <2>3. /\ UNCHANGED <<runVars, owner, leased, attempts, beforeImage, due, appliedAt,
                       kickVars, contested, accepted, crashes>>
        /\ fence' \in [Surfaces -> Items \cup {NoItem}]
        /\ mirror' \in [Surfaces -> Items \cup {NoItem}]
    BY <1>3, VerifyItemRows
  <2> QED BY <2>2, <2>3 DEF TypeOK, runVars, kickVars
<1>4. ASSUME NEW s \in Sweepers,
             \/ ReadPending(s) \/ PullLive(s) \/ WalkDone(s) \/ CountCanary(s)
             \/ StampCanaryVerified(s)
      PROVE  TypeOK'
  BY <1>1, <1>4 DEF ReadPending, PullLive, WalkDone, CountCanary, StampCanaryVerified
<1>5. ASSUME NEW s \in Sweepers, SweepDies(s) PROVE TypeOK'
  BY <1>5 DEF SweepDies, TypeOK, runVars, rowVars, kickVars
<1>6. ASSUME NEW i \in Items, LiveChanges(i) \/ AmsTimePasses(i) PROVE TypeOK'
  BY <1>1, <1>6 DEF LiveChanges, AmsTimePasses
<1>7. ASSUME NEW i \in Items, GraceOver(i) PROVE TypeOK'
  BY <1>7 DEF GraceOver, TypeOK, runVars, kickVars
<1>8. ASSUME NEW f \in Surfaces, FenceExpires(f) PROVE TypeOK'
  BY <1>8 DEF FenceExpires, TypeOK, runVars, rowVars, kickVars
<1> QED BY <1>2, <1>3, <1>4, <1>5, <1>6, <1>7, <1>8
        DEF VerifierNext, SweepStep, TimePasses

(* What a sweep is about to do keeps fitting the row it snapshotted.        *)
LEMMA SweepShapeStep ==
    ASSUME TypeOK, VerifierTypeOK, SweepShape, VNext
    PROVE  SweepShape'
<1> USE DEF VerifierTypeOK
<1>1. ASSUME UNCHANGED <<spc, sweepRun, seen, goal>> PROVE SweepShape'
  BY <1>1 DEF SweepShape, IsCurrent, Work
<1>2. ASSUME NEW s \in Sweepers,
             spc'[s] \notin {"repair", "lift", "mark"},
             spc'[s] # "idle" => sweepRun'[s] \in Runs,
             \A v \in Sweepers \ {s} : /\ spc'[v] = spc[v] /\ sweepRun'[v] = sweepRun[v]
                                      /\ seen'[v] = seen[v] /\ goal'[v] = goal[v]
      PROVE  SweepShape'
  BY <1>2 DEF SweepShape, IsCurrent, Work
<1>3. ASSUME NEW s \in Sweepers, NEW i \in Items, VerifyItem(s, i) PROVE SweepShape'
  <2>1. CASE Handled(s, i)
    <3>1. sweepRun'[s] \in Runs
      BY <1>3, <2>1, VerifyItemMoves DEF Handled, SweepShape
    <3> QED BY <1>2, <2>1, <3>1 DEF Handled
  <2>2. ASSUME NEW step \in {"repair", "lift", "mark"}, NEW g \in Goals \ {"none"},
               MoveOnTo(s, step, g), g = "skipped" => seen[s][i] = "awaiting_batch"
        PROVE  SweepShape'
    <3>1. /\ seen' = seen /\ goal'[s] = g /\ IsCurrent(s, i)
          /\ sweepRun' = sweepRun /\ spc[s] # "idle"
      BY <1>3, <2>2, VerifyItemMoves DEF MoveOnTo
    <3>2. \A v \in Sweepers \ {s} : spc'[v] = spc[v] /\ goal'[v] = goal[v]
      BY <2>2 DEF MoveOnTo
    <3>3. \A v \in Sweepers, j \in Items : IsCurrent(v, j)' => IsCurrent(v, j)
      BY <3>1 DEF IsCurrent, Work
    <3>4. \A j \in Items : IsCurrent(s, j) => j = i
      BY <3>1, OneCurrent
    <3> QED BY <2>2, <3>1, <3>2, <3>3, <3>4 DEF SweepShape, Goals
  <2> QED BY <1>3, <2>1, <2>2, VerifyItemMoves
<1>4. ASSUME NEW s \in Sweepers,
             \/ \E r \in Runs : StartSweep(s, r)
             \/ ReadPending(s) \/ PullLive(s) \/ WalkDone(s)
      PROVE  SweepShape'
  <2>1. spc'[s] # "idle" => sweepRun'[s] \in Runs
    BY <1>4 DEF StartSweep, ReadPending, PullLive, WalkDone, SweepShape
  <2> QED BY <1>2, <1>4, <2>1 DEF StartSweep, ReadPending, PullLive, WalkDone
<1>5. ASSUME NEW s \in Sweepers, CountCanary(s) \/ StampCanaryVerified(s) \/ SweepDies(s)
      PROVE  SweepShape'
  <2>1. spc'[s] # "idle" => sweepRun'[s] \in Runs
    BY <1>5 DEF CountCanary, StampCanaryVerified, SweepDies, ResetSweep, SweepShape
  <2> QED BY <1>2, <1>5, <2>1 DEF CountCanary, StampCanaryVerified, SweepDies, ResetSweep
<1>6. ASSUME \/ Next /\ UNCHANGED verifVars
             \/ \E i \in Items : LiveChanges(i)
             \/ TimePasses
      PROVE  SweepShape'
  BY <1>1, <1>6 DEF TimePasses, LiveChanges, GraceOver, AmsTimePasses, FenceExpires,
                    verifVars, sweepVars
<1> QED BY <1>3, <1>4, <1>5, <1>6 DEF VNext, VerifierNext, SweepStep

-----------------------------------------------------------------------------
(* The theorems.                                                           *)

LEMMA VInvInit == VInit => VInv
<1> SUFFICES ASSUME VInit PROVE VInv
  OBVIOUS
<1>1. TypeOK
  BY DEF VInit, ExecInit, TypeOK, RunStatuses, Statuses, BeforeImages, PCs, Answers
<1>2. OwnedIffApplying /\ WrittenOutOfReach /\ AtMostOnce
  BY DEF VInit, ExecInit, OwnedIffApplying, WrittenOutOfReach, AtMostOnce
<1>3. KickShape /\ WriterHoldsRow /\ OneWriterPerItem /\ NothingTakenYet
  BY DEF VInit, ExecInit, KickShape, WriterHoldsRow, OneWriterPerItem, NothingTakenYet, WritePCs
<1>4. VerifierTypeOK
  BY DEF VInit, VerifInit, VerifierTypeOK, SweepPCs, AmsAges, Goals, NothingSeen
<1>5. SweepShape
  BY DEF VInit, VerifInit, SweepShape
<1> QED BY <1>1, <1>2, <1>3, <1>4, <1>5 DEF VInv, LeaseDiscipline

LEMMA VInvStep == VInv /\ [VNext]_vars => VInv'
<1> SUFFICES ASSUME VInv, [VNext]_vars PROVE VInv'
  OBVIOUS
<1> USE DEF VInv
<1>1. CASE UNCHANGED vars
  <2>1. UNCHANGED execVars /\ UNCHANGED verifVars
    BY <1>1 DEF vars
  <2>2. (TypeOK /\ LeaseDiscipline)'
    BY <2>1, TypeStep, DisciplineStep DEF LeaseDiscipline
  <2>3. VerifierTypeOK' /\ SweepShape'
    BY <2>1 DEF verifVars, stampVars, sweepVars, VerifierTypeOK, SweepShape, IsCurrent, Work
  <2> QED BY <2>2, <2>3
<1>2. CASE VNext
  <2>1. VerifierTypeOK' /\ SweepShape'
    BY <1>2, VerifierTypeStep, SweepShapeStep
  <2>2. CASE Next
    BY <2>1, <2>2, TypeStep, DisciplineStep DEF LeaseDiscipline
  <2>3. CASE VerifierNext
    <3>1. TypeOK'
      BY <2>3, ExecTypeStep
    <3>2. LeaseDiscipline'
      BY <2>3, <3>1, SweepMoves, RescueStep DEF PendingStatuses, Rescued
    <3> QED BY <2>1, <3>1, <3>2
  <2> QED BY <1>2, <2>2, <2>3 DEF VNext
<1> QED BY <1>1, <1>2

(* Kicks and sweeps together keep the types and the lease discipline.       *)
THEOREM CompositionHolds == VSpec => []VInv
BY VInvInit, VInvStep, PTL DEF VSpec

(* The columns and all local state keep their types in the composition.     *)
THEOREM VTypeCorrect == VSpec => []VTypeOK
<1>1. VInv => VTypeOK
  BY DEF VInv, VTypeOK
<1> QED BY <1>1, CompositionHolds, PTL

(* Verifier sweeps racing with kicks never let a correction be taken twice. *)
THEOREM SweepsKeepDiscipline == VSpec => []LeaseDiscipline
<1>1. VInv => LeaseDiscipline
  BY DEF VInv
<1> QED BY <1>1, CompositionHolds, PTL

(* No step of a kick or a sweep moves a settled row.                        *)
LEMMA TerminalStep ==
    ASSUME VInv, [VNext]_vars
    PROVE  \A i \in Items : status[i] \in Terminal \cup {"absent"} => status'[i] = status[i]
<1> USE DEF VInv
<1>1. CASE UNCHANGED vars
  BY <1>1 DEF vars, execVars, rowVars
<1>2. CASE Next
  BY <1>2, SettledStep DEF Settled
<1>3. CASE VerifierNext
  BY <1>3, SweepMoves DEF Terminal, PendingStatuses
<1> QED BY <1>1, <1>2, <1>3 DEF VNext

(* A terminal status is final, whatever kicks and sweeps overlap.           *)
THEOREM TerminalStays == VSpec => TerminalIsFinal
<1> DEFINE Stays == \A i \in Items : status[i] \in Terminal => status'[i] = status[i]
<1>1. VInv /\ [VNext]_vars => [Stays]_vars
  BY TerminalStep
<1> QED BY <1>1, CompositionHolds, PTL DEF VSpec, TerminalIsFinal

(* The inductive strengthening of CanaryStampedClean: a sweep about to      *)
(* stamp a run has counted it clean, and clean it stays.                    *)
RunClean(r) ==
    /\ \E i \in Items : RunOf[i] = r /\ status[i] = "verified"
    /\ \A i \in Items : RunOf[i] = r => status[i] \in {"absent", "verified", "skipped", "held"}

StampsOnlyClean ==
    /\ \A r \in verifiedRuns : RunClean(r)
    /\ \A s \in Sweepers : spc[s] = "stamp" => RunClean(sweepRun[s])

LEMMA RunCleanStays ==
    ASSUME VInv, [VNext]_vars, NEW r, RunClean(r)
    PROVE  RunClean(r)'
BY TerminalStep DEF RunClean, Terminal

(* Only canaries whose rows are all settled and clean carry verified_at.    *)
THEOREM CanaryStampSound == VSpec => []CanaryStampedClean
<1>1. VInit => StampsOnlyClean
  BY DEF VInit, VerifInit, StampsOnlyClean
<1>2. VInv /\ StampsOnlyClean /\ [VNext]_vars => StampsOnlyClean'
  <2> SUFFICES ASSUME VInv, StampsOnlyClean, [VNext]_vars PROVE StampsOnlyClean'
    OBVIOUS
  <2> USE DEF VInv, VerifierTypeOK
  <2>1. ASSUME NEW r, RunClean(r) PROVE RunClean(r)'
    BY <2>1, RunCleanStays
  <2>2. ASSUME verifiedRuns' = verifiedRuns,
               \A s \in Sweepers : spc'[s] = "stamp" => spc[s] = "stamp" /\ sweepRun'[s] = sweepRun[s]
        PROVE  StampsOnlyClean'
    BY <2>1, <2>2 DEF StampsOnlyClean
  <2>3. ASSUME NEW s \in Sweepers, CountCanary(s) PROVE StampsOnlyClean'
    <3>1. spc'[s] = "stamp" => RunClean(sweepRun[s]) /\ sweepRun'[s] = sweepRun[s]
      BY <2>3 DEF CountCanary, CanaryClean, RowsOf, RunClean, ResetSweep
    <3>2. /\ verifiedRuns' = verifiedRuns
          /\ \A v \in Sweepers \ {s} : spc'[v] = spc[v] /\ sweepRun'[v] = sweepRun[v]
      BY <2>3 DEF CountCanary, ResetSweep
    <3> QED BY <2>1, <3>1, <3>2 DEF StampsOnlyClean
  <2>4. ASSUME NEW s \in Sweepers, StampCanaryVerified(s) PROVE StampsOnlyClean'
    <3>1. /\ verifiedRuns' = verifiedRuns \cup {sweepRun[s]} /\ RunClean(sweepRun[s])
          /\ spc'[s] = "idle"
          /\ \A v \in Sweepers \ {s} : spc'[v] = spc[v] /\ sweepRun'[v] = sweepRun[v]
      BY <2>4 DEF StampCanaryVerified, ResetSweep, StampsOnlyClean
    <3> QED BY <2>1, <3>1 DEF StampsOnlyClean
  <2>5. ASSUME NEW s \in Sweepers, NEW i \in Items, VerifyItem(s, i) PROVE StampsOnlyClean'
    <3>1. verifiedRuns' = verifiedRuns
      BY <2>5, VerifyItemRows
    <3>2. \A v \in Sweepers : spc'[v] = "stamp" => spc[v] = "stamp" /\ sweepRun'[v] = sweepRun[v]
      BY <2>5, VerifyItemMoves DEF Handled, MoveOnTo
    <3> QED BY <2>2, <3>1, <3>2
  <2>6. ASSUME NEW s \in Sweepers,
               \/ \E r \in Runs : StartSweep(s, r)
               \/ ReadPending(s) \/ PullLive(s) \/ WalkDone(s) \/ SweepDies(s)
        PROVE  StampsOnlyClean'
    BY <2>2, <2>6 DEF StartSweep, ReadPending, PullLive, WalkDone, SweepDies, ResetSweep
  <2>7. ASSUME \/ Next /\ UNCHANGED verifVars
               \/ \E i \in Items : LiveChanges(i)
               \/ TimePasses
               \/ UNCHANGED vars
        PROVE  StampsOnlyClean'
    BY <2>2, <2>7 DEF TimePasses, LiveChanges, GraceOver, AmsTimePasses, FenceExpires,
                      vars, verifVars, sweepVars
  <2> QED BY <2>3, <2>4, <2>5, <2>6, <2>7 DEF VNext, VerifierNext, SweepStep
<1>3. StampsOnlyClean => CanaryStampedClean
  BY DEF StampsOnlyClean, RunClean, CanaryStampedClean
<1> QED BY <1>1, <1>2, <1>3, CompositionHolds, PTL DEF VSpec

(* Every way into verification sets the write time; nothing resets it.      *)
LEMMA ClockStep ==
    ASSUME VInv, LandedHasClock, VNext
    PROVE  LandedHasClock'
<1> USE DEF VInv, TypeOK, LandedHasClock
<1>1. ASSUME UNCHANGED <<status, appliedAt>> PROVE LandedHasClock'
  BY <1>1
<1>2. ASSUME NEW r \in Runs, reapStuckApplying(r) PROVE LandedHasClock'
  BY <1>2 DEF reapStuckApplying
<1>3. ASSUME NEW w \in Workers, NEW i \in Items,
             \/ \E st \in {"skipped", "held", "failed"} : finalize(w, i, st)
             \/ releaseToRetry(w, i)
             \/ \E st \in {"verification_pending", "external_applied_cache_pending"} :
                   markApplied(w, i, st)
      PROVE  LandedHasClock'
  BY <1>3 DEF finalize, releaseToRetry, markApplied, Release, rowVars
<1>4. ASSUME NEW w \in Workers, NEW S \in SUBSET Items, leaseBatch(w, S) PROVE LandedHasClock'
  BY <1>4 DEF leaseBatch
<1>5. ASSUME NEW w \in Workers, pc[w] \in {"stamp"} \cup WritePCs PROVE item[w] \in Items
  BY <1>5 DEF LeaseDiscipline, KickShape
<1>6. ASSUME NEW w \in Workers, StampFails(w) \/ SettleStep(w) PROVE LandedHasClock'
  <2>1. item[w] \in Items
    BY <1>5, <1>6 DEF StampFails, SettleStep, SettleError, SettleSkipped, SettleAuth,
       SettleThrottle, CommitApplied, CommitFails, persistCachePending, PersistGivesUp, WritePCs
  <2>2. \/ UNCHANGED <<status, appliedAt>>
        \/ \E st \in {"skipped", "held", "failed"} : finalize(w, item[w], st)
        \/ releaseToRetry(w, item[w])
        \/ \E st \in {"verification_pending", "external_applied_cache_pending"} :
              markApplied(w, item[w], st)
    BY <1>6 DEF StampFails, SettleStep, SettleError, SettleSkipped, SettleAuth,
       SettleThrottle, CommitApplied, CommitFails, persistCachePending, PersistGivesUp, rowVars
  <2> QED BY <1>1, <1>3, <2>1, <2>2
<1>7. ASSUME NEW w \in Workers, ItemStep(w) PROVE LandedHasClock'
  <2>1. PICK i \in Items :
           \/ UNCHANGED <<status, appliedAt>>
           \/ \E st \in {"skipped", "held", "failed"} : finalize(w, i, st)
           \/ releaseToRetry(w, i)
    BY <1>7 DEF ItemStep, ReleaseThrottled, ReconfirmItem, Proceed, rowVars
  <2> QED BY <1>1, <1>3, <2>1
<1>8. CASE Next
  <2>1. ASSUME NEW w \in Workers, WorkerStep(w) PROVE LandedHasClock'
    BY <1>1, <1>4, <1>6, <1>7, <2>1
       DEF WorkerStep, LeaseStep, NothingToLease, KickDone, renewLeaseOrAbort,
           StampBeforeImage, LostLease, WriteStep, executeReconWrite, rowVars
  <2>2. ASSUME NEW w \in Workers, NEW r \in Runs, StartKick(w, r) PROVE LandedHasClock'
    BY <1>2, <2>2 DEF StartKick
  <2>3. ASSUME \/ \E w \in Workers, n \in {0, 1} : Crash(w, n)
               \/ \E i \in Items : LeaseExpires(i) \/ RetryTimeComes(i)
               \/ \E r \in Runs : EngageKillSwitch(r)
        PROVE  LandedHasClock'
    BY <1>1, <2>3 DEF Crash, LeaseExpires, RetryTimeComes, EngageKillSwitch, rowVars
  <2> QED BY <1>8, <2>1, <2>2, <2>3 DEF Next
<1>9. CASE VerifierNext
  <2>1. ASSUME NEW s \in Sweepers, NEW r \in Runs, StartSweep(s, r) PROVE LandedHasClock'
    BY <1>2, <2>1 DEF StartSweep
  <2>2. ASSUME NEW s \in Sweepers, NEW i \in Items, VerifyItem(s, i) PROVE LandedHasClock'
    <3>1. appliedAt' = appliedAt
      BY <2>2, VerifyItemRows
    <3>2. \/ status' = status
          \/ /\ status' = [status EXCEPT ![i] = goal[s]]
             /\ goal[s] \in {"verified", "skipped", "flagged"}
      BY <2>2, VerifyItemRows DEF SweepShape
    <3> QED BY <3>1, <3>2
  <2>3. ASSUME NEW s \in Sweepers,
               \/ ReadPending(s) \/ PullLive(s) \/ WalkDone(s) \/ CountCanary(s)
               \/ StampCanaryVerified(s) \/ SweepDies(s)
        PROVE  LandedHasClock'
    BY <1>1, <2>3 DEF ReadPending, PullLive, WalkDone, CountCanary, StampCanaryVerified,
                      SweepDies, execVars, rowVars
  <2>4. ASSUME NEW i \in Items, GraceOver(i) PROVE LandedHasClock'
    BY <2>4 DEF GraceOver
  <2>5. ASSUME \/ \E i \in Items : LiveChanges(i) \/ AmsTimePasses(i)
               \/ \E f \in Surfaces : FenceExpires(f)
        PROVE  LandedHasClock'
    BY <1>1, <2>5 DEF LiveChanges, AmsTimePasses, FenceExpires, execVars, rowVars
  <2> QED BY <1>9, <2>1, <2>2, <2>3, <2>4, <2>5 DEF VerifierNext, SweepStep, TimePasses
<1> QED BY <1>8, <1>9 DEF VNext

(* A row that waits for verification has a write time, so that its grace    *)
(* window ends.                                                             *)
THEOREM LandedClockSet == VSpec => []LandedHasClock
<1>1. VInit => LandedHasClock
  BY DEF VInit, LandedHasClock
<1>2. VInv /\ LandedHasClock /\ [VNext]_vars => LandedHasClock'
  BY ClockStep DEF vars, execVars, rowVars, LandedHasClock
<1> QED BY <1>1, <1>2, CompositionHolds, PTL DEF VSpec

-----------------------------------------------------------------------------
(* Flags.                                                                   *)
Waiting == {"verification_pending", "external_applied_cache_pending"}

(* The clocks of a row that waits only run forward.                         *)
LEMMA ClocksRun ==
    ASSUME VInv, VNext
    PROVE  \A i \in Items :
              /\ amsAge[i] = "late" => amsAge'[i] = "late"
              /\ status[i] \in Waiting /\ appliedAt[i] = "past" => appliedAt'[i] = "past"
<1> USE DEF VInv, TypeOK
<1> DEFINE Runs2 == \A i \in Items : status[i] \in Waiting /\ appliedAt[i] = "past"
                                       => appliedAt'[i] = "past"
<1>0. \A i \in Items : status[i] \in Waiting => status[i] # "applying" /\ owner[i] = NoOwner
  BY DEF Waiting, LeaseDiscipline, OwnedIffApplying
<1>1. ASSUME appliedAt' = appliedAt PROVE Runs2
  BY <1>1
<1>2. ASSUME NEW r \in Runs, reapStuckApplying(r) PROVE Runs2
  BY <1>0, <1>2 DEF reapStuckApplying, Stuck
<1>3. ASSUME NEW w \in Workers, NEW i \in Items, NEW st,
             finalize(w, i, st) \/ releaseToRetry(w, i) \/ markApplied(w, i, st)
      PROVE  Runs2
  <2>1. appliedAt' = appliedAt \/ (owner[i] = w /\ appliedAt' = [appliedAt EXCEPT ![i] = "recent"])
    BY <1>3 DEF finalize, releaseToRetry, markApplied, Release, Owns, rowVars
  <2> QED BY <1>0, <2>1, ConstantsAssumption
<1>4. ASSUME NEW w \in Workers, WorkerStep(w) PROVE Runs2
  <2>1. \/ appliedAt' = appliedAt
        \/ \E i \in Items, st \in Statuses :
              finalize(w, i, st) \/ releaseToRetry(w, i) \/ markApplied(w, i, st)
    <3>1. ASSUME StampFails(w) \/ SettleStep(w) PROVE item[w] \in Items
      BY <3>1 DEF LeaseDiscipline, KickShape, StampFails, SettleStep, SettleError, SettleSkipped,
         SettleAuth, SettleThrottle, CommitApplied, CommitFails, persistCachePending,
         PersistGivesUp, WritePCs
    <3>2. CASE StampFails(w) \/ SettleStep(w)
      BY <3>1, <3>2 DEF StampFails, SettleStep, SettleError, SettleSkipped, SettleAuth,
         SettleThrottle, CommitApplied, CommitFails, persistCachePending, PersistGivesUp, rowVars,
         Statuses
    <3>3. CASE ItemStep(w)
      BY <3>3 DEF ItemStep, ReleaseThrottled, ReconfirmItem, Proceed, rowVars, Statuses
    <3>4. CASE ~(StampFails(w) \/ SettleStep(w) \/ ItemStep(w))
      BY <1>4, <3>4 DEF WorkerStep, LeaseStep, leaseBatch, NothingToLease, KickDone, renewLeaseOrAbort,
         StampBeforeImage, LostLease, WriteStep, executeReconWrite, rowVars
    <3> QED BY <3>2, <3>3, <3>4
  <2> QED BY <1>1, <1>3, <2>1
<1>5. ASSUME Next PROVE Runs2
  <2>1. ASSUME NEW w \in Workers, NEW r \in Runs, StartKick(w, r) PROVE Runs2
    BY <1>2, <2>1 DEF StartKick
  <2>2. ASSUME \/ \E w \in Workers, n \in {0, 1} : Crash(w, n)
               \/ \E i \in Items : LeaseExpires(i) \/ RetryTimeComes(i)
               \/ \E r \in Runs : EngageKillSwitch(r)
        PROVE  Runs2
    BY <1>1, <2>2 DEF Crash, LeaseExpires, RetryTimeComes, EngageKillSwitch, rowVars
  <2> QED BY <1>4, <1>5, <2>1, <2>2 DEF Next
<1>6. ASSUME VerifierNext PROVE Runs2
  <2>1. ASSUME NEW s \in Sweepers, NEW r \in Runs, StartSweep(s, r) PROVE Runs2
    BY <1>2, <2>1 DEF StartSweep
  <2>2. ASSUME NEW s \in Sweepers, NEW i \in Items, VerifyItem(s, i) PROVE Runs2
    BY <1>1, <2>2, VerifyItemRows
  <2>3. ASSUME NEW s \in Sweepers,
               \/ ReadPending(s) \/ PullLive(s) \/ WalkDone(s) \/ CountCanary(s)
               \/ StampCanaryVerified(s) \/ SweepDies(s)
        PROVE  Runs2
    BY <1>1, <2>3 DEF ReadPending, PullLive, WalkDone, CountCanary, StampCanaryVerified,
                      SweepDies, execVars, rowVars
  <2>4. ASSUME NEW i \in Items, GraceOver(i) PROVE Runs2
    BY <2>4 DEF GraceOver
  <2>5. ASSUME \/ \E i \in Items : LiveChanges(i) \/ AmsTimePasses(i)
               \/ \E f \in Surfaces : FenceExpires(f)
        PROVE  Runs2
    BY <1>1, <2>5 DEF LiveChanges, AmsTimePasses, FenceExpires, execVars, rowVars
  <2> QED BY <1>6, <2>1, <2>2, <2>3, <2>4, <2>5 DEF VerifierNext, SweepStep, TimePasses
<1>7. \A i \in Items : amsAge[i] = "late" => amsAge'[i] = "late"
  <2>1. ASSUME NEW i \in Items, AmsTimePasses(i)
        PROVE  \A j \in Items : amsAge[j] = "late" => amsAge'[j] = "late"
    BY <2>1 DEF AmsTimePasses, VerifierTypeOK
  <2>2. ASSUME NEW s \in Sweepers, NEW i \in Items, VerifyItem(s, i) PROVE amsAge' = amsAge
    BY <2>2, VerifyItemRows
  <2>3. CASE Next /\ UNCHANGED verifVars
    BY <2>3 DEF verifVars, stampVars
  <2>4. ASSUME \/ \E s \in Sweepers, r \in Runs : StartSweep(s, r)
               \/ \E s \in Sweepers : \/ ReadPending(s) \/ PullLive(s) \/ WalkDone(s)
                                       \/ CountCanary(s) \/ StampCanaryVerified(s) \/ SweepDies(s)
               \/ \E i \in Items : LiveChanges(i) \/ GraceOver(i)
               \/ \E f \in Surfaces : FenceExpires(f)
        PROVE  amsAge' = amsAge
    BY <2>4 DEF StartSweep, ReadPending, PullLive, WalkDone, CountCanary, StampCanaryVerified, SweepDies,
                LiveChanges, GraceOver, FenceExpires, verifVars, stampVars
  <2> QED BY <2>1, <2>2, <2>3, <2>4 DEF VNext, VerifierNext, SweepStep, TimePasses
<1> QED BY <1>5, <1>6, <1>7 DEF VNext

(* A row a sweep has snapshotted as waiting waits on, or is settled; and a  *)
(* sweep about to flag its row has seen the row's clock run out.            *)
FlagInv ==
    \A s \in Sweepers, i \in Items :
       /\ seen[s][i] \in Waiting => status[i] \in {seen[s][i]} \cup Terminal
       /\ IsCurrent(s, i) /\ spc[s] \in {"repair", "lift"} => goal[s] = "verified"
       /\ IsCurrent(s, i) /\ spc[s] = "mark" /\ goal[s] = "flagged" =>
             /\ seen[s][i] = "awaiting_batch" => amsAge[i] = "late"
             /\ seen[s][i] \in Waiting /\ status[i] = seen[s][i] => appliedAt[i] = "past"

LEMMA FlagStep == ASSUME VInv, FlagInv, VNext PROVE FlagInv'
<1> USE DEF VInv
<1>1. /\ \A i \in Items : status[i] \in Waiting => status'[i] \in {status[i]} \cup Terminal
      /\ \A i \in Items : status[i] \in Terminal => status'[i] = status[i]
  <2>1. CASE Next
    BY <2>1, SettledStep DEF Settled, Waiting
  <2>2. CASE VerifierNext
    BY <2>2, SweepMoves DEF Waiting, PendingStatuses, Terminal
  <2> QED BY <2>1, <2>2 DEF VNext
<1> DEFINE Sees(s, i) == seen[s][i] \in Waiting => status[i] \in {seen[s][i]} \cup Terminal
           Lifts(s, i) == IsCurrent(s, i) /\ spc[s] \in {"repair", "lift"} => goal[s] = "verified"
           Flags(s, i) == IsCurrent(s, i) /\ spc[s] = "mark" /\ goal[s] = "flagged" =>
             /\ seen[s][i] = "awaiting_batch" => amsAge[i] = "late"
             /\ seen[s][i] \in Waiting /\ status[i] = seen[s][i] => appliedAt[i] = "past"
<1>2. ASSUME NEW s \in Sweepers, NEW i \in Items, seen'[s][i] \in {seen[s][i], "absent"}
      PROVE  Sees(s, i)'
  BY <1>1, <1>2 DEF FlagInv, Waiting
<1>3. ASSUME NEW s \in Sweepers, NEW i \in Items, seen'[s] = seen[s], spc'[s] = spc[s], goal'[s] = goal[s]
      PROVE  Lifts(s, i)' /\ Flags(s, i)'
  <2>0. Lifts(s, i)'
    BY <1>3 DEF FlagInv, IsCurrent, Work
  <2>1. SUFFICES ASSUME IsCurrent(s, i), spc[s] = "mark", goal[s] = "flagged"
                 PROVE  /\ seen[s][i] = "awaiting_batch" => amsAge'[i] = "late"
                        /\ seen[s][i] \in Waiting /\ status'[i] = seen[s][i] => appliedAt'[i] = "past"
    BY <1>3, <2>0 DEF IsCurrent, Work
  <2>2. seen[s][i] \in Waiting /\ status'[i] = seen[s][i] => status[i] = seen[s][i]
    BY <1>1 DEF FlagInv, Waiting, Terminal
  <2> QED BY <2>1, <2>2, ClocksRun DEF FlagInv
<1>4. ASSUME NEW s \in Sweepers, NEW i \in Items, VerifyItem(s, i)
      PROVE  \A v \in Sweepers, j \in Items : Sees(v, j)' /\ Lifts(v, j)' /\ Flags(v, j)'
  <2>1. \A v \in Sweepers \ {s} : spc'[v] = spc[v] /\ goal'[v] = goal[v] /\ seen'[v] = seen[v]
    BY <1>4, VerifyItemMoves DEF Handled, MoveOnTo, VerifierTypeOK
  <2>2. \A j \in Items : seen'[s][j] \in {seen[s][j], "absent"}
    BY <1>4, VerifyItemMoves DEF Handled, MoveOnTo, VerifierTypeOK
  <2>3. ASSUME NEW j \in Items PROVE Flags(s, j)'
    <3>1. SUFFICES ASSUME IsCurrent(s, j)', spc'[s] = "mark", goal'[s] = "flagged"
                   PROVE  /\ seen'[s][j] = "awaiting_batch" => amsAge'[j] = "late"
                          /\ seen'[s][j] \in Waiting /\ status'[j] = seen'[s][j] => appliedAt'[j] = "past"
      OBVIOUS
    <3>2. ~Handled(s, i)
      BY <3>1 DEF Handled, VerifierTypeOK
    <3>3. PICK step, g : MoveOnTo(s, step, g)
      BY <1>4, <3>2, VerifyItemMoves
    <3>4. seen' = seen /\ IsCurrent(s, i) /\ j = i
      BY <1>4, <3>1, <3>3, VerifyItemMoves, OneCurrent DEF MoveOnTo, IsCurrent, Work
    <3>5. UNCHANGED <<appliedAt, amsAge>>
      BY <1>4, VerifyItemRows
    <3>6. CASE LandedMatch(s, i) \/ BatchCleared(s, i) \/ ConfirmHeld(s, i)
      BY <3>1, <3>6 DEF LandedMatch, BatchCleared, ConfirmHeld, MoveOnTo, VerifierTypeOK
    <3>7. CASE LandedMiss(s, i)
      BY <3>2, <3>4, <3>5, <3>7 DEF LandedMiss, LeaveForLater, Landed
    <3>8. CASE ConfirmVacant(s, i)
      BY <3>4, <3>5, <3>8 DEF ConfirmVacant, Escalating, Awaiting, Waiting
    <3>9. CASE repairHolmanCache(s, i) \/ verifyFence(s, i)
      BY <3>1, <3>9 DEF repairHolmanCache, verifyFence, MoveOnTo, VerifierTypeOK, FlagInv
    <3> QED BY <1>4, <3>2, <3>4, <3>6, <3>7, <3>8, <3>9
            DEF VerifyItem, MarkItem, Suppressed, ConfirmUnavailable, LeaveForLater
  <2>4. ASSUME NEW j \in Items PROVE Lifts(s, j)'
    <3>1. SUFFICES ASSUME IsCurrent(s, j)', spc'[s] \in {"repair", "lift"}
                   PROVE  goal'[s] = "verified"
      OBVIOUS
    <3>2. ~Handled(s, i)
      BY <3>1 DEF Handled, VerifierTypeOK
    <3>3. CASE LandedMatch(s, i)
      BY <3>3 DEF LandedMatch, MoveOnTo, VerifierTypeOK
    <3>4. CASE repairHolmanCache(s, i)
      BY <3>4 DEF repairHolmanCache, MoveOnTo, VerifierTypeOK, FlagInv
    <3>5. CASE verifyFence(s, i)
      BY <3>1, <3>5 DEF verifyFence, MoveOnTo, VerifierTypeOK
    <3>6. CASE LandedMiss(s, i)
      BY <3>1, <3>2, <3>6 DEF LandedMiss, LeaveForLater, MoveOnTo, VerifierTypeOK
    <3>7. CASE BatchCleared(s, i) \/ ConfirmHeld(s, i) \/ ConfirmVacant(s, i)
      BY <3>1, <3>7 DEF BatchCleared, ConfirmHeld, ConfirmVacant, MoveOnTo, VerifierTypeOK
    <3> QED BY <1>4, <3>2, <3>3, <3>4, <3>5, <3>6, <3>7
            DEF VerifyItem, MarkItem, Suppressed, ConfirmUnavailable, LeaveForLater
  <2> QED BY <1>2, <1>3, <2>1, <2>2, <2>3, <2>4
<1>5. ASSUME NEW s \in Sweepers,
             \/ \E r \in Runs : StartSweep(s, r)
             \/ ReadPending(s) \/ PullLive(s) \/ WalkDone(s) \/ SweepDies(s)
             \/ CountCanary(s) \/ StampCanaryVerified(s)
      PROVE  \A v \in Sweepers, j \in Items : Sees(v, j)' /\ Lifts(v, j)' /\ Flags(v, j)'
  <2>1. \A v \in Sweepers \ {s} : spc'[v] = spc[v] /\ goal'[v] = goal[v] /\ seen'[v] = seen[v]
    BY <1>5 DEF StartSweep, ReadPending, PullLive, WalkDone, SweepDies, CountCanary,
                StampCanaryVerified, ResetSweep, VerifierTypeOK
  <2>2. spc'[s] \notin {"mark", "repair", "lift"}
    BY <1>5 DEF StartSweep, ReadPending, PullLive, WalkDone, SweepDies, CountCanary,
                StampCanaryVerified, ResetSweep, VerifierTypeOK
  <2>3. ASSUME NEW j \in Items PROVE Sees(s, j)'
    <3>1. CASE ReadPending(s)
      <4>1. seen'[s][j] \in {status[j], "absent"} /\ status' = status
        BY <3>1 DEF ReadPending, VerifierTypeOK, execVars, rowVars
      <4> QED BY <4>1 DEF Waiting
    <3>2. CASE ~ReadPending(s)
      <4>1. seen'[s][j] \in {seen[s][j], "absent"}
        BY <1>5, <3>2 DEF StartSweep, PullLive, WalkDone, SweepDies, CountCanary,
                          StampCanaryVerified, ResetSweep, NothingSeen, VerifierTypeOK
      <4> QED BY <1>2, <4>1
    <3> QED BY <3>1, <3>2
  <2> QED BY <1>2, <1>3, <2>1, <2>2, <2>3
<1>6. CASE \/ Next /\ UNCHANGED verifVars
           \/ \E i \in Items : LiveChanges(i)
           \/ TimePasses
  <2>1. UNCHANGED <<spc, goal, seen>>
    BY <1>6 DEF LiveChanges, TimePasses, GraceOver, AmsTimePasses, FenceExpires, verifVars, sweepVars
  <2> QED BY <1>2, <1>3, <2>1 DEF FlagInv
<1> QED BY <1>4, <1>5, <1>6 DEF VNext, VerifierNext, SweepStep, FlagInv

(* However late a sweep marks the row it judged, and whatever kicks and     *)
(* other sweeps did to it meanwhile, no row is flagged before its grace     *)
(* window is over, and no ghost before its 36 hours.                        *)
THEOREM FlagsComeLate == VSpec => FlagsAreLate
<1>1. VInit => FlagInv
  BY DEF VInit, VerifInit, FlagInv, NothingSeen, Waiting
<1>2. VInv /\ FlagInv /\ [VNext]_vars => FlagInv'
  <2> SUFFICES ASSUME VInv, FlagInv, UNCHANGED vars PROVE FlagInv'
    BY FlagStep
  <2> QED BY DEF vars, execVars, rowVars, verifVars, stampVars, sweepVars, FlagInv, IsCurrent, Work
<1> DEFINE Late == \A i \in Items : status'[i] = "flagged" =>
          /\ status[i] = "awaiting_batch" => amsAge[i] = "late"
          /\ status[i] \in {"verification_pending", "external_applied_cache_pending"}
                => appliedAt[i] = "past"
<1>3. VInv /\ FlagInv /\ [VNext]_vars => [Late]_vars
  <2> SUFFICES ASSUME VInv, FlagInv, VNext, NEW j \in Items, status'[j] = "flagged",
                      status[j] \in {"awaiting_batch"} \cup Waiting
               PROVE  /\ status[j] = "awaiting_batch" => amsAge[j] = "late"
                      /\ status[j] \in Waiting => appliedAt[j] = "past"
    BY DEF Waiting
  <2> USE DEF VInv
  <2>1. ~Next
    BY SettledStep DEF Settled, Waiting
  <2>2. ASSUME NEW s \in Sweepers, NEW i \in Items, VerifyItem(s, i)
        PROVE  /\ status[j] = "awaiting_batch" => amsAge[j] = "late"
               /\ status[j] \in Waiting => appliedAt[j] = "past"
    <3>1. /\ status' = [status EXCEPT ![i] = goal[s]] /\ status[i] = seen[s][i]
          /\ IsCurrent(s, i) /\ spc[s] = "mark"
      BY <2>2, VerifyItemRows DEF Waiting
    <3>2. j = i /\ goal[s] = "flagged"
      BY <3>1 DEF TypeOK, Waiting
    <3> QED BY <3>1, <3>2 DEF FlagInv
  <2>3. CASE \E s \in Sweepers, r \in Runs : StartSweep(s, r)
    BY <2>3 DEF StartSweep, reapStuckApplying, TypeOK, Waiting
  <2>4. CASE status' = status
    BY <2>4 DEF Waiting
  <2> QED BY <2>1, <2>2, <2>3, <2>4
          DEF VNext, VerifierNext, SweepStep, ReadPending, PullLive, WalkDone, CountCanary,
              StampCanaryVerified, SweepDies, LiveChanges, TimePasses, GraceOver, AmsTimePasses,
              FenceExpires, execVars, rowVars
<1> QED BY <1>1, <1>2, <1>3, CompositionHolds, PTL DEF VSpec, FlagsAreLate

-----------------------------------------------------------------------------
(* Ghosts and their stamps.                                                *)

(* What the stamp of a ghost's truck must be for the row to go to st.       *)
StampAllows(i, st) ==
    /\ st \in {"verified", "skipped"} => TruckOf[i] \notin stampOpen
    /\ st = "flagged" => TruckOf[i] \in escalated \/ TruckOf[i] \notin stampOpen

(* The inductive strengthening of GhostStampAgrees: a ghost only waits for  *)
(* its batch or is settled, and a sweep that is about to settle it has done *)
(* the stamp's part.                                                        *)
GhostInv ==
    \A i \in Items : IsGhost(i) =>
       /\ status[i] \in {"awaiting_batch", "verified", "skipped", "flagged"}
       /\ StampAllows(i, status[i])
       /\ \A s \in Sweepers :
             /\ seen[s][i] \in {"absent", "awaiting_batch"}
             /\ IsCurrent(s, i) => spc[s] \notin {"repair", "lift"}
             /\ IsCurrent(s, i) /\ spc[s] = "mark" => StampAllows(i, goal[s])

(* Stamps are only resolved, and escalations only added, by a step of the   *)
(* composition: what a stamp allows it keeps allowing.                      *)
LEMMA StampsOnlyResolve ==
    ASSUME VInv, [VNext]_vars
    PROVE  stampOpen' \subseteq stampOpen /\ escalated \subseteq escalated'
<1> USE DEF VInv, VerifierTypeOK, stampVars, verifVars
<1>1. ASSUME NEW s \in Sweepers, NEW i \in Items, VerifyItem(s, i)
      PROVE  stampOpen' \subseteq stampOpen /\ escalated \subseteq escalated'
  BY <1>1 DEF VerifyItem, LandedMatch, LandedMiss, repairHolmanCache, verifyFence, MarkItem,
              Suppressed, BatchCleared, ConfirmUnavailable, ConfirmHeld, ConfirmVacant,
              LeaveForLater
<1>2. CASE \/ Next /\ UNCHANGED verifVars
           \/ UNCHANGED vars
           \/ \E s \in Sweepers, r \in Runs : StartSweep(s, r)
           \/ \E s \in Sweepers : \/ ReadPending(s) \/ PullLive(s) \/ WalkDone(s) \/ SweepDies(s)
                                   \/ CountCanary(s) \/ StampCanaryVerified(s)
           \/ \E i \in Items : LiveChanges(i)
           \/ TimePasses
  BY <1>2 DEF StartSweep, ReadPending, PullLive, WalkDone, SweepDies, CountCanary,
              StampCanaryVerified, LiveChanges, TimePasses, GraceOver, AmsTimePasses,
              FenceExpires, vars
<1> QED BY <1>1, <1>2 DEF VNext, VerifierNext, SweepStep

LEMMA GhostStep ==
    ASSUME VInv, GhostInv, [VNext]_vars
    PROVE  GhostInv'
<1> SUFFICES ASSUME NEW g \in Items, IsGhost(g)
             PROVE  /\ status'[g] \in {"awaiting_batch", "verified", "skipped", "flagged"}
                    /\ StampAllows(g, status[g])'
                    /\ \A v \in Sweepers :
                          /\ seen'[v][g] \in {"absent", "awaiting_batch"}
                          /\ IsCurrent(v, g)' => spc'[v] \notin {"repair", "lift"}
                          /\ IsCurrent(v, g)' /\ spc'[v] = "mark" => StampAllows(g, goal[v])'
  BY DEF GhostInv, IsGhost
<1> USE DEF VInv, VerifierTypeOK
<1> DEFINE Row == /\ status'[g] \in {"awaiting_batch", "verified", "skipped", "flagged"}
                  /\ StampAllows(g, status[g])'
           Walk(v) == /\ seen'[v][g] \in {"absent", "awaiting_batch"}
                      /\ IsCurrent(v, g)' => spc'[v] \notin {"repair", "lift"}
                      /\ IsCurrent(v, g)' /\ spc'[v] = "mark" => StampAllows(g, goal[v])'
<1>1. ASSUME NEW st, StampAllows(g, st) PROVE StampAllows(g, st)'
  <2>1. stampOpen' \subseteq stampOpen /\ escalated \subseteq escalated'
    BY StampsOnlyResolve
  <2> QED BY <1>1, <2>1 DEF StampAllows
<1>2. ASSUME status'[g] = status[g] PROVE Row
  BY <1>1, <1>2 DEF GhostInv, StampAllows
<1>3. ASSUME NEW v \in Sweepers, spc'[v] = spc[v], goal'[v] = goal[v], seen'[v] = seen[v]
      PROVE  Walk(v)
  <2>1. IsCurrent(v, g)' <=> IsCurrent(v, g)
    BY <1>3 DEF IsCurrent, Work
  <2>2. seen[v][g] \in {"absent", "awaiting_batch"} /\ (IsCurrent(v, g) => spc[v] \notin {"repair", "lift"})
    BY DEF GhostInv
  <2>3. IsCurrent(v, g) /\ spc[v] = "mark" => StampAllows(g, goal[v])
    BY DEF GhostInv
  <2>4. StampAllows(g, goal[v]) => StampAllows(g, goal[v])'
    BY <1>1, <1>3 DEF StampAllows
  <2> QED BY <1>3, <2>1, <2>2, <2>3, <2>4
<1>4. ASSUME NEW v \in Sweepers, spc'[v] \notin {"repair", "lift", "mark"},
             seen'[v][g] \in {seen[v][g], "absent", "awaiting_batch"}
      PROVE  Walk(v)
  BY <1>4 DEF GhostInv
<1>5. ASSUME NEW s \in Sweepers, NEW i \in Items, VerifyItem(s, i)
      PROVE  Row /\ \A v \in Sweepers : Walk(v)
  <2>1. \A v \in Sweepers \ {s} : spc'[v] = spc[v] /\ goal'[v] = goal[v] /\ seen'[v] = seen[v]
    BY <1>5, VerifyItemMoves DEF Handled, MoveOnTo
  <2>2. IsCurrent(s, i) /\ spc[s] # "idle"
    BY <1>5, VerifyItemMoves
  <2>3. ASSUME Handled(s, i) PROVE Walk(s)
    BY <2>3, <1>4 DEF Handled
  <2>4. CASE i # g
    <3>1. status'[g] = status[g]
      BY <1>5, <2>4, VerifyItemRows DEF TypeOK
    <3>2. ASSUME seen'[s] = seen[s] PROVE Walk(s)
      BY <2>2, <2>4, <3>2, OneCurrent DEF GhostInv, IsCurrent, Work
    <3>3. Walk(s)
      BY <1>5, <2>3, <3>2, VerifyItemMoves DEF MoveOnTo
    <3> QED BY <1>2, <1>3, <2>1, <3>1, <3>3
  <2>5. CASE i = g
    <3>1. /\ seen[s][g] = "awaiting_batch" /\ spc[s] \notin {"repair", "lift"}
          /\ spc[s] = "mark" => StampAllows(g, goal[s])
      BY <2>2, <2>5 DEF GhostInv, IsCurrent, Work
    <3>2. ASSUME NEW st \in Goals, MoveOnTo(s, "mark", st), StampAllows(g, st)'
          PROVE  Walk(s)
      BY <3>1, <3>2 DEF MoveOnTo, StampAllows
    <3>3. CASE MarkItem(s, g)
      <4>1. Walk(s)
        BY <2>3, <2>5, <3>3 DEF MarkItem
      <4>2. \/ status'[g] = status[g]
            \/ status'[g] = goal[s] /\ goal[s] \in {"verified", "skipped", "flagged"}
        BY <2>2, <2>5, <3>3 DEF MarkItem, transition, TypeOK, SweepShape
      <4>3. Row
        BY <1>1, <1>2, <3>1, <3>3, <4>2 DEF MarkItem, StampAllows
      <4> QED BY <1>3, <2>1, <4>1, <4>3
    <3>4. CASE Suppressed(s, g) \/ ConfirmUnavailable(s, g)
      <4>1. Handled(s, g) /\ status' = status
        BY <3>4 DEF Suppressed, ConfirmUnavailable, LeaveForLater, execVars, rowVars
      <4> QED BY <1>2, <1>3, <2>1, <2>3, <2>5, <4>1
    <3>5. CASE BatchCleared(s, g) \/ ConfirmHeld(s, g) \/ ConfirmVacant(s, g)
      <4>1. \E st \in Goals : MoveOnTo(s, "mark", st) /\ StampAllows(g, st)'
        BY <3>5 DEF BatchCleared, ConfirmHeld, ConfirmVacant, StampAllows, Goals
      <4>2. status' = status
        BY <3>5 DEF BatchCleared, ConfirmHeld, ConfirmVacant, execVars, rowVars
      <4> QED BY <1>2, <1>3, <2>1, <3>2, <4>1, <4>2
    <3> QED
      BY <1>5, <2>5, <3>1, <3>3, <3>4, <3>5
         DEF VerifyItem, LandedMatch, LandedMiss, Landed, repairHolmanCache, verifyFence
  <2> QED BY <2>4, <2>5
<1>6. ASSUME NEW s \in Sweepers,
             \/ \E r \in Runs : StartSweep(s, r)
             \/ ReadPending(s) \/ PullLive(s) \/ WalkDone(s) \/ SweepDies(s)
             \/ CountCanary(s) \/ StampCanaryVerified(s)
      PROVE  Row /\ \A v \in Sweepers : Walk(v)
  <2>1. status'[g] = status[g]
    <3>1. status[g] # "applying" /\ owner[g] = NoOwner
      BY DEF GhostInv, LeaseDiscipline, OwnedIffApplying
    <3>2. CASE \E r \in Runs : StartSweep(s, r)
      BY <3>1, <3>2 DEF StartSweep, reapStuckApplying, Stuck
    <3>3. CASE ~\E r \in Runs : StartSweep(s, r)
      BY <1>6, <3>3 DEF ReadPending, PullLive, WalkDone, SweepDies, CountCanary,
                StampCanaryVerified, execVars, rowVars
    <3> QED BY <3>2, <3>3
  <2>2. \A v \in Sweepers \ {s} : spc'[v] = spc[v] /\ goal'[v] = goal[v] /\ seen'[v] = seen[v]
    BY <1>6 DEF StartSweep, ReadPending, PullLive, WalkDone, SweepDies, CountCanary,
                StampCanaryVerified, ResetSweep
  <2>3. spc'[s] \notin {"repair", "lift", "mark"}
    BY <1>6 DEF StartSweep, ReadPending, PullLive, WalkDone, SweepDies, CountCanary,
                StampCanaryVerified, ResetSweep
  <2>4. seen'[s][g] \in {seen[s][g], "absent", "awaiting_batch"}
    <3>1. CASE ReadPending(s)
      <4>1. /\ seen'[s][g] \in {status[g], "absent"}
            /\ seen'[s][g] = status[g] => status[g] \in PendingStatuses \/ seen'[s][g] = "absent"
        BY <3>1 DEF ReadPending, FirstRows, PendingIn
      <4> QED BY <4>1 DEF GhostInv, PendingStatuses
    <3>2. CASE ~ReadPending(s)
      BY <1>6, <3>2 DEF StartSweep, PullLive, WalkDone, SweepDies, CountCanary,
                StampCanaryVerified, ResetSweep, NothingSeen
    <3> QED BY <3>1, <3>2
  <2> QED BY <1>2, <1>3, <1>4, <2>1, <2>2, <2>3, <2>4
<1>7. CASE \/ Next /\ UNCHANGED verifVars
           \/ \E i \in Items : LiveChanges(i)
           \/ TimePasses
           \/ UNCHANGED vars
  <2>1. status'[g] = status[g]
    <3>1. status[g] \in Settled
      BY DEF GhostInv, Settled, Terminal
    <3> QED BY <1>7, <3>1, SettledStep DEF LiveChanges, TimePasses, GraceOver, AmsTimePasses,
                FenceExpires, vars, execVars, rowVars
  <2>2. UNCHANGED <<spc, goal, seen>>
    BY <1>7 DEF LiveChanges, TimePasses, GraceOver, AmsTimePasses, FenceExpires, vars,
                verifVars, sweepVars
  <2> QED BY <1>2, <1>3, <2>1, <2>2
<1> QED BY <1>5, <1>6, <1>7 DEF VNext, VerifierNext, SweepStep

(* The stamp of a ghost's truck agrees with the ghost's row, although they  *)
(* are written by separate statements of sweeps that may race or die.       *)
THEOREM GhostStampsAgree == VSpec => []GhostStampAgrees
<1>1. VInit => GhostInv
  BY DEF VInit, VerifInit, GhostInv, StampAllows, NothingSeen, IsCurrent, Work
<1>2. VInv /\ GhostInv /\ [VNext]_vars => GhostInv'
  BY GhostStep
<1>3. GhostInv => GhostStampAgrees
  BY DEF GhostInv, StampAllows, GhostStampAgrees
<1> QED BY <1>1, <1>2, <1>3, CompositionHolds, PTL DEF VSpec
-----------------------------------------------------------------------------
(* Rows live the life of a correction while they are verified, too.         *)

(* A sweep leaves the answers that kicks wait to settle alone.              *)
LEMMA SuccessTakenSweeps ==
    ASSUME VInv, SuccessTaken, [VNext]_vars
    PROVE  SuccessTaken'
<1>1. CASE UNCHANGED <<pc, item, answer, accepted>>
  BY <1>1 DEF SuccessTaken
<1>2. CASE Next
  BY <1>2, SuccessTakenStep DEF VInv
<1> QED BY <1>1, <1>2, SweepMoves DEF VInv, VNext, vars, execVars, kickVars

(* Marking a row is a verdict on it, or gives up a ghost nothing was        *)
(* written for.                                                             *)
LEMMA LifeMark ==
    ASSUME VInv, NEW s \in Sweepers, NEW i \in Items, VerifyItem(s, i)
    PROVE  [Lifecycle!Next]_(Lifecycle!vars)
<1> USE DEF VInv
<1>1. UNCHANGED accepted
  BY VerifyItemRows
<1>2. CASE status' = status
  BY <1>1, <1>2, LifeQuiet
<1>3. CASE /\ status' = [status EXCEPT ![i] = goal[s]]
           /\ status[i] = seen[s][i]
           /\ IsCurrent(s, i) /\ spc[s] = "mark"
  <2>1. /\ status[i] \in PendingStatuses /\ status'[i] = goal[s]
        /\ \A j \in Items \ {i} : status'[j] = status[j]
    BY <1>3 DEF TypeOK, VerifierTypeOK, IsCurrent, Work
  <2>2. Outcome(status[i]) \in {"suspected", "landed", "awaiting"}
    BY <2>1, OutcomesAre DEF PendingStatuses
  <2>3. CASE goal[s] \in {"verified", "flagged"}
    <3>1. Outcome(goal[s]) = goal[s]
      BY <2>3, OutcomesAre
    <3>2. Lifecycle!Become({i}, {"suspected", "landed", "awaiting"}, goal[s])
      BY <1>1, <2>1, <2>2, <3>1, LifeMoves
    <3> QED BY <2>3, <3>2 DEF Lifecycle!Next, Lifecycle!Judge
  <2>4. CASE goal[s] = "skipped"
    <3>1. status[i] = "awaiting_batch"
      BY <1>3, <2>4 DEF SweepShape
    <3>2. accepted[i] = 0
      BY <3>1 DEF LeaseDiscipline, WrittenOutOfReach, WrittenStatuses, Rescued
    <3>3. Lifecycle!Become({i}, {"claimed", "awaiting"}, "dropped")
      BY <1>1, <2>1, <2>4, <3>1, OutcomesAre, LifeMoves
    <3> QED BY <3>2, <3>3 DEF Lifecycle!Next, Lifecycle!Drop
  <2> QED BY <1>3, <2>3, <2>4 DEF SweepShape
<1> QED BY <1>2, <1>3, VerifyItemRows

(* Every step of kicks and sweeps is a step, or none, of the lifecycle.     *)
LEMMA LifeComposed ==
    ASSUME VInv, SuccessTaken, [VNext]_vars
    PROVE  [Lifecycle!Next]_(Lifecycle!vars)
<1>1. ASSUME UNCHANGED <<status, accepted>> PROVE [Lifecycle!Next]_(Lifecycle!vars)
  BY <1>1, LifeQuiet
<1>2. CASE Next
  BY <1>2, LifecycleStep DEF VInv
<1>3. ASSUME NEW s \in Sweepers, NEW r \in Runs, StartSweep(s, r)
      PROVE  [Lifecycle!Next]_(Lifecycle!vars)
  BY <1>3, LifeReap DEF StartSweep, VInv
<1>4. ASSUME NEW s \in Sweepers,
             \/ ReadPending(s) \/ PullLive(s) \/ WalkDone(s) \/ CountCanary(s)
             \/ StampCanaryVerified(s) \/ SweepDies(s)
      PROVE  [Lifecycle!Next]_(Lifecycle!vars)
  BY <1>1, <1>4 DEF ReadPending, PullLive, WalkDone, CountCanary, StampCanaryVerified, SweepDies,
                    execVars, rowVars
<1>5. ASSUME \/ \E i \in Items : LiveChanges(i)
             \/ TimePasses
             \/ UNCHANGED vars
      PROVE  [Lifecycle!Next]_(Lifecycle!vars)
  BY <1>1, <1>5 DEF TimePasses, LiveChanges, GraceOver, AmsTimePasses, FenceExpires,
                    vars, execVars, rowVars
<1> QED BY <1>2, <1>3, <1>4, <1>5, LifeMark DEF VNext, VerifierNext, SweepStep

(* Kicks and sweeps together implement the lifecycle of a correction.       *)
THEOREM CompositionImplementsLifecycle == VSpec => RowsFollowLifecycle
<1>1. VInit => SuccessTaken /\ Lifecycle!Init
  BY OutcomesAre DEF VInit, ExecInit, SuccessTaken, Lifecycle!Init
<1>2. VInv /\ SuccessTaken /\ [VNext]_vars => SuccessTaken' /\ [Lifecycle!Next]_(Lifecycle!vars)
  BY SuccessTakenSweeps, LifeComposed
<1> QED BY <1>1, <1>2, CompositionHolds, PTL DEF VSpec, RowsFollowLifecycle, Lifecycle!Spec
=============================================================================
