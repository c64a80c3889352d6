------------------------- MODULE ReconNightlyProofs -------------------------
(***************************************************************************)
(* Proofs about runs that are materialized while kicks and sweeps of other  *)
(* runs go on, for the operators' requests and for the nightly automation:  *)
(* a target has one active row, only completed runs write, the volume       *)
(* ceiling is passed only behind a verified canary, and the automation      *)
(* writes through the one active row of the target.                         *)
(***************************************************************************)
EXTENDS ReconNightly, ReconVerifierProofs, FiniteSetTheorems

USE ConstantsAssumption, VerifierAssumption

bookVars == <<mpc, staged, flagLegs, holds, stampRows>>

(* Both specifications step the same way as far as rows, kicks and sweeps   *)
(* are concerned: a run is materialized on, or kicks and sweeps take one of *)
(* their own steps, whoever drives them.                                    *)
NightStep ==
    \/ \E r \in Runs : MaterializeStep(r)
    \/ /\ [VNext]_vars
       /\ UNCHANGED bookVars
       /\ driver' \in [Runs -> DriverPCs]

(* A run's items are absent until they are staged, staged items until they  *)
(* are inserted, and a run that is not closed is still marked as running.   *)
RunsUnfold ==
    \A r \in Runs :
       /\ staged[r] \subseteq ItemsOf(r)
       /\ \A i \in staged[r] : status[i] = "absent"
       /\ mpc[r] \in {"unopened", "decide"} => \A i \in ItemsOf(r) : status[i] = "absent"
       /\ mpc[r] # "closed" => runStatus[r] = "running"

(* The inductive invariant.                                                *)
NInv == VInv /\ NightlyTypeOK /\ RunsUnfold /\ OneActivePerTarget

-----------------------------------------------------------------------------
(* The steps.                                                              *)

LEMMA OperatorSteps ==
    ASSUME NightlyTypeOK, [OperatorNext]_allVars
    PROVE  NightStep
BY DEF OperatorNext, NightStep, bookVars, nightVars, allVars, NightlyTypeOK

(* One step of a kick or a sweep that the automation drives.                *)
LEMMA DriverSteps ==
    ASSUME NightlyTypeOK, DriverStep \/ \E r \in Runs : DriverDies(r)
    PROVE  NightStep
<1> USE DEF NightStep, bookVars, nightVars, NightlyTypeOK, DriverPCs
<1>1. ASSUME NEW w \in Workers, DriverKickReturns(w) PROVE NightStep
  <2>1. WorkerStep(w) /\ UNCHANGED verifVars /\ UNCHANGED bookVars
    BY <1>1 DEF DriverKickReturns, DrainContinues, DrainStops, WorkerStep, LeaseStep
  <2>2. driver' \in [Runs -> DriverPCs]
    BY <1>1 DEF DriverKickReturns, DrainContinues, DrainStops
  <2> QED BY <2>1, <2>2 DEF VNext, Next
<1>2. ASSUME NEW w \in Workers, DriverKickRuns(w) PROVE NightStep
  BY <1>2 DEF DriverKickRuns, VNext, Next
<1>3. ASSUME NEW w \in Workers, NEW r \in Runs, DriverKick(w, r) PROVE NightStep
  BY <1>3 DEF DriverKick, VNext, Next
<1>4. ASSUME NEW s \in Sweepers, DriverSweepRuns(s) PROVE NightStep
  BY <1>4 DEF DriverSweepRuns, VNext, VerifierNext
<1>5. ASSUME NEW s \in Sweepers, NEW r \in Runs, DriverSweep(s, r) PROVE NightStep
  BY <1>5 DEF DriverSweep, VNext, VerifierNext
<1>6. ASSUME NEW r \in Runs, DriverRefused(r) \/ DriverSweepRefused(r) PROVE NightStep
  BY <1>6 DEF DriverRefused, DriverSweepRefused, DrainStops, vars
<1>7. ASSUME NEW r \in Runs, DriverDies(r) PROVE NightStep
  BY <1>7 DEF DriverDies, VNext, Next, VerifierNext
<1> QED BY <1>1, <1>2, <1>3, <1>4, <1>5, <1>6, <1>7 DEF DriverStep

LEMMA AutomationSteps ==
    ASSUME NightlyTypeOK, [AutomationNext]_allVars
    PROVE  NightStep
<1>1. ASSUME \/ \E i \in Items : LiveChanges(i)
             \/ TimePasses
             \/ /\ UNCHANGED verifVars
                /\ \/ \E i \in Items : LeaseExpires(i) \/ RetryTimeComes(i)
                   \/ \E r \in Runs : EngageKillSwitch(r)
             \/ UNCHANGED vars
      PROVE  [VNext]_vars
  BY <1>1 DEF VNext, Next, VerifierNext
<1>2. UNCHANGED nightVars => UNCHANGED bookVars /\ driver' \in [Runs -> DriverPCs]
  BY DEF nightVars, bookVars, NightlyTypeOK
<1>3. CASE \/ \E r \in Runs : MaterializeStep(r)
           \/ DriverStep \/ \E r \in Runs : DriverDies(r)
  BY <1>3, DriverSteps DEF NightStep
<1>4. CASE ~(\/ \E r \in Runs : MaterializeStep(r)
             \/ DriverStep \/ \E r \in Runs : DriverDies(r))
  <2>1. UNCHANGED nightVars
    BY <1>4 DEF AutomationNext, allVars
  <2>2. [VNext]_vars
    BY <1>1, <1>4 DEF AutomationNext, allVars
  <2> QED BY <1>2, <2>1, <2>2 DEF NightStep
<1> QED BY <1>3, <1>4

-----------------------------------------------------------------------------
(* What the materializer does to the rest.                                 *)

(* Every step but an insertion leaves the rows, kicks and sweeps alone.     *)
LEMMA MaterializeQuiet ==
    ASSUME TypeOK, NightlyTypeOK, NEW r \in Runs, MaterializeStep(r),
           ~\E C \in SUBSET staged[r] : InsertChunk(r, C)
    PROVE  /\ UNCHANGED <<killed, rowVars, kickVars, fence, mirror, accepted, crashes, verifVars>>
           /\ contested' \in SUBSET Trucks
           /\ runStatus' \in [Runs -> RunStatuses]
           /\ stampRows' = stampRows
<1> USE DEF NoRowChanges, TypeOK, RunStatuses, verifVars
<1>1. CASE OpenRun(r) \/ GateHalt(r) \/ VolumeHalt(r) \/ VolumePasses(r)
           \/ \E S, F \in SUBSET ItemsOf(r), K \in SUBSET Trucks : Decide(r, S, F, K)
  BY <1>1 DEF OpenRun, GateHalt, VolumeHalt, VolumePasses, Decide
<1>2. CASE (\E autoApply \in BOOLEAN : Complete(r, autoApply)) \/ Fails(r)
  BY <1>2 DEF Complete, Fails, CloseRun
<1>3. CASE \E t \in Trucks : FlagContested(r, t)
  BY <1>3 DEF FlagContested, runVars
<1> QED BY <1>1, <1>2, <1>3 DEF MaterializeStep

(* The rows an insertion makes were absent and staged; one that is active   *)
(* is no flag and met no conflict.                                          *)
LEMMA InsertRows ==
    ASSUME TypeOK, RunsUnfold, NEW r \in Runs, NEW C, InsertChunk(r, C)
    PROVE  \A i \in Items :
              \/ status'[i] = status[i]
              \/ /\ i \in C /\ i \in staged[r] /\ status[i] = "absent"
                 /\ \/ i \in flagLegs[r] /\ status'[i] = "flagged"
                    \/ /\ i \notin flagLegs[r] /\ ~Conflicts(i)
                       /\ \/ IsGhost(i) /\ status'[i] = "awaiting_batch"
                          \/ ~IsGhost(i) /\ status'[i] = "queued"
BY DEF InsertChunk, RunsUnfold

LEMMA InsertRest ==
    ASSUME NightlyTypeOK, NEW r \in Runs, NEW C, InsertChunk(r, C)
    PROVE  /\ UNCHANGED <<runVars, owner, leased, attempts, beforeImage, due, appliedAt,
                          kickVars, contested, fence, mirror, accepted, crashes,
                          shown, escalated, verifiedRuns, sweepVars, mpc, flagLegs, holds, driver>>
           /\ mpc[r] = "insert" /\ C \subseteq staged[r]
           /\ staged' = [staged EXCEPT ![r] = @ \ C]
           /\ status' \in [Items -> {status[i] : i \in Items} \cup {"flagged", "awaiting_batch", "queued"}]
           /\ amsAge' \in [Items -> {amsAge[i] : i \in Items} \cup {"young"}]
           /\ stampOpen' \subseteq stampOpen \cup {TruckOf[i] : i \in Items}
           /\ stampRows' \subseteq stampRows \cup {TruckOf[i] : i \in Items}
<1> DEFINE inserted == {i \in C : i \in flagLegs[r] \/ ~Conflicts(i)}
           ghosts == {i \in inserted \ flagLegs[r] : IsGhost(i)}
           trucks == {TruckOf[i] : i \in ghosts}
<1>1. trucks \subseteq {TruckOf[i] : i \in Items}
  BY DEF InsertChunk, NightlyTypeOK
<1>2. /\ stampOpen' = stampOpen \cup (trucks \ stampRows)
      /\ stampRows' = stampRows \cup trucks
  BY DEF InsertChunk
<1>3. /\ status' \in [Items -> {status[i] : i \in Items} \cup {"flagged", "awaiting_batch", "queued"}]
      /\ amsAge' \in [Items -> {amsAge[i] : i \in Items} \cup {"young"}]
  BY DEF InsertChunk
<1>4. /\ UNCHANGED <<runVars, owner, leased, attempts, beforeImage, due, appliedAt,
                      kickVars, contested, fence, mirror, accepted, crashes,
                      shown, escalated, verifiedRuns, sweepVars, mpc, flagLegs, holds, driver>>
      /\ mpc[r] = "insert" /\ C \subseteq staged[r]
      /\ staged' = [staged EXCEPT ![r] = @ \ C]
  BY DEF InsertChunk
<1> QED BY <1>1, <1>2, <1>3, <1>4

-----------------------------------------------------------------------------
(* The invariant.                                                          *)

LEMMA NInvInit == NInit => NInv
<1> SUFFICES ASSUME NInit PROVE NInv
  OBVIOUS
<1>1. TypeOK
  BY DEF NInit, ExecInit, TypeOK, RunStatuses, Statuses, BeforeImages, PCs, Answers
<1>2. OwnedIffApplying /\ WrittenOutOfReach /\ AtMostOnce
  BY DEF NInit, ExecInit, OwnedIffApplying, WrittenOutOfReach, AtMostOnce
<1>3. KickShape /\ WriterHoldsRow /\ OneWriterPerItem /\ NothingTakenYet
  BY DEF NInit, ExecInit, KickShape, WriterHoldsRow, OneWriterPerItem, NothingTakenYet, WritePCs
<1>4. VerifierTypeOK /\ SweepShape
  BY DEF NInit, VerifInit, VerifierTypeOK, SweepPCs, AmsAges, Goals, NothingSeen, SweepShape
<1>5. NightlyTypeOK
  BY DEF NInit, NightlyTypeOK, MaterializePCs, DriverPCs
<1>6. RunsUnfold /\ OneActivePerTarget
  BY DEF NInit, RunsUnfold, OneActivePerTarget, ActiveStatuses, ItemsOf
<1> QED BY <1>1, <1>2, <1>3, <1>4, <1>5, <1>6 DEF NInv, VInv, LeaseDiscipline

(* An insertion disturbs no kick and no sweep.                              *)
LEMMA InsertKeeps ==
    ASSUME VInv, NightlyTypeOK, RunsUnfold, NEW r \in Runs, NEW C, InsertChunk(r, C)
    PROVE  VInv'
<1> USE DEF VInv
<1>1. TypeOK'
  <2>1. {status[i] : i \in Items} \cup {"flagged", "awaiting_batch", "queued"} \subseteq Statuses
    BY DEF TypeOK, Statuses
  <2>2. status' \in [Items -> Statuses]
    BY <2>1, InsertRest
  <2> QED BY <2>2, InsertRest DEF TypeOK, runVars, kickVars
<1>2. VerifierTypeOK'
  <2>1. {amsAge[i] : i \in Items} \cup {"young"} \subseteq AmsAges
    BY DEF VerifierTypeOK, AmsAges
  <2>2. amsAge' \in [Items -> AmsAges]
    BY <2>1, InsertRest
  <2>3. stampOpen' \in SUBSET Trucks
    BY InsertRest DEF VerifierTypeOK
  <2> QED BY <2>2, <2>3, InsertRest DEF VerifierTypeOK, sweepVars
<1>3. SweepShape'
  BY InsertRest DEF SweepShape, sweepVars, IsCurrent, Work
<1>4. LeaseDiscipline'
  <2>1. UNCHANGED <<owner, beforeImage, accepted, pc, todo, item, answer>>
    BY InsertRest DEF kickVars
  <2>2. \A i \in Items : \/ status'[i] = status[i]
                         \/ status[i] = "absent" /\ status'[i] \in {"flagged", "awaiting_batch", "queued"}
    BY InsertRows
  <2>3. OwnedIffApplying'
    BY <2>1, <2>2 DEF LeaseDiscipline, OwnedIffApplying
  <2>4. KickShape' /\ OneWriterPerItem' /\ NothingTakenYet' /\ AtMostOnce'
    BY <2>1 DEF LeaseDiscipline, KickShape, OneWriterPerItem, NothingTakenYet, AtMostOnce
  <2>5. WriterHoldsRow'
    <3>1. \A w \in Workers : pc[w] \in WritePCs => item[w] \in Items
      BY DEF LeaseDiscipline, KickShape
    <3> QED BY <2>1, <2>2, <3>1 DEF LeaseDiscipline, WriterHoldsRow, Rescued
  <2>6. WrittenOutOfReach'
    <3>1. \A i \in Items, w \in Workers : Reaches(w, i)' <=> Reaches(w, i)
      BY <2>1 DEF Reaches
    <3>2. \A i \in Items : accepted[i] # 0 => status'[i] = status[i]
      BY <2>2 DEF LeaseDiscipline, WrittenOutOfReach, WrittenStatuses, Rescued
    <3> QED BY <2>1, <3>1, <3>2 DEF LeaseDiscipline, WrittenOutOfReach
  <2> QED BY <2>3, <2>4, <2>5, <2>6 DEF LeaseDiscipline
<1> QED BY <1>1, <1>2, <1>3, <1>4

LEMMA NightKeepsVInv ==
    ASSUME NInv, NightStep
    PROVE  VInv'
<1> USE DEF NInv
<1>1. CASE [VNext]_vars
  BY <1>1, VInvStep
<1>2. ASSUME NEW r \in Runs, NEW C \in SUBSET staged[r], InsertChunk(r, C) PROVE VInv'
  BY <1>2, InsertKeeps
<1>3. ASSUME NEW r \in Runs, MaterializeStep(r), ~\E C \in SUBSET staged[r] : InsertChunk(r, C)
      PROVE  VInv'
  <2> USE DEF VInv
  <2>1. /\ UNCHANGED <<killed, rowVars, kickVars, fence, mirror, accepted, crashes, verifVars>>
        /\ contested' \in SUBSET Trucks
        /\ runStatus' \in [Runs -> RunStatuses]
    BY <1>3, MaterializeQuiet
  <2>2. TypeOK'
    BY <2>1 DEF TypeOK, rowVars, kickVars
  <2>3. VerifierTypeOK' /\ SweepShape'
    BY <2>1 DEF verifVars, stampVars, sweepVars, VerifierTypeOK, SweepShape, IsCurrent, Work
  <2>4. LeaseDiscipline'
    <3>1. UNCHANGED <<status, owner, beforeImage, accepted, pc, todo, item, answer>>
      BY <2>1 DEF rowVars, kickVars
    <3>2. KickShape'
      BY <3>1 DEF LeaseDiscipline, KickShape
    <3>3. \A w \in Workers, j \in Items : Reaches(w, j)' => Reaches(w, j)
      BY <3>1 DEF Reaches
    <3> QED BY <3>1, <3>2, <3>3, QuietStep
  <2> QED BY <2>2, <2>3, <2>4
<1> QED BY <1>1, <1>2, <1>3 DEF NightStep

LEMMA NightTypes ==
    ASSUME NInv, NightStep
    PROVE  NightlyTypeOK'
<1> USE DEF NInv, NightlyTypeOK
<1>1. CASE /\ UNCHANGED bookVars
           /\ driver' \in [Runs -> DriverPCs]
  BY <1>1 DEF bookVars
<1>2. ASSUME NEW r \in Runs, OpenRun(r) \/ GateHalt(r) \/ VolumeHalt(r) \/ VolumePasses(r)
      PROVE  NightlyTypeOK'
  BY <1>2 DEF OpenRun, GateHalt, VolumeHalt, VolumePasses, MaterializePCs
<1>3. ASSUME NEW r \in Runs, NEW S \in SUBSET ItemsOf(r), NEW F \in SUBSET ItemsOf(r),
             NEW K \in SUBSET Trucks, Decide(r, S, F, K)
      PROVE  NightlyTypeOK'
  <2>1. S \in SUBSET Items /\ F \in SUBSET Items
    BY DEF ItemsOf
  <2> QED BY <1>3, <2>1 DEF Decide, MaterializePCs
<1>4. ASSUME NEW r \in Runs, NEW C, InsertChunk(r, C) PROVE NightlyTypeOK'
  <2>1. stampRows' \in SUBSET Trucks
    BY <1>4, InsertRest
  <2>2. staged' \in [Runs -> SUBSET Items]
    BY <1>4, InsertRest
  <2> QED BY <1>4, <2>1, <2>2, InsertRest
<1>5. ASSUME NEW r \in Runs, NEW t \in Trucks, FlagContested(r, t) PROVE NightlyTypeOK'
  BY <1>5 DEF FlagContested
<1>6. ASSUME NEW r \in Runs, (\E autoApply \in BOOLEAN : Complete(r, autoApply)) \/ Fails(r)
      PROVE  NightlyTypeOK'
  BY <1>6 DEF Complete, Fails, CloseRun, MaterializePCs, DriverPCs
<1> QED BY <1>1, <1>2, <1>3, <1>4, <1>5, <1>6 DEF NightStep, MaterializeStep

(* Kicks and sweeps change no run, no absent or settled row, and bring no   *)
(* row back among the active ones.                                          *)
LEMMA KicksAndSweeps ==
    ASSUME VInv, [VNext]_vars
    PROVE  /\ runStatus' = runStatus
           /\ \A i \in Items :
                 /\ status[i] = "absent" => status'[i] = "absent"
                 /\ status[i] \in Terminal => status'[i] = status[i]
                 /\ status'[i] \in ActiveStatuses => status[i] \in ActiveStatuses
<1> USE DEF VInv
<1>1. runStatus' = runStatus
  <2>1. CASE Next
    BY <2>1 DEF Next, StartKick, WorkerStep, LeaseStep, NothingToLease, leaseBatch, KickDone,
       ItemStep, ReleaseThrottled, ReconfirmItem, renewLeaseOrAbort, StampBeforeImage, StampFails,
       WriteStep, executeReconWrite, SettleStep, SettleError, SettleSkipped, SettleAuth,
       SettleThrottle, CommitApplied, CommitFails, persistCachePending, PersistGivesUp,
       Crash, LeaseExpires, RetryTimeComes, EngageKillSwitch, runVars
  <2>2. ASSUME NEW s \in Sweepers, NEW i \in Items, VerifyItem(s, i) PROVE runStatus' = runStatus
    BY <2>2, VerifyItemRows DEF runVars
  <2>3. CASE \/ \E s \in Sweepers, r \in Runs : StartSweep(s, r)
             \/ \E s \in Sweepers : \/ ReadPending(s) \/ PullLive(s) \/ WalkDone(s) \/ SweepDies(s)
                                    \/ CountCanary(s) \/ StampCanaryVerified(s)
             \/ \E i \in Items : LiveChanges(i)
             \/ TimePasses
             \/ UNCHANGED vars
    BY <2>3 DEF StartSweep, ReadPending, PullLive, WalkDone, SweepDies, CountCanary,
       StampCanaryVerified, LiveChanges, TimePasses, GraceOver, AmsTimePasses, FenceExpires,
       vars, execVars, runVars
  <2> QED BY <2>1, <2>2, <2>3 DEF VNext, VerifierNext, SweepStep
<1>2. ASSUME NEW i \in Items, status[i] \in Terminal \cup {"absent"}
      PROVE  status'[i] = status[i]
  BY <1>2, TerminalStep
<1>3. ASSUME NEW i \in Items, status'[i] \in ActiveStatuses PROVE status[i] \in ActiveStatuses
  <2> SUFFICES ASSUME status[i] \notin ActiveStatuses PROVE FALSE
    OBVIOUS
  <2>1. status[i] \in Terminal \cup {"absent", "verification_pending"}
    BY DEF TypeOK, Statuses, Terminal, ActiveStatuses
  <2>2. status'[i] # status[i]
    BY <1>3
  <2>3. CASE Next
    BY <2>1, <2>2, <2>3, SettledStep DEF Settled
  <2>4. CASE VerifierNext
    BY <1>3, <2>1, <2>2, <2>4, SweepMoves DEF Terminal, ActiveStatuses, PendingStatuses
  <2>5. CASE UNCHANGED vars
    BY <2>2, <2>5 DEF vars, execVars, rowVars
  <2> QED BY <2>3, <2>4, <2>5 DEF VNext
<1> QED BY <1>1, <1>2, <1>3

LEMMA RunsUnfoldStep ==
    ASSUME NInv, NightStep
    PROVE  RunsUnfold'
<1> USE DEF NInv
<1> SUFFICES ASSUME NEW q \in Runs
             PROVE  /\ staged'[q] \subseteq ItemsOf(q)
                    /\ \A i \in staged'[q] : status'[i] = "absent"
                    /\ mpc'[q] \in {"unopened", "decide"} => \A i \in ItemsOf(q) : status'[i] = "absent"
                    /\ mpc'[q] # "closed" => runStatus'[q] = "running"
  BY DEF RunsUnfold, ItemsOf
<1> DEFINE Unfolds == /\ staged'[q] \subseteq ItemsOf(q)
                      /\ \A i \in staged'[q] : status'[i] = "absent"
                      /\ mpc'[q] \in {"unopened", "decide"} => \A i \in ItemsOf(q) : status'[i] = "absent"
                      /\ mpc'[q] # "closed" => runStatus'[q] = "running"
<1>1. ItemsOf(q) \subseteq Items
  BY DEF ItemsOf
<1>2. CASE [VNext]_vars /\ UNCHANGED bookVars
  <2>1. staged' = staged /\ mpc' = mpc /\ runStatus' = runStatus
    BY <1>2, KicksAndSweeps DEF bookVars
  <2>2. \A i \in Items : status[i] = "absent" => status'[i] = "absent"
    BY <1>2, KicksAndSweeps
  <2> QED BY <1>1, <2>1, <2>2 DEF RunsUnfold
<1>3. ASSUME NEW r \in Runs, NEW C \in SUBSET staged[r], InsertChunk(r, C) PROVE Unfolds
  <2>1. /\ staged' = [staged EXCEPT ![r] = staged[r] \ C]
        /\ mpc' = mpc /\ runStatus' = runStatus /\ mpc[r] = "insert"
    BY <1>3, InsertRest DEF runVars
  <2>2. \A i \in Items : status'[i] = status[i] \/ (i \in C /\ i \in staged[r])
    BY <1>3, InsertRows DEF VInv
  <2>3. staged[r] \subseteq ItemsOf(r) /\ (q # r => \A i \in ItemsOf(q) : i \notin ItemsOf(r))
    BY DEF RunsUnfold, ItemsOf
  <2>4. CASE q = r
    <3>1. staged'[q] = staged[q] \ C
      BY <2>1, <2>4 DEF NightlyTypeOK
    <3>2. staged[q] \subseteq ItemsOf(q) /\ \A i \in staged[q] : status[i] = "absent"
      BY DEF RunsUnfold
    <3>3. \A i \in staged'[q] : status'[i] = "absent"
      BY <1>1, <2>2, <3>1, <3>2
    <3> QED BY <2>1, <2>4, <3>1, <3>2, <3>3 DEF RunsUnfold
  <2>5. CASE q # r
    <3>1. staged'[q] = staged[q] /\ \A i \in ItemsOf(q) : status'[i] = status[i]
      BY <1>1, <2>1, <2>2, <2>3, <2>5 DEF NightlyTypeOK
    <3>2. /\ staged[q] \subseteq ItemsOf(q) /\ \A i \in staged[q] : status[i] = "absent"
          /\ mpc[q] \in {"unopened", "decide"} => \A i \in ItemsOf(q) : status[i] = "absent"
          /\ mpc[q] # "closed" => runStatus[q] = "running"
      BY DEF RunsUnfold
    <3> QED BY <2>1, <3>1, <3>2
  <2> QED BY <2>4, <2>5
<1>4. ASSUME NEW r \in Runs, MaterializeStep(r), ~\E C \in SUBSET staged[r] : InsertChunk(r, C)
      PROVE  Unfolds
  <2>1. status' = status
    BY <1>4, MaterializeQuiet DEF VInv, rowVars
  <2>0. runStatus \in [Runs -> RunStatuses]
    BY DEF VInv, TypeOK
  <2> USE <2>0 DEF RunsUnfold, NightlyTypeOK
  <2>6. CASE OpenRun(r) \/ VolumePasses(r)
    BY <2>1, <2>6 DEF OpenRun, VolumePasses
  <2>2. CASE GateHalt(r) \/ VolumeHalt(r)
    <3>1. /\ mpc[r] # "closed" /\ mpc' = [mpc EXCEPT ![r] = "closed"]
          /\ runStatus' = [runStatus EXCEPT ![r] = "halted"]
          /\ staged'[r] \subseteq staged[r] /\ (q # r => staged'[q] = staged[q])
      BY <2>2 DEF GateHalt, VolumeHalt
    <3> QED BY <1>1, <2>1, <3>1
  <2>3. CASE \E S, F \in SUBSET ItemsOf(r), K \in SUBSET Trucks : Decide(r, S, F, K)
    BY <2>1, <2>3 DEF Decide
  <2>4. CASE (\E autoApply \in BOOLEAN : Complete(r, autoApply)) \/ Fails(r)
    <3>1. \E st \in RunStatuses : CloseRun(r, st)
      BY <2>4 DEF Complete, Fails, RunStatuses
    <3>2. PICK st \in RunStatuses :
             /\ mpc' = [mpc EXCEPT ![r] = "closed"]
             /\ runStatus' = [runStatus EXCEPT ![r] = st]
             /\ staged' = [staged EXCEPT ![r] = {}]
      BY <3>1 DEF CloseRun
    <3> QED BY <1>1, <2>1, <3>2
  <2>5. CASE \E t \in Trucks : FlagContested(r, t)
    BY <2>1, <2>5 DEF FlagContested, runVars
  <2> QED BY <1>4, <2>6, <2>2, <2>3, <2>4, <2>5 DEF MaterializeStep
<1> QED BY <1>2, <1>3, <1>4 DEF NightStep

LEMMA OneActiveStep ==
    ASSUME NInv, NightStep
    PROVE  OneActivePerTarget'
<1> USE DEF NInv
<1> SUFFICES ASSUME NEW i \in Items, NEW j \in Items, Target(i) = Target(j),
                    status'[i] \in ActiveStatuses, status'[j] \in ActiveStatuses, i # j
             PROVE  FALSE
  BY DEF OneActivePerTarget, Target
<1>1. ~(status[i] \in ActiveStatuses /\ status[j] \in ActiveStatuses)
  BY DEF OneActivePerTarget
<1>2. CASE [VNext]_vars
  BY <1>1, <1>2, KicksAndSweeps
<1>3. ASSUME NEW r \in Runs, MaterializeStep(r), ~\E C \in SUBSET staged[r] : InsertChunk(r, C)
      PROVE  FALSE
  BY <1>1, <1>3, MaterializeQuiet DEF VInv, rowVars
<1>4. ASSUME NEW r \in Runs, NEW C \in SUBSET staged[r], InsertChunk(r, C) PROVE FALSE
  <2>1. \A k \in {i, j} : \/ status[k] \in ActiveStatuses
                          \/ k \in staged[r] /\ ~Conflicts(k)
    BY <1>4, InsertRows DEF VInv, ActiveStatuses
  <2>2. \A k \in {i, j} : Conflicts(k) \/ \A l \in {i, j} : status[l] \in ActiveStatuses => l = k
    BY DEF Conflicts
  <2>3. i \in staged[r] /\ j \in staged[r]
    BY <1>1, <2>1, <2>2
  <2>4. RunOf[i] = RunOf[j]
    BY <2>3 DEF RunsUnfold, ItemsOf
  <2> QED BY <2>4, NightlyAssumption
<1> QED BY <1>2, <1>3, <1>4 DEF NightStep

LEMMA NInvStep == NInv /\ NightStep => NInv'
BY NightKeepsVInv, NightTypes, RunsUnfoldStep, OneActiveStep DEF NInv

(* The invariant under the operators' and under the automation's steps.     *)
THEOREM OperatorsHold == OperatorSpec => []NInv
<1>1. NInv /\ [OperatorNext]_allVars => NInv'
  BY OperatorSteps, NInvStep DEF NInv
<1> QED BY <1>1, NInvInit, PTL DEF OperatorSpec

THEOREM AutomationHolds == AutomationSpec => []NInv
<1>1. NInv /\ [AutomationNext]_allVars => NInv'
  BY AutomationSteps, NInvStep DEF NInv
<1> QED BY <1>1, NInvInit, PTL DEF AutomationSpec

(* All columns, and the state of kicks, sweeps, materializations and        *)
(* drivers, keep their types.                                               *)
THEOREM NightTypeCorrect == OperatorSpec => []NTypeOK
<1>1. NInv => NTypeOK
  BY DEF NInv, VInv, NTypeOK, VTypeOK
<1> QED BY <1>1, OperatorsHold, PTL

(* A target never has two active rows: no update of a kick, a reaper or a   *)
(* sweep can meet the partial unique index.                                 *)
THEOREM TargetsHaveOneRow == OperatorSpec \/ AutomationSpec => []OneActivePerTarget
<1>1. NInv => OneActivePerTarget
  BY DEF NInv
<1> QED BY <1>1, OperatorsHold, AutomationHolds, PTL

(* A correction is taken at most once although runs are inserted, halted    *)
(* and failed while kicks and sweeps go on.                                 *)
THEOREM NightsKeepDiscipline == OperatorSpec \/ AutomationSpec => []LeaseDiscipline
<1>1. NInv => LeaseDiscipline
  BY DEF NInv, VInv
<1> QED BY <1>1, OperatorsHold, AutomationHolds, PTL

-----------------------------------------------------------------------------
(* Only completed runs write.                                              *)

(* A kick works on the rows of the completed run it was asked for.          *)
KickAim ==
    \A w \in Workers : pc[w] # "idle" =>
       /\ kickRun[w] \in Runs /\ runStatus[kickRun[w]] = "completed"
       /\ todo[w] \subseteq ItemsOf(kickRun[w])
       /\ pc[w] \in {"renew", "stamp"} \cup WritePCs => RunOf[item[w]] = kickRun[w]

(* A worker's step after its kick began: it returns, leases rows of its     *)
(* run, takes up a row it leased, or goes on with the row in hand.          *)
LEMMA WorkerMoves ==
    ASSUME TypeOK, KickShape, NEW w \in Workers,
           WorkerStep(w) \/ \E n \in {0, 1} : Crash(w, n)
    PROVE  /\ pc[w] # "idle"
           /\ runStatus' = runStatus
           /\ \A v \in Workers \ {w} : /\ pc'[v] = pc[v] /\ kickRun'[v] = kickRun[v]
                                      /\ todo'[v] = todo[v] /\ item'[v] = item[v]
           /\ \/ pc'[w] = "idle"
              \/ /\ kickRun'[w] = kickRun[w]
                 /\ todo'[w] \subseteq todo[w] \cup {i \in Items : RunOf[i] = kickRun[w]}
                 /\ \/ pc'[w] \notin {"renew", "stamp"} \cup WritePCs
                    \/ pc[w] = "loop" /\ item'[w] \in todo[w]
                    \/ pc[w] \in {"renew", "stamp"} \cup WritePCs /\ item'[w] = item[w]
<1> USE DEF TypeOK, WritePCs, runVars
<1> DEFINE Others == \A v \in Workers \ {w} : /\ pc'[v] = pc[v] /\ kickRun'[v] = kickRun[v]
                                             /\ todo'[v] = todo[v] /\ item'[v] = item[v]
           Alone == /\ pc[w] # "idle" /\ runStatus' = runStatus /\ Others
           Mine == /\ kickRun'[w] = kickRun[w]
                   /\ todo'[w] \subseteq todo[w] \cup {i \in Items : RunOf[i] = kickRun[w]}
                   /\ \/ pc'[w] \notin {"renew", "stamp"} \cup WritePCs
                      \/ pc[w] = "loop" /\ item'[w] \in todo[w]
                      \/ pc[w] \in {"renew", "stamp"} \cup WritePCs /\ item'[w] = item[w]
<1>1. ASSUME NothingToLease(w) \/ KickDone(w) \/ \E n \in {0, 1} : Crash(w, n)
      PROVE  Alone /\ pc'[w] = "idle"
  BY <1>1 DEF NothingToLease, KickDone, Crash, ResetKick
<1>2. ASSUME NEW S, leaseBatch(w, S) PROVE Alone /\ Mine
  BY <1>2 DEF leaseBatch, Leasable
<1>3. ASSUME NEW i \in Items, ReleaseThrottled(w, i) PROVE Alone /\ Mine
  BY <1>3 DEF ReleaseThrottled, DropFromTodo
<1>4. ASSUME NEW i \in Items, NEW v, ReconfirmItem(w, i, v) PROVE Alone /\ Mine
  <2>1. pc[w] = "loop" /\ i \in todo[w] /\ runStatus' = runStatus
    BY <1>4 DEF ReconfirmItem
  <2>2. CASE Proceed(w, i)
    BY <2>1, <2>2 DEF Proceed
  <2>3. CASE DropFromTodo(w, i)
    BY <2>1, <2>3 DEF DropFromTodo
  <2> QED BY <1>4, <2>2, <2>3 DEF ReconfirmItem
<1>5. ASSUME BackToLoop(w), pc[w] # "idle", runStatus' = runStatus PROVE Alone /\ Mine
  BY <1>5 DEF BackToLoop
<1>6. ASSUME renewLeaseOrAbort(w) \/ StampBeforeImage(w) PROVE Alone /\ Mine
  <2>1. CASE LostLease(w)
    BY <1>5, <1>6, <2>1 DEF renewLeaseOrAbort, StampBeforeImage, LostLease
  <2>2. CASE ~LostLease(w)
    BY <1>6, <2>2 DEF renewLeaseOrAbort, StampBeforeImage
  <2> QED BY <2>1, <2>2
<1>7. ASSUME \/ StampFails(w) \/ SettleError(w) \/ SettleSkipped(w) \/ SettleAuth(w)
             \/ CommitApplied(w) \/ persistCachePending(w) \/ PersistGivesUp(w)
      PROVE  Alone /\ Mine
  BY <1>5, <1>7 DEF StampFails, SettleError, SettleSkipped, SettleAuth, CommitApplied,
                    persistCachePending, PersistGivesUp
<1>8. ASSUME SettleThrottle(w) \/ CommitFails(w) PROVE Alone /\ Mine
  BY <1>8 DEF SettleThrottle, CommitFails
<1>9. ASSUME NEW a, NEW n, executeReconWrite(w, a, n) PROVE Alone /\ Mine
  BY <1>9 DEF executeReconWrite
<1> QED BY <1>1, <1>2, <1>3, <1>4, <1>6, <1>7, <1>8, <1>9
        DEF WorkerStep, LeaseStep, ItemStep, WriteStep, SettleStep

(* A downstream system takes a write only from a kick in its write step.    *)
LEMMA WritesComeFrom ==
    ASSUME TypeOK, VerifierTypeOK, SweepShape, [VNext]_vars, NEW i \in Items,
           accepted'[i] # accepted[i]
    PROVE  \E w \in Workers : /\ pc[w] = "write" /\ item[w] = i
                              /\ WorkerStep(w) \/ \E n \in {0, 1} : Crash(w, n)
<1> USE DEF TypeOK
<1>1. ASSUME NEW w \in Workers, NEW a, NEW n \in {0, 1}, executeReconWrite(w, a, n)
      PROVE  pc[w] = "write" /\ item[w] = i
  BY <1>1 DEF executeReconWrite
<1>2. ASSUME NEW w \in Workers, NEW n \in {0, 1}, Crash(w, n)
      PROVE  pc[w] = "write" /\ item[w] = i
  BY <1>2 DEF Crash
<1>3. ASSUME NEW w \in Workers, WorkerStep(w), ~WriteStep(w) PROVE FALSE
  BY <1>3 DEF WorkerStep, LeaseStep, NothingToLease, leaseBatch, KickDone, ItemStep,
     ReleaseThrottled, ReconfirmItem, renewLeaseOrAbort, StampBeforeImage, StampFails, SettleStep,
     SettleError, SettleSkipped, SettleAuth, SettleThrottle, CommitApplied, CommitFails,
     persistCachePending, PersistGivesUp
<1>4. CASE \/ \E w \in Workers, r \in Runs : StartKick(w, r)
           \/ \E j \in Items : LeaseExpires(j) \/ RetryTimeComes(j)
           \/ \E r \in Runs : EngageKillSwitch(r)
           \/ UNCHANGED vars
  BY <1>4 DEF StartKick, LeaseExpires, RetryTimeComes, EngageKillSwitch, vars, execVars
<1>5. CASE VerifierNext
  BY <1>5, SweepMoves
<1>6. CASE \E w \in Workers : WorkerStep(w) \/ \E n \in {0, 1} : Crash(w, n)
  BY <1>1, <1>2, <1>3, <1>6 DEF WriteStep
<1> QED BY <1>4, <1>5, <1>6 DEF VNext, Next

(* A run that completed stays completed.                                    *)
LEMMA CompletedStays ==
    ASSUME NInv, NightStep, NEW r \in Runs, runStatus[r] = "completed"
    PROVE  runStatus'[r] = "completed"
<1> USE DEF NInv
<1>1. CASE [VNext]_vars
  BY <1>1, KicksAndSweeps
<1>2. ASSUME NEW q \in Runs, MaterializeStep(q), mpc[q] = "closed" PROVE FALSE
  BY <1>2 DEF MaterializeStep, OpenRun, GateHalt, VolumeHalt, VolumePasses, Decide, InsertChunk,
     FlagContested, Complete, Fails
<1>3. ASSUME NEW q \in Runs, MaterializeStep(q)
      PROVE  \A p \in Runs \ {q} : runStatus'[p] = runStatus[p]
  <2>1. runStatus \in [Runs -> RunStatuses]
    BY DEF VInv, TypeOK
  <2> QED BY <1>3, <2>1 DEF MaterializeStep, OpenRun, GateHalt, VolumeHalt, VolumePasses, Decide,
     InsertChunk, FlagContested, Complete, CloseRun, Fails, runVars
<1>4. ASSUME NEW q \in Runs, MaterializeStep(q) PROVE q # r
  BY <1>2, <1>4 DEF RunsUnfold
<1> QED BY <1>1, <1>3, <1>4 DEF NightStep

LEMMA KickAimStep ==
    ASSUME NInv, KickAim, NightStep
    PROVE  KickAim'
<1> USE DEF NInv, VInv
<1> SUFFICES ASSUME NEW w \in Workers, pc'[w] # "idle"
             PROVE  /\ kickRun'[w] \in Runs /\ runStatus'[kickRun'[w]] = "completed"
                    /\ todo'[w] \subseteq ItemsOf(kickRun'[w])
                    /\ pc'[w] \in {"renew", "stamp"} \cup WritePCs => RunOf[item'[w]] = kickRun'[w]
  BY DEF KickAim, ItemsOf
<1> DEFINE Aims == /\ kickRun'[w] \in Runs /\ runStatus'[kickRun'[w]] = "completed"
                   /\ todo'[w] \subseteq ItemsOf(kickRun'[w])
                   /\ pc'[w] \in {"renew", "stamp"} \cup WritePCs => RunOf[item'[w]] = kickRun'[w]
<1>1. ASSUME pc'[w] = pc[w], kickRun'[w] = kickRun[w], todo'[w] = todo[w], item'[w] = item[w]
      PROVE  Aims
  BY <1>1, CompletedStays DEF KickAim
<1>2. ASSUME NEW v \in Workers, WorkerStep(v) \/ \E n \in {0, 1} : Crash(v, n) PROVE Aims
  <2>1. CASE v # w
    BY <1>1, <1>2, <2>1, WorkerMoves DEF LeaseDiscipline
  <2>2. CASE v = w
    <3>1. /\ pc[w] # "idle" /\ kickRun'[w] = kickRun[w]
          /\ todo'[w] \subseteq todo[w] \cup {i \in Items : RunOf[i] = kickRun[w]}
          /\ \/ pc'[w] \notin {"renew", "stamp"} \cup WritePCs
             \/ pc[w] = "loop" /\ item'[w] \in todo[w]
             \/ pc[w] \in {"renew", "stamp"} \cup WritePCs /\ item'[w] = item[w]
      BY <1>2, <2>2, WorkerMoves DEF LeaseDiscipline
    <3>2. kickRun[w] \in Runs /\ runStatus[kickRun[w]] = "completed" /\ todo[w] \subseteq ItemsOf(kickRun[w])
      BY <3>1 DEF KickAim
    <3>3. pc[w] \in {"renew", "stamp"} \cup WritePCs => RunOf[item[w]] = kickRun[w]
      BY <3>1 DEF KickAim
    <3>4. runStatus'[kickRun[w]] = "completed"
      BY <3>2, CompletedStays
    <3> QED BY <3>1, <3>2, <3>3, <3>4 DEF ItemsOf
  <2> QED BY <2>1, <2>2
<1>3. ASSUME NEW v \in Workers, NEW r \in Runs, StartKick(v, r) PROVE Aims
  <2>1. CASE v # w
    BY <1>1, <1>3, <2>1 DEF StartKick, TypeOK
  <2>2. CASE v = w
    BY <1>3, <2>2 DEF StartKick, Kickable, TypeOK, LeaseDiscipline, KickShape, WritePCs, runVars
  <2> QED BY <2>1, <2>2
<1>4. CASE UNCHANGED <<pc, kickRun, todo, item>>
  BY <1>1, <1>4
<1>5. ASSUME \/ \E i \in Items : LeaseExpires(i) \/ RetryTimeComes(i)
             \/ \E r \in Runs : EngageKillSwitch(r)
             \/ UNCHANGED vars
      PROVE  UNCHANGED <<pc, kickRun, todo, item>>
  BY <1>5 DEF LeaseExpires, RetryTimeComes, EngageKillSwitch, vars, execVars, kickVars
<1>6. ASSUME VerifierNext PROVE UNCHANGED <<pc, kickRun, todo, item>>
  <2>1. ASSUME NEW s \in Sweepers, NEW i \in Items, VerifyItem(s, i)
        PROVE  UNCHANGED <<pc, kickRun, todo, item>>
    BY <2>1, VerifyItemRows DEF kickVars
  <2>2. CASE \/ \E s \in Sweepers, r \in Runs : StartSweep(s, r)
             \/ \E s \in Sweepers : \/ ReadPending(s) \/ PullLive(s) \/ WalkDone(s) \/ SweepDies(s)
                                    \/ CountCanary(s) \/ StampCanaryVerified(s)
             \/ \E i \in Items : LiveChanges(i)
             \/ TimePasses
    BY <2>2 DEF StartSweep, ReadPending, PullLive, WalkDone, SweepDies, CountCanary,
       StampCanaryVerified, LiveChanges, TimePasses, GraceOver, AmsTimePasses, FenceExpires,
       execVars, kickVars
  <2> QED BY <1>6, <2>1, <2>2 DEF VerifierNext, SweepStep
<1>7. ASSUME NEW r \in Runs, MaterializeStep(r) PROVE UNCHANGED <<pc, kickRun, todo, item>>
  <2>1. CASE \E C \in SUBSET staged[r] : InsertChunk(r, C)
    BY <2>1, InsertRest DEF kickVars
  <2>2. CASE ~\E C \in SUBSET staged[r] : InsertChunk(r, C)
    BY <1>7, <2>2, MaterializeQuiet DEF kickVars
  <2> QED BY <2>1, <2>2
<1> QED BY <1>2, <1>3, <1>4, <1>5, <1>6, <1>7 DEF NightStep, VNext, Next

LEMMA OnlyCompletedStep ==
    ASSUME NInv, KickAim, OnlyCompletedRunsWrite, NightStep
    PROVE  OnlyCompletedRunsWrite'
<1> USE DEF NInv, VInv
<1> SUFFICES ASSUME NEW i \in Items, accepted'[i] > 0
             PROVE  runStatus'[RunOf[i]] = "completed"
  BY DEF OnlyCompletedRunsWrite
<1>1. runStatus[RunOf[i]] = "completed"
  <2>1. CASE accepted'[i] = accepted[i]
    BY <2>1 DEF OnlyCompletedRunsWrite
  <2>2. CASE accepted'[i] # accepted[i]
    <3>1. [VNext]_vars
      BY <2>2, MaterializeQuiet, InsertRest DEF NightStep
    <3>2. PICK w \in Workers : pc[w] = "write" /\ item[w] = i
      BY <2>2, <3>1, WritesComeFrom
    <3> QED BY <3>2 DEF KickAim, WritePCs
  <2> QED BY <2>1, <2>2
<1>2. RunOf[i] \in Runs
  OBVIOUS
<1> QED BY <1>1, <1>2, CompletedStays

(* A run that was halted, failed part-way or is still being inserted has    *)
(* had no write taken, whoever kicks it.                                    *)
THEOREM HaltedRunsWriteNothing == OperatorSpec \/ AutomationSpec => []OnlyCompletedRunsWrite
<1> DEFINE Aimed == NInv /\ KickAim /\ OnlyCompletedRunsWrite
<1>1. NInit => Aimed
  BY NInvInit DEF NInit, ExecInit, KickAim, OnlyCompletedRunsWrite
<1>2. Aimed /\ NightStep => Aimed'
  BY NInvStep, KickAimStep, OnlyCompletedStep
<1>3. Aimed /\ [OperatorNext]_allVars => Aimed'
  BY <1>2, OperatorSteps DEF NInv
<1>4. Aimed /\ [AutomationNext]_allVars => Aimed'
  BY <1>2, AutomationSteps DEF NInv
<1>5. Aimed => OnlyCompletedRunsWrite
  OBVIOUS
<1> QED BY <1>1, <1>3, <1>4, <1>5, PTL DEF OperatorSpec, AutomationSpec

-----------------------------------------------------------------------------
(* The volume gate.                                                        *)

SomeVerified(q) == \E i \in ItemsOf(q) : status[i] = "verified"

Bypassed(r) ==
    /\ RunKind[r] = "backfill" /\ r \in Approved
    /\ CanaryOf[r] \in verifiedRuns
    /\ SomeVerified(CanaryOf[r])

(* A run that carries verified_at, or is about to, has a verified row; and  *)
(* what a run has written and may still insert stays below the ceiling once *)
(* it passed the gate, unless it was let past.                              *)
VolumeInv ==
    /\ \A q \in verifiedRuns : SomeVerified(q)
    /\ \A s \in Sweepers : spc[s] = "stamp" => SomeVerified(sweepRun[s])
    /\ \A r \in Runs :
          /\ mpc[r] \in {"unopened", "decide"} => staged[r] = {}
          /\ mpc[r] \in {"unopened", "decide", "guard"} => RowsWritten(r) = {}
          /\ mpc[r] \in {"insert", "closed"} =>
                Cardinality(RowsWritten(r) \cup Proposed(r)) <= Ceiling \/ Bypassed(r)

(* Fewer rows are still below the ceiling.                                  *)
LEMMA FewerRows ==
    ASSUME NEW T \in SUBSET Items, NEW S \in SUBSET T, Cardinality(T) <= Ceiling
    PROVE  Cardinality(S) <= Ceiling
<1>1. IsFiniteSet(T)
  BY FS_Subset, NightlyAssumption
<1>2. IsFiniteSet(S) /\ Cardinality(S) <= Cardinality(T)
  BY <1>1, FS_Subset
<1>3. Cardinality(S) \in Nat /\ Cardinality(T) \in Nat
  BY <1>1, <1>2, FS_CardinalityType
<1> QED BY <1>2, <1>3, NightlyAssumption

LEMMA NoRows == Cardinality({}) <= Ceiling
BY FS_EmptySet, NightlyAssumption

(* A verified row stays verified whatever kicks, sweeps and insertions do.  *)
LEMMA VerifiedStays ==
    ASSUME NInv, NightStep, NEW i \in Items, status[i] = "verified"
    PROVE  status'[i] = "verified"
<1> USE DEF NInv
<1>1. CASE [VNext]_vars
  BY <1>1, KicksAndSweeps DEF Terminal
<1>2. ASSUME NEW r \in Runs, MaterializeStep(r) PROVE status'[i] = status[i]
  <2>1. CASE \E C \in SUBSET staged[r] : InsertChunk(r, C)
    BY <2>1, InsertRows DEF VInv
  <2>2. CASE ~\E C \in SUBSET staged[r] : InsertChunk(r, C)
    BY <1>2, <2>2, MaterializeQuiet DEF VInv, rowVars
  <2> QED BY <2>1, <2>2
<1> QED BY <1>1, <1>2 DEF NightStep

(* verified_at is only set, by a sweep that had counted a verified row.     *)
LEMMA StampsGrow ==
    ASSUME NInv, NightStep
    PROVE  /\ verifiedRuns \subseteq verifiedRuns'
           /\ \A q \in verifiedRuns' :
                q \in verifiedRuns \/ \E s \in Sweepers : spc[s] = "stamp" /\ sweepRun[s] = q
           /\ \A s \in Sweepers : spc'[s] = "stamp" =>
                 /\ sweepRun'[s] = sweepRun[s]
                 /\ spc[s] = "stamp" \/ SomeVerified(sweepRun[s])
<1> USE DEF NInv, VInv, VerifierTypeOK
<1> DEFINE Grow == /\ verifiedRuns \subseteq verifiedRuns'
                   /\ \A q \in verifiedRuns' :
                         q \in verifiedRuns \/ \E s \in Sweepers : spc[s] = "stamp" /\ sweepRun[s] = q
                   /\ \A s \in Sweepers : spc'[s] = "stamp" =>
                         /\ sweepRun'[s] = sweepRun[s]
                         /\ spc[s] = "stamp" \/ SomeVerified(sweepRun[s])
<1>1. ASSUME UNCHANGED verifiedRuns,
             \A s \in Sweepers : spc'[s] = "stamp" => spc[s] = "stamp" /\ sweepRun'[s] = sweepRun[s]
      PROVE  Grow
  BY <1>1
<1>2. ASSUME NEW s \in Sweepers, CountCanary(s) PROVE Grow
  <2>1. spc'[s] = "stamp" => SomeVerified(sweepRun[s]) /\ sweepRun'[s] = sweepRun[s]
    BY <1>2 DEF CountCanary, CanaryClean, RowsOf, SomeVerified, ItemsOf, ResetSweep
  <2>2. /\ verifiedRuns' = verifiedRuns
        /\ \A v \in Sweepers \ {s} : spc'[v] = spc[v] /\ sweepRun'[v] = sweepRun[v]
    BY <1>2 DEF CountCanary, ResetSweep
  <2> QED BY <2>1, <2>2
<1>3. ASSUME NEW s \in Sweepers, StampCanaryVerified(s) PROVE Grow
  BY <1>3 DEF StampCanaryVerified, ResetSweep
<1>4. ASSUME NEW s \in Sweepers, NEW i \in Items, VerifyItem(s, i) PROVE Grow
  <2>1. verifiedRuns' = verifiedRuns
    BY <1>4, VerifyItemRows
  <2>2. \A v \in Sweepers : spc'[v] = "stamp" => spc[v] = "stamp" /\ sweepRun'[v] = sweepRun[v]
    BY <1>4, VerifyItemMoves DEF Handled, MoveOnTo
  <2> QED BY <1>1, <2>1, <2>2
<1>5. ASSUME NEW s \in Sweepers,
             \/ \E r \in Runs : StartSweep(s, r)
             \/ ReadPending(s) \/ PullLive(s) \/ WalkDone(s) \/ SweepDies(s)
      PROVE  Grow
  BY <1>1, <1>5 DEF StartSweep, ReadPending, PullLive, WalkDone, SweepDies, ResetSweep
<1>6. ASSUME \/ Next /\ UNCHANGED verifVars
             \/ \E i \in Items : LiveChanges(i)
             \/ TimePasses
             \/ UNCHANGED vars
      PROVE  Grow
  BY <1>1, <1>6 DEF TimePasses, LiveChanges, GraceOver, AmsTimePasses, FenceExpires,
                    vars, verifVars, sweepVars
<1>7. ASSUME NEW r \in Runs, MaterializeStep(r) PROVE Grow
  <2>1. UNCHANGED <<verifiedRuns, spc, sweepRun>>
    <3>1. CASE \E C \in SUBSET staged[r] : InsertChunk(r, C)
      BY <3>1, InsertRest DEF sweepVars
    <3>2. CASE ~\E C \in SUBSET staged[r] : InsertChunk(r, C)
      BY <1>7, <3>2, MaterializeQuiet DEF verifVars, sweepVars
    <3> QED BY <3>1, <3>2
  <2> QED BY <1>1, <2>1
<1> QED BY <1>2, <1>3, <1>4, <1>5, <1>6, <1>7 DEF NightStep, VNext, VerifierNext, SweepStep

(* What one materialization does to the rows counted for a run.             *)
LEMMA CountedRows ==
    ASSUME NInv, VolumeInv, NightStep, NEW q \in Runs, mpc[q] \in {"insert", "closed"}
    PROVE  /\ mpc'[q] \in {"insert", "closed"}
           /\ RowsWritten(q)' \cup Proposed(q)' \subseteq RowsWritten(q) \cup Proposed(q)
<1> USE DEF NInv, NightlyTypeOK
<1>1. CASE [VNext]_vars /\ UNCHANGED bookVars
  BY <1>1, KicksAndSweeps DEF RowsWritten, Proposed, ItemsOf, IsGhost, Terminal, bookVars
<1>2. ASSUME NEW r \in Runs, NEW C \in SUBSET staged[r], InsertChunk(r, C)
      PROVE  /\ mpc'[q] = mpc[q]
             /\ RowsWritten(q)' \cup Proposed(q)' \subseteq RowsWritten(q) \cup Proposed(q)
  <2>1. /\ staged' = [staged EXCEPT ![r] = staged[r] \ C] /\ flagLegs' = flagLegs /\ mpc' = mpc
    BY <1>2, InsertRest
  <2>2. Proposed(q)' \subseteq Proposed(q)
    BY <2>1 DEF Proposed, IsGhost
  <2>3. ASSUME NEW i \in RowsWritten(q)' PROVE i \in RowsWritten(q) \cup Proposed(q)
    <3>1. i \in Items /\ RunOf[i] = q /\ ~IsGhost(i) /\ status'[i] \notin {"absent", "flagged"}
      BY <2>3 DEF RowsWritten, ItemsOf, IsGhost
    <3>2. status'[i] = status[i] \/ (i \in staged[r] /\ i \notin flagLegs[r])
      BY <1>2, <3>1, InsertRows DEF VInv
    <3>3. i \in staged[r] => r = q
      BY <3>1 DEF RunsUnfold, ItemsOf
    <3> QED BY <3>1, <3>2, <3>3 DEF RowsWritten, Proposed, ItemsOf
  <2> QED BY <2>1, <2>2, <2>3
<1>3. ASSUME NEW r \in Runs, MaterializeStep(r), ~\E C \in SUBSET staged[r] : InsertChunk(r, C)
      PROVE  /\ mpc'[q] \in {"insert", "closed"}
             /\ RowsWritten(q)' \cup Proposed(q)' \subseteq RowsWritten(q) \cup Proposed(q)
  <2>1. status' = status
    BY <1>3, MaterializeQuiet DEF VInv, rowVars
  <2>2. /\ mpc'[q] \in {"insert", "closed"}
        /\ staged'[q] \subseteq staged[q] /\ flagLegs[q] \cap staged'[q] \subseteq flagLegs'[q]
    BY <1>3 DEF MaterializeStep, OpenRun, GateHalt, VolumeHalt, VolumePasses, Decide,
       FlagContested, Complete, CloseRun, Fails
  <2> QED BY <2>1, <2>2 DEF RowsWritten, Proposed, ItemsOf, IsGhost
<1> QED BY <1>1, <1>2, <1>3 DEF NightStep

(* Before a run passes the gate it has no rows; when it passes, its staged  *)
(* writes are below the ceiling or it is let past.                          *)
LEMMA GateRows ==
    ASSUME NInv, VolumeInv, NightStep, NEW q \in Runs, mpc[q] \in {"unopened", "decide", "guard"}
    PROVE  /\ RowsWritten(q)' = {}
           /\ mpc'[q] \in {"unopened", "decide"} => staged'[q] = {}
           /\ mpc'[q] = "closed" => Proposed(q)' = {}
           /\ mpc'[q] = "insert" =>
                 \/ Cardinality(Proposed(q)) <= Ceiling /\ Proposed(q)' = Proposed(q)
                 \/ isG2BypassAuthorized(q)
<1> USE DEF NInv, NightlyTypeOK
<1>1. staged[q] = {} \/ mpc[q] = "guard"
  BY DEF VolumeInv
<1>2. RowsWritten(q) = {}
  BY DEF VolumeInv
<1>3. CASE [VNext]_vars /\ UNCHANGED bookVars
  BY <1>1, <1>2, <1>3, KicksAndSweeps DEF RowsWritten, Proposed, ItemsOf, IsGhost, Terminal, bookVars
<1>4. ASSUME NEW r \in Runs, NEW C \in SUBSET staged[r], InsertChunk(r, C)
      PROVE  /\ r # q /\ RowsWritten(q)' = {} /\ mpc' = mpc /\ staged'[q] = staged[q]
  <2>1. /\ staged' = [staged EXCEPT ![r] = staged[r] \ C] /\ mpc' = mpc /\ mpc[r] = "insert"
    BY <1>4, InsertRest
  <2>2. \A i \in ItemsOf(q) : status'[i] = status[i]
    BY <1>4, <2>1, InsertRows DEF VInv, RunsUnfold, ItemsOf
  <2> QED BY <1>2, <2>1, <2>2 DEF RowsWritten, ItemsOf, IsGhost
<1>5. ASSUME NEW r \in Runs, MaterializeStep(r), ~\E C \in SUBSET staged[r] : InsertChunk(r, C)
      PROVE  /\ RowsWritten(q)' = {}
             /\ mpc'[q] \in {"unopened", "decide"} => staged'[q] = {}
             /\ mpc'[q] = "closed" => Proposed(q)' = {}
             /\ mpc'[q] = "insert" =>
                   \/ Cardinality(Proposed(q)) <= Ceiling /\ Proposed(q)' = Proposed(q)
                   \/ isG2BypassAuthorized(q)
  <2>1. status' = status
    BY <1>5, MaterializeQuiet DEF VInv, rowVars
  <2>2. RowsWritten(q)' = {}
    BY <1>2, <2>1 DEF RowsWritten, ItemsOf, IsGhost
  <2>3. CASE r = q
    <3>1. CASE OpenRun(q) \/ \E S, F \in SUBSET ItemsOf(q), K \in SUBSET Trucks : Decide(q, S, F, K)
      BY <1>1, <2>2, <3>1 DEF OpenRun, Decide
    <3>2. CASE GateHalt(q) \/ VolumeHalt(q) \/ (\E autoApply \in BOOLEAN : Complete(q, autoApply)) \/ Fails(q)
      BY <1>1, <2>2, <3>2 DEF GateHalt, VolumeHalt, Complete, Fails, CloseRun, Proposed
    <3>3. CASE VolumePasses(q)
      BY <2>2, <3>3 DEF VolumePasses, Proposed, IsGhost
    <3>4. CASE \E t \in Trucks : FlagContested(q, t)
      BY <2>2, <3>4 DEF FlagContested
    <3> QED BY <1>5, <2>2, <2>3, <3>1, <3>2, <3>3, <3>4 DEF MaterializeStep
  <2>4. CASE r # q
    BY <1>1, <1>5, <2>2, <2>4 DEF MaterializeStep, OpenRun, GateHalt, VolumeHalt, VolumePasses,
       Decide, FlagContested, Complete, CloseRun, Fails, Proposed
  <2> QED BY <2>3, <2>4
<1> QED BY <1>1, <1>3, <1>4, <1>5 DEF NightStep

LEMMA VolumeStep ==
    ASSUME NInv, VolumeInv, NightStep
    PROVE  VolumeInv'
<1>1. ASSUME NEW q, SomeVerified(q) PROVE SomeVerified(q)'
  BY <1>1, VerifiedStays DEF SomeVerified, ItemsOf
<1>2. ASSUME NEW r \in Runs, Bypassed(r) PROVE Bypassed(r)'
  BY <1>1, <1>2, StampsGrow DEF Bypassed
<1>3. \A q \in verifiedRuns' : SomeVerified(q)'
  BY <1>1, StampsGrow DEF VolumeInv
<1>4. \A s \in Sweepers : spc'[s] = "stamp" => SomeVerified(sweepRun[s])' /\ sweepRun'[s] = sweepRun[s]
  BY <1>1, StampsGrow DEF VolumeInv
<1>5. ASSUME NEW r \in Runs
      PROVE  /\ mpc'[r] \in {"unopened", "decide"} => staged'[r] = {}
             /\ mpc'[r] \in {"unopened", "decide", "guard"} => RowsWritten(r)' = {}
             /\ mpc'[r] \in {"insert", "closed"} =>
                   Cardinality(RowsWritten(r) \cup Proposed(r))' <= Ceiling \/ Bypassed(r)'
  <2>1. CASE mpc[r] \in {"insert", "closed"}
    <3>1. /\ mpc'[r] \in {"insert", "closed"}
          /\ RowsWritten(r)' \cup Proposed(r)' \subseteq RowsWritten(r) \cup Proposed(r)
      BY <2>1, CountedRows
    <3>2. Cardinality(RowsWritten(r) \cup Proposed(r)) <= Ceiling \/ Bypassed(r)
      BY <2>1 DEF VolumeInv
    <3>3. RowsWritten(r) \cup Proposed(r) \in SUBSET Items
      BY DEF RowsWritten, Proposed, ItemsOf, NInv, NightlyTypeOK
    <3> HIDE DEF RowsWritten, Proposed
    <3>4. Cardinality(RowsWritten(r) \cup Proposed(r)) <= Ceiling =>
             Cardinality(RowsWritten(r)' \cup Proposed(r)') <= Ceiling
      BY <3>1, <3>3, FewerRows
    <3> QED BY <1>2, <3>1, <3>2, <3>4
  <2>2. CASE mpc[r] \in {"unopened", "decide", "guard"}
    <3>1. /\ RowsWritten(r)' = {}
          /\ mpc'[r] \in {"unopened", "decide"} => staged'[r] = {}
          /\ mpc'[r] = "closed" => Proposed(r)' = {}
          /\ mpc'[r] = "insert" =>
                \/ Cardinality(Proposed(r)) <= Ceiling /\ Proposed(r)' = Proposed(r)
                \/ isG2BypassAuthorized(r)
      BY <2>2, GateRows
    <3>2. isG2BypassAuthorized(r) => Bypassed(r)
      BY DEF isG2BypassAuthorized, Bypassed, VolumeInv
    <3>3. {} \cup {} = {} /\ {} \cup Proposed(r) = Proposed(r)
      OBVIOUS
    <3> QED BY <1>2, <3>1, <3>2, <3>3, NoRows
  <2> QED BY <2>1, <2>2 DEF NInv, NightlyTypeOK, MaterializePCs
<1> QED BY <1>3, <1>4, <1>5 DEF VolumeInv

(* More queued writes than the ceiling come only from an approved backfill  *)
(* behind a canary of which a row was verified.                             *)
THEOREM VolumeIsGuarded == OperatorSpec \/ AutomationSpec => []VolumeGuarded
<1> DEFINE Guarded == NInv /\ VolumeInv
<1>1. NInit => VolumeInv
  BY DEF NInit, VerifInit, VolumeInv, RowsWritten, Proposed, ItemsOf, IsGhost
<1>2. NInit => Guarded
  BY <1>1, NInvInit
<1>3. Guarded /\ [OperatorNext]_allVars => Guarded'
  BY OperatorSteps, NInvStep, VolumeStep DEF NInv
<1>4. Guarded /\ [AutomationNext]_allVars => Guarded'
  BY AutomationSteps, NInvStep, VolumeStep DEF NInv
<1>5. Guarded => VolumeGuarded
  <2> SUFFICES ASSUME NInv, VolumeInv, NEW r \in Runs, Cardinality(RowsWritten(r)) > Ceiling
               PROVE  Bypassed(r)
    BY DEF VolumeGuarded, Bypassed, SomeVerified
  <2>1. RowsWritten(r) # {}
    <3>1. RowsWritten(r) = {} => Cardinality(RowsWritten(r)) = Cardinality({})
      OBVIOUS
    <3>2. Cardinality({}) = 0
      BY FS_EmptySet
    <3> QED BY <3>1, <3>2, NightlyAssumption
  <2>2. mpc[r] \in {"insert", "closed"}
    BY <2>1 DEF VolumeInv, NInv, NightlyTypeOK, MaterializePCs
  <2>3. RowsWritten(r) \cup Proposed(r) \in SUBSET Items
    BY DEF RowsWritten, Proposed, ItemsOf, NInv, NightlyTypeOK
  <2>4. Cardinality(RowsWritten(r)) \in Nat
    BY <2>3, NightlyAssumption, FS_Subset, FS_CardinalityType
  <2>5. ~(Cardinality(RowsWritten(r) \cup Proposed(r)) <= Ceiling)
    BY <2>3, <2>4, FewerRows, NightlyAssumption
  <2> QED BY <2>2, <2>5 DEF VolumeInv
<1> QED BY <1>2, <1>3, <1>4, <1>5, PTL DEF OperatorSpec, AutomationSpec

-----------------------------------------------------------------------------
(* The automation writes through the active row of the target.              *)

(* The scheduler runs one kick at a time, for the run it drains, and sweeps *)
(* that run only afterwards, once: no reaper takes the row of its kick.     *)
DriveInv ==
    /\ \A w \in Workers : pc[w] # "idle" =>
          driver[kickRun[w]] = "drain" /\ mpc[kickRun[w]] = "closed"
    /\ \A v, w \in Workers : (pc[v] # "idle" /\ pc[w] # "idle") => v = w
    /\ \A s \in Sweepers : spc[s] # "idle" =>
          driver[sweepRun[s]] = "sweeping" /\ mpc[sweepRun[s]] = "closed"
    /\ \A s, v \in Sweepers :
          (spc[s] # "idle" /\ spc[v] # "idle" /\ sweepRun[s] = sweepRun[v]) => s = v
    /\ \A r \in Runs : driver[r] # "off" => mpc[r] = "closed"
    /\ \A w \in Workers : pc[w] \in WritePCs => owner[item[w]] = w

(* A kick enters its write window only with a row it owns, and leaves it    *)
(* before it lets go of the row.                                            *)
LEMMA WindowOwned ==
    ASSUME TypeOK, KickShape, NEW w \in Workers, WorkerStep(w), pc'[w] \in WritePCs,
           pc[w] \in WritePCs => owner[item[w]] = w
    PROVE  owner'[item'[w]] = w
<1> USE DEF TypeOK, WritePCs
<1>1. CASE renewLeaseOrAbort(w)
  BY <1>1 DEF renewLeaseOrAbort, LostLease, BackToLoop
<1>2. CASE StampBeforeImage(w)
  <2>1. CASE LostLease(w)
    BY <2>1 DEF LostLease, BackToLoop
  <2>2. CASE ~LostLease(w)
    BY <1>2, <2>2 DEF StampBeforeImage, Holds
  <2> QED BY <2>1, <2>2
<1>3. CASE \E a \in Answers, n \in {0, 1} : executeReconWrite(w, a, n)
  BY <1>3 DEF executeReconWrite, rowVars
<1>4. CASE CommitFails(w)
  BY <1>4 DEF CommitFails, rowVars
<1>5. CASE \/ StampFails(w) \/ SettleError(w) \/ SettleSkipped(w) \/ SettleAuth(w)
           \/ CommitApplied(w) \/ persistCachePending(w) \/ PersistGivesUp(w)
  BY <1>5 DEF StampFails, SettleError, SettleSkipped, SettleAuth, CommitApplied,
              persistCachePending, PersistGivesUp, BackToLoop
<1>6. CASE NothingToLease(w) \/ KickDone(w) \/ SettleThrottle(w) \/ \E S \in SUBSET Items : leaseBatch(w, S)
  BY <1>6 DEF NothingToLease, KickDone, SettleThrottle, leaseBatch, ResetKick
<1>7. CASE ItemStep(w)
  BY <1>7 DEF ItemStep, ReleaseThrottled, ReconfirmItem, Proceed, DropFromTodo
<1> QED BY <1>1, <1>2, <1>3, <1>4, <1>5, <1>6, <1>7 DEF WorkerStep, LeaseStep, WriteStep, SettleStep

(* A sweep's statement touches no kick, no owner and no other sweep.        *)
LEMMA SweepAlone ==
    ASSUME TypeOK, VerifierTypeOK, SweepShape, NEW s \in Sweepers, SweepStep(s)
    PROVE  /\ UNCHANGED <<pc, kickRun, item, owner>>
           /\ \A v \in Sweepers \ {s} : spc'[v] = spc[v] /\ sweepRun'[v] = sweepRun[v]
           /\ spc[s] # "idle"
           /\ spc'[s] = "idle" \/ sweepRun'[s] = sweepRun[s]
<1> USE DEF VerifierTypeOK
<1>1. ASSUME NEW i \in Items, VerifyItem(s, i)
      PROVE  /\ UNCHANGED <<pc, kickRun, item, owner>>
             /\ \A v \in Sweepers \ {s} : spc'[v] = spc[v] /\ sweepRun'[v] = sweepRun[v]
             /\ spc[s] # "idle" /\ sweepRun'[s] = sweepRun[s]
  <2>1. UNCHANGED <<pc, kickRun, item, owner>>
    BY <1>1, VerifyItemRows DEF kickVars
  <2> QED BY <1>1, <2>1, VerifyItemMoves DEF Handled, MoveOnTo
<1>2. CASE ReadPending(s) \/ PullLive(s) \/ WalkDone(s) \/ CountCanary(s) \/ StampCanaryVerified(s)
  BY <1>2 DEF ReadPending, PullLive, WalkDone, CountCanary, StampCanaryVerified, ResetSweep,
              execVars, rowVars, kickVars
<1> QED BY <1>1, <1>2 DEF SweepStep

LEMMA DriveStep ==
    ASSUME NInv, KickAim, DriveInv, [AutomationNext]_allVars
    PROVE  DriveInv'
<1> USE DEF NInv, VInv, NightlyTypeOK
<1>0. /\ TypeOK /\ VerifierTypeOK /\ SweepShape /\ KickShape
      /\ \A w \in Workers : pc[w] # "idle" => kickRun[w] \in Runs
      /\ \A s \in Sweepers : spc[s] # "idle" => sweepRun[s] \in Runs
  BY DEF LeaseDiscipline, KickAim, SweepShape
<1>1. ASSUME UNCHANGED <<pc, kickRun, item, owner, spc, sweepRun, driver, mpc>> PROVE DriveInv'
  BY <1>1 DEF DriveInv
<1>2. ASSUME NEW r \in Runs, MaterializeStep(r) PROVE DriveInv'
  <2>1. UNCHANGED <<pc, kickRun, item, owner, spc, sweepRun>>
    <3>1. CASE \E C \in SUBSET staged[r] : InsertChunk(r, C)
      BY <3>1, InsertRest DEF kickVars, sweepVars
    <3>2. CASE ~\E C \in SUBSET staged[r] : InsertChunk(r, C)
      BY <1>2, <3>2, MaterializeQuiet DEF kickVars, rowVars, verifVars, sweepVars
    <3> QED BY <3>1, <3>2
  <2>2. /\ mpc[r] # "closed"
        /\ \A q \in Runs : mpc[q] = "closed" => mpc'[q] = "closed" /\ driver'[q] = driver[q]
        /\ driver' = driver \/ mpc'[r] = "closed"
        /\ \A q \in Runs \ {r} : mpc'[q] = mpc[q] /\ driver'[q] = driver[q]
    BY <1>2 DEF MaterializeStep, OpenRun, GateHalt, VolumeHalt, VolumePasses, Decide, InsertChunk,
       FlagContested, Complete, CloseRun, Fails
  <2>3. /\ \A w \in Workers : pc[w] # "idle" =>
              driver'[kickRun[w]] = "drain" /\ mpc'[kickRun[w]] = "closed"
        /\ \A s \in Sweepers : spc[s] # "idle" =>
              driver'[sweepRun[s]] = "sweeping" /\ mpc'[sweepRun[s]] = "closed"
    BY <1>0, <2>2 DEF DriveInv
  <2>4. \A q \in Runs : driver'[q] # "off" => mpc'[q] = "closed"
    BY <2>2 DEF DriveInv
  <2> QED BY <2>1, <2>3, <2>4 DEF DriveInv
<1>3. ASSUME NEW w \in Workers, pc[w] # "idle", pc'[w] = "idle",
             \A v \in Workers \ {w} : pc'[v] = pc[v],
             UNCHANGED <<spc, sweepRun, mpc>>,
             NEW d \in {"drain", "sweep", "done"},
             driver' = [driver EXCEPT ![kickRun[w]] = d]
      PROVE  DriveInv'
  <2>1. \A v \in Workers : pc'[v] = "idle"
    BY <1>3 DEF DriveInv
  <2>2. driver[kickRun[w]] = "drain" /\ mpc[kickRun[w]] = "closed" /\ kickRun[w] \in Runs
    BY <1>0, <1>3 DEF DriveInv
  <2>3. \A s \in Sweepers : spc[s] # "idle" => sweepRun[s] # kickRun[w]
    BY <2>2 DEF DriveInv
  <2>4. \A s \in Sweepers : spc[s] # "idle" => driver'[sweepRun[s]] = driver[sweepRun[s]]
    BY <1>0, <1>3, <2>3
  <2>5. \A q \in Runs : driver'[q] # "off" => mpc[q] = "closed"
    BY <1>3, <2>2 DEF DriveInv
  <2> QED BY <1>3, <2>1, <2>4, <2>5 DEF DriveInv, WritePCs
<1>4. ASSUME NEW w \in Workers, DriverKickReturns(w) PROVE DriveInv'
  <2>1. /\ KickDone(w) \/ NothingToLease(w)
        /\ kickRun[w] \in Runs /\ driver[kickRun[w]] = "drain"
        /\ \/ driver' = driver
           \/ driver' = [driver EXCEPT ![kickRun[w]] = "sweep"]
        /\ UNCHANGED <<verifVars, mpc>>
    BY <1>4 DEF DriverKickReturns, DrainContinues, DrainStops, nightVars
  <2>2. /\ pc[w] # "idle" /\ pc'[w] = "idle" /\ \A v \in Workers \ {w} : pc'[v] = pc[v]
    BY <2>1 DEF KickDone, NothingToLease, ResetKick, TypeOK
  <2>3. \E d \in {"drain", "sweep", "done"} : driver' = [driver EXCEPT ![kickRun[w]] = d]
    BY <2>1
  <2>4. UNCHANGED <<spc, sweepRun, mpc>>
    BY <2>1 DEF verifVars, sweepVars
  <2> QED BY <1>3, <2>2, <2>3, <2>4
<1>5. ASSUME NEW w \in Workers, DriverKickRuns(w) PROVE DriveInv'
  <2>1. WorkerStep(w) /\ pc'[w] # "idle" /\ UNCHANGED <<spc, sweepRun, driver, mpc>>
    BY <1>5 DEF DriverKickRuns, verifVars, sweepVars, nightVars
  <2>2. /\ pc[w] # "idle" /\ kickRun'[w] = kickRun[w]
        /\ \A v \in Workers \ {w} : pc'[v] = pc[v] /\ kickRun'[v] = kickRun[v]
    BY <1>0, <2>1, WorkerMoves
  <2>3. \A v \in Workers \ {w} : pc'[v] = "idle"
    BY <2>2 DEF DriveInv
  <2>4. pc'[w] \in WritePCs => owner'[item'[w]] = w
    BY <1>0, <2>1, WindowOwned DEF DriveInv
  <2> QED BY <2>1, <2>2, <2>3, <2>4 DEF DriveInv, WritePCs
<1>6. ASSUME NEW w \in Workers, NEW r \in Runs, DriverKick(w, r) PROVE DriveInv'
  <2>1. /\ driver[r] = "drain" /\ AllIdle /\ UNCHANGED <<spc, sweepRun, driver, mpc>>
        /\ pc' = [pc EXCEPT ![w] = "lease"] /\ kickRun' = [kickRun EXCEPT ![w] = r]
    BY <1>6 DEF DriverKick, StartKick, verifVars, sweepVars, nightVars
  <2>2. /\ pc'[w] = "lease" /\ kickRun'[w] = r
        /\ \A v \in Workers \ {w} : pc'[v] = "idle"
    BY <2>1 DEF AllIdle, TypeOK
  <2>3. mpc[r] = "closed"
    BY <2>1 DEF DriveInv
  <2> QED BY <2>1, <2>2, <2>3 DEF DriveInv, WritePCs
<1>7. ASSUME NEW s \in Sweepers, UNCHANGED <<pc, kickRun, item, owner, mpc>>,
             spc[s] # "idle", spc'[s] = "idle",
             \A v \in Sweepers \ {s} : spc'[v] = spc[v] /\ sweepRun'[v] = sweepRun[v],
             driver' = [driver EXCEPT ![sweepRun[s]] = "done"]
      PROVE  DriveInv'
  <2>1. /\ sweepRun[s] \in Runs /\ driver[sweepRun[s]] = "sweeping" /\ mpc[sweepRun[s]] = "closed"
    BY <1>0, <1>7 DEF DriveInv
  <2>2. \A w \in Workers : pc[w] # "idle" => driver'[kickRun[w]] = driver[kickRun[w]]
    BY <1>0, <1>7, <2>1 DEF DriveInv
  <2>3. \A v \in Sweepers \ {s} : spc[v] # "idle" => driver'[sweepRun[v]] = driver[sweepRun[v]]
    BY <1>0, <1>7, <2>1 DEF DriveInv
  <2>4. \A q \in Runs : driver'[q] # "off" => mpc[q] = "closed"
    BY <1>7, <2>1 DEF DriveInv
  <2> QED BY <1>7, <2>2, <2>3, <2>4 DEF DriveInv
<1>8. ASSUME NEW s \in Sweepers, DriverSweepRuns(s) PROVE DriveInv'
  <2>1. /\ UNCHANGED <<pc, kickRun, item, owner>>
        /\ \A v \in Sweepers \ {s} : spc'[v] = spc[v] /\ sweepRun'[v] = sweepRun[v]
        /\ spc[s] # "idle"
        /\ spc'[s] = "idle" \/ sweepRun'[s] = sweepRun[s]
    BY <1>0, <1>8, SweepAlone DEF DriverSweepRuns
  <2>2. CASE spc'[s] # "idle"
    <3>1. UNCHANGED <<driver, mpc>>
      BY <1>8, <2>2 DEF DriverSweepRuns, nightVars
    <3> QED BY <2>1, <2>2, <3>1 DEF DriveInv
  <2>3. CASE spc'[s] = "idle"
    <3>1. driver' = [driver EXCEPT ![sweepRun[s]] = "done"] /\ UNCHANGED mpc
      BY <1>8, <2>3 DEF DriverSweepRuns
    <3> QED BY <1>7, <2>1, <2>3, <3>1
  <2> QED BY <2>2, <2>3
<1>9. ASSUME NEW s \in Sweepers, NEW r \in Runs, DriverSweep(s, r) PROVE DriveInv'
  <2>1. /\ driver[r] = "sweep" /\ driver' = [driver EXCEPT ![r] = "sweeping"]
        /\ UNCHANGED <<pc, kickRun, item, mpc>> /\ reapStuckApplying(r)
        /\ spc' = [spc EXCEPT ![s] = "read"] /\ sweepRun' = [sweepRun EXCEPT ![s] = r]
    BY <1>9 DEF DriverSweep, StartSweep, kickVars
  <2>2. /\ spc'[s] = "read" /\ sweepRun'[s] = r /\ mpc[r] = "closed" /\ driver'[r] = "sweeping"
        /\ \A v \in Sweepers \ {s} : spc'[v] = spc[v] /\ sweepRun'[v] = sweepRun[v]
    BY <2>1 DEF DriveInv, VerifierTypeOK
  <2>3. /\ \A w \in Workers : pc[w] # "idle" => kickRun[w] # r /\ driver'[kickRun[w]] = driver[kickRun[w]]
        /\ \A v \in Sweepers : spc[v] # "idle" =>
              sweepRun[v] # r /\ driver'[sweepRun[v]] = driver[sweepRun[v]]
    BY <1>0, <2>1 DEF DriveInv
  <2>4. ASSUME NEW w \in Workers, pc[w] \in WritePCs PROVE owner'[item[w]] = owner[item[w]]
    <3>1. item[w] \in Items /\ RunOf[item[w]] # r
      BY <1>0, <2>3, <2>4 DEF KickShape, KickAim, WritePCs
    <3> QED BY <2>1, <3>1 DEF reapStuckApplying, Stuck
  <2>5. \A q \in Runs : driver'[q] # "off" => mpc[q] = "closed"
    BY <2>1, <2>2 DEF DriveInv
  <2> QED BY <2>1, <2>2, <2>3, <2>4, <2>5 DEF DriveInv
<1>10. ASSUME NEW r \in Runs, DriverRefused(r) \/ DriverSweepRefused(r) PROVE DriveInv'
  <2>1. /\ UNCHANGED <<pc, kickRun, item, owner, spc, sweepRun, mpc>>
        /\ \/ driver[r] = "sweep" /\ driver' = [driver EXCEPT ![r] = "done"]
           \/ /\ driver[r] = "drain" /\ AllIdle
              /\ driver' = [driver EXCEPT ![r] = "sweep"]
    BY <1>10 DEF DriverRefused, DriverSweepRefused, DrainStops, execVars, kickVars, rowVars,
                 verifVars, sweepVars
  <2>2. /\ \A w \in Workers : pc[w] # "idle" => driver'[kickRun[w]] = driver[kickRun[w]]
        /\ \A s \in Sweepers : spc[s] # "idle" => driver'[sweepRun[s]] = driver[sweepRun[s]]
    BY <1>0, <2>1 DEF DriveInv, AllIdle
  <2>3. \A q \in Runs : driver'[q] # "off" => mpc[q] = "closed"
    BY <2>1 DEF DriveInv
  <2> QED BY <2>1, <2>2, <2>3 DEF DriveInv
<1>11. ASSUME NEW r \in Runs, DriverDies(r) PROVE DriveInv'
  <2>1. driver' = [driver EXCEPT ![r] = "done"] /\ UNCHANGED mpc
    BY <1>11 DEF DriverDies
  <2>2. ASSUME NEW w \in Workers, NEW n \in {0, 1}, kickRun[w] = r, Crash(w, n), UNCHANGED verifVars
        PROVE  DriveInv'
    <3>1. /\ pc[w] # "idle" /\ pc'[w] = "idle" /\ \A v \in Workers \ {w} : pc'[v] = pc[v]
      BY <2>2 DEF Crash, ResetKick, TypeOK
    <3>2. UNCHANGED <<spc, sweepRun, mpc>> /\ driver' = [driver EXCEPT ![kickRun[w]] = "done"]
      BY <2>1, <2>2 DEF verifVars, sweepVars
    <3> QED BY <1>3, <3>1, <3>2
  <2>3. ASSUME NEW s \in Sweepers, sweepRun[s] = r, SweepDies(s) PROVE DriveInv'
    <3>1. /\ UNCHANGED <<pc, kickRun, item, owner>> /\ spc[s] # "idle" /\ spc'[s] = "idle"
          /\ \A v \in Sweepers \ {s} : spc'[v] = spc[v] /\ sweepRun'[v] = sweepRun[v]
      BY <2>3 DEF SweepDies, ResetSweep, VerifierTypeOK, kickVars, rowVars
    <3> QED BY <1>7, <2>1, <2>3, <3>1
  <2> QED BY <1>11, <2>2, <2>3 DEF DriverDies
<1>12. ASSUME \/ /\ \/ \E i \in Items : LiveChanges(i)
                    \/ TimePasses
                 /\ UNCHANGED nightVars
              \/ /\ \/ \E i \in Items : LeaseExpires(i) \/ RetryTimeComes(i)
                    \/ \E r \in Runs : EngageKillSwitch(r)
                 /\ UNCHANGED <<verifVars, nightVars>>
              \/ UNCHANGED allVars
       PROVE  UNCHANGED <<pc, kickRun, item, owner, spc, sweepRun, driver, mpc>>
  BY <1>12 DEF LiveChanges, TimePasses, GraceOver, AmsTimePasses, FenceExpires, LeaseExpires,
     RetryTimeComes, EngageKillSwitch, allVars, vars, execVars, kickVars, rowVars, verifVars,
     sweepVars, nightVars
<1> QED BY <1>1, <1>2, <1>4, <1>5, <1>6, <1>8, <1>9, <1>10, <1>11, <1>12
        DEF AutomationNext, DriverStep

LEMMA WriterStep ==
    ASSUME NInv, DriveInv, NightStep, NEW i \in Items, accepted'[i] > accepted[i]
    PROVE  /\ status[i] = "applying"
           /\ \A j \in Items \ {i} : Target(j) = Target(i) => status[j] \notin ActiveStatuses
<1> USE DEF NInv, VInv
<1>0. accepted'[i] # accepted[i]
  BY DEF TypeOK
<1>1. [VNext]_vars
  BY <1>0, MaterializeQuiet, InsertRest DEF NightStep
<1>2. PICK w \in Workers : pc[w] = "write" /\ item[w] = i
  BY <1>0, <1>1, WritesComeFrom
<1>3. owner[i] = w
  BY <1>2 DEF DriveInv, WritePCs
<1>4. status[i] = "applying"
  BY <1>3 DEF LeaseDiscipline, OwnedIffApplying
<1> QED BY <1>4 DEF OneActivePerTarget, ActiveStatuses

(* Left to itself the automation has no stalled writer of an older night:   *)
(* whenever a write is taken, its row is the one active row of the target.  *)
THEOREM AutomationWritesThrough == AutomationSpec => WriterHoldsTarget
<1> DEFINE Driven == NInv /\ KickAim /\ DriveInv
           Through == \A i \in Items : accepted'[i] > accepted[i] =>
                         /\ status[i] = "applying"
                         /\ \A j \in Items \ {i} : Target(j) = Target(i) => status[j] \notin ActiveStatuses
<1>1. NInit => KickAim /\ DriveInv
  BY DEF NInit, ExecInit, VerifInit, KickAim, DriveInv, WritePCs
<1>2. NInit => Driven
  BY <1>1, NInvInit
<1>3. Driven /\ [AutomationNext]_allVars => Driven'
  BY AutomationSteps, NInvStep, KickAimStep, DriveStep DEF NInv
<1>4. Driven /\ [AutomationNext]_allVars => [Through]_allVars
  BY AutomationSteps, WriterStep DEF NInv
<1> QED BY <1>2, <1>3, <1>4, PTL DEF AutomationSpec, WriterHoldsTarget
-----------------------------------------------------------------------------
(* Rows live the life of a correction from their insertion on.              *)

(* A chunk inserts rows that were absent, and writes nothing.               *)
LEMMA LifeInsert ==
    ASSUME NInv, NEW r \in Runs, NEW C, InsertChunk(r, C)
    PROVE  Lifecycle!Next
<1>1. UNCHANGED accepted
  BY InsertRest DEF NInv
<1>2. [i \in Items |-> Outcome(status'[i])] \in [Items -> Lifecycle!Outcomes]
  <2>1. VInv'
    BY InsertKeeps DEF NInv
  <2>2. \A i \in Items : Outcome(status'[i]) \in Lifecycle!Outcomes
    BY <2>1, OutcomesAre DEF VInv, TypeOK, Statuses, Lifecycle!Outcomes, Outcome
  <2> QED BY <2>2
<1>3. ASSUME NEW i \in Items, status'[i] # status[i]
      PROVE  Outcome(status[i]) = "absent" /\ Outcome(status'[i]) \in Lifecycle!Inserted
  <2>1. status[i] = "absent" /\ status'[i] \in {"flagged", "awaiting_batch", "queued"}
    BY <1>3, InsertRows DEF NInv, VInv
  <2> QED BY <2>1, OutcomesAre DEF Lifecycle!Inserted
<1>4. Lifecycle!Insert
  BY <1>1, <1>2, <1>3 DEF Lifecycle!Insert
<1> QED BY <1>4 DEF Lifecycle!Next

LEMMA LifeNight ==
    ASSUME NInv, SuccessTaken, NightStep
    PROVE  SuccessTaken' /\ [Lifecycle!Next]_(Lifecycle!vars)
<1>1. ASSUME NEW r \in Runs, NEW C, InsertChunk(r, C)
      PROVE  SuccessTaken' /\ [Lifecycle!Next]_(Lifecycle!vars)
  <2>1. UNCHANGED <<pc, item, answer, accepted>>
    BY <1>1, InsertRest DEF NInv, kickVars
  <2> QED BY <1>1, <2>1, LifeInsert DEF SuccessTaken
<1>2. ASSUME NEW r \in Runs, MaterializeStep(r), ~\E C \in SUBSET staged[r] : InsertChunk(r, C)
      PROVE  SuccessTaken' /\ [Lifecycle!Next]_(Lifecycle!vars)
  <2>1. UNCHANGED <<pc, item, answer, accepted, status>>
    BY <1>2, MaterializeQuiet DEF NInv, VInv, kickVars, rowVars
  <2> QED BY <2>1, LifeQuiet DEF SuccessTaken
<1>3. CASE [VNext]_vars
  BY <1>3, SuccessTakenSweeps, LifeComposed DEF NInv
<1> QED BY <1>1, <1>2, <1>3 DEF NightStep

(* Whoever drives the runs, and however their insertion is interleaved with *)
(* kicks and sweeps of other runs, the lifecycle of a correction is what    *)
(* they implement.                                                          *)
THEOREM NightsImplementLifecycle == OperatorSpec \/ AutomationSpec => RowsFollowLifecycle
<1> DEFINE Told == NInv /\ SuccessTaken
<1>1. NInit => Told /\ Lifecycle!Init
  <2>1. NInit => SuccessTaken /\ Lifecycle!Init
    BY OutcomesAre DEF NInit, ExecInit, SuccessTaken, Lifecycle!Init
  <2> QED BY <2>1, NInvInit
<1>2. Told /\ NightStep => Told' /\ [Lifecycle!Next]_(Lifecycle!vars)
  BY NInvStep, LifeNight
<1>3. Told /\ [OperatorNext]_allVars => Told' /\ [Lifecycle!Next]_(Lifecycle!vars)
  BY <1>2, OperatorSteps DEF NInv
<1>4. Told /\ [AutomationNext]_allVars => Told' /\ [Lifecycle!Next]_(Lifecycle!vars)
  BY <1>2, AutomationSteps DEF NInv
<1> QED BY <1>1, <1>3, <1>4, PTL
        DEF OperatorSpec, AutomationSpec, RowsFollowLifecycle, Lifecycle!Spec
=============================================================================
