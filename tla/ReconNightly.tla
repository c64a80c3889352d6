---------------------------- MODULE ReconNightly -----------------------------
(***************************************************************************)
(* How runs come to be and who drives them: the materializer                *)
(* (server/fleet-reconciliation/materializer.ts), the unique indexes of     *)
(* reconciliation_items (shared/schema.ts) and the nightly automation       *)
(* (server/fleet-scope-routes.ts), composed with the executor and the       *)
(* verifier.                                                                *)
(*                                                                         *)
(* A run is opened, gated, and inserted chunk by chunk while kicks and      *)
(* sweeps of other runs go on.  What the decision stream proposes is an     *)
(* input: any of the run's possible items that live does not show already.  *)
(***************************************************************************)
EXTENDS ReconVerifier

CONSTANTS
    CanaryOf,     \* Runs -> the canary_run_id a run was opened with, or NoRun
    Approved,     \* runs opened with g2Exempt, an approver and a reason
    Ceiling       \* the volume ceiling of G2

ActiveStatuses ==
    {"queued", "applying", "external_applied_cache_pending", "retry_scheduled", "awaiting_batch"}

(* {system, truck, field}: the key of activeTargetUq.                       *)
Target(i) == <<SystemOf[i], TruckOf[i], ActionOf[i] = "cost_center">>

(* A run's decision stream has one leg per target, and the table is finite. *)
ASSUME NightlyAssumption ==
    /\ IsFiniteSet(Items)
    /\ CanaryOf \in [Runs -> Runs \cup {NoRun}]
    /\ Approved \subseteq Runs
    /\ Ceiling \in Nat
    /\ \A i, j \in Items : (RunOf[i] = RunOf[j] /\ Target(i) = Target(j)) => i = j

VARIABLES
    mpc,         \* progress of each run's materialization
    staged,      \* items still to be inserted
    flagLegs,    \* staged items whose decision is a flag, not a write
    holds,       \* trucks the decision stream held as contested, not flagged yet
    stampRows,   \* trucks with an ams_inflight_stamps row, resolved or not
    driver       \* the nightly automation of each run

nightVars == <<mpc, staged, flagLegs, holds, stampRows, driver>>
allVars == <<vars, nightVars>>

MaterializePCs == {"unopened", "decide", "guard", "insert", "closed"}
DriverPCs == {"off", "drain", "sweep", "sweeping", "done"}

NightlyTypeOK ==
    /\ mpc \in [Runs -> MaterializePCs]
    /\ staged \in [Runs -> SUBSET Items]
    /\ flagLegs \in [Runs -> SUBSET Items]
    /\ holds \in [Runs -> SUBSET Trucks]
    /\ stampRows \in SUBSET Trucks
    /\ driver \in [Runs -> DriverPCs]

NInit ==
    /\ ExecInit
    /\ VerifInit
    /\ runStatus = [r \in Runs |-> "running"]
    /\ status = [i \in Items |-> "absent"]
    /\ stampOpen = {}
    /\ mpc = [r \in Runs |-> "unopened"]
    /\ staged = [r \in Runs |-> {}]
    /\ flagLegs = [r \in Runs |-> {}]
    /\ holds = [r \in Runs |-> {}]
    /\ stampRows = {}
    /\ driver = [r \in Runs |-> "off"]

ItemsOf(r) == {i \in Items : RunOf[i] = r}

-----------------------------------------------------------------------------
(* materialize.                                                            *)

NoRowChanges ==
    UNCHANGED <<killed, rowVars, kickVars, contested, fence, mirror, accepted, crashes, verifVars>>

OpenRun(r) ==
    /\ mpc[r] = "unopened"
    /\ mpc' = [mpc EXCEPT ![r] = "decide"]
    /\ UNCHANGED <<runStatus, staged, flagLegs, holds, stampRows, driver>>
    /\ NoRowChanges

(* G0 or G1 fails: halted before anything is pulled.                        *)
GateHalt(r) ==
    /\ mpc[r] = "decide"
    /\ runStatus' = [runStatus EXCEPT ![r] = "halted"]
    /\ mpc' = [mpc EXCEPT ![r] = "closed"]
    /\ UNCHANGED <<staged, flagLegs, holds, stampRows, driver>>
    /\ NoRowChanges

(* The live pulls and the decision stream: S are the legs that need a row,  *)
(* F those of them that are only flagged; a contested truck K has no legs,  *)
(* and only a flag may ask for what live shows (a truck AMS does not list). *)
Decide(r, S, F, K) ==
    /\ mpc[r] = "decide"
    /\ F \subseteq S
    /\ S \subseteq ItemsOf(r) /\ (S \ F) \cap shown = {}
    /\ \A i \in S : TruckOf[i] \notin K
    /\ holds' = [holds EXCEPT ![r] = K]
    /\ staged' = [staged EXCEPT ![r] = S]
    /\ flagLegs' = [flagLegs EXCEPT ![r] = F]
    /\ mpc' = [mpc EXCEPT ![r] = "guard"]
    /\ UNCHANGED <<runStatus, stampRows, driver>>
    /\ NoRowChanges

(* Writes the backstop itself proposes; a ghost waits for its batch.        *)
Proposed(r) == {i \in staged[r] \ flagLegs[r] : ~IsGhost(i)}

(* mutant: the canary's verified_at is not looked at.                       *)
isG2BypassAuthorized_anyCanary(r) ==
    /\ RunKind[r] = "backfill"
    /\ r \in Approved
    /\ CanaryOf[r] # NoRun
    /\ RunKind[CanaryOf[r]] = "canary"

isG2BypassAuthorized(r) ==
    /\ RunKind[r] = "backfill"
    /\ r \in Approved
    /\ CanaryOf[r] # NoRun
    /\ RunKind[CanaryOf[r]] = "canary"
    /\ CanaryOf[r] \in verifiedRuns

VolumeHalt(r) ==
    /\ mpc[r] = "guard"
    /\ Cardinality(Proposed(r)) > Ceiling
    /\ ~isG2BypassAuthorized(r)
    /\ runStatus' = [runStatus EXCEPT ![r] = "halted"]
    /\ mpc' = [mpc EXCEPT ![r] = "closed"]
    /\ staged' = [staged EXCEPT ![r] = {}]
    /\ flagLegs' = [flagLegs EXCEPT ![r] = {}]
    /\ holds' = [holds EXCEPT ![r] = {}]
    /\ UNCHANGED <<stampRows, driver>>
    /\ NoRowChanges

VolumePasses(r) ==
    /\ mpc[r] = "guard"
    /\ Cardinality(Proposed(r)) <= Ceiling \/ isG2BypassAuthorized(r)
    /\ mpc' = [mpc EXCEPT ![r] = "insert"]
    /\ UNCHANGED <<runStatus, staged, flagLegs, holds, stampRows, driver>>
    /\ NoRowChanges

(* mutant: rows that wait for a retry do not hold their target.             *)
Conflicts_noRetry(i) ==
    \E j \in Items : /\ j # i /\ Target(j) = Target(i)
                     /\ status[j] \in ActiveStatuses \ {"retry_scheduled"}

(* activeTargetUq (which implies activeIdempUq): another active row has the *)
(* target.                                                                  *)
Conflicts(i) ==
    \E j \in Items : j # i /\ Target(j) = Target(i) /\ status[j] \in ActiveStatuses

(* One chunk, one transaction: the rows that conflict are dropped silently, *)
(* and the trucks of the inserted ghosts are stamped.  An existing stamp    *)
(* row keeps its submitted_to_ams_at and its resolved_at.                   *)
InsertChunk(r, C) ==
    LET inserted == {i \in C : i \in flagLegs[r] \/ ~Conflicts(i)}
        ghosts == {i \in inserted \ flagLegs[r] : IsGhost(i)}
        trucks == {TruckOf[i] : i \in ghosts}
    IN  /\ mpc[r] = "insert"
        /\ C # {} /\ C \subseteq staged[r]
        /\ status' = [i \in Items |->
              IF i \notin inserted THEN status[i]
              ELSE IF i \in flagLegs[r] THEN "flagged"
              ELSE IF i \in ghosts THEN "awaiting_batch" ELSE "queued"]
        /\ stampOpen' = stampOpen \cup (trucks \ stampRows)
        /\ stampRows' = stampRows \cup trucks
        /\ amsAge' = [i \in Items |->
              IF i \in ghosts /\ TruckOf[i] \notin stampOpen THEN "young" ELSE amsAge[i]]
        /\ staged' = [staged EXCEPT ![r] = @ \ C]
        /\ UNCHANGED <<runVars, owner, leased, attempts, beforeImage, due, appliedAt,
                       kickVars, contested, fence, mirror, accepted, crashes,
                       shown, escalated, verifiedRuns, sweepVars, mpc, flagLegs, holds, driver>>

(* After the items, the contested flags, one upsert each.                   *)
FlagContested(r, t) ==
    /\ mpc[r] = "insert" /\ staged[r] = {}
    /\ t \in holds[r]
    /\ contested' = contested \cup {t}
    /\ holds' = [holds EXCEPT ![r] = @ \ {t}]
    /\ UNCHANGED <<runVars, rowVars, kickVars, fence, mirror, accepted, crashes, verifVars,
                   mpc, staged, flagLegs, stampRows, driver>>

CloseRun(r, st) ==
    /\ runStatus' = [runStatus EXCEPT ![r] = st]
    /\ mpc' = [mpc EXCEPT ![r] = "closed"]
    /\ staged' = [staged EXCEPT ![r] = {}]
    /\ flagLegs' = [flagLegs EXCEPT ![r] = {}]
    /\ holds' = [holds EXCEPT ![r] = {}]
    /\ UNCHANGED stampRows
    /\ NoRowChanges

(* Only the nightly scheduler's own run is driven on, if auto-apply is on.  *)
Complete(r, autoApply) ==
    /\ mpc[r] = "insert"
    /\ staged[r] = {} /\ holds[r] = {}
    /\ CloseRun(r, "completed")
    /\ driver' = [driver EXCEPT ![r] =
                     IF RunKind[r] = "nightly" /\ autoApply THEN "drain" ELSE "off"]

(* A pull or a statement throws and finishFailed marks the run; the chunks  *)
(* inserted so far stay.                                                    *)
Fails(r) ==
    /\ mpc[r] \in {"decide", "guard", "insert"}
    /\ CloseRun(r, "failed")
    /\ UNCHANGED driver

MaterializeStep(r) ==
    \/ OpenRun(r) \/ GateHalt(r)
    \/ \E S, F \in SUBSET ItemsOf(r), K \in SUBSET Trucks : Decide(r, S, F, K)
    \/ VolumeHalt(r) \/ VolumePasses(r)
    \/ \E C \in SUBSET staged[r] : InsertChunk(r, C)
    \/ \E t \in Trucks : FlagContested(r, t)
    \/ \E autoApply \in BOOLEAN : Complete(r, autoApply)
    \/ Fails(r)

-----------------------------------------------------------------------------
(* Operators: anybody with the developer role kicks and verifies any run    *)
(* that exists.                                                             *)
Exists(r) == mpc[r] # "unopened"

OperatorNext ==
    \/ VNext /\ UNCHANGED nightVars
       /\ \A s \in Sweepers : (spc[s] = "idle" /\ spc'[s] # "idle") => Exists(sweepRun'[s])
    \/ \E r \in Runs : MaterializeStep(r)

OperatorSpec == NInit /\ [][OperatorNext]_allVars

-----------------------------------------------------------------------------
(* The nightly automation alone: after its materialization, drain the new   *)
(* run kick by kick, then sweep it once.  One worker and one sweeper belong *)
(* to the scheduler.                                                        *)

Actionable(r) ==
    {i \in ItemsOf(r) :
       \/ status[i] \in {"queued", "retry_scheduled"}
       \/ status[i] = "applying" /\ i \notin leased /\ beforeImage[i] = "none"}

AllIdle == \A w \in Workers : pc[w] = "idle"

DriverKick(w, r) ==
    /\ driver[r] = "drain" /\ AllIdle
    /\ StartKick(w, r)
    /\ UNCHANGED <<verifVars, nightVars>>

(* The drain goes on after a kick that did something and left something.    *)
DrainContinues(r) ==
    /\ UNCHANGED <<verifVars, nightVars>>
    /\ Actionable(r) # {}

DrainStops(r) ==
    /\ driver' = [driver EXCEPT ![r] = "sweep"]
    /\ UNCHANGED <<verifVars, mpc, staged, flagLegs, holds, stampRows>>

(* Kicks return: drained, no progress, or one of the caps ends the drain.   *)
DriverKickReturns(w) ==
    \E r \in Runs :
       /\ kickRun[w] = r /\ driver[r] = "drain"
       /\ \/ KickDone(w) /\ (DrainContinues(r) \/ DrainStops(r))
          \/ NothingToLease(w) /\ DrainStops(r)

(* A killed run is refused: nothing leased, nothing processed.              *)
DriverRefused(r) ==
    /\ driver[r] = "drain" /\ AllIdle
    /\ ~Kickable(r)
    /\ DrainStops(r)
    /\ UNCHANGED execVars

DriverKickRuns(w) ==
    /\ WorkerStep(w)
    /\ pc'[w] # "idle"
    /\ UNCHANGED <<verifVars, nightVars>>

DriverSweep(s, r) ==
    /\ driver[r] = "sweep"
    /\ StartSweep(s, r)
    /\ driver' = [driver EXCEPT ![r] = "sweeping"]
    /\ UNCHANGED <<mpc, staged, flagLegs, holds, stampRows>>

DriverSweepRuns(s) ==
    /\ SweepStep(s)
    /\ \/ spc'[s] # "idle" /\ UNCHANGED nightVars
       \/ /\ spc'[s] = "idle"
          /\ driver' = [driver EXCEPT ![sweepRun[s]] = "done"]
          /\ UNCHANGED <<mpc, staged, flagLegs, holds, stampRows>>

DriverSweepRefused(r) ==
    /\ driver[r] = "sweep" /\ r \in killed
    /\ driver' = [driver EXCEPT ![r] = "done"]
    /\ UNCHANGED <<execVars, verifVars, mpc, staged, flagLegs, holds, stampRows>>

(* The Node process dies, and the drain or the sweep with it.               *)
DriverDies(r) ==
    /\ driver[r] \in {"drain", "sweep", "sweeping"}
    /\ \/ \E w \in Workers, n \in {0, 1} : kickRun[w] = r /\ Crash(w, n) /\ UNCHANGED verifVars
       \/ \E s \in Sweepers : sweepRun[s] = r /\ SweepDies(s)
    /\ driver' = [driver EXCEPT ![r] = "done"]
    /\ UNCHANGED <<mpc, staged, flagLegs, holds, stampRows>>

DriverStep ==
    \/ \E w \in Workers : DriverKickReturns(w) \/ DriverKickRuns(w)
    \/ \E w \in Workers, r \in Runs : DriverKick(w, r)
    \/ \E s \in Sweepers : DriverSweepRuns(s)
    \/ \E s \in Sweepers, r \in Runs : DriverSweep(s, r)
    \/ \E r \in Runs : DriverRefused(r) \/ DriverSweepRefused(r)

AutomationNext ==
    \/ \E r \in Runs : MaterializeStep(r)
    \/ DriverStep
    \/ \E r \in Runs : DriverDies(r)
    \/ /\ \/ \E i \in Items : LiveChanges(i)
          \/ TimePasses
       /\ UNCHANGED nightVars
    \/ /\ \/ \E i \in Items : LeaseExpires(i) \/ RetryTimeComes(i)
          \/ \E r \in Runs : EngageKillSwitch(r)
       /\ UNCHANGED <<verifVars, nightVars>>

AutomationSpec == NInit /\ [][AutomationNext]_allVars

-----------------------------------------------------------------------------
(* Properties.                                                             *)

NTypeOK == VTypeOK /\ NightlyTypeOK

(* No update of a kick, a reaper or a sweep moves a row back among the      *)
(* active ones while another row has its target: the partial unique index   *)
(* never raises, in any interleaving with the insertion of other runs.      *)
OneActivePerTarget ==
    \A i, j \in Items :
       (status[i] \in ActiveStatuses /\ status[j] \in ActiveStatuses /\ Target(i) = Target(j))
          => i = j

(* "Execute nothing": a run that was halted, failed part-way through its    *)
(* insertion, or is still being inserted has had no write taken, although   *)
(* its first chunks are in the table and anybody may kick it.               *)
OnlyCompletedRunsWrite ==
    \A i \in Items : accepted[i] > 0 => runStatus[RunOf[i]] = "completed"

(* More queued writes than the ceiling come only from an approved backfill  *)
(* behind a canary whose rows all settled cleanly.                          *)
RowsWritten(r) == {i \in ItemsOf(r) : ~IsGhost(i) /\ status[i] \notin {"absent", "flagged"}}

VolumeGuarded ==
    \A r \in Runs : Cardinality(RowsWritten(r)) > Ceiling =>
       /\ RunKind[r] = "backfill" /\ r \in Approved
       /\ CanaryOf[r] \in verifiedRuns
       /\ \E i \in ItemsOf(CanaryOf[r]) : status[i] = "verified"

(* Left to itself the nightly automation has no stalled writer of an older  *)
(* night: whenever a downstream system takes a write, the row behind it is  *)
(* still the one active row of its target, so corrections of one target are *)
(* applied in the order in which they were queued.                          *)
WriterHoldsTarget ==
    [][\A i \in Items : accepted'[i] > accepted[i] =>
          /\ status[i] = "applying"
          /\ \A j \in Items \ {i} : Target(j) = Target(i) => status[j] \notin ActiveStatuses]_allVars
=============================================================================
