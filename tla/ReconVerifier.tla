---------------------------- MODULE ReconVerifier ----------------------------
(***************************************************************************)
(* The tier-3 bulk verifier (server/fleet-reconciliation/verifier.ts),      *)
(* composed with the executor whose unfinished items it settles.            *)
(*                                                                         *)
(* A sweep snapshots the pending rows of a run, pulls each touched system   *)
(* once, and then walks the snapshot: by the time a row is reached, the     *)
(* row, its fence and the live system may all have moved on.  Sweeps        *)
(* overlap kicks and each other, and may die between two statements.        *)
(***************************************************************************)
EXTENDS ReconExecutor

CONSTANTS
    Sweepers,    \* concurrent verifier requests
    SweepLimit   \* rows scanned per sweep

ASSUME VerifierAssumption ==
    /\ Items \subseteq Nat
    /\ SweepLimit \in Nat \ {0}

VARIABLES
    shown,       \* items whose desired value the live system shows right now
    amsAge,      \* time since an AMS ghost was submitted: see AmsAges
    stampOpen,   \* trucks with an unresolved ams_inflight_stamps row
    escalated,   \* trucks whose stamp carries escalated_at
    verifiedRuns,\* runs with verified_at set
    \* the local state of each sweep
    spc, sweepRun,
    seen,        \* the status each row had in the snapshot; "absent" once handled
    matched,     \* items the bulk pull showed with their desired value
    goal         \* the status the current item is being moved to

sweepVars == <<spc, sweepRun, seen, matched, goal>>
stampVars == <<amsAge, stampOpen, escalated>>
verifVars == <<shown, stampVars, verifiedRuns, sweepVars>>
vars == <<execVars, verifVars>>

SweepPCs == {"idle", "read", "pull", "loop", "repair", "lift", "mark", "count", "stamp"}

(* Inside the overnight window, past it (24h), past the escalation (36h).   *)
AmsAges == {"young", "window", "late"}

(* mutant: rows whose cache transaction failed are not picked up.           *)
PendingStatuses_noEacp == {"verification_pending", "awaiting_batch"}

PendingStatuses == {"verification_pending", "external_applied_cache_pending", "awaiting_batch"}
Goals == {"none", "verified", "skipped", "flagged"}

VerifierTypeOK ==
    /\ shown \in SUBSET Items
    /\ amsAge \in [Items -> AmsAges]
    /\ stampOpen \in SUBSET Trucks
    /\ escalated \in SUBSET Trucks
    /\ verifiedRuns \in SUBSET Runs
    /\ spc \in [Sweepers -> SweepPCs]
    /\ sweepRun \in [Sweepers -> Runs \cup {NoRun}]
    /\ seen \in [Sweepers -> [Items -> PendingStatuses \cup {"absent"}]]
    /\ matched \in [Sweepers -> SUBSET Items]
    /\ goal \in [Sweepers -> Goals]

NothingSeen == [i \in Items |-> "absent"]

VerifInit ==
    /\ shown = {}
    /\ amsAge = [i \in Items |-> "young"]
    /\ escalated = {}
    /\ verifiedRuns = {}
    /\ spc = [s \in Sweepers |-> "idle"]
    /\ sweepRun = [s \in Sweepers |-> NoRun]
    /\ seen = [s \in Sweepers |-> NothingSeen]
    /\ matched = [s \in Sweepers |-> {}]
    /\ goal = [s \in Sweepers |-> "none"]

(* An AMS ghost is not the executor's to write: it is materialized as       *)
(* awaiting_batch, with its truck stamped as submitted, unless the truck    *)
(* was a ghost before: the upsert leaves a resolved stamp resolved.         *)
IsGhost(i) == SystemOf[i] = "ams" /\ ActionOf[i] = "clear"

VInit ==
    /\ ExecInit
    /\ VerifInit
    /\ runStatus = [r \in Runs |-> "completed"]
    /\ status = [i \in Items |-> IF IsGhost(i) THEN "awaiting_batch" ELSE "queued"]
    /\ stampOpen \in SUBSET {TruckOf[i] : i \in {j \in Items : IsGhost(j)}}

-----------------------------------------------------------------------------
(* Starting a sweep: guards, reap, snapshot, bulk pull.                     *)

ResetSweep(s) ==
    /\ spc' = [spc EXCEPT ![s] = "idle"]
    /\ sweepRun' = [sweepRun EXCEPT ![s] = NoRun]
    /\ seen' = [seen EXCEPT ![s] = NothingSeen]
    /\ matched' = [matched EXCEPT ![s] = {}]
    /\ goal' = [goal EXCEPT ![s] = "none"]

(* Unlike a kick, a sweep does not ask whether the run completed.           *)
StartSweep(s, r) ==
    /\ spc[s] = "idle"
    /\ RunKind[r] # "dry_run"
    /\ r \notin killed
    /\ reapStuckApplying(r)
    /\ spc' = [spc EXCEPT ![s] = "read"]
    /\ sweepRun' = [sweepRun EXCEPT ![s] = r]
    /\ UNCHANGED <<runVars, kickVars, contested, fence, mirror, accepted, crashes,
                   shown, stampVars, verifiedRuns, seen, matched, goal>>

PendingIn(r) == {i \in Items : RunOf[i] = r /\ status[i] \in PendingStatuses}

(* ORDER BY id LIMIT: the first SweepLimit rows.                            *)
FirstRows(S) == {i \in S : Cardinality({j \in S : j < i}) < SweepLimit}

ReadPending(s) ==
    LET rows == FirstRows(PendingIn(sweepRun[s]))
    IN  /\ spc[s] = "read"
        /\ seen' = [seen EXCEPT ![s] =
              [i \in Items |-> IF i \in rows THEN status[i] ELSE "absent"]]
        /\ spc' = [spc EXCEPT ![s] = IF rows = {} THEN "count" ELSE "pull"]
        /\ UNCHANGED <<execVars, shown, stampVars, verifiedRuns, sweepRun, matched, goal>>

(* One live pull per touched system; liveMatchesDesired is evaluated on it  *)
(* from here on, for the rows of the snapshot.  For a ghost "matched" means *)
(* the live row has no tech.                                                *)
PullLive(s) ==
    /\ spc[s] = "pull"
    /\ matched' = [matched EXCEPT ![s] = {i \in shown : seen[s][i] # "absent"}]
    /\ spc' = [spc EXCEPT ![s] = "loop"]
    /\ UNCHANGED <<execVars, shown, stampVars, verifiedRuns, sweepRun, seen, goal>>

-----------------------------------------------------------------------------
(* The walk over the snapshot, in id order.                                 *)

Work(s) == {i \in Items : seen[s][i] # "absent"}
IsCurrent(s, i) == i \in Work(s) /\ \A j \in Work(s) : i <= j

Handled(s, i) ==
    /\ seen' = [seen EXCEPT ![s] = [seen[s] EXCEPT ![i] = "absent"]]
    /\ spc' = [spc EXCEPT ![s] = "loop"]
    /\ goal' = [goal EXCEPT ![s] = "none"]
    /\ matched' = [matched EXCEPT ![s] = @ \ {i}]
    /\ UNCHANGED sweepRun

(* The sweep leaves the row for a later one.                                *)
LeaveForLater(s, i) ==
    /\ Handled(s, i)
    /\ UNCHANGED <<execVars, shown, stampVars, verifiedRuns>>

MoveOnTo(s, step, g) ==
    /\ spc' = [spc EXCEPT ![s] = step]
    /\ goal' = [goal EXCEPT ![s] = g]
    /\ UNCHANGED <<sweepRun, seen, matched>>

(* mutant: the row is updated by id alone.                                  *)
transition_blind(i, from, to) == status' = [status EXCEPT ![i] = to]

(* UPDATE ... WHERE id AND status = from: the loser of a race changes       *)
(* nothing.                                                                 *)
transition(i, from, to) ==
    status' = [status EXCEPT ![i] = IF @ = from THEN to ELSE @]

Landed(s, i) == seen[s][i] \in {"verification_pending", "external_applied_cache_pending"}

(* verifyLanded, live shows the desired value.  Only a Holman row whose     *)
(* cache transaction failed has its cache repaired.                         *)
LandedMatch(s, i) ==
    /\ spc[s] = "loop" /\ IsCurrent(s, i) /\ Landed(s, i)
    /\ i \in matched[s]
    /\ MoveOnTo(s, CASE seen[s][i] = "external_applied_cache_pending"
                            /\ SystemOf[i] = "holman" -> "repair"
                     [] SystemOf[i] = "wms" -> "mark"
                     [] OTHER -> "lift", "verified")
    /\ UNCHANGED <<execVars, shown, stampVars, verifiedRuns>>

(* Fails silently or puts the desired value into the cache.                 *)
repairHolmanCache(s, i) ==
    /\ spc[s] = "repair" /\ IsCurrent(s, i)
    /\ \/ UNCHANGED mirror
       \/ mirror' = [f \in Surfaces |-> IF f = SurfaceOf(i) THEN i ELSE mirror[f]]
    /\ MoveOnTo(s, "lift", goal[s])
    /\ UNCHANGED <<runVars, rowVars, kickVars, contested, fence, accepted, crashes,
                   shown, stampVars, verifiedRuns>>

(* Fails silently or lifts whatever fence stands on the item's surface.     *)
verifyFence(s, i) ==
    /\ spc[s] = "lift" /\ IsCurrent(s, i)
    /\ \/ UNCHANGED fence
       \/ fence' = [f \in Surfaces |-> IF f = SurfaceOf(i) THEN NoItem ELSE fence[f]]
    /\ MoveOnTo(s, "mark", goal[s])
    /\ UNCHANGED <<runVars, rowVars, kickVars, contested, mirror, accepted, crashes,
                   shown, stampVars, verifiedRuns>>

(* mutant: the new status is not one the schema knows.                      *)
MarkItem_applied(s, i) ==
    /\ spc[s] = "mark" /\ IsCurrent(s, i)
    /\ transition(i, seen[s][i], "applied")
    /\ Handled(s, i)
    /\ UNCHANGED <<runVars, owner, leased, attempts, beforeImage, due, appliedAt, kickVars,
                   contested, fence, mirror, accepted, crashes, shown, stampVars, verifiedRuns>>

MarkItem(s, i) ==
    /\ spc[s] = "mark" /\ IsCurrent(s, i)
    /\ transition(i, seen[s][i], goal[s])
    /\ Handled(s, i)
    /\ UNCHANGED <<runVars, owner, leased, attempts, beforeImage, due, appliedAt, kickVars,
                   contested, fence, mirror, accepted, crashes, shown, stampVars, verifiedRuns>>

(* Live does not show the value: flagged once the grace window since the    *)
(* write is over, left alone before (or when no write time is known).       *)
LandedMiss(s, i) ==
    /\ spc[s] = "loop" /\ IsCurrent(s, i) /\ Landed(s, i)
    /\ i \notin matched[s]
    /\ IF appliedAt[i] = "past"
       THEN /\ MoveOnTo(s, "mark", "flagged")
            /\ UNCHANGED <<execVars, shown, stampVars, verifiedRuns>>
       ELSE LeaveForLater(s, i)

-----------------------------------------------------------------------------
(* verifyAwaitingBatch.                                                     *)

Awaiting(s, i) ==
    /\ spc[s] = "loop" /\ IsCurrent(s, i)
    /\ seen[s][i] = "awaiting_batch"

Suppressed(s, i) ==
    /\ Awaiting(s, i)
    /\ amsAge[i] = "young" \/ (amsAge[i] = "window" /\ i \notin matched[s])
    /\ LeaveForLater(s, i)

(* The overnight batch took the ghost away: resolve the stamp, then verify. *)
BatchCleared(s, i) ==
    /\ Awaiting(s, i)
    /\ amsAge[i] # "young"
    /\ i \in matched[s]
    /\ stampOpen' = stampOpen \ {TruckOf[i]}
    /\ MoveOnTo(s, "mark", "verified")
    /\ UNCHANGED <<execVars, shown, amsAge, escalated, verifiedRuns>>

(* Past 36h and still there: ask TPMS.  No answer, or no confirm budget     *)
(* left: a later sweep.  Held again: superseded.  Vacant: escalate.         *)
Escalating(s, i) ==
    /\ Awaiting(s, i)
    /\ amsAge[i] = "late"
    /\ i \notin matched[s]

ConfirmUnavailable(s, i) == Escalating(s, i) /\ LeaveForLater(s, i)

(* mutant: a superseded ghost keeps its in-flight stamp open.               *)
ConfirmHeld_keepsStamp(s, i) ==
    /\ Escalating(s, i)
    /\ MoveOnTo(s, "mark", "skipped")
    /\ UNCHANGED <<execVars, shown, stampVars, verifiedRuns>>

ConfirmHeld(s, i) ==
    /\ Escalating(s, i)
    /\ stampOpen' = stampOpen \ {TruckOf[i]}
    /\ MoveOnTo(s, "mark", "skipped")
    /\ UNCHANGED <<execVars, shown, amsAge, escalated, verifiedRuns>>

ConfirmVacant(s, i) ==
    /\ Escalating(s, i)
    /\ escalated' = escalated \cup ({TruckOf[i]} \cap stampOpen)
    /\ MoveOnTo(s, "mark", "flagged")
    /\ UNCHANGED <<execVars, shown, amsAge, stampOpen, verifiedRuns>>

-----------------------------------------------------------------------------
(* The end of a sweep: maybeStampCanaryVerified.                            *)

WalkDone(s) ==
    /\ spc[s] = "loop"
    /\ Work(s) = {}
    /\ spc' = [spc EXCEPT ![s] = "count"]
    /\ UNCHANGED <<execVars, shown, stampVars, verifiedRuns, sweepRun, seen, matched, goal>>

RowsOf(r) == {i \in Items : RunOf[i] = r /\ status[i] # "absent"}

(* mutant: half-applied rows are not counted as still in flight.            *)
CanaryClean_noEacp(r) ==
    /\ \E i \in RowsOf(r) : status[i] = "verified"
    /\ \A i \in RowsOf(r) :
          status[i] \in {"verified", "skipped", "held", "external_applied_cache_pending"}

(* One aggregate query: no row in flight, at least one verified, and no     *)
(* failed, flagged or exhausted row.                                        *)
CanaryClean(r) ==
    /\ \E i \in RowsOf(r) : status[i] = "verified"
    /\ \A i \in RowsOf(r) : status[i] \in {"verified", "skipped", "held"}

CountCanary(s) ==
    /\ spc[s] = "count"
    /\ \/ /\ RunKind[sweepRun[s]] = "canary"
          /\ CanaryClean(sweepRun[s])
          /\ spc' = [spc EXCEPT ![s] = "stamp"]
          /\ UNCHANGED <<sweepRun, seen, matched, goal>>
       \/ /\ RunKind[sweepRun[s]] # "canary" \/ ~CanaryClean(sweepRun[s])
          /\ ResetSweep(s)
    /\ UNCHANGED <<execVars, shown, stampVars, verifiedRuns>>

StampCanaryVerified(s) ==
    /\ spc[s] = "stamp"
    /\ verifiedRuns' = verifiedRuns \cup {sweepRun[s]}
    /\ ResetSweep(s)
    /\ UNCHANGED <<execVars, shown, stampVars>>

-----------------------------------------------------------------------------
(* The environment.                                                        *)

(* The request times out, a pull or a statement throws, the process dies.   *)
SweepDies(s) ==
    /\ spc[s] # "idle"
    /\ crashes < MaxCrashes
    /\ crashes' = crashes + 1
    /\ ResetSweep(s)
    /\ UNCHANGED <<runVars, rowVars, kickVars, contested, fence, mirror, accepted,
                   shown, stampVars, verifiedRuns>>

(* A taken write lands (at once or, for Holman, later), is undone, or the   *)
(* overnight batch or another user changes the truck.                       *)
LiveChanges(i) ==
    /\ shown' = IF i \in shown THEN shown \ {i} ELSE shown \cup {i}
    /\ UNCHANGED <<execVars, stampVars, verifiedRuns, sweepVars>>

GraceOver(i) ==
    /\ appliedAt[i] = "recent"
    /\ appliedAt' = [appliedAt EXCEPT ![i] = "past"]
    /\ UNCHANGED <<runVars, status, owner, leased, attempts, beforeImage, due, kickVars,
                   contested, fence, mirror, accepted, crashes, verifVars>>

AmsTimePasses(i) ==
    /\ IsGhost(i)
    /\ amsAge[i] # "late"
    /\ amsAge' = [amsAge EXCEPT ![i] = IF @ = "young" THEN "window" ELSE "late"]
    /\ UNCHANGED <<execVars, shown, stampOpen, escalated, verifiedRuns, sweepVars>>

(* The 7-day safety TTL of a fence.                                         *)
FenceExpires(f) ==
    /\ fence[f] # NoItem
    /\ fence' = [fence EXCEPT ![f] = NoItem]
    /\ UNCHANGED <<runVars, rowVars, kickVars, contested, mirror, accepted, crashes, verifVars>>

-----------------------------------------------------------------------------
VerifyItem(s, i) ==
    \/ LandedMatch(s, i) \/ LandedMiss(s, i)
    \/ repairHolmanCache(s, i) \/ verifyFence(s, i) \/ MarkItem(s, i)
    \/ Suppressed(s, i) \/ BatchCleared(s, i)
    \/ ConfirmUnavailable(s, i) \/ ConfirmHeld(s, i) \/ ConfirmVacant(s, i)

(* One statement of a running sweep.                                       *)
SweepStep(s) ==
    \/ ReadPending(s) \/ PullLive(s)
    \/ \E i \in Items : VerifyItem(s, i)
    \/ WalkDone(s) \/ CountCanary(s) \/ StampCanaryVerified(s)

TimePasses ==
    \/ \E i \in Items : GraceOver(i) \/ AmsTimePasses(i)
    \/ \E f \in Surfaces : FenceExpires(f)

VerifierNext ==
    \/ \E s \in Sweepers, r \in Runs : StartSweep(s, r)
    \/ \E s \in Sweepers : SweepStep(s) \/ SweepDies(s)
    \/ \E i \in Items : LiveChanges(i)
    \/ TimePasses

VNext ==
    \/ Next /\ UNCHANGED verifVars
    \/ VerifierNext

VSpec == VInit /\ [][VNext]_vars

(* Fairness, besides the executor's: sweeps are requested again and run on, *)
(* time passes, and a live TPMS confirm that is retried is answered.        *)
VFairness ==
    /\ Fairness
    /\ \A r \in Runs : WF_vars(\E s \in Sweepers : StartSweep(s, r))
    /\ \A s \in Sweepers : WF_vars(SweepStep(s))
    /\ \A i \in Items :
          /\ WF_vars(GraceOver(i))
          /\ WF_vars(AmsTimePasses(i))
          /\ SF_vars(\E s \in Sweepers : ConfirmHeld(s, i) \/ ConfirmVacant(s, i))

VFairSpec == VSpec /\ VFairness

-----------------------------------------------------------------------------
(* Properties.                                                             *)

(* The columns and the local state of kicks and sweeps keep their types.    *)
VTypeOK == TypeOK /\ VerifierTypeOK

(* No correction is flagged as failed before its time: a sweep decides on   *)
(* the clock it read and marks the row statements later, when another sweep *)
(* may have reaped the row, or a kick that lost it come back with a fresh   *)
(* grace window.  A ghost is flagged past its 36 h only.                    *)
FlagsAreLate ==
    [][\A i \in Items : status'[i] = "flagged" =>
          /\ status[i] = "awaiting_batch" => amsAge[i] = "late"
          /\ status[i] \in {"verification_pending", "external_applied_cache_pending"}
                => appliedAt[i] = "past"]_vars

(* Overlapping sweeps, and late kicks, never move an item out of a terminal *)
(* status: every transition is locked on the status that was read.          *)
TerminalIsFinal ==
    [][\A i \in Items : status[i] \in Terminal => status'[i] = status[i]]_vars

(* A row that waits for verification has a write time, whichever way it got *)
(* there (commit, failed cache transaction, reaper); without one verifyLanded *)
(* would restart the grace window at every sweep and never flag the row.    *)
LandedHasClock ==
    \A i \in Items :
       status[i] \in {"verification_pending", "external_applied_cache_pending"}
          => appliedAt[i] # "never"

(* The stamp of an AMS ghost agrees with its row although the two are       *)
(* separate statements of possibly racing sweeps: a verified or superseded  *)
(* ghost has no open stamp, and a flagged one is escalated or resolved.     *)
GhostStampAgrees ==
    \A i \in Items : IsGhost(i) =>
       /\ status[i] \in {"verified", "skipped"} => TruckOf[i] \notin stampOpen
       /\ status[i] = "flagged" => TruckOf[i] \in escalated \/ TruckOf[i] \notin stampOpen

(* A run with verified_at - the key to a backfill past the volume gate - is *)
(* settled and clean, and stays so: the counting query and the stamp are    *)
(* two statements, with kicks and sweeps of the same run in between.        *)
CanaryStampedClean ==
    \A r \in verifiedRuns :
       /\ \E i \in Items : RunOf[i] = r /\ status[i] = "verified"
       /\ \A i \in Items : RunOf[i] = r =>
             status[i] \in {"absent", "verified", "skipped", "held"}

(* With kicks and sweeps repeated, every item settles in spite of stalls,   *)
(* of rows lost to the reaper and of a live system that keeps changing,     *)
(* unless the run is killed.                                                *)
EveryItemSettles ==
    \A i \in Items : <>(status[i] \in Terminal \/ RunOf[i] \in killed)
=============================================================================
