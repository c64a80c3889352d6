---------------------------- MODULE ReconExecutor ----------------------------
(***************************************************************************)
(* The tier-3 reconciliation executor (server/fleet-reconciliation/        *)
(* executor.ts).  A materialized run is a set of reconciliation_items, each *)
(* one correction to apply to one downstream system (WMS, AMS, Holman).     *)
(* Kicks - the developer's "Apply" request or one turn of the nightly       *)
(* drain - lease a batch of rows and push every row through processItem,    *)
(* one awaited statement at a time.  Several kicks may overlap, stall for   *)
(* longer than their lease, or die between any two statements; the reaper   *)
(* (run by every kick and every verifier sweep) rescues what they leave.    *)
(*                                                                         *)
(* Grain of atomicity: one SQL statement, one transaction or one external   *)
(* call per step; the reads of W1 (lifecycle hold, authority, downstream    *)
(* state) are one step whose answers are inputs.  Time is abstracted to     *)
(* "the lease is still running", "the retry time has come" and "the grace   *)
(* window since the external write is over", each ended by an action of     *)
(* its own, so that a stall of any length is a behaviour of the model.      *)
(***************************************************************************)
EXTENDS Naturals, FiniteSets

CONSTANTS
    Items,        \* reconciliation_items ids
    Runs,         \* reconciliation_runs ids
    Trucks,       \* canonical truck numbers
    Workers,      \* lease owners: one per kick request or nightly drain
    RunOf,        \* Items -> Runs, the run that materialized the item
    RunKind,      \* Runs -> Kinds
    SystemOf,     \* Items -> Systems
    ActionOf,     \* Items -> Actions
    TruckOf,      \* Items -> Trucks
    MaxAttempts,  \* TRANSIENT_MAX_ATTEMPTS
    BatchSize,    \* the clamped batch size of a kick
    MaxCrashes,   \* bound: kicks that die part-way in one behaviour
    NoOwner, NoItem, NoRun

Systems == {"wms", "ams", "holman"}
Actions == {"assign", "clear", "cost_center"}
Kinds == {"dry_run", "canary", "nightly", "backfill"}
RunStatuses == {"running", "completed", "halted", "failed"}

(* The statuses of a reconciliation_items row; "absent": not inserted yet.  *)
Statuses ==
    {"absent", "queued", "applying", "external_applied_cache_pending",
     "retry_scheduled", "awaiting_batch", "verification_pending", "verified",
     "skipped", "held", "flagged", "failed", "exhausted"}

(* The locally cached assignment surfaces, the ones that carry fences.      *)
FenceSystems == {"holman", "ams"}
Surfaces == FenceSystems \X Trucks
SurfaceOf(i) == <<SystemOf[i], TruckOf[i]>>

Terminal == {"verified", "skipped", "held", "flagged", "failed", "exhausted"}

ASSUME ConstantsAssumption ==
    /\ RunOf \in [Items -> Runs]
    /\ RunKind \in [Runs -> Kinds]
    /\ SystemOf \in [Items -> Systems]
    /\ ActionOf \in [Items -> Actions]
    /\ TruckOf \in [Items -> Trucks]
    /\ MaxAttempts \in Nat \ {0}
    /\ BatchSize \in Nat \ {0}
    /\ MaxCrashes \in Nat
    /\ NoOwner \notin Workers
    /\ NoItem \notin Items
    /\ NoRun \notin Runs

VARIABLES
    \* reconciliation_runs
    runStatus,    \* status of each run
    killed,       \* runs whose kill_switch is set
    \* reconciliation_items, one function per column
    status,
    owner,        \* lease_owner
    leased,       \* items whose lease_until lies in the future
    attempts,
    beforeImage,  \* before_image_id, see BeforeImages
    due,          \* items whose retry_after_at / next_attempt_at has come
    appliedAt,    \* external_applied_at: never, recent, or past the grace window
    \* the local state of each worker's current kick
    pc, kickRun, todo, item, throttled, answer,
    \* the rest
    contested,    \* trucks with an open contested flag
    fence,        \* per surface, the item that stamped its active write-fence
    mirror,       \* per surface, the item whose value the local cache was given
    accepted,     \* history: external writes a downstream system took, per item
    crashes       \* kicks that have died so far

runVars == <<runStatus, killed>>
rowVars == <<status, owner, leased, attempts, beforeImage, due, appliedAt>>
kickVars == <<pc, kickRun, todo, item, throttled, answer>>
execVars == <<runVars, rowVars, kickVars, contested, fence, mirror, accepted, crashes>>

(* "none" is a NULL before_image_id; a stamped row is "current" when its    *)
(* present lease stamped it and "stale" when an earlier lease did (the      *)
(* column holds a number in both cases).                                    *)
BeforeImages == {"none", "current", "stale"}

WritePCs == {"write", "settle", "persist"}
PCs == {"idle", "lease", "loop", "renew", "stamp"} \cup WritePCs

Answers == {"none", "success", "skipped", "throttle", "auth", "data", "throw"}
Refusals == {"skipped", "throttle", "auth"}

TypeOK ==
    /\ runStatus \in [Runs -> RunStatuses]
    /\ killed \in SUBSET Runs
    /\ status \in [Items -> Statuses]
    /\ owner \in [Items -> Workers \cup {NoOwner}]
    /\ leased \in SUBSET Items
    /\ attempts \in [Items -> 0..MaxAttempts]
    /\ beforeImage \in [Items -> BeforeImages]
    /\ due \in SUBSET Items
    /\ appliedAt \in [Items -> {"never", "recent", "past"}]
    /\ pc \in [Workers -> PCs]
    /\ kickRun \in [Workers -> Runs \cup {NoRun}]
    /\ todo \in [Workers -> SUBSET Items]
    /\ item \in [Workers -> Items \cup {NoItem}]
    /\ throttled \in [Workers -> SUBSET Systems]
    /\ answer \in [Workers -> Answers]
    /\ contested \in SUBSET Trucks
    /\ fence \in [Surfaces -> Items \cup {NoItem}]
    /\ mirror \in [Surfaces -> Items \cup {NoItem}]
    /\ accepted \in [Items -> Nat]
    /\ crashes \in 0..MaxCrashes

(* Nothing leased, nothing written, every worker between kicks.             *)
ExecInit ==
    /\ killed = {}
    /\ owner = [i \in Items |-> NoOwner]
    /\ leased = {}
    /\ attempts = [i \in Items |-> 0]
    /\ beforeImage = [i \in Items |-> "none"]
    /\ due = Items
    /\ appliedAt = [i \in Items |-> "never"]
    /\ pc = [w \in Workers |-> "idle"]
    /\ kickRun = [w \in Workers |-> NoRun]
    /\ todo = [w \in Workers |-> {}]
    /\ item = [w \in Workers |-> NoItem]
    /\ throttled = [w \in Workers |-> {}]
    /\ answer = [w \in Workers |-> "none"]
    /\ contested = {}
    /\ fence = [f \in Surfaces |-> NoItem]
    /\ mirror = [f \in Surfaces |-> NoItem]
    /\ accepted = [i \in Items |-> 0]
    /\ crashes = 0

(* Completed runs with their items queued, the state a kick finds.          *)
Init ==
    /\ ExecInit
    /\ runStatus = [r \in Runs |-> "completed"]
    /\ status = [i \in Items |-> "queued"]

-----------------------------------------------------------------------------
(* Row updates.                                                            *)

(* mutant: the update names the row only, not its lease owner.              *)
Owns_anyOwner(w, i) == TRUE

(* WHERE id = i AND lease_owner = w: finalize, releaseToRetry, the cache    *)
(* transaction and the cache-pending persist all carry it, and when it      *)
(* matches no row they change nothing.                                      *)
Owns(w, i) == owner[i] = w

(* mutant: renew and stamp test the status but not the owner.               *)
Holds_anyOwner(w, i) == status[i] = "applying"

(* ... AND status = 'applying': the renew and the before-image stamp.       *)
Holds(w, i) == owner[i] = w /\ status[i] = "applying"

(* mutant: the status moves on and the lease owner stays.                   *)
Release_keepsOwner(i, st) ==
    /\ status' = [status EXCEPT ![i] = st]
    /\ leased' = leased \ {i}
    /\ UNCHANGED owner

(* The row leaves its lease for status st.                                  *)
Release(i, st) ==
    /\ status' = [status EXCEPT ![i] = st]
    /\ owner' = [owner EXCEPT ![i] = NoOwner]
    /\ leased' = leased \ {i}

finalize(w, i, st) ==
    \/ /\ Owns(w, i)
       /\ Release(i, st)
       /\ UNCHANGED <<attempts, beforeImage, due, appliedAt>>
    \/ ~Owns(w, i) /\ UNCHANGED rowVars

(* Exhausted at the ceiling of attempts, else scheduled for a later kick.   *)
releaseToRetry(w, i) ==
    \/ attempts[i] >= MaxAttempts /\ finalize(w, i, "exhausted")
    \/ /\ attempts[i] < MaxAttempts
       /\ \/ /\ Owns(w, i)
             /\ Release(i, "retry_scheduled")
             /\ due' = due \ {i}
             /\ UNCHANGED <<attempts, beforeImage, appliedAt>>
          \/ ~Owns(w, i) /\ UNCHANGED rowVars

(* mutant: a landed write is settled to the retired status 'applied'.       *)
markApplied_retired(w, i, st) ==
    \/ /\ Owns(w, i)
       /\ Release(i, "applied")
       /\ appliedAt' = [appliedAt EXCEPT ![i] = "recent"]
       /\ UNCHANGED <<attempts, beforeImage, due>>
    \/ ~Owns(w, i) /\ UNCHANGED rowVars

(* The write landed: status st and external_applied_at.                     *)
markApplied(w, i, st) ==
    \/ /\ Owns(w, i)
       /\ Release(i, st)
       /\ appliedAt' = [appliedAt EXCEPT ![i] = "recent"]
       /\ UNCHANGED <<attempts, beforeImage, due>>
    \/ ~Owns(w, i) /\ UNCHANGED rowVars

-----------------------------------------------------------------------------
(* A kick: guard, reap, lease.                                             *)

ResetKick(w) ==
    /\ pc' = [pc EXCEPT ![w] = "idle"]
    /\ kickRun' = [kickRun EXCEPT ![w] = NoRun]
    /\ todo' = [todo EXCEPT ![w] = {}]
    /\ item' = [item EXCEPT ![w] = NoItem]
    /\ throttled' = [throttled EXCEPT ![w] = {}]
    /\ answer' = [answer EXCEPT ![w] = "none"]

(* mutant: a run is kicked while it is inserted, or after it failed.        *)
Kickable_anyStatus(r) ==
    /\ RunKind[r] # "dry_run"
    /\ r \notin killed

(* A dry run is a report, a killed run is halted, and only a run whose      *)
(* materialization completed has work to hand out.                          *)
Kickable(r) ==
    /\ RunKind[r] # "dry_run"
    /\ r \notin killed
    /\ runStatus[r] = "completed"

(* Leases that ran out with a before-image: the write may have gone out.    *)
Stuck(r) ==
    {i \in Items \ leased : /\ RunOf[i] = r
                            /\ status[i] = "applying"
                            /\ beforeImage[i] # "none"}

(* mutant: the reaper does not set external_applied_at.                     *)
reapStuckApplying_noClock(r) ==
    /\ status' = [i \in Items |->
          IF i \in Stuck(r) THEN "external_applied_cache_pending" ELSE status[i]]
    /\ owner' = [i \in Items |-> IF i \in Stuck(r) THEN NoOwner ELSE owner[i]]
    /\ UNCHANGED <<leased, attempts, beforeImage, due, appliedAt>>

reapStuckApplying(r) ==
    /\ status' = [i \in Items |->
          IF i \in Stuck(r) THEN "external_applied_cache_pending" ELSE status[i]]
    /\ owner' = [i \in Items |-> IF i \in Stuck(r) THEN NoOwner ELSE owner[i]]
    /\ appliedAt' = [i \in Items |->
          IF i \in Stuck(r) /\ appliedAt[i] = "never" THEN "recent" ELSE appliedAt[i]]
    /\ UNCHANGED <<leased, attempts, beforeImage, due>>

StartKick(w, r) ==
    /\ pc[w] = "idle"
    /\ Kickable(r)
    /\ reapStuckApplying(r)
    /\ pc' = [pc EXCEPT ![w] = "lease"]
    /\ kickRun' = [kickRun EXCEPT ![w] = r]
    /\ UNCHANGED <<runVars, todo, item, throttled, answer, contested, fence, mirror, accepted, crashes>>

(* mutant: an expired lease is reclaimed whether or not a before-image      *)
(* says that the write may have gone out.                                   *)
Leasable_anyExpired(r) ==
    {i \in due : /\ RunOf[i] = r
                 /\ \/ status[i] \in {"queued", "retry_scheduled"}
                    \/ status[i] = "applying" /\ i \notin leased}

Leasable(r) ==
    {i \in due : /\ RunOf[i] = r
                 /\ \/ status[i] \in {"queued", "retry_scheduled"}
                    \/ /\ status[i] = "applying"
                       /\ i \notin leased
                       /\ beforeImage[i] = "none"}

(* One statement leases the batch (FOR UPDATE SKIP LOCKED: rows another     *)
(* statement has locked are left out, so any small enough set may result).  *)
(* attempts only meets the test ">= MaxAttempts", so it saturates there;    *)
(* before_image_id is not cleared.                                          *)
leaseBatch(w, S) ==
    /\ pc[w] = "lease"
    /\ S # {}
    /\ S \subseteq Leasable(kickRun[w])
    /\ Cardinality(S) <= BatchSize
    /\ status' = [i \in Items |-> IF i \in S THEN "applying" ELSE status[i]]
    /\ owner' = [i \in Items |-> IF i \in S THEN w ELSE owner[i]]
    /\ leased' = leased \cup S
    /\ attempts' = [i \in Items |->
          IF i \in S /\ attempts[i] < MaxAttempts THEN attempts[i] + 1 ELSE attempts[i]]
    /\ beforeImage' = [i \in Items |->
          IF i \in S /\ beforeImage[i] # "none" THEN "stale" ELSE beforeImage[i]]
    /\ pc' = [pc EXCEPT ![w] = "loop"]
    /\ todo' = [todo EXCEPT ![w] = S]
    /\ UNCHANGED <<runVars, due, appliedAt, kickRun, item, throttled, answer,
                   contested, fence, mirror, accepted, crashes>>

NothingToLease(w) ==
    /\ pc[w] = "lease"
    /\ Leasable(kickRun[w]) = {}
    /\ ResetKick(w)
    /\ UNCHANGED <<runVars, rowVars, contested, fence, mirror, accepted, crashes>>

KickDone(w) ==
    /\ pc[w] = "loop"
    /\ todo[w] = {}
    /\ ResetKick(w)
    /\ UNCHANGED <<runVars, rowVars, contested, fence, mirror, accepted, crashes>>

-----------------------------------------------------------------------------
(* processItem, up to the external write.                                  *)

(* The kick is done with item i without having started on its write.        *)
DropFromTodo(w, i) ==
    /\ todo' = [todo EXCEPT ![w] = @ \ {i}]
    /\ UNCHANGED <<pc, kickRun, item, throttled, answer>>

BackToLoop(w) ==
    /\ pc' = [pc EXCEPT ![w] = "loop"]
    /\ item' = [item EXCEPT ![w] = NoItem]
    /\ answer' = [answer EXCEPT ![w] = "none"]
    /\ UNCHANGED <<kickRun, todo, throttled>>

(* Once a system throttled this kick its remaining items are released.      *)
ReleaseThrottled(w, i) ==
    /\ pc[w] = "loop"
    /\ i \in todo[w]
    /\ SystemOf[i] \in throttled[w]
    /\ releaseToRetry(w, i)
    /\ DropFromTodo(w, i)
    /\ UNCHANGED <<runVars, contested, fence, mirror, accepted, crashes>>

(* What W1 can read of the truck: for a clear whether it is still vacant,   *)
(* else its live authority compared with what the item wants.               *)
Authorities(action) ==
    IF action = "clear" THEN {"vacant", "held_by_other", "indeterminate"}
                        ELSE {"as_desired", "changed", "contested"}

reconfirm(authority) ==
    CASE authority \in {"vacant", "as_desired"} -> "proceed"
      [] authority \in {"held_by_other", "changed"} -> "skip"
      [] authority = "indeterminate" -> "retry"
      [] authority = "contested" -> "hold_contested"

(* Only WMS writes re-check the downstream row (buildParams).               *)
Drifts(system) == IF system = "wms" THEN BOOLEAN ELSE {FALSE}

(* Where the lifecycle hold, W1 and W1b send the item, in this order.       *)
Preflight(hold, authority, drift) ==
    CASE hold -> "hold_lifecycle"
      [] ~hold /\ reconfirm(authority) = "proceed" /\ drift -> "skip"
      [] OTHER -> reconfirm(authority)

Proceed(w, i) ==
    /\ pc' = [pc EXCEPT ![w] = "renew"]
    /\ item' = [item EXCEPT ![w] = i]
    /\ todo' = [todo EXCEPT ![w] = @ \ {i}]
    /\ UNCHANGED <<rowVars, kickRun, throttled, answer, contested>>

ReconfirmItem(w, i, verdict) ==
    /\ pc[w] = "loop"
    /\ i \in todo[w]
    /\ SystemOf[i] \notin throttled[w]
    /\ \/ verdict = "proceed" /\ Proceed(w, i)
       \/ /\ verdict = "hold_lifecycle"
          /\ finalize(w, i, "held") /\ DropFromTodo(w, i) /\ UNCHANGED contested
       \/ /\ verdict = "hold_contested"
          /\ contested' = contested \cup {TruckOf[i]}
          /\ finalize(w, i, "held") /\ DropFromTodo(w, i)
       \/ /\ verdict = "skip"
          /\ finalize(w, i, "skipped") /\ DropFromTodo(w, i) /\ UNCHANGED contested
       \/ /\ verdict = "retry"
          /\ releaseToRetry(w, i) /\ DropFromTodo(w, i) /\ UNCHANGED contested
    /\ UNCHANGED <<runVars, fence, mirror, accepted, crashes>>

LostLease(w) ==
    /\ ~Holds(w, item[w])
    /\ BackToLoop(w)
    /\ UNCHANGED rowVars

renewLeaseOrAbort(w) ==
    /\ pc[w] = "renew"
    /\ \/ LostLease(w)
       \/ /\ Holds(w, item[w])
          /\ leased' = leased \cup {item[w]}
          /\ pc' = [pc EXCEPT ![w] = "stamp"]
          /\ UNCHANGED <<status, owner, attempts, beforeImage, due, appliedAt,
                         kickRun, todo, item, throttled, answer>>
    /\ UNCHANGED <<runVars, contested, fence, mirror, accepted, crashes>>

(* writeBeforeImage, then the lease-guarded link to the item.               *)
StampBeforeImage(w) ==
    /\ pc[w] = "stamp"
    /\ \/ LostLease(w)
       \/ /\ Holds(w, item[w])
          /\ beforeImage' = [beforeImage EXCEPT ![item[w]] = "current"]
          /\ pc' = [pc EXCEPT ![w] = "write"]
          /\ UNCHANGED <<status, owner, leased, attempts, due, appliedAt,
                         kickRun, todo, item, throttled, answer>>
    /\ UNCHANGED <<runVars, contested, fence, mirror, accepted, crashes>>

(* The before-image insert or its link fails and the row is released.       *)
StampFails(w) ==
    /\ pc[w] = "stamp"
    /\ releaseToRetry(w, item[w])
    /\ BackToLoop(w)
    /\ UNCHANGED <<runVars, contested, fence, mirror, accepted, crashes>>

-----------------------------------------------------------------------------
(* The external write and what follows it.                                 *)

(* The answers the choke point can give.  An AMS clear, and a cost-center   *)
(* write outside WMS, are refused before any call; only WMS errors carry    *)
(* the throttle and auth buckets, and only the AMS leg can throw.           *)
AnswersTo(system, action) ==
    CASE (system = "ams" /\ action = "clear")
           \/ (system # "wms" /\ action = "cost_center") -> {"skipped"}
      [] system = "wms" -> {"success", "skipped", "throttle", "auth", "data"}
      [] system = "ams" /\ action = "assign" -> {"success", "skipped", "data", "throw"}
      [] system = "holman" /\ action # "cost_center" -> {"success", "skipped", "data"}

(* A success was taken; a refusal, or a throw (the AMS leg throws only      *)
(* before its write), was not; after a data error (a reset connection, an   *)
(* error page) the write may have been taken or not.                        *)
Taken(ans) ==
    CASE ans = "success" -> {1}
      [] ans = "data" -> {0, 1}
      [] OTHER -> {0}

(* Before an assign the AMS leg reads the live tech and, when that works,   *)
(* puts it into the local cache, fence or no fence.                         *)
PreCheck(i) ==
    \/ UNCHANGED mirror
    \/ /\ SystemOf[i] = "ams"
       /\ mirror' = [f \in Surfaces |-> IF f = SurfaceOf(i) THEN NoItem ELSE mirror[f]]

executeReconWrite(w, ans, n) ==
    /\ pc[w] = "write"
    /\ ans \in AnswersTo(SystemOf[item[w]], ActionOf[item[w]])
    /\ n \in Taken(ans)
    /\ accepted' = [accepted EXCEPT ![item[w]] = @ + n]
    /\ pc' = [pc EXCEPT ![w] = "settle"]
    /\ answer' = [answer EXCEPT ![w] = ans]
    /\ PreCheck(item[w])
    /\ UNCHANGED <<runVars, rowVars, kickRun, todo, item, throttled, contested, fence, crashes>>

(* mutant: a data error is retried as if the write had not been taken.      *)
SettleError_retried(w) ==
    /\ pc[w] = "settle"
    /\ answer[w] \in {"data", "throw"}
    /\ releaseToRetry(w, item[w])
    /\ BackToLoop(w)
    /\ UNCHANGED <<runVars, contested, fence, mirror, accepted, crashes>>

(* A data error, or a throw out of the choke point: no blind retry.         *)
SettleError(w) ==
    /\ pc[w] = "settle"
    /\ answer[w] \in {"data", "throw"}
    /\ finalize(w, item[w], "failed")
    /\ BackToLoop(w)
    /\ UNCHANGED <<runVars, contested, fence, mirror, accepted, crashes>>

SettleSkipped(w) ==
    /\ pc[w] = "settle"
    /\ answer[w] = "skipped"
    /\ finalize(w, item[w], "skipped")
    /\ BackToLoop(w)
    /\ UNCHANGED <<runVars, contested, fence, mirror, accepted, crashes>>

SettleAuth(w) ==
    /\ pc[w] = "settle"
    /\ answer[w] = "auth"
    /\ releaseToRetry(w, item[w])
    /\ BackToLoop(w)
    /\ UNCHANGED <<runVars, contested, fence, mirror, accepted, crashes>>

(* A throttled system is left alone for the rest of the kick.               *)
SettleThrottle(w) ==
    /\ pc[w] = "settle"
    /\ answer[w] = "throttle"
    /\ releaseToRetry(w, item[w])
    /\ throttled' = [throttled EXCEPT ![w] = @ \cup {SystemOf[item[w]]}]
    /\ pc' = [pc EXCEPT ![w] = "loop"]
    /\ item' = [item EXCEPT ![w] = NoItem]
    /\ answer' = [answer EXCEPT ![w] = "none"]
    /\ UNCHANGED <<runVars, kickRun, todo, contested, fence, mirror, accepted, crashes>>

(* applyCachePayload and stampFence: WMS is neither cached nor fenced.      *)
MirrorAndFence(i) ==
    /\ fence' = [f \in Surfaces |-> IF f = SurfaceOf(i) THEN i ELSE fence[f]]
    /\ mirror' = [f \in Surfaces |-> IF f = SurfaceOf(i) THEN i ELSE mirror[f]]

(* The cache + fence + status transaction commits.  Its row update names    *)
(* the lease owner; whether it matched a row is not looked at, so a kick    *)
(* that lost its row mirrors and fences all the same.                       *)
CommitApplied(w) ==
    /\ pc[w] = "settle"
    /\ answer[w] = "success"
    /\ markApplied(w, item[w], "verification_pending")
    /\ MirrorAndFence(item[w])
    /\ BackToLoop(w)
    /\ UNCHANGED <<runVars, contested, accepted, crashes>>

CommitFails(w) ==
    /\ pc[w] = "settle"
    /\ answer[w] = "success"
    /\ pc' = [pc EXCEPT ![w] = "persist"]
    /\ UNCHANGED <<runVars, rowVars, kickRun, todo, item, throttled, answer,
                   contested, fence, mirror, accepted, crashes>>

(* One of the five tries gets through: the row is ours and is moved, or it  *)
(* has already left "applying".                                             *)
persistCachePending(w) ==
    /\ pc[w] = "persist"
    /\ Owns(w, item[w]) \/ status[item[w]] # "applying"
    /\ markApplied(w, item[w], "external_applied_cache_pending")
    /\ BackToLoop(w)
    /\ UNCHANGED <<runVars, contested, fence, mirror, accepted, crashes>>

(* All five tries fail: the row stays "applying" with its before-image.     *)
PersistGivesUp(w) ==
    /\ pc[w] = "persist"
    /\ BackToLoop(w)
    /\ UNCHANGED <<runVars, rowVars, contested, fence, mirror, accepted, crashes>>

-----------------------------------------------------------------------------
(* The environment.                                                        *)

(* The process dies, or a statement outside a try block throws and the      *)
(* kick is abandoned.  A request already on the wire (n = 1) is still       *)
(* taken.                                                                   *)
Crash(w, n) ==
    /\ pc[w] # "idle"
    /\ crashes < MaxCrashes
    /\ n = 1 => /\ pc[w] = "write"
                /\ "success" \in AnswersTo(SystemOf[item[w]], ActionOf[item[w]])
    /\ accepted' = IF n = 1 THEN [accepted EXCEPT ![item[w]] = @ + 1] ELSE accepted
    /\ ResetKick(w)
    /\ crashes' = crashes + 1
    /\ UNCHANGED <<runVars, rowVars, contested, fence, mirror>>

LeaseExpires(i) ==
    /\ i \in leased
    /\ leased' = leased \ {i}
    /\ UNCHANGED <<runVars, status, owner, attempts, beforeImage, due, appliedAt,
                   kickVars, contested, fence, mirror, accepted, crashes>>

RetryTimeComes(i) ==
    /\ i \notin due
    /\ due' = due \cup {i}
    /\ UNCHANGED <<runVars, status, owner, leased, attempts, beforeImage, appliedAt,
                   kickVars, contested, fence, mirror, accepted, crashes>>

(* An operator sets kill_switch on the run (no route of the code does).     *)
EngageKillSwitch(r) ==
    /\ r \notin killed
    /\ killed' = killed \cup {r}
    /\ UNCHANGED <<runStatus, rowVars, kickVars, contested, fence, mirror, accepted, crashes>>

-----------------------------------------------------------------------------
LeaseStep(w) == NothingToLease(w) \/ \E S \in SUBSET Items : leaseBatch(w, S)

ItemStep(w) ==
    \E i \in Items :
       \/ ReleaseThrottled(w, i)
       \/ \E hold \in BOOLEAN, authority \in Authorities(ActionOf[i]),
             drift \in Drifts(SystemOf[i]) :
             ReconfirmItem(w, i, Preflight(hold, authority, drift))

WriteStep(w) == \E ans \in Answers, n \in {0, 1} : executeReconWrite(w, ans, n)

SettleStep(w) ==
    \/ SettleError(w) \/ SettleSkipped(w) \/ SettleAuth(w) \/ SettleThrottle(w)
    \/ CommitApplied(w) \/ CommitFails(w)
    \/ persistCachePending(w) \/ PersistGivesUp(w)

(* One statement of a running kick.                                        *)
WorkerStep(w) ==
    \/ LeaseStep(w) \/ KickDone(w) \/ ItemStep(w)
    \/ renewLeaseOrAbort(w) \/ StampBeforeImage(w) \/ StampFails(w)
    \/ WriteStep(w) \/ SettleStep(w)

Next ==
    \/ \E w \in Workers, r \in Runs : StartKick(w, r)
    \/ \E w \in Workers : WorkerStep(w)
    \/ \E w \in Workers, n \in {0, 1} : Crash(w, n)
    \/ \E i \in Items : LeaseExpires(i) \/ RetryTimeComes(i)
    \/ \E r \in Runs : EngageKillSwitch(r)

Spec == Init /\ [][Next]_execVars

(* Fairness: a started kick runs on, time passes, and somebody kicks the    *)
(* run again while it is kickable (the executor never restarts itself).     *)
Fairness ==
    /\ \A w \in Workers : WF_execVars(WorkerStep(w))
    /\ \A r \in Runs : WF_execVars(\E w \in Workers : StartKick(w, r))
    /\ \A i \in Items : WF_execVars(LeaseExpires(i)) /\ WF_execVars(RetryTimeComes(i))

-----------------------------------------------------------------------------
(* Properties.                                                             *)

(* A downstream system never takes the same correction twice, whatever the  *)
(* overlap, stall or death of kicks: before_image_id plus the reaper keep a *)
(* row whose write may have been taken from ever being leased again (#a).   *)
AtMostOnce == \A i \in Items : accepted[i] <= 1

(* A row that says "nothing was written" - still queued, scheduled for      *)
(* retry, skipped, held or exhausted - tells the truth about downstream.    *)
NotWrittenStatuses ==
    {"absent", "queued", "retry_scheduled", "awaiting_batch", "skipped", "held", "exhausted"}

NothingWrittenUnrecorded ==
    \A i \in Items : status[i] \in NotWrittenStatuses => accepted[i] = 0

(* Two kicks are never between the before-image stamp and the settlement of *)
(* the same item, even when the lease of the first ran out on the way.      *)
OneWriterPerItem ==
    \A v, w \in Workers :
       (v # w /\ pc[v] \in WritePCs /\ pc[w] \in WritePCs) => item[v] # item[w]

(* The inductive strengthening of AtMostOnce.  A leased row is "applying";  *)
(* a kick past its stamp still owns the row or has lost it to the reaper,   *)
(* never to another kick; nothing was taken before the call returns, nor by *)
(* a refusal; and a row whose write was taken is out of every kick's reach. *)
Rescued == {"external_applied_cache_pending", "verified", "flagged"}
WrittenStatuses == Rescued \cup {"verification_pending", "failed"}

OwnedIffApplying ==
    \A i \in Items : owner[i] # NoOwner <=> status[i] = "applying"

KickShape ==
    \A w \in Workers :
       /\ pc[w] \in {"idle", "lease"} => todo[w] = {}
       /\ pc[w] \in {"renew", "stamp"} \cup WritePCs => item[w] \in Items \ todo[w]

WriterHoldsRow ==
    \A w \in Workers : pc[w] \in WritePCs =>
       /\ beforeImage[item[w]] # "none"
       /\ owner[item[w]] = w \/ status[item[w]] \in Rescued

NothingTakenYet ==
    \A w \in Workers :
       (pc[w] = "write" \/ (pc[w] = "settle" /\ answer[w] \in Refusals))
          => accepted[item[w]] = 0

Reaches(w, i) ==
    \/ i \in todo[w]
    \/ item[w] = i /\ pc[w] \in {"renew", "stamp", "write"}

WrittenOutOfReach ==
    \A i \in Items : accepted[i] # 0 =>
       /\ beforeImage[i] # "none"
       /\ \/ status[i] \in WrittenStatuses
          \/ status[i] = "applying" /\ \A w \in Workers : owner[i] = w => ~Reaches(w, i)

LeaseDiscipline ==
    /\ OwnedIffApplying
    /\ KickShape
    /\ WriterHoldsRow
    /\ OneWriterPerItem
    /\ NothingTakenYet
    /\ WrittenOutOfReach
    /\ AtMostOnce

(* No late step of a stalled kick moves a row out of a terminal status, nor *)
(* out of verification: only the owner named by the lease may move a row.   *)
SettledRowsStay ==
    [][\A i \in Items :
          status[i] \in Terminal \cup {"verification_pending", "external_applied_cache_pending"}
             => status'[i] = status[i]]_execVars

(* What the status of a row claims.                                         *)
Outcome(st) ==
    CASE st \in {"queued", "retry_scheduled"} -> "open"
      [] st = "applying" -> "claimed"
      [] st = "awaiting_batch" -> "awaiting"
      [] st = "external_applied_cache_pending" -> "suspected"
      [] st = "verification_pending" -> "landed"
      [] st \in {"skipped", "held", "exhausted"} -> "dropped"
      [] OTHER -> st

Lifecycle ==
    INSTANCE CorrectionLifecycle WITH outcome <- [i \in Items |-> Outcome(status[i])]

(* Whatever kicks overlap, stall or die, every row lives the life that      *)
(* CorrectionLifecycle promises: one write at most, a return to the queue   *)
(* or a give-up only of what was not written, a landing only of what was,   *)
(* and no way back from there.                                              *)
RowsFollowLifecycle == Lifecycle!Spec
=============================================================================
