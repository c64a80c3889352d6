# Nexus fleet platform: verification project

Nexus keeps a truck fleet's records consistent across systems it does not own (TPMS as the
authority of who drives what; WMS, AMS and Holman downstream) and runs the operational
queues around them: text messages to technicians, rental reconciliation, bookings,
notifications. Postgres holds its state; several instances of one Node server, scheduled
deployments and operators share it, and every external call is one that cannot be rolled
back. This directory holds TLA+ models of the parts with control logic of their own, the
TLC configurations that check them, and TLAPS proofs about them.

All paths below are under `src/`.

## 1. Inventory

| part | source | state | operations | interacts with | what is hard |
|---|---|---|---|---|---|
| Reconciliation executor | `server/fleet-reconciliation/executor.ts`, `server/fleet-operations-service.ts` (the choke point) | `reconciliation_runs` (status, kill switch), `reconciliation_items` (status, lease, attempts, before-image, clocks), fences, caches | kick: guard, reap, lease a batch, then per item re-confirm, renew, stamp, write, settle, commit; drain: kicks in a row | materializer (its rows), verifier (what it hands on), WMS / AMS / Holman | overlapping kicks, leases that run out inside a call, death between the external write and its record, refused and unknown answers |
| Bulk verifier | `server/fleet-reconciliation/verifier.ts`, `fences.ts` | item status, `ams_inflight_stamps`, fences, cache, `verified_at` | sweep: guard, reap, snapshot, one live pull, settle each row, stamp the canary | executor (same rows), live systems | a live pull older than the rows it is compared with, sweeps racing sweeps and kicks, two statements that belong together |
| Materializer, gates, nightly automation | `server/fleet-reconciliation/materializer.ts`, `shared/schema.ts`, `server/fleet-scope-routes.ts` | runs, queued items under two partial unique indexes, AMS stamps, contested flags | open, gates G0/G1/G2, decide, insert chunk by chunk, complete or fail; nightly drain and one sweep | all of the above | failure part-way, the canary gate, rows of other runs moving during the insertion |
| Who drives a truck: fences, Holman syncs, submissions, supersede sweep | `server/fleet-reconciliation/fences.ts`, `server/holman-submission-service.ts`, `server/holman-vehicle-sync-service.ts`, `server/holman-fence-supersede.ts`, `server/holman-assignment-update-service.ts` | `holman_submissions`, `reconciliation_write_fences`, `holman_vehicles_cache`, and Holman's own queue | assign and unassign by people and by the backstop; track, check, expire; pull, upsert, re-apply unassigns, settle; lift a superseded fence | executor (stamps), verifier (lifts) | Holman answers 202 and applies later, in any order, or never; a fence set read once before thousands of upserts; lifts that name the truck and not the correction |
| VRM booking | `server/vrm/forms/cutover-orchestrator.ts`, `server/vrm/etd/executor.ts` | intents with claim, lease and fencing token, attempt ledger, rental request | preview, confirm, claim, open attempt, commit, record, read back, cancel, retry, attach, remove | Enterprise, staff at the panel, two kinds of runner | a commit whose answer is lost, passes that outlive their lease, reads and unguarded writes of staff in between |
| VRM notification dispatcher | `server/vrm/notification-dispatcher.ts`, `server/vrm/storage.ts` | `vrm_notifications`, shared by all instances; in each process a guard with a watchdog | enqueue, tick, dispatch, defer, settle, delivery callback, restart | the text provider | rows are not claimed and the guard is not shared; a timeout does not stop the send it gives up on; callbacks late, doubled, out of order |
| Fleet Communications: outbound pipeline and send queue | `server/fleet-comms/outbound.ts`, `schema-init.ts` | `fs_comms_send_queue`, `fs_comms_send_batches`, `fs_comms_messages` | `sendMessage`, manager copy, `createBulkSend`, `processSendQueue`, release and cancellation of held rows | Twilio, cutover workflow, every other caller of `sendMessage` | key lookup and insert of racing callers, several drains, texts accepted after a timeout, drains that die with a row claimed |

Everything else is in section 6. `PROJECT.json` lists the parts one by one, and under `hazards`
every place in the modelled parts where something could go wrong that a test would hardly reach.

## 2. Modules

```
ReconExecutor  <-- ReconVerifier <-- ReconNightly        CommsQueue --refines--> KeyedAcceptance
     |                  |                  |                  |
MCReconExecutor   MCReconVerifier    MCReconNightly      MCCommsQueue
ReconExecutorProofs <-- ReconVerifierProofs <-- ReconNightlyProofs     CommsQueueProofs
ReconExecutor, ReconVerifier, ReconNightly --refine--> CorrectionLifecycle

HolmanAssignment        VrmBooking --refines--> AttemptLedger   VrmNotifications         ReconDecision
HolmanAssignmentProofs  VrmBookingProofs                        VrmNotificationsProofs   ReconDecisionProofs
```

An arrow from right to left reads "extends": the verifier's model contains the executor's
state and every step of it, and the nightly model contains both, so that each property of
the inner component can be checked in the presence of the outer one.

**Grain of atomicity.** One SQL statement, one transaction or one external call is one step,
because these are the points where a Node server can be interleaved with another request or
instance, or die. Everything between two awaits belongs to the step before it. `await`ed
reads whose answers are only inputs (W1's authority and downstream reads, the live pull, the
decision stream) are one step with a free answer.

**Time** is never a number. "The lease still runs", "the retry time has come", "the grace
window is over", "24 h / 36 h since submission", "the submission is past its expiry" and
"scheduled_for has come" are flags that an action of its own changes, at any moment. So a stall
of any length between two statements is a behaviour of the models. Where the code compares two
times with each other (`HolmanAssignment`), a clock counts the writes that record one.

### ReconExecutor

One function per column of `reconciliation_items` (`status`, `owner`, `leased`, `attempts`,
`beforeImage`, `due`, `appliedAt`), the local state of each kick (`pc`, `todo`, `item`,
`throttled`, `answer`), fences and mirrored caches per surface, and one history variable,
`accepted`: how often the downstream system took an item's write.

| code | model |
|---|---|
| `runExecutorKick` guards and `reapStuckApplying` | `StartKick`, `Kickable`, `reapStuckApplying` |
| `leaseBatch` (a CTE with `SKIP LOCKED`) | `leaseBatch`, `NothingToLease` |
| the loop over the batch, a throttled system | `ReleaseThrottled`, `KickDone` |
| `processItem` W1, W1b | `ReconfirmItem` |
| `renewLeaseOrAbort` | `renewLeaseOrAbort` |
| W2, the before-image | `StampBeforeImage`, `StampFails` |
| `executeReconWrite`, with `callWms` and the Holman and AMS legs | `executeReconWrite`, `AnswersTo`, `Taken` |
| the branches on its answer | `SettleError`, `SettleSkipped`, `SettleAuth`, `SettleThrottle` |
| the cache and fence transaction, its catch | `CommitApplied`, `CommitFails`, `persistCachePending`, `PersistGivesUp` |
| `finalize`, `releaseToRetry` | operators used by these actions |
| process death | `Crash` (whether the call had been taken is free) |

`before_image_id` has three values: NULL, stamped by the present lease, and stamped by an
earlier one. The reaper cannot tell the last two apart, which is why the model has to.

### CorrectionLifecycle

The abstract promise to every correction, without kicks, leases or sweeps: per item an `outcome`, what its row
claims of the write, and `accepted`. A write is taken once, by a claimed row or, when its writer is late, by one
that was rescued and perhaps judged; a row goes back to the queue or is given up only *unwritten*, is landed only
*written*, and a verdict is the last word. `ReconExecutor` implements it under the mapping `Outcome` of the thirteen
statuses (`applying` is *claimed*, `external_applied_cache_pending` is *suspected*), and so do the verifier and
the nights on top of it.

### ReconVerifier

Adds what the live systems show, the ghosts' in-flight stamps, `verifiedRuns` and the local
state of each sweep. A sweep keeps the *snapshot* of the rows it read (`seen`) and what the
pull showed (`matched`); by the time it reaches a row, the row, its fence and the live system
may have moved on. `transition` is the compare-and-set on the status read. `CountCanary` and
`StampCanaryVerified` are two statements, as in the code, and so are the two updates of a
ghost (stamp, then row). A truck that was a ghost before starts with its old stamp, which is resolved.

### ReconNightly

Adds the materialization of a run and the scheduler. `OperatorSpec` lets anybody kick and
sweep any run at any time, as the routes do; `AutomationSpec` has only the scheduler, which
drains the new run kick by kick and then sweeps it once. The unique indexes of
`reconciliation_items` are the guard `Conflicts` of `InsertChunk`; nothing stops an update
from breaking them but the property `OneActivePerTarget`, as nothing but an exception from
Postgres would in the code. Which legs a run has is a choice of its step `Decide`; what the
code can choose is the subject of the next module.

### ReconDecision

The decision stream as pure operators: `decideTruck` with its ladder and four legs, from what
the engine loaded of one truck (`Inputs`), the row `stageLeg` makes of a leg (`StageRow`), and
the WMS legs of a fleet decided one truck after the other from one pull (`FleetWmsLeg`). It
has no behaviour of its own, so its properties are assumptions of `MCReconNightly` that TLC
evaluates in the two nightly runs (`DecisionsHold` over every input of two techs and a cost
center, `FleetHolds` over every fleet of three trucks), and theorems for all of them. They
carry the choice `ReconNightly` leaves open: one leg per target, no write for what live
shows already, and a volume guard that counts what will be queued. Stating the second showed
that a *flag* may ask for what live shows (a vacant truck AMS does not list), which `Decide`
now allows.

### HolmanAssignment

One truck, with everything that writes its cached technician: changes of people and of the
backstop (`write`, one record each, from the request to the settled item), Holman's queue
(`queued`, `live`), the submissions, the fence, the cache row, and what each sync, check and
sweep is at. `shown` is a history variable, what Holman has shown since the last stamp.

| code | model |
|---|---|
| `callHolman`: live pre-check, in-flight guard, skip, submit | `SeesShown`, `ReadInFlight`, `SkipMirror`, `Submit` |
| `createSubmission` and its failure; the cache writes after it | `Track`, `LoseTrack`, `HumanMirror`, `BackstopMirror`, `MirrorFails` |
| `writeFence`, `verifyFence`, `expireFence` | `Stamped`, `Verified`, `ExpiredNow` |
| a fleet sync: pull, fence set, upserts, `reapplyRecentUnassigns`, `verifyFromFleetData` | `SyncPull`, `SyncLoad`, `SyncUpsert`, `SyncReadUnassigns`, `SyncClear`, `SyncReadPending`, `SyncSettle` |
| `pollPendingSubmissions`, `verifyByVehicleLookup`, `releaseSupersededFence` | `CheckStart` to `CheckEnds` |
| `liftSupersededHolmanFences` | `SweepRead` to `SweepMirrors` |
| the bulk verifier on the backstop's item | `BulkMatch`, `BulkRepair`, `BulkVerify`, `BulkFlag` |

A fence that asks for a clear expects the string "^null^", which no observed value equals; so
such a fence is never *verified* by a check, only expired (`Agrees`). A check that decides on the
cache completes a submission on a value the fence itself may have pinned
(`holman-assignment-update-service.ts:279` says the vehicle is fetched again; the fallback reads the
cache), and a person's assign is skipped as already shown when no *pending* row is on
file, although an expired or untracked change may still be queued at Holman: both are behaviours
of the model. The loose comparison of technician names (`includes`) is equality here.

### VrmBooking

One intent of either lane (a cutover or a rental request), two runners and staff. A runner's
pass is a sequence of requests (claim, look-up, open, commit, record; or search, post, close,
settle), each one step, and a staff handler that reads and then writes under no guard, or under one that is weaker than
its checks, is two (`AskAttach`, `Attach`).
`made` and `standing` are what Enterprise really did. A commit answered with a confirmation made one; one
that throws, or gets a body without a confirmation (`unparsed`: a 2xx status is all the client asks of it), may or may not have. A preview that fails sends a request back to review. `search` says whether its journey search
sees future pickups. `usurped` is a history variable: whether a pass at work ever lost its claim.
Left out or abstracted: `verifyRequestOnCommitEvidence`, which nothing reaches; `preview_version`,
which is part of the compare-and-set of `Confirm`; reservations made by hand and the kill switch
and drift gates, which are free choices; the modes `dry_run` and `test`; block and texts after a
verified reservation, one free step (`AfterReservation`).

`AttemptLedger` is the abstract ledger: `rows`, and the attempts that `made` a reservation, with the four things that
happen to an attempt. It is opened with a token above every earlier one and none open, it makes one reservation at
most, its result is written while it is open and says what happened, unless it is one that proves nothing, and a readback
may write over it at any time. The mapping is the identity on the ledger, so what the theorem shows is that claims, leases, dead passes and
staff leave nothing else that could happen to a row.

### VrmNotifications

The outbox of rental decisions. A tick reads the queue once and goes through its list, awaiting
each `dispatchOne` or its timeout; a dispatch that was given up on goes on without its tick (the bag
`late`). The email channel takes the same steps. The rows are shared by the `Instances` of the server, as the database is;
`guard`, `rerun` and `late` are one for each, as module variables are, and `Host` says where a tick or a callback runs. A
guard keeps apart the ticks of its own process only: the watchdog takes it over once it is overdue, and *any* tick of the
process that ends sets it free. A restart ends what one process had under way. A callback reads the row by
provider id and writes it later, unguarded; one that arrives before the id is recorded is lost.
News of state "queued" is a no-op and "undelivered" the same as failed.

### CommsQueue and KeyedAcceptance

`KeyedAcceptance` is the abstract promise of an idempotency key: it stands for at most one
message, and every caller that presents it is told that message. `CommsQueue` has the send
queue, requests, one bulk send and any number of drains, and implements it under the mapping
`acceptedAs` = the row of a key, `answer` = the row a caller was given. `texts` is a history
variable: how often Twilio accepted a row's text.

A body is who is told what under which category; opt-out, phone and quiet hours are free at
every look-up, which covers inbound STOP messages and contact edits in between. The manager's
copy is a separate row without a key when it is deferred, and leaves no trace otherwise.

## 3. Runs

| run | instance | what it shows |
|---|---|---|
| `exec_safety` | 2 kicks at once, 2 WMS items, 2 attempts, 1 crash | No correction is taken twice (`AtMostOnce`); a row that says nothing was written is right (`NothingWrittenUnrecorded`); one writer per item; kicks implement `CorrectionLifecycle` (`RowsFollowLifecycle`); the inductive invariant `LeaseDiscipline` of the proofs holds |
| `verif_sweeps` | 1 kick, 2 sweeps of a canary with a ghost, first or again, and a Holman assign, sweeps that scan one row | Terminal rows are final under racing sweeps; every row that waits for verification has a write time; a stamped canary is settled and clean and stays so; a ghost's stamp agrees with its row; nothing is flagged before its time, however late a sweep marks it |
| `verif_liveness` | 1 kick, 1 sweep, a ghost before a Holman write, 1 crash, sweeps that scan one row | `EveryItemSettles` under fairness |
| `night_bypass` | a canary and the backfill that names it, ceiling 0 | More queued writes than the ceiling need an approved backfill behind a verified canary; only completed runs write |
| `night_automation` | the scheduler alone, two nights over one WMS target, 2 attempts, 1 crash | `OneActivePerTarget`; a write is only taken for the row that still holds its target |
| `assignment` | a correction of the backstop and a person's change, one sync, check or sweep at a time | While its fence holds, a correction in the cache is overwritten only by the writers named; a fence stamped once is lifted early only on what Holman has shown |
| `assignment_settles` | one correction, 2 technicians, 2 of sync, check and sweep at once, 1 fault | Under fairness a pending submission settles although late observations reopen it, and the cache comes to agree with Holman for good, with nothing left that pins it or is about to write anything else (`Agreed`) |
| `comms_accept` | 3 requests: one with a key and a manager copy, its held retry, one of the same wording without a key; 1 drain | `CommsQueue` implements `KeyedAcceptance` |
| `comms_drain` | 2 drains, a bulk send with manager copies, a keyed row, 2 attempts, 1 death | Exclusive claims, texts paid for, batches completed only when drained, and under fairness no pending row is forgotten |
| `booking_safety` | one intent of either lane, 2 runners, 1 staff member, 2 attempts, 5 claims, 1 fault | Seven properties of the booking: never booked twice while the search sees what stands and no claim is lost, evidence names a real reservation, the ledger is true and implements `AttemptLedger` (`LedgerIsKept`), removal is final, commits only for requests nobody sent back or removed |
| `booking_twice` | a cutover with a search that sees past journeys only, no fault | **Violation**, see findings |
| `notif_drain` | 2 processes, 2 ticks in the first and 1 in the second, a row, callbacks without number but one at a time; the first has 1 fault | A process texts a row a second time only for a fault of its own (`ExtraTextsArePaidFor`), whatever the other does; a row at rest stays; under fairness every row settles or waits for the morning |

**Bounds, and why they are enough for the questions asked.** Races are between *two*: two
kicks, sweeps, drains, runners, ticks or callers suffice for a lost compare-and-set, a stale snapshot or a
lease taken over, and the proofs below remove the bound where it matters most. `MaxAttempts`
is 1 or 2 (3 for a text, 5 for a correction in the code): 2 has both a retry and the last attempt. Two items of a run
are enough for a throttled system to have something left and for a sweep limit of one to
starve the second. `MaxCrashes`, `CrashLimit` and `MaxFaults` (per process in the outbox) are 1 where a death matters
(a kick or sweep that stalls for ever, which every run has, leaves the same rows behind; a death also frees its
worker for another kick): a second death only repeats the first with other rows. `RowIds` (2 or 3) bounds the queue table; a step that would need a row more
is not taken, so the liveness of a drain is checked only over the rows that fit. `Ceiling` is
0 in `night_bypass` so that a single write exceeds it. `MaxReaders` is how many syncs, checks and sweeps of a
truck are at work together: 1 in `assignment`, where the changes interleave with each of them, 2 in
`assignment_settles`; the theorems hold for any number. `MaxClaims` 5 and `MaxStaff` 4 let a pass that was
overtaken come back after two more, with a retry and an approval in between. In the
outbox two ticks of one process compete for its guard, with a third in another process, over one row: rows meet
only in a tick's list, which it goes through one by one, and the theorems hold for any number of rows, ticks and callbacks. Symmetry is used only in runs without
liveness, over kicks, sweeps and runners, which are interchangeable.

`CHECK_DEADLOCK FALSE` appears where everything may be settled, halted or used up with nothing
left to do: the executor, nightly, assignment, booking and notification runs. The verifier can always be
swept again, and the queue's drains never stop.

**Fairness, and why the code justifies it.** A statement that was awaited returns or throws, so the
next step of a started kick, sweep, drain, sync, check or tick is taken (weak fairness of each). Time passes.
`EveryItemSettles` further assumes that kicks and sweeps of an unfinished run are requested
again, which operators do and the scheduler does *not* (it sweeps a run once), and, by strong
fairness, that a TPMS confirm repeated for ever is answered once. In `CommsQueue` drains are
started again, which timers, the scheduled deployment and kicks after a bulk send see to. In
`HolmanAssignment` the truck is synced again and again and the 90 s poll takes up each pending row (strong fairness,
since a pass over other rows may be at work whenever its turn comes); nothing is asked of Holman, which may never
apply anything. In `VrmNotifications` the timer of each process starts ticks and a tick goes on, by its timeout if need
be; a send may never answer and a callback never come. No fairness is
assumed of callers, of answers, of the kill switch, or of the live systems.

## 4. Proofs

TLAPS proves these for every number of items, runs, trucks, kicks, sweeps, drains, rows, callers, syncs,
runners, ticks and faults. The assumptions are the named ones on the constants in the modules
(`ConstantsAssumption`, `VerifierAssumption`, `CommsAssumption`, `AssignmentAssumption`, `BookingAssumption`, `NotificationAssumption`, `NightlyAssumption`, `DecisionAssumption`): each function has its domain,
sentinels are not members, limits are natural numbers (and: finitely many items and ticks, no run with two items of one target). TLC evaluates them in every run.

**Executor** (`ReconExecutorProofs`): `TypeCorrect`, `DisciplineHolds`, `NeverAppliedTwice`,
`WriteWindowExclusive`, `UnwrittenStatusIsTrue`, `SettledStays`, `ExecutorImplementsLifecycle`.
`AtMostOnce` is not inductive: a state in which a kick is about to write an item that was
already taken satisfies it. `LeaseDiscipline` adds what excludes such a state:
a row is owned iff it is `applying` (`OwnedIffApplying`); a kick past its stamp owns its row
or has lost it *to the reaper*, never to another kick (`WriterHoldsRow`), because
a stamped row is not leasable until somebody settles it; before the call returns nothing was taken
(`NothingTakenYet`); and a row whose write was taken is in a status no kick leases, or still
in the hands of the kick that wrote it, past its write (`WrittenOutOfReach`). The proof has one step per action
and one lemma per conjunct.

`ExecutorImplementsLifecycle` is the refinement `Spec => RowsFollowLifecycle`, an action property as well as an invariant:
it also says what a step may not do to a row. Its steps need the discipline: that a row goes back to the queue, or is given
up, unwritten is `ReachableUnwritten`, that one lands only written is `SuccessTaken` (a kick that settles a success has
had its write taken), and a reaped row may be taken afterwards, which is why `Take` admits *suspected* rows. A sweep may
have judged such a row before its late writer's call arrives: so `Take` admits verdicts too. Mapped, a kick step is one step of
`CorrectionLifecycle` or none (`LifeDoneWith`, `LifeTake`, `LifeReap`, `LifeLease`). The verifier and the nights reuse it:
`LifecycleStep` covers the kicks in the larger system, `LifeMark` a sweep's step, `LifeInsert` an insertion.

**Verifier** (`ReconVerifierProofs`): `CompositionHolds`, `VTypeCorrect`,
`SweepsKeepDiscipline`, `TerminalStays`, `CanaryStampSound`, `LandedClockSet`,
`FlagsComeLate`, `GhostStampsAgree`,
`CompositionImplementsLifecycle`. A step of the
composition is the executor's, with the verifier's variables unchanged or moved only by the
environment, or a sweep's, which moves at most the row it is at, from the status it read to
its goal. From this lemma the executor's invariant follows without a second look at its steps.
`FlagsComeLate` needs `FlagInv`: a row a sweep has snapshotted as waiting still waits in that status or is
settled, its clocks only run forward while it waits (`ClocksRun`), and a sweep about to flag it has seen them run out.

**Nightly** (`ReconNightlyProofs`): `NightTypeCorrect`, `TargetsHaveOneRow`, `HaltedRunsWriteNothing`, `VolumeIsGuarded`,
`AutomationWritesThrough`, `NightsKeepDiscipline`, `NightsImplementLifecycle`. `NightStep` covers the steps of both specifications, so one induction
serves operators and scheduler. `NInv` puts the types of the materialization, `RunsUnfold` (what is staged is not yet in the table) and `OneActivePerTarget` on top of the verifier's `VInv`, which an insertion keeps
since no kick or sweep holds a row that was absent. Kicks have work only of runs that had completed
(`KickAim`); what a run wrote and may still insert stays below the ceiling or stands behind a canary that stays
verified (`VolumeInv`); and under the scheduler one kick is at work, with nobody to reap its row (`DriveInv`).

**Decision** (`ReconDecisionProofs`): `TargetsAreOwn`, `GuardCounts`, `NothingShownIsWritten`, `RestProposed`, `NoTechTwice`.
One lemma says what `decideTruck` gives each leg, one when a leg is a write; `RestProposed` then rests on
`DecidedAgain`, which goes through the legs: one that took effect is decided NOOP, one that did not as before, save that a
ghost's stamp may have aged. The cost center needs the first fact about the assignment it depends on.

**Assignment** (`HolmanAssignmentProofs`): `AssignmentTypes`, `CorrectionOutlives`, `LiftsHaveEvidence`,
`AgreementStays`. The invariants are about what a reader holds in hand. `LoadedBefore`: a sync that believes the truck unfenced, while it is
fenced, loaded the fences before the stamp. `LiftInv`: a check that confirmed a change, or is about to
release a fence for it, holds a change newer than the stamp that Holman has shown, *or* the fence was
stamped again in the meantime (its creation time is older than its stamp, since `writeFence` keeps `created_at`); the sweep's
and the bulk verifier's grounds are the same, the latter because the backstop has one change under way at
a time (`OneBusy`). `Calm` and `Stamping` say what a step does to the fence and to `shown`, and each
conjunct is preserved from these two. The theorem speaks of fences stamped once: for a fence stamped twice the
property is false, which is a hazard listed at `fences.ts:94`.
`AgreementStays` proves the safety half of `EventuallyAgrees`: `Agreed`, the state that TLC finds reached for good, is left only
by a change at Holman or a step of a technician change. `cache.tech = live` alone is not stable: a fence, an unassign of the last
hour, or a reader with an older value in hand may part the two. `NothingPins` and `ReadersAgree` name these, and
`Known` (the rows that checks and syncs have in hand exist) keeps a settled row from appearing as a recent unassign.

**Booking** (`VrmBookingProofs`): `BookingTypes`, `LedgerIsTrue`, `VerifiedIsReal`, `FencingHolds`,
`NoDoubleBooking`, `CommitsAreApproved`, `RemovalHolds`,
`LedgerImplementsAttempts`.
`TruthInv` says of each pass what its step entitles it to (`Knows`: an answer of "booked" in hand is a
reservation made; a verdict of "verified" was seen), that two passes never hold one attempt (`Apart`), and what a
record says (`Recorded`), a confirmation that staff are about to attach included. It says nothing of an `unparsed` result,
which is no evidence either way. `FenceInv` orders tokens, attempts and passes: an attempt's token is that of
the claim it was opened under and no larger than the intent's. What is promised only while no pass at work
loses its claim rests on `SoloInv` (one busy pass at a time, with nothing standing between its search and
its commit, and an approval nobody took back), and removal on `GoneInv` (nobody holds an abandoned intent,
and a pass still at its commit has had its attempt closed by a readback).
`LedgerImplementsAttempts` is the refinement `Spec => LedgerIsKept` and rests on `FenceInv`: the gates give a pass that opens
an attempt the intent's own token, and every row has an earlier one (`OpensNext`). That a result is true when it is written,
where it claims anything, is what `Knows` says of a pass that has its answer (`LedgerMoves`).

**Send queue** (`CommsQueueProofs`): `ClaimsExclusive`, `TextsPaidFor`, `TextsBounded`,
`AcceptsOnce`, `CompletedIsDrained`, `QueueTypeCorrect`. `QInv` says what each drain knows of the row in its hands (`HandOK`) and what a
status tells of attempts and texts (`RowOK`). The subtle part is a row that was settled and is
then thrown into the catch by a failing counter: it is `sent` or `skipped` and still exclusively held,
which `HandOK` must admit at `count` and `catch`. A second, independent invariant `KeyInv` (one row
per key; a caller's answer is the row of its key) carries the refinement
`Spec => KeyedAcceptanceHolds`, proved step by step: an insert of a keyed row is `Accept`, a
look-up or a lost race followed by its re-read is `Recall`, and everything else stutters.

**Notifications** (`VrmNotificationsProofs`): `OutboxTypes`, `RestHolds`, `NoTextForNothing`.
The last one is an argument by accounts, one for each process and row. `Budget` adds the texts the process made of the row, its
dispatches that went on late and are still before their send, those of its ticks that may yet text it (`MayText`: it is on their list or
at the gate, or, while the row is unsettled, they may come back to the queue without having settled it), and one more for a tick that may
start (`Spare`). What the other processes do to the row, they mark it or the provider reports on it, never makes it queued
again, so it adds to no account but theirs; every step of the process either keeps the sum or is a fault of its own (`TickPays`,
`CallPays`). So the sum stays within one plus the faults of the process. There is no such bound over all
of them (section 5). The attempt at this proof showed an earlier watchdog of the model wrong for three ticks: a tick that hung long ago let it take the guard from
its successor at work, unbounded by `MaxSlow`; `GuardOverdue` now asks that none of the process works.

**Only model-checked.** `EveryItemSettles`, `PendingRowsSettle`, `SubmissionsSettle`, `EventuallyAgrees` and `RowsSettle`
(liveness under fairness, of which only the stability of `Agreed` is proved, and `ENABLED`, are out of the prover's reach, as is induction over data), and so is the violation, which needs a
counterexample and no proof.

## 5. Findings

**Two reservations for one intent** (`booking_twice`). `etd/executor.ts:22` says "Two runners cannot
double-book the same intent". A commit that throws after Enterprise accepted it parks the intent; the staff
retry reads back through a search that, by `cutover-orchestrator.ts:2594`, "returns only past-dated journeys";
its *none* counts as authoritative (`cutover-orchestrator.ts:3764`), the intent becomes bookable and the next pass books again.

Other disagreements between code and comment, met while modelling and present in the models:

- `shared/schema.ts:2515` excludes a second write of a target while the first is mid-flight; the index
  leaves `verification_pending` out. Hence `BackstopBusy` and hence fences stamped twice.
- `fences.ts:94` keeps the `created_at` of a fence when it is stamped again, and the order guards compare with it: a
  submission between the two stamps may expire the newer fence.
- `outbound.ts:76` says the durable keyed record comes before any provider activity; the manager's copy does not wait for it.
- `cutover-orchestrator.ts:3228` says terminal intents stay terminal; an unguarded write that read the
  intent earlier revives one. `cutover-orchestrator.ts:5448` asks that "cancelled" be true; an attempt opened between the look
  at the ledger and the write is not looked at.
- `cutover-orchestrator.ts:5557` says of a confirmation to attach that a different one already on file "is a hard conflict, never
  an overwrite". The one on file is read and compared first; the write (`:5603`) asks only for the id and the status that was
  read, which an attach leaves as it is. Two staff members who read the intent before either writes replace each other's evidence.
- `notification-dispatcher.ts:984` says that the background worker and an immediate dispatch "can never double-send a row:
  dispatchTick's in-flight guard serializes them". The guard (`:892`) is a variable of a process; `.replit:10` deploys autoscale, and
  every instance has a worker and serves decisions. A poll in one and an immediate dispatch in another read the same queued
  row, neither looks at it again before it texts, and the row is texted twice with no fault at all. The model has this behaviour (in
  `notif_drain` too); what does hold is `ExtraTextsArePaidFor`, a bound for each process.
- `notification-dispatcher.ts:909` says the watchdog's 90 s must be larger than a batch of per-message timeouts; a batch may
  take 50 x 30 s. With `MaxSlow` above 0 the model has two ticks of one process that text the same rows, which is why
  `ExtraTextsArePaidFor` speaks of executions in which a watchdog takes the guard only from ticks that hang.

Behaviours the models have and no document excludes, kept here for whoever changes the code:

- The kill switch is read once per kick: the batch already leased is written after it is set.
- A canary that wrote nothing may be stamped verified: a ghost the overnight batch cleared counts as a write.
- A before-image survives a refused write, so the reaper later takes a kick that died *before* its
  write for one that may have written: safe, but the correction is lost to verification and flagged.
- A sweep may lift a fence a newer correction stamped after the sweep's pull, and a kick that lost
  its row after its write still leaves a fence.
- A truck that becomes a ghost a second time meets its resolved stamp: the upsert does not reopen it, and the age of its row stands in for it.
- Rows a single nightly sweep leaves unsettled are nobody's until an operator asks again.
- Rows of a `dry_run` or failed run stay queued and hold their target's lock.
- Two kicks that keep taking over each other's lease re-lease a row without bound.
- A row whose drain died stays `claimed` for good, and its batch stays open.
- A row marked sent or skipped is put back to pending when counting it throws, and is texted again; a batch
  may be completed by another drain in between.
- `createBulkSend` SETs the skipped count after drains may have counted.
- A staff retry that read an intent of unknown outcome and writes after it was verified makes it bookable again, so that
  the next pass may commit for a request already marked booked: `CommitsForApproved` allows it, for that reason.
- An extract that names one tech as the owner of two trucks, neither of them held in WMS, has both queued: the trucks
  are decided from one pull, and only the authority read before each write tells them apart (`NoTechTwice` assumes
  there is no such extract).
- The engine passes an exemption age of 0, so the forced reconciliation of an old exemption (`decision.ts:192`) is
  never reached; its comment says so.
- Two delivery callbacks at once may write over each other, a later one downgrading what an earlier one settled.

## 6. Not modelled

| part | source | why |
|---|---|---|
| DCA event dispatcher | `vrm/dca-event-dispatcher.ts` | same pattern of tick, guard and timeout as `VrmNotifications`, with operator retries and a boot reconciliation |
| Locked jobs: rental reconcile, LUCA write-back, LOA outreach | `rental-ops-sync.ts`, `fleetscope-snowflake-sync-lock.ts`, `luca-writeback/worker.ts`, `loa-outreach/engine.ts` | one protocol, a session advisory lock that goes with its session; next in the plan |
| Live pulls, live confirmation of an owner, run gates, dry run | `fleet-reconciliation/downstream.ts`, `authority.ts`, `engine.ts`, `dry-run.ts` | I/O whose answers are the inputs of `ReconDecision`; whether a gate holds is a free choice of `ReconNightly` |
| Other fields of the vehicle cache and their fences; district, out-of-service and field-test submissions | `holman-vehicle-sync-service.ts`, `holman-out-of-service-service.ts` | the same pattern as the technician's, one field at a time |
| Comms inbound, contacts, routes; registration texts; truck maintenance; right-size watch | `fleet-comms/inbound.ts`, `contacts-sync.ts`, `fleet-scope-reg-messaging.ts`, `truck-maintenance/engine.ts`, `rightsize-phone-watch/engine.ts` | callers of `sendMessage` or suppliers of its inputs, which `CommsQueue` takes as free choices |
| Vehicle creation gate | `vehicle-create-gate.ts` and its two companions | a sequence of external creations, some of which fail; lower priority |
| VRM forms, rental operations and decisions | `vrm/forms/rental-request.ts`, `survey.ts`, `vrm/routes.ts`, `vrm/storage.ts` | row-level edits, little shared protocol; they feed booking and dispatch |
| TPMS, WMS, AMS, Samsara and other clients; Holman portal; assignment services | `tpms-*.ts`, `wms-engine-*.ts`, `ams-api-service.ts`, `holman-portal-service.ts`, `vehicle-assignment-service.ts` | I/O: their answers are inputs of the models |
| Task queues, users, dashboards, read API, sign-in, web client, ETD robot | `storage.ts`, `routes.ts`, `fleet-scope-storage.ts`, `client/`, `etd-runner/` | CRUD, presentation, a separate program |

Most of the repository by size is presentation, generated data and row-level CRUD: the modelled share of its
lines is small, the modelled share of its control protocols is not.

## 7. Plan

1. **LockedJobs**: the session lock, its loss, the re-check before the prune, dedup rows; at most one job in its
   destructive section, each outcome applied once.
2. **DcaEvents**: boot reconciliation on a second instance against a dispatch under way, operator retry.
3. **Comms**: inbound STOP and delivery callbacks in place of the free choices.

## 8. Running

`tlc -config MCReconExecutor_safety.cfg MCReconExecutor`, and so on for each configuration, named
after its module; `tlapm ReconExecutorProofs.tla` for a proof. `PROJECT.json` maps every definition to
the lines it models, and gives for every property a mutation of the model, written as a bug of
the code would be, under which TLC finds the property violated.
