-------------------------- MODULE HolmanAssignment ---------------------------
(***************************************************************************)
(* Who drives one truck, as Holman shows it and as the local cache holds it *)
(* (holman_vehicles_cache), with everything that writes the cache at the    *)
(* same time: the technician changes of people and of the nightly backstop, *)
(* each tracked as a submission until somebody sees Holman apply it; the    *)
(* fleet syncs; the checks of pending submissions; the sweep that lifts     *)
(* superseded fences; the bulk verifier of the backstop.                    *)
(*                                                                         *)
(* Holman answers 202 and applies later, in any order, or never.  A write   *)
(* fence asks the syncs to leave the backstop's value alone meanwhile.      *)
(* Every database statement and every request of a handler is a step.       *)
(*                                                                         *)
(* `clock' moves when a submission row or a fence stamp is written, the two *)
(* times the code compares with others.                                     *)
(***************************************************************************)
EXTENDS Naturals, FiniteSets

CONSTANTS
    Techs, NoTech,
    AtFirst,       \* whom Holman and the cache may show at first
    Syncs,         \* fleet syncs that pull this truck, full or incremental
    Checkers,      \* verifications of submissions at work: timers, the 90 s poll, a request
    MaxWrites,     \* bound: technician changes
    Backstops,     \* which of them are the nightly backstop's, the others are people's
    MaxFaults,     \* bound: rows and mirrors that fail, changes lost or made at Holman
    MaxReaders     \* bound: syncs, checks and sweeps at work at a time

ASSUME AssignmentAssumption ==
    /\ NoTech \notin Techs /\ AtFirst \subseteq Techs \cup {NoTech}
    /\ MaxWrites \in Nat /\ Backstops \subseteq 1..MaxWrites
    /\ MaxFaults \in Nat /\ MaxReaders \in Nat

VARIABLES
    live,     \* the technician Holman shows
    queued,   \* changes it accepted and has not applied
    write,    \* the changes and how far their flows are
    sub,      \* holman_submissions
    fence,    \* reconciliation_write_fences, the row of this truck
    cache,    \* holman_vehicles_cache, the row of this truck
    sync, check, sweep,   \* what each of these is at
    clock, faults,
    shown     \* ghost: what Holman has shown since the last stamp

vars == <<live, queued, write, sub, fence, cache, sync, check, sweep, clock, faults, shown>>
holman == <<live, queued, shown>>
readers == <<sync, check, sweep>>

Values == Techs \cup {NoTech}
Writes == 1..MaxWrites
None == 0

WritePcs == {"unused", "shown", "clear", "sent", "tracked", "landed", "unmirrored", "matched", "repair",
            "repaired", "done"}
SubStatuses == {"none", "pending", "completed", "failed"}
FenceStatuses == {"none", "active", "verified", "expired"}
SyncPcs == {"idle", "pulled", "loaded", "unassigns", "clearing", "pending", "settling"}
CheckPcs == {"idle", "asking", "confirmed", "verify", "expire", "mirror", "settle",
             "fallback", "note", "undecided"}
SweepPcs == {"idle", "fenced", "asking", "lift", "mirror"}

(* How old a submission is: past the expiry of its verification, past the   *)
(* hour in which an unassign is applied again.                              *)
Fresh == 0
Expired == 1
HourOld == 2

IdleSync == [pc |-> "idle", got |-> NoTech, now |-> 0, fenced |-> FALSE, pend |-> {}]
IdleCheck == [pc |-> "idle", n |-> None, late |-> FALSE]
IdleSweep == [pc |-> "idle", expected |-> NoTech, created |-> 0, n |-> None]

TypeOK ==
    /\ live \in Values /\ shown \subseteq Values
    /\ queued \subseteq Writes
    /\ write \in [Writes -> [want : Values, pc : WritePcs]]
    /\ sub \in [Writes -> [status : SubStatuses, created : Nat, age : {Fresh, Expired, HourOld}]]
    /\ fence \in [status : FenceStatuses, expected : Values, created : Nat, stamped : Nat]
    /\ fence.status = "none" <=> fence.stamped = 0
    /\ cache \in [tech : Values, synced : Nat]
    /\ sync \in [Syncs -> [pc : SyncPcs, got : Values, now : Nat, fenced : BOOLEAN,
                           pend : SUBSET Writes]]
    /\ check \in [Checkers -> [pc : CheckPcs, n : Writes \cup {None}, late : BOOLEAN]]
    /\ sweep \in [pc : SweepPcs, expected : Values, created : Nat, n : Writes \cup {None}]
    /\ clock \in Nat /\ faults \in 0..MaxFaults

Init ==
    /\ live \in AtFirst /\ queued = {} /\ shown = {live}
    /\ write = [n \in Writes |-> [want |-> NoTech, pc |-> "unused"]]
    /\ sub = [n \in Writes |-> [status |-> "none", created |-> 0, age |-> Fresh]]
    /\ fence = [status |-> "none", expected |-> NoTech, created |-> 0, stamped |-> 0]
    /\ cache = [tech |-> live, synced |-> 0]
    /\ sync = [s \in Syncs |-> IdleSync]
    /\ check = [c \in Checkers |-> IdleCheck]
    /\ sweep = IdleSweep
    /\ clock = 0 /\ faults = 0

-----------------------------------------------------------------------------
(* Bounds.                                                                 *)

Fault == faults < MaxFaults /\ faults' = faults + 1

MayBegin ==
    Cardinality({s \in Syncs : sync[s].pc # "idle"}) + Cardinality({c \in Checkers : check[c].pc # "idle"})
    + (IF sweep.pc = "idle" THEN 0 ELSE 1) < MaxReaders

-----------------------------------------------------------------------------
(* The fence.                                                              *)

(* mutant: a fence past its TTL is still active.                            *)
FenceActive_noTtl == fence.status \in {"active", "expired"}

FenceActive == fence.status = "active"

(* An existing row is updated and keeps its created_at.                     *)
Stamped(v) ==
    [status |-> "active", expected |-> v, stamped |-> clock + 1,
     created |-> IF fence.status = "none" THEN clock + 1 ELSE fence.created]

(* mutant: the verification of a fence that was never stamped makes a row.  *)
Verified_upserts == [fence EXCEPT !.status = "verified"]

Verified == [fence EXCEPT !.status = IF @ = "active" THEN "verified" ELSE @]

ExpiredNow == [fence EXCEPT !.status = "expired"]

(* A fence that asks for a clear expects "^null^", which no observed value  *)
(* equals.                                                                  *)
Agrees(expected, v) == expected = v /\ v # NoTech

(* Seven days after the last stamp; every submission made before it is old  *)
(* by then.                                                                 *)
FenceTtl ==
    /\ FenceActive
    /\ \A n \in Writes : sub[n].status # "none" /\ sub[n].created < fence.stamped => sub[n].age = HourOld
    /\ fence' = ExpiredNow
    /\ UNCHANGED <<holman, write, sub, cache, readers, clock, faults>>

-----------------------------------------------------------------------------
(* A technician change.  The index on open items of a target lets the       *)
(* backstop begin another once one is landed and waits for verification.    *)

Pending == {n \in Writes : sub[n].status = "pending"}

BackstopBusy ==
    \E n \in Backstops : write[n].pc \in {"sent", "tracked", "unmirrored", "repair", "repaired"}

WriteGoes(n, to) == write' = [write EXCEPT ![n].pc = to]

Submitted(n, v) ==
    /\ write' = [write EXCEPT ![n] = [want |-> v, pc |-> "sent"]]
    /\ queued' = queued \cup {n}

Submit(n, v) ==
    /\ write[n].pc = "unused"
    /\ n \in Backstops => ~BackstopBusy /\ v # live
    /\ Submitted(n, v)
    /\ UNCHANGED <<live, shown, sub, fence, cache, readers, clock, faults>>

(* A person's assign first asks Holman, and sees the technician there.      *)
SeesShown(n, v) ==
    /\ write[n].pc = "unused" /\ n \notin Backstops
    /\ v # NoTech /\ live = v
    /\ write' = [write EXCEPT ![n] = [want |-> v, pc |-> "shown"]]
    /\ UNCHANGED <<holman, sub, fence, cache, readers, clock, faults>>

(* With no submission in flight nothing need be sent.                       *)
ReadInFlight(n) ==
    /\ write[n].pc = "shown"
    /\ IF Pending = {} THEN WriteGoes(n, "clear") /\ UNCHANGED queued
                         ELSE Submitted(n, write[n].want)
    /\ UNCHANGED <<live, shown, sub, fence, cache, readers, clock, faults>>

(* The operation reports the assignment as verified and caches it.          *)
SkipMirror(n) ==
    /\ write[n].pc = "clear"
    /\ cache' = [cache EXCEPT !.tech = write[n].want]
    /\ WriteGoes(n, "done")
    /\ UNCHANGED <<holman, sub, fence, readers, clock, faults>>

Track(n) ==
    /\ write[n].pc = "sent"
    /\ sub' = [sub EXCEPT ![n] = [status |-> "pending", created |-> clock + 1, age |-> Fresh]]
    /\ clock' = clock + 1
    /\ WriteGoes(n, "tracked")
    /\ UNCHANGED <<holman, fence, cache, readers, faults>>

(* The row cannot be written: the operation fails, the change is queued at  *)
(* Holman all the same.                                                     *)
LoseTrack(n) ==
    /\ write[n].pc = "sent"
    /\ Fault
    /\ WriteGoes(n, "done")
    /\ UNCHANGED <<holman, sub, fence, cache, readers, clock>>

(* The cache write-through of a person's operation.                         *)
HumanMirror(n) ==
    /\ write[n].pc = "tracked" /\ n \notin Backstops
    /\ cache' = [cache EXCEPT !.tech = write[n].want]
    /\ WriteGoes(n, "done")
    /\ UNCHANGED <<holman, sub, fence, readers, clock, faults>>

(* The executor's cache transaction: mirror and fence together.             *)
BackstopMirror(n) ==
    /\ write[n].pc = "tracked" /\ n \in Backstops
    /\ cache' = [cache EXCEPT !.tech = write[n].want]
    /\ fence' = Stamped(write[n].want)
    /\ shown' = {live}
    /\ clock' = clock + 1
    /\ WriteGoes(n, "landed")
    /\ UNCHANGED <<live, queued, sub, readers, faults>>

(* It fails: a person's operation ends, the item is left                    *)
(* external_applied_cache_pending.                                          *)
MirrorFails(n) ==
    /\ write[n].pc = "tracked"
    /\ Fault
    /\ WriteGoes(n, IF n \in Backstops THEN "unmirrored" ELSE "done")
    /\ UNCHANGED <<holman, sub, fence, cache, readers, clock>>

-----------------------------------------------------------------------------
(* Holman, and time.                                                       *)

HolmanApplies(n) ==
    /\ n \in queued
    /\ live' = write[n].want
    /\ shown' = shown \cup {write[n].want}
    /\ queued' = queued \ {n}
    /\ UNCHANGED <<write, sub, fence, cache, readers, clock, faults>>

HolmanLoses(n) ==
    /\ n \in queued
    /\ Fault
    /\ queued' = queued \ {n}
    /\ UNCHANGED <<live, shown, write, sub, fence, cache, readers, clock>>

(* Somebody changes it at Holman directly.                                  *)
HolmanEdited(v) ==
    /\ v # live /\ Fault
    /\ live' = v
    /\ shown' = shown \cup {v}
    /\ UNCHANGED <<queued, write, sub, fence, cache, readers, clock>>

Age(n) ==
    /\ sub[n].status # "none" /\ sub[n].age < HourOld
    /\ \A m \in Writes : sub[m].status # "none" /\ sub[m].created < sub[n].created => sub[m].age > sub[n].age
                          \/ sub[m].age = HourOld
    /\ sub' = [sub EXCEPT ![n].age = @ + 1]
    /\ UNCHANGED <<holman, write, fence, cache, readers, clock, faults>>

-----------------------------------------------------------------------------
(* A fleet sync: the pull, the cache, and the pending submissions.          *)

SyncStep(s, from) == sync[s].pc = from

SyncPull(s) ==
    /\ SyncStep(s, "idle") /\ MayBegin
    /\ sync' = [sync EXCEPT ![s] = [IdleSync EXCEPT !.pc = "pulled", !.got = live]]
    /\ UNCHANGED <<holman, write, sub, fence, cache, check, sweep, clock, faults>>

SyncLoad(s) ==
    /\ SyncStep(s, "pulled")
    /\ sync' = [sync EXCEPT ![s].pc = "loaded", ![s].now = clock, ![s].fenced = FenceActive]
    /\ UNCHANGED <<holman, write, sub, fence, cache, check, sweep, clock, faults>>

(* mutant: the pulled technician is written whatever the fence.             *)
SyncedTech_unfenced(s) == sync[s].got

SyncedTech(s) == IF sync[s].fenced THEN cache.tech ELSE sync[s].got

(* A full sync goes on to the unassigns, an incremental one does not.       *)
SyncUpsert(s, next) ==
    /\ SyncStep(s, "loaded") /\ next \in {"unassigns", "pending"}
    /\ cache' = [tech |-> SyncedTech(s), synced |-> sync[s].now]
    /\ sync' = [sync EXCEPT ![s].pc = next, ![s].now = 0, ![s].fenced = FALSE]
    /\ UNCHANGED <<holman, write, sub, fence, check, sweep, clock, faults>>

RecentUnassign ==
    \E n \in Writes : /\ sub[n].status = "completed" /\ sub[n].age < HourOld
                      /\ write[n].want = NoTech

SyncReadUnassigns(s) ==
    /\ SyncStep(s, "unassigns")
    /\ sync' = [sync EXCEPT ![s].pc = IF RecentUnassign THEN "clearing" ELSE "pending"]
    /\ UNCHANGED <<holman, write, sub, fence, cache, check, sweep, clock, faults>>

SyncClear(s) ==
    /\ SyncStep(s, "clearing")
    /\ cache' = [cache EXCEPT !.tech = NoTech]
    /\ sync' = [sync EXCEPT ![s].pc = "pending"]
    /\ UNCHANGED <<holman, write, sub, fence, check, sweep, clock, faults>>

SyncReadPending(s) ==
    /\ SyncStep(s, "pending")
    /\ sync' = [sync EXCEPT ![s] = IF Pending = {} THEN IdleSync
                                   ELSE [@ EXCEPT !.pc = "settling", !.pend = Pending]]
    /\ UNCHANGED <<holman, write, sub, fence, cache, check, sweep, clock, faults>>

(* One row of the list.  A match completes it; an assign that does not match *)
(* is written back as pending with the technician seen.                     *)
SyncSettle(s, n) ==
    /\ SyncStep(s, "settling") /\ n \in sync[s].pend
    /\ sub' = [sub EXCEPT ![n].status =
                  IF sync[s].got = write[n].want THEN "completed"
                  ELSE IF write[n].want # NoTech /\ sync[s].got # NoTech THEN "pending"
                  ELSE @]
    /\ sync' = [sync EXCEPT ![s] = IF sync[s].pend = {n} THEN IdleSync
                                   ELSE [sync[s] EXCEPT !.pend = @ \ {n}]]
    /\ UNCHANGED <<holman, write, fence, cache, check, sweep, clock, faults>>

-----------------------------------------------------------------------------
(* A check of one pending submission (verifyByVehicleLookup and the handler *)
(* that settles what it returns).                                           *)

CheckStep(c, from) == check[c].pc = from

CheckGoes(c, to) ==
    check' = [check EXCEPT ![c] = IF to = "idle" THEN IdleCheck ELSE [@ EXCEPT !.pc = to]]

CheckStart(c, n) ==
    /\ CheckStep(c, "idle") /\ n \in Pending /\ MayBegin
    /\ check' = [check EXCEPT ![c] = [pc |-> "asking", n |-> n, late |-> sub[n].age >= Expired]]
    /\ UNCHANGED <<holman, write, sub, fence, cache, sync, sweep, clock, faults>>

CheckConfirms(c) ==
    /\ CheckStep(c, "asking") /\ live = write[check[c].n].want
    /\ CheckGoes(c, "confirmed")
    /\ UNCHANGED <<holman, write, sub, fence, cache, sync, sweep, clock, faults>>

(* Holman shows something else, or does not answer.                         *)
CheckSeesNothing(c) ==
    /\ CheckStep(c, "asking")
    /\ CheckGoes(c, "fallback")
    /\ UNCHANGED <<holman, write, sub, fence, cache, sync, sweep, clock, faults>>

(* mutant: a submission older than the fence releases it too.               *)
MayRelease_anyOrder(n) == FenceActive

MayRelease(n) == FenceActive /\ sub[n].created > fence.created

CheckReadFence(c) ==
    /\ CheckStep(c, "confirmed")
    /\ LET n == check[c].n IN
       CheckGoes(c, IF ~MayRelease(n) THEN "settle"
                    ELSE IF Agrees(fence.expected, write[n].want) THEN "verify" ELSE "expire")
    /\ UNCHANGED <<holman, write, sub, fence, cache, sync, sweep, clock, faults>>

CheckVerifies(c) ==
    /\ CheckStep(c, "verify")
    /\ fence' = Verified
    /\ CheckGoes(c, "settle")
    /\ UNCHANGED <<holman, write, sub, cache, sync, sweep, clock, faults>>

(* expireFence names the truck, not the row that was read.                  *)
CheckExpires(c) ==
    /\ CheckStep(c, "expire")
    /\ fence' = ExpiredNow
    /\ CheckGoes(c, "mirror")
    /\ UNCHANGED <<holman, write, sub, cache, sync, sweep, clock, faults>>

CheckMirrors(c) ==
    /\ CheckStep(c, "mirror")
    /\ cache' = [cache EXCEPT !.tech = write[check[c].n].want]
    /\ CheckGoes(c, "settle")
    /\ UNCHANGED <<holman, write, sub, fence, sync, sweep, clock, faults>>

CheckSettles(c) ==
    /\ CheckStep(c, "settle")
    /\ sub' = [sub EXCEPT ![check[c].n].status = "completed"]
    /\ CheckGoes(c, "idle")
    /\ UNCHANGED <<holman, write, fence, cache, sync, sweep, clock, faults>>

(* The cache, when a sync has written it since the submission.              *)
CheckCache(c) ==
    /\ CheckStep(c, "fallback")
    /\ LET n == check[c].n IN
       CheckGoes(c, IF cache.synced < sub[n].created THEN "undecided"
                    ELSE IF cache.tech = write[n].want THEN "settle"
                    ELSE IF write[n].want # NoTech /\ cache.tech # NoTech THEN "note"
                    ELSE "undecided")
    /\ UNCHANGED <<holman, write, sub, fence, cache, sync, sweep, clock, faults>>

(* The technician seen, with status pending whatever the row is by now.     *)
CheckNotes(c) ==
    /\ CheckStep(c, "note")
    /\ sub' = [sub EXCEPT ![check[c].n].status = "pending"]
    /\ CheckGoes(c, "undecided")
    /\ UNCHANGED <<holman, write, fence, cache, sync, sweep, clock, faults>>

(* mutant: a submission past its expiry is left pending.                    *)
Undecided_neverFails(c) == sub[check[c].n].status

Undecided(c) == IF check[c].late THEN "failed" ELSE sub[check[c].n].status

CheckEnds(c) ==
    /\ CheckStep(c, "undecided")
    /\ sub' = [sub EXCEPT ![check[c].n].status = Undecided(c)]
    /\ CheckGoes(c, "idle")
    /\ UNCHANGED <<holman, write, fence, cache, sync, sweep, clock, faults>>

-----------------------------------------------------------------------------
(* The sweep that lifts superseded fences; one at a time.                   *)

SweepRead ==
    /\ sweep.pc = "idle" /\ FenceActive /\ MayBegin
    /\ sweep' = [IdleSweep EXCEPT !.pc = "fenced", !.expected = fence.expected,
                                  !.created = fence.created]
    /\ UNCHANGED <<holman, write, sub, fence, cache, sync, check, clock, faults>>

Newer == {n \in Writes : sub[n].status = "completed" /\ sub[n].created > sweep.created}

SweepQuery ==
    /\ sweep.pc = "fenced"
    /\ \/ Newer = {} /\ sweep' = IdleSweep
       \/ \E n \in Newer :
             /\ \A m \in Newer : sub[m].created <= sub[n].created
             /\ sweep' = IF Agrees(sweep.expected, write[n].want) THEN IdleSweep
                         ELSE [IdleSweep EXCEPT !.pc = "asking", !.n = n]
    /\ UNCHANGED <<holman, write, sub, fence, cache, sync, check, clock, faults>>

LiveMatchesNewer == live = write[sweep.n].want

SweepConfirms ==
    /\ sweep.pc = "asking" /\ LiveMatchesNewer
    /\ sweep' = [sweep EXCEPT !.pc = "lift"]
    /\ UNCHANGED <<holman, write, sub, fence, cache, sync, check, clock, faults>>

SweepGivesUp ==
    /\ sweep.pc = "asking"
    /\ sweep' = IdleSweep
    /\ UNCHANGED <<holman, write, sub, fence, cache, sync, check, clock, faults>>

SweepExpires ==
    /\ sweep.pc = "lift"
    /\ fence' = ExpiredNow
    /\ sweep' = [sweep EXCEPT !.pc = "mirror"]
    /\ UNCHANGED <<holman, write, sub, cache, sync, check, clock, faults>>

SweepMirrors ==
    /\ sweep.pc = "mirror"
    /\ cache' = [cache EXCEPT !.tech = write[sweep.n].want]
    /\ sweep' = IdleSweep
    /\ UNCHANGED <<holman, write, sub, fence, sync, check, clock, faults>>

-----------------------------------------------------------------------------
(* The bulk verifier on the backstop's item (module ReconVerifier has the   *)
(* sweep itself).                                                           *)

BulkMatch(n) ==
    /\ write[n].pc \in {"landed", "unmirrored"} /\ live = write[n].want
    /\ write' = [write EXCEPT ![n].pc = IF @ = "landed" THEN "matched" ELSE "repair"]
    /\ UNCHANGED <<holman, sub, fence, cache, readers, clock, faults>>

BulkRepair(n) ==
    /\ write[n].pc = "repair"
    /\ cache' = [cache EXCEPT !.tech = write[n].want]
    /\ WriteGoes(n, "repaired")
    /\ UNCHANGED <<holman, sub, fence, readers, clock, faults>>

BulkVerify(n) ==
    /\ write[n].pc \in {"matched", "repaired"}
    /\ fence' = Verified
    /\ WriteGoes(n, "done")
    /\ UNCHANGED <<holman, sub, cache, readers, clock, faults>>

(* No match and the grace period is over: flagged.                          *)
BulkFlag(n) ==
    /\ write[n].pc \in {"landed", "unmirrored"} /\ live # write[n].want
    /\ sub[n].age = HourOld
    /\ WriteGoes(n, "done")
    /\ UNCHANGED <<holman, sub, fence, cache, readers, clock, faults>>

-----------------------------------------------------------------------------
WriteStep ==
    \E n \in Writes :
        \/ \E v \in Values : Submit(n, v) \/ SeesShown(n, v)
        \/ ReadInFlight(n) \/ SkipMirror(n)
        \/ Track(n) \/ LoseTrack(n)
        \/ HumanMirror(n) \/ BackstopMirror(n) \/ MirrorFails(n)
        \/ HolmanApplies(n) \/ HolmanLoses(n)
        \/ BulkMatch(n) \/ BulkRepair(n) \/ BulkVerify(n) \/ BulkFlag(n)

SyncWork(s) ==
    \/ SyncPull(s) \/ SyncLoad(s) \/ SyncUpsert(s, "unassigns") \/ SyncUpsert(s, "pending")
    \/ SyncReadUnassigns(s) \/ SyncClear(s) \/ SyncReadPending(s)
    \/ \E n \in Writes : SyncSettle(s, n)

CheckWork(c) ==
    \/ CheckConfirms(c) \/ CheckSeesNothing(c)
    \/ CheckReadFence(c) \/ CheckVerifies(c) \/ CheckExpires(c) \/ CheckMirrors(c)
    \/ CheckSettles(c) \/ CheckCache(c) \/ CheckNotes(c) \/ CheckEnds(c)

SweepWork ==
    SweepRead \/ SweepQuery \/ SweepConfirms \/ SweepGivesUp \/ SweepExpires \/ SweepMirrors

Next ==
    \/ WriteStep \/ SweepWork \/ FenceTtl
    \/ \E n \in Writes : Age(n)
    \/ \E v \in Values : HolmanEdited(v)
    \/ \E s \in Syncs : SyncWork(s)
    \/ \E c \in Checkers, n \in Writes : CheckStart(c, n)
    \/ \E c \in Checkers : CheckWork(c)

(* Time passes, the truck is synced again and again, the 90 s poll takes up *)
(* every pending row, and what was begun goes on.  Nothing is asked of      *)
(* Holman, of people, or of the sweeps that their requests start.           *)
Fairness ==
    /\ WF_vars(FenceTtl)
    /\ \A n \in Writes : WF_vars(Age(n))
    /\ \A s \in Syncs : WF_vars(SyncWork(s))
    /\ \A c \in Checkers : WF_vars(CheckWork(c))
    /\ \A c \in Checkers, n \in Writes : SF_vars(CheckStart(c, n))
    /\ WF_vars(sweep.pc # "idle" /\ SweepWork)

Spec == Init /\ [][Next]_vars /\ Fairness

-----------------------------------------------------------------------------
(* While its fence holds, a correction in the cache is overwritten only by  *)
(* a sync that had read the fences before the stamp, by the unassigns a     *)
(* sync applies again, by a person's own operation, by the repair of a      *)
(* confirmed item, or by the mirror that follows a lift.                    *)
(* Code: "the sync must PRESERVE the cached value" (fences.ts) against the  *)
(* one loadActiveFenceSet before the loop of upserts.                       *)
Overwritten == /\ FenceActive /\ fence' = fence
               /\ cache.tech = fence.expected /\ cache'.tech # fence.expected

MayOverwrite ==
    \/ \E s \in Syncs : sync[s].pc = "loaded" /\ sync'[s].pc # "loaded" /\ sync[s].now < fence.stamped
    \/ \E s \in Syncs : sync[s].pc = "clearing" /\ sync'[s].pc = "pending"
    \/ \E n \in Writes : write[n].pc \in {"clear", "tracked", "repair"} /\ write'[n] # write[n]
    \/ \E c \in Checkers : check[c].pc = "mirror" /\ check'[c].pc = "settle"
    \/ sweep.pc = "mirror" /\ sweep'.pc = "idle"

CorrectionOutlivesSyncs == [][Overwritten => MayOverwrite]_vars

(* A fence stamped once is lifted before its TTL only when Holman has shown, *)
(* since the stamp, the value it expects or that of a submission made after *)
(* it, never on the cache's word, on an older submission or on none.        *)
(* Code: releaseSupersededFence's order guard, the sweep's live read, the   *)
(* bulk verifier's match.                                                   *)
LiftedEarly == FenceActive /\ fence'.status \in {"verified", "expired"}
               /\ <<write, readers>>' # <<write, readers>>

EvidenceForLift ==
    \/ fence.expected \in shown
    \/ \E n \in Writes : sub[n].created > fence.stamped /\ write[n].want \in shown

EarlyLiftsHaveEvidence ==
    [][LiftedEarly /\ fence.created = fence.stamped => EvidenceForLift]_vars

(* A pending submission is settled in the end, whatever Holman does and     *)
(* although a late observation may write a settled one back as pending.     *)
(* Code: pollPendingSubmissions and postExpiryCheck.                        *)
SubmissionsSettle ==
    \A n \in Writes : sub[n].status = "pending" ~> sub[n].status \in {"completed", "failed"}

(* What makes the cache and Holman agree for good: no fence holds the syncs *)
(* back, no unassign of the last hour waits to be applied again, and what a *)
(* sync, a check or the sweep is about to write is what Holman shows.       *)
NothingPins ==
    /\ ~FenceActive
    /\ live # NoTech =>
          \A n \in Writes : sub[n].status # "none" /\ write[n].want = NoTech => sub[n].age = HourOld

ReadersAgree ==
    /\ \A s \in Syncs : /\ sync[s].pc \in {"pulled", "loaded"} => sync[s].got = live
                        /\ sync[s].pc = "clearing" => live = NoTech
    /\ \A c \in Checkers : check[c].pc \in {"expire", "mirror"} => write[check[c].n].want = live
    /\ sweep.pc \in {"lift", "mirror"} => write[sweep.n].want = live

Agreed == cache.tech = live /\ NothingPins /\ ReadersAgree

(* When the changes are over the cache comes to show what Holman shows and  *)
(* keeps showing it: no fence and no re-applied unassign pins it for good.  *)
(* Code: the TTL of a fence, the hour of reapplyRecentUnassigns, the syncs. *)
EventuallyAgrees == <>[]Agreed

(* Once the two agree, no sync, check or sweep parts them: only a change at *)
(* Holman or a step of a technician change can.                             *)
(* Code: the same, and the mirrors of releaseSupersededFence and the sweep. *)
AgreementLasts == [][Agreed /\ UNCHANGED <<live, write>> => Agreed']_vars
=============================================================================
