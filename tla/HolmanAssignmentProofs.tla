------------------------ MODULE HolmanAssignmentProofs ------------------------
(***************************************************************************)
(* Proofs about HolmanAssignment, for every set of technicians, syncs and   *)
(* checkers and every number of changes, faults and readers.                *)
(*                                                                         *)
(*   TypeInv       types, and the rows and fences that steps point at exist *)
(*   LoadedBefore  a sync that thinks the truck unfenced loaded the fences  *)
(*                 before the stamp                                         *)
(*   LiftInv       what a check, the sweep and the bulk verifier hold in    *)
(*                 hand when they come to lift a fence: the confirmed       *)
(*                 change is newer than the stamp and Holman showed it, or  *)
(*                 the fence was stamped again                              *)
(*                                                                         *)
(*   Known         the rows that checks and syncs have in hand exist        *)
(*                                                                         *)
(* TypeInv gives AssignmentTypes, with LoadedBefore CorrectionOutlives, with *)
(* Known AgreementStays, and LiftInv LiftsHaveEvidence.                     *)
(***************************************************************************)
EXTENDS HolmanAssignment, TLAPS

-----------------------------------------------------------------------------
(* Types, and what the steps of a check, a sweep and a change point at.     *)

Pointed(q) ==
    /\ q.pc # "idle" => q.n \in Writes
    /\ q.pc \in {"verify", "expire"} => fence.status # "none"

SweepPointed ==
    /\ sweep.pc \in {"asking", "lift", "mirror"} => sweep.n \in Writes
    /\ sweep.pc # "idle" => fence.status # "none"

Pointers == (\A c \in Checkers : Pointed(check[c])) /\ SweepPointed

TypeInv == TypeOK /\ Pointers

WriteRec == [want : Values, pc : WritePcs]
SubRec == [status : SubStatuses, created : Nat, age : {Fresh, Expired, HourOld}]
FenceRec == [status : FenceStatuses, expected : Values, created : Nat, stamped : Nat]
CacheRec == [tech : Values, synced : Nat]
SyncRec == [pc : SyncPcs, got : Values, now : Nat, fenced : BOOLEAN, pend : SUBSET Writes]
CheckRec == [pc : CheckPcs, n : Writes \cup {None}, late : BOOLEAN]
SweepRec == [pc : SweepPcs, expected : Values, created : Nat, n : Writes \cup {None}]

LEMMA Typed ==
    ASSUME TypeOK
    PROVE  /\ live \in Values /\ shown \subseteq Values /\ queued \subseteq Writes
           /\ write \in [Writes -> WriteRec] /\ sub \in [Writes -> SubRec]
           /\ fence \in FenceRec /\ (fence.status = "none" <=> fence.stamped = 0)
           /\ cache \in CacheRec /\ sync \in [Syncs -> SyncRec] /\ check \in [Checkers -> CheckRec]
           /\ sweep \in SweepRec /\ clock \in Nat /\ faults \in 0..MaxFaults
BY DEF TypeOK, WriteRec, SubRec, FenceRec, CacheRec, SyncRec, CheckRec, SweepRec

LEMMA Retyped ==
    ASSUME live' \in Values, shown' \subseteq Values, queued' \subseteq Writes,
           write' \in [Writes -> WriteRec], sub' \in [Writes -> SubRec],
           fence' \in FenceRec, (fence.status = "none" <=> fence.stamped = 0)',
           cache' \in CacheRec, sync' \in [Syncs -> SyncRec], check' \in [Checkers -> CheckRec],
           sweep' \in SweepRec, clock' \in Nat, faults' \in 0..MaxFaults
    PROVE  TypeOK'
BY DEF TypeOK, WriteRec, SubRec, FenceRec, CacheRec, SyncRec, CheckRec, SweepRec

LEMMA WantTyped ==
    ASSUME TypeOK, NEW n \in Writes
    PROVE  write[n] \in WriteRec /\ write[n].want \in Values /\ write[n].pc \in WritePcs
BY Typed DEF WriteRec

-----------------------------------------------------------------------------
(* Who touches what.                                                        *)

LEMMA HolmanTyped ==
    ASSUME TypeOK, Next
    PROVE  live' \in Values /\ shown' \subseteq Values /\ queued' \subseteq Writes
<1>t. /\ live \in Values /\ shown \subseteq Values /\ queued \subseteq Writes
      /\ \A n \in Writes : write[n].want \in Values
  BY Typed, WantTyped
<1>1. ASSUME NEW n \in Writes, \/ \E v \in Values : Submit(n, v) \/ SeesShown(n, v)
                               \/ ReadInFlight(n) \/ SkipMirror(n)
                               \/ Track(n) \/ LoseTrack(n)
      PROVE  live' \in Values /\ shown' \subseteq Values /\ queued' \subseteq Writes
  BY <1>t, <1>1 DEF Submit, SeesShown, ReadInFlight, SkipMirror, Track, LoseTrack, Submitted, holman
<1>2. ASSUME NEW n \in Writes, \/ HumanMirror(n) \/ BackstopMirror(n) \/ MirrorFails(n)
                               \/ HolmanApplies(n) \/ HolmanLoses(n)
                               \/ BulkMatch(n) \/ BulkRepair(n) \/ BulkVerify(n) \/ BulkFlag(n)
      PROVE  live' \in Values /\ shown' \subseteq Values /\ queued' \subseteq Writes
  BY <1>t, <1>2 DEF HumanMirror, BackstopMirror, MirrorFails, HolmanApplies, HolmanLoses,
                    BulkMatch, BulkRepair, BulkVerify, BulkFlag, holman
<1>3. ASSUME UNCHANGED holman
      PROVE  live' \in Values /\ shown' \subseteq Values /\ queued' \subseteq Writes
  BY <1>t, <1>3 DEF holman
<1>4. ASSUME NEW s \in Syncs, SyncWork(s) PROVE UNCHANGED holman
  BY <1>4 DEF SyncWork, SyncPull, SyncLoad, SyncUpsert, SyncReadUnassigns, SyncClear, SyncReadPending, SyncSettle
<1>5. ASSUME NEW c \in Checkers, CheckWork(c) \/ \E n \in Writes : CheckStart(c, n) PROVE UNCHANGED holman
  BY <1>5 DEF CheckWork, CheckStart, CheckConfirms, CheckSeesNothing, CheckReadFence, CheckVerifies,
              CheckExpires, CheckMirrors, CheckSettles, CheckCache, CheckNotes, CheckEnds
<1>6. SweepWork \/ FenceTtl \/ (\E n \in Writes : Age(n)) => UNCHANGED holman
  BY DEF SweepWork, SweepRead, SweepQuery, SweepConfirms, SweepGivesUp, SweepExpires, SweepMirrors, FenceTtl, Age
<1>7. ASSUME NEW v \in Values, HolmanEdited(v)
      PROVE  live' \in Values /\ shown' \subseteq Values /\ queued' \subseteq Writes
  BY <1>t, <1>7 DEF HolmanEdited
<1> QED BY <1>1, <1>2, <1>3, <1>4, <1>5, <1>6, <1>7 DEF Next, WriteStep

LEMMA WriteElse ==
    ASSUME Next, ~WriteStep
    PROVE  UNCHANGED write
<1>1. ASSUME NEW s \in Syncs, SyncWork(s) PROVE UNCHANGED write
  BY <1>1 DEF SyncWork, SyncPull, SyncLoad, SyncUpsert, SyncReadUnassigns, SyncClear, SyncReadPending, SyncSettle
<1>2. ASSUME NEW c \in Checkers, CheckWork(c) \/ \E n \in Writes : CheckStart(c, n) PROVE UNCHANGED write
  BY <1>2 DEF CheckWork, CheckStart, CheckConfirms, CheckSeesNothing, CheckReadFence, CheckVerifies,
              CheckExpires, CheckMirrors, CheckSettles, CheckCache, CheckNotes, CheckEnds
<1>3. SweepWork \/ FenceTtl \/ (\E n \in Writes : Age(n)) \/ (\E v \in Values : HolmanEdited(v)) => UNCHANGED write
  BY DEF SweepWork, SweepRead, SweepQuery, SweepConfirms, SweepGivesUp, SweepExpires, SweepMirrors, FenceTtl,
         Age, HolmanEdited
<1> QED BY <1>1, <1>2, <1>3 DEF Next

(* The steps of a change move its record, to a typed one.                   *)
LEMMA WritesTyped ==
    ASSUME TypeOK, Next
    PROVE  write' \in [Writes -> WriteRec]
<1>t. write \in [Writes -> WriteRec] /\ \A n \in Writes : write[n] \in WriteRec
  BY Typed
<1>g. ASSUME NEW n \in Writes, NEW to \in WritePcs, WriteGoes(n, to) PROVE write' \in [Writes -> WriteRec]
  BY <1>t, <1>g DEF WriteGoes, WriteRec
<1>q. ASSUME NEW n \in Writes, NEW q \in WriteRec, write' = [write EXCEPT ![n] = q]
      PROVE  write' \in [Writes -> WriteRec]
  BY <1>t, <1>q
<1>u. ASSUME UNCHANGED write PROVE write' \in [Writes -> WriteRec]
  BY <1>t, <1>u
<1>1. ASSUME NEW n \in Writes, NEW v \in Values, Submit(n, v) \/ SeesShown(n, v)
      PROVE  write' \in [Writes -> WriteRec]
  <2>1. [want |-> v, pc |-> "sent"] \in WriteRec /\ [want |-> v, pc |-> "shown"] \in WriteRec
    BY DEF WriteRec, WritePcs
  <2> QED BY <1>1, <1>q, <2>1 DEF Submit, SeesShown, Submitted
<1>2. ASSUME NEW n \in Writes, ReadInFlight(n)
      PROVE  write' \in [Writes -> WriteRec]
  <2>1. [want |-> write[n].want, pc |-> "sent"] \in WriteRec
    BY WantTyped DEF WriteRec, WritePcs
  <2> QED BY <1>2, <1>g, <1>q, <2>1 DEF ReadInFlight, Submitted, WritePcs
<1>3. ASSUME NEW n \in Writes, \/ SkipMirror(n) \/ Track(n) \/ LoseTrack(n)
                               \/ HumanMirror(n) \/ BackstopMirror(n) \/ MirrorFails(n)
                               \/ BulkRepair(n) \/ BulkVerify(n) \/ BulkFlag(n)
      PROVE  write' \in [Writes -> WriteRec]
  BY <1>3, <1>g DEF SkipMirror, Track, LoseTrack, HumanMirror, BackstopMirror, MirrorFails, BulkRepair,
                    BulkVerify, BulkFlag, WritePcs
<1>4. ASSUME NEW n \in Writes, BulkMatch(n) PROVE write' \in [Writes -> WriteRec]
  BY <1>t, <1>4 DEF BulkMatch, WriteRec, WritePcs
<1>5. ASSUME NEW n \in Writes, HolmanApplies(n) \/ HolmanLoses(n) PROVE UNCHANGED write
  BY <1>5 DEF HolmanApplies, HolmanLoses
<1> QED BY <1>1, <1>2, <1>3, <1>4, <1>5, <1>u, WriteElse DEF WriteStep

(* What becomes of the submissions, and where their statuses come from.     *)
Resettled(n) ==
    /\ \E st \in SubStatuses :
          sub' = [sub EXCEPT ![n].status = st] /\ (st = "none" => sub[n].status = "none")
    /\ UNCHANGED write
    /\ \/ \E s \in Syncs : n \in sync[s].pend
       \/ \E c \in Checkers : check[c].pc # "idle" /\ n = check[c].n

LEMMA SubEffect ==
    ASSUME TypeInv, Next
    PROVE  \/ UNCHANGED sub \/ (\E n \in Writes : Track(n)) \/ (\E n \in Writes : Age(n))
           \/ \E n \in Writes : Resettled(n)
<1>t. \A n \in Writes : sub[n] \in SubRec
  BY Typed DEF TypeInv
<1>n. \A c \in Checkers : check[c].pc # "idle" => check[c].n \in Writes
  BY DEF TypeInv, Pointers, Pointed
<1>3. ASSUME NEW s \in Syncs, NEW n \in Writes, SyncSettle(s, n)
      PROVE  Resettled(n)
  <2>1. sub[n].status \in SubStatuses
    BY <1>t DEF SubRec
  <2> QED BY <1>3, <2>1 DEF SyncSettle, SubStatuses, Resettled
<1>4. ASSUME NEW c \in Checkers, CheckSettles(c) \/ CheckNotes(c) \/ CheckEnds(c)
      PROVE  check[c].n \in Writes /\ Resettled(check[c].n)
  <2>1. check[c].n \in Writes /\ check[c].pc # "idle"
    BY <1>4, <1>n DEF CheckSettles, CheckNotes, CheckEnds, CheckStep
  <2>2. Undecided(c) \in SubStatuses
    BY <1>t, <2>1 DEF Undecided, SubRec, SubStatuses
  <2>3. Undecided(c) = "none" => sub[check[c].n].status = "none"
    BY DEF Undecided
  <2>4. CASE CheckEnds(c)
    <3>1. sub' = [sub EXCEPT ![check[c].n].status = Undecided(c)] /\ UNCHANGED write
      BY <2>4 DEF CheckEnds
    <3> QED BY <2>1, <2>2, <2>3, <3>1 DEF Resettled
  <2> QED BY <1>4, <2>1, <2>4 DEF CheckSettles, CheckNotes, SubStatuses, Resettled
<1>5. WriteStep => UNCHANGED sub \/ \E n \in Writes : Track(n)
  BY DEF WriteStep, Submit, SeesShown, ReadInFlight, SkipMirror, LoseTrack, HumanMirror, BackstopMirror, MirrorFails,
         HolmanApplies, HolmanLoses, BulkMatch, BulkRepair, BulkVerify, BulkFlag
<1>6. ASSUME NEW s \in Syncs, SyncWork(s) PROVE UNCHANGED sub \/ \E n \in Writes : SyncSettle(s, n)
  BY <1>6 DEF SyncWork, SyncPull, SyncLoad, SyncUpsert, SyncReadUnassigns, SyncClear, SyncReadPending
<1>7. ASSUME NEW c \in Checkers, CheckWork(c) \/ \E n \in Writes : CheckStart(c, n)
      PROVE  UNCHANGED sub \/ CheckSettles(c) \/ CheckNotes(c) \/ CheckEnds(c)
  BY <1>7 DEF CheckWork, CheckStart, CheckConfirms, CheckSeesNothing, CheckReadFence, CheckVerifies,
              CheckExpires, CheckMirrors, CheckCache
<1>8. SweepWork \/ FenceTtl \/ (\E v \in Values : HolmanEdited(v)) => UNCHANGED sub
  BY DEF SweepWork, SweepRead, SweepQuery, SweepConfirms, SweepGivesUp, SweepExpires, SweepMirrors, FenceTtl,
         HolmanEdited
<1> QED BY <1>3, <1>4, <1>5, <1>6, <1>7, <1>8 DEF Next

LEMMA SubsTyped ==
    ASSUME TypeInv, Next
    PROVE  sub' \in [Writes -> SubRec]
<1>t. sub \in [Writes -> SubRec] /\ clock \in Nat
  BY Typed DEF TypeInv
<1>1. ASSUME NEW n \in Writes, Track(n) PROVE sub' \in [Writes -> SubRec]
  <2>1. [status |-> "pending", created |-> clock + 1, age |-> Fresh] \in SubRec
    BY <1>t DEF SubRec, SubStatuses
  <2> QED BY <1>t, <1>1, <2>1 DEF Track
<1>2. ASSUME NEW n \in Writes, Age(n) PROVE sub' \in [Writes -> SubRec]
  <2>1. sub[n] \in SubRec
    BY <1>t
  <2>2. sub[n].age + 1 \in {Fresh, Expired, HourOld}
    BY <1>2, <2>1 DEF Age, SubRec, Fresh, Expired, HourOld
  <2> QED BY <1>t, <1>2, <2>2 DEF Age, SubRec
<1>3. ASSUME NEW n \in Writes, NEW st \in SubStatuses, sub' = [sub EXCEPT ![n].status = st]
      PROVE  sub' \in [Writes -> SubRec]
  BY <1>t, <1>3 DEF SubRec
<1>4. CASE UNCHANGED sub
  BY <1>t, <1>4
<1> QED BY <1>1, <1>2, <1>3, <1>4, SubEffect DEF Resettled

(* What becomes of the fence: a stamp, a lift, or nothing; it never goes    *)
(* away.                                                                    *)
LEMMA FenceEffect ==
    ASSUME TypeInv, Next
    PROVE  \/ fence' = fence
           \/ \E n \in Writes : BackstopMirror(n)
           \/ fence' = Verified /\ ((\E c \in Checkers : CheckVerifies(c)) \/ \E n \in Writes : BulkVerify(n))
           \/ /\ fence' = ExpiredNow /\ fence.status # "none"
              /\ FenceTtl \/ (\E c \in Checkers : CheckExpires(c)) \/ SweepExpires
<1>1. WriteStep => \/ fence' = fence \/ \E n \in Writes : BackstopMirror(n)
                   \/ fence' = Verified /\ \E n \in Writes : BulkVerify(n)
  BY DEF WriteStep, Submit, SeesShown, ReadInFlight, SkipMirror, Track, LoseTrack, HumanMirror, MirrorFails,
         HolmanApplies, HolmanLoses, BulkMatch, BulkRepair, BulkVerify, BulkFlag
<1>2. ASSUME NEW s \in Syncs, SyncWork(s) PROVE fence' = fence
  BY <1>2 DEF SyncWork, SyncPull, SyncLoad, SyncUpsert, SyncReadUnassigns, SyncClear, SyncReadPending, SyncSettle
<1>3. ASSUME NEW c \in Checkers, CheckWork(c) \/ \E n \in Writes : CheckStart(c, n)
      PROVE  \/ fence' = fence
             \/ fence' = Verified /\ CheckVerifies(c)
             \/ fence' = ExpiredNow /\ CheckExpires(c)
  BY <1>3 DEF CheckWork, CheckStart, CheckConfirms, CheckSeesNothing, CheckReadFence, CheckVerifies,
              CheckExpires, CheckMirrors, CheckSettles, CheckCache, CheckNotes, CheckEnds
<1>4. ASSUME NEW c \in Checkers, CheckExpires(c) PROVE fence.status # "none"
  BY <1>4 DEF CheckExpires, CheckStep, TypeInv, Pointers, Pointed
<1>5. SweepWork => fence' = fence \/ (fence' = ExpiredNow /\ SweepExpires)
  BY DEF SweepWork, SweepRead, SweepQuery, SweepConfirms, SweepGivesUp, SweepExpires, SweepMirrors
<1>6. SweepExpires => fence.status # "none"
  BY DEF SweepExpires, TypeInv, Pointers, SweepPointed
<1>7. FenceTtl => fence' = ExpiredNow /\ fence.status # "none"
  BY DEF FenceTtl, FenceActive
<1>8. (\E n \in Writes : Age(n)) \/ (\E v \in Values : HolmanEdited(v)) => fence' = fence
  BY DEF Age, HolmanEdited
<1> QED BY <1>1, <1>2, <1>3, <1>4, <1>5, <1>6, <1>7, <1>8 DEF Next

LEMMA FenceTyped ==
    ASSUME TypeInv, Next
    PROVE  /\ fence' \in FenceRec /\ (fence.status = "none" <=> fence.stamped = 0)'
           /\ fence.status # "none" => fence'.status # "none"
<1>t. fence \in FenceRec /\ (fence.status = "none" <=> fence.stamped = 0) /\ clock \in Nat
  BY Typed DEF TypeInv
<1>1. ASSUME NEW n \in Writes, BackstopMirror(n)
      PROVE  fence' \in FenceRec /\ fence'.status = "active" /\ fence'.stamped # 0
  <2>1. write[n].want \in Values
    BY WantTyped DEF TypeInv
  <2>2. fence' = Stamped(write[n].want)
    BY <1>1 DEF BackstopMirror
  <2>3. clock + 1 \in Nat /\ clock + 1 # 0
    BY <1>t
  <2> QED BY <1>t, <2>1, <2>2, <2>3 DEF Stamped, FenceRec, FenceStatuses
<1>2. CASE fence' = Verified
  BY <1>t, <1>2 DEF Verified, FenceRec, FenceStatuses
<1>3. CASE fence' = ExpiredNow /\ fence.status # "none"
  BY <1>t, <1>3 DEF ExpiredNow, FenceRec, FenceStatuses
<1>4. CASE fence' = fence
  BY <1>t, <1>4
<1> QED BY <1>1, <1>2, <1>3, <1>4, FenceEffect

LEMMA CacheTyped ==
    ASSUME TypeInv, Next
    PROVE  cache' \in CacheRec
<1>t. /\ cache \in CacheRec /\ sync \in [Syncs -> SyncRec]
      /\ \A n \in Writes : write[n].want \in Values
      /\ \A c \in Checkers : check[c].pc # "idle" => check[c].n \in Writes
      /\ sweep.pc = "mirror" => sweep.n \in Writes
  BY Typed, WantTyped DEF TypeInv, Pointers, Pointed, SweepPointed
<1>v. ASSUME NEW v \in Values, cache' = [cache EXCEPT !.tech = v] PROVE cache' \in CacheRec
  BY <1>t, <1>v DEF CacheRec
<1>u. ASSUME UNCHANGED cache PROVE cache' \in CacheRec
  BY <1>t, <1>u
<1>1. WriteStep => UNCHANGED cache \/ \E n \in Writes : cache' = [cache EXCEPT !.tech = write[n].want]
  BY DEF WriteStep, Submit, SeesShown, ReadInFlight, SkipMirror, Track, LoseTrack, HumanMirror, BackstopMirror,
         MirrorFails, HolmanApplies, HolmanLoses, BulkMatch, BulkRepair, BulkVerify, BulkFlag
<1>2. ASSUME NEW s \in Syncs, SyncWork(s) PROVE cache' \in CacheRec
  <2>1. ASSUME NEW next, SyncUpsert(s, next) PROVE cache' \in CacheRec
    <3>1. sync[s] \in SyncRec
      BY <1>t
    <3>2. SyncedTech(s) \in Values
      BY <1>t, <3>1 DEF SyncedTech, SyncRec, CacheRec
    <3> QED BY <2>1, <3>1, <3>2 DEF SyncUpsert, SyncRec, CacheRec
  <2>2. SyncClear(s) => cache' \in CacheRec
    BY <1>v DEF SyncClear, Values
  <2> QED BY <1>2, <1>u, <2>1, <2>2
          DEF SyncWork, SyncPull, SyncLoad, SyncReadUnassigns, SyncReadPending, SyncSettle
<1>3. ASSUME NEW c \in Checkers, CheckWork(c) \/ \E n \in Writes : CheckStart(c, n)
      PROVE  UNCHANGED cache \/ \E n \in Writes : cache' = [cache EXCEPT !.tech = write[n].want]
  <2>1. CheckMirrors(c) => check[c].n \in Writes
    BY <1>t DEF CheckMirrors, CheckStep
  <2> QED BY <1>3, <2>1 DEF CheckWork, CheckStart, CheckConfirms, CheckSeesNothing, CheckReadFence, CheckVerifies,
              CheckExpires, CheckMirrors, CheckSettles, CheckCache, CheckNotes, CheckEnds
<1>4. SweepWork => UNCHANGED cache \/ \E n \in Writes : cache' = [cache EXCEPT !.tech = write[n].want]
  BY <1>t DEF SweepWork, SweepRead, SweepQuery, SweepConfirms, SweepGivesUp, SweepExpires, SweepMirrors
<1>5. FenceTtl \/ (\E n \in Writes : Age(n)) \/ (\E v \in Values : HolmanEdited(v)) => UNCHANGED cache
  BY DEF FenceTtl, Age, HolmanEdited
<1> QED BY <1>t, <1>1, <1>2, <1>3, <1>4, <1>5, <1>v, <1>u DEF Next

LEMMA SyncsTyped ==
    ASSUME TypeInv, Next
    PROVE  sync' \in [Syncs -> SyncRec]
<1>t. sync \in [Syncs -> SyncRec] /\ live \in Values /\ clock \in Nat
  BY Typed DEF TypeInv
<1>q. ASSUME NEW s \in Syncs, NEW q \in SyncRec, sync' = [sync EXCEPT ![s] = q]
      PROVE  sync' \in [Syncs -> SyncRec]
  BY <1>t, <1>q
<1>i. IdleSync \in SyncRec
  BY DEF IdleSync, SyncRec, SyncPcs, Values
<1>u. ASSUME UNCHANGED sync PROVE sync' \in [Syncs -> SyncRec]
  BY <1>t, <1>u
<1>1. ASSUME NEW s \in Syncs, SyncWork(s) PROVE sync' \in [Syncs -> SyncRec]
  <2>s. sync[s] \in SyncRec
    BY <1>t
  <2>1. CASE SyncPull(s)
    <3>1. [IdleSync EXCEPT !.pc = "pulled", !.got = live] \in SyncRec
      BY <1>t, <1>i DEF SyncRec, SyncPcs
    <3> QED BY <2>1, <3>1, <1>q DEF SyncPull
  <2>2. CASE SyncLoad(s)
    <3>1. FenceActive \in BOOLEAN
      BY DEF FenceActive
    <3>2. [sync[s] EXCEPT !.pc = "loaded", !.now = clock, !.fenced = FenceActive] \in SyncRec
      BY <1>t, <2>s, <3>1 DEF SyncRec, SyncPcs
    <3>3. sync' = [sync EXCEPT ![s] = [sync[s] EXCEPT !.pc = "loaded", !.now = clock, !.fenced = FenceActive]]
      BY <2>2 DEF SyncLoad
    <3> QED BY <3>2, <3>3, <1>q
  <2>3. ASSUME NEW next \in {"unassigns", "pending"}, SyncUpsert(s, next) PROVE sync' \in [Syncs -> SyncRec]
    <3>1. [sync[s] EXCEPT !.pc = next, !.now = 0, !.fenced = FALSE] \in SyncRec
      BY <2>s DEF SyncRec, SyncPcs
    <3>2. sync' = [sync EXCEPT ![s] = [sync[s] EXCEPT !.pc = next, !.now = 0, !.fenced = FALSE]]
      BY <2>3 DEF SyncUpsert
    <3> QED BY <3>1, <3>2, <1>q
  <2>4. CASE SyncReadUnassigns(s) \/ SyncClear(s)
    BY <1>t, <2>4 DEF SyncReadUnassigns, SyncClear, SyncRec, SyncPcs
  <2>5. CASE SyncReadPending(s)
    <3>1. [sync[s] EXCEPT !.pc = "settling", !.pend = Pending] \in SyncRec
      BY <2>s DEF SyncRec, SyncPcs, Pending
    <3>2. sync' = [sync EXCEPT ![s] = IF Pending = {} THEN IdleSync
                                      ELSE [sync[s] EXCEPT !.pc = "settling", !.pend = Pending]]
      BY <2>5 DEF SyncReadPending
    <3> QED BY <3>1, <3>2, <1>i, <1>q
  <2>6. ASSUME NEW n \in Writes, SyncSettle(s, n) PROVE sync' \in [Syncs -> SyncRec]
    <3>1. [sync[s] EXCEPT !.pend = sync[s].pend \ {n}] \in SyncRec
      BY <2>s DEF SyncRec
    <3>2. sync' = [sync EXCEPT ![s] = IF sync[s].pend = {n} THEN IdleSync
                                      ELSE [sync[s] EXCEPT !.pend = sync[s].pend \ {n}]]
      BY <2>6 DEF SyncSettle
    <3> QED BY <3>1, <3>2, <1>i, <1>q
  <2> QED BY <1>1, <2>1, <2>2, <2>3, <2>4, <2>5, <2>6 DEF SyncWork
<1>2. WriteStep \/ SweepWork => UNCHANGED sync
  BY DEF WriteStep, Submit, SeesShown, ReadInFlight, SkipMirror, Track, LoseTrack, HumanMirror, BackstopMirror,
         MirrorFails, HolmanApplies, HolmanLoses, BulkMatch, BulkRepair, BulkVerify, BulkFlag, SweepWork, SweepRead,
         SweepQuery, SweepConfirms, SweepGivesUp, SweepExpires, SweepMirrors, readers
<1>3. ASSUME NEW c \in Checkers, CheckWork(c) \/ \E n \in Writes : CheckStart(c, n) PROVE UNCHANGED sync
  BY <1>3 DEF CheckWork, CheckStart, CheckConfirms, CheckSeesNothing, CheckReadFence, CheckVerifies,
              CheckExpires, CheckMirrors, CheckSettles, CheckCache, CheckNotes, CheckEnds
<1>4. FenceTtl \/ (\E n \in Writes : Age(n)) \/ (\E v \in Values : HolmanEdited(v)) => UNCHANGED sync
  BY DEF FenceTtl, Age, HolmanEdited, readers
<1> QED BY <1>1, <1>2, <1>3, <1>4, <1>u DEF Next

LEMMA CountersTyped ==
    ASSUME TypeInv, Next
    PROVE  clock' \in {clock, clock + 1} /\ faults' \in 0..MaxFaults
<1>t. clock \in Nat /\ faults \in 0..MaxFaults /\ MaxFaults \in Nat
  BY Typed, AssignmentAssumption DEF TypeInv
<1>1. WriteStep => clock' \in {clock, clock + 1} /\ faults' \in 0..MaxFaults
  BY <1>t DEF WriteStep, Submit, SeesShown, ReadInFlight, SkipMirror, Track, LoseTrack, HumanMirror, BackstopMirror,
         MirrorFails, HolmanApplies, HolmanLoses, BulkMatch, BulkRepair, BulkVerify, BulkFlag, Fault
<1>2. ASSUME NEW s \in Syncs, SyncWork(s) PROVE UNCHANGED <<clock, faults>>
  BY <1>2 DEF SyncWork, SyncPull, SyncLoad, SyncUpsert, SyncReadUnassigns, SyncClear, SyncReadPending, SyncSettle
<1>3. ASSUME NEW c \in Checkers, CheckWork(c) \/ \E n \in Writes : CheckStart(c, n)
      PROVE  UNCHANGED <<clock, faults>>
  BY <1>3 DEF CheckWork, CheckStart, CheckConfirms, CheckSeesNothing, CheckReadFence, CheckVerifies,
              CheckExpires, CheckMirrors, CheckSettles, CheckCache, CheckNotes, CheckEnds
<1>4. SweepWork \/ FenceTtl \/ (\E n \in Writes : Age(n)) => UNCHANGED <<clock, faults>>
  BY DEF SweepWork, SweepRead, SweepQuery, SweepConfirms, SweepGivesUp, SweepExpires, SweepMirrors, FenceTtl, Age
<1>5. (\E v \in Values : HolmanEdited(v)) => clock' = clock /\ faults' \in 0..MaxFaults
  BY <1>t DEF HolmanEdited, Fault
<1> QED BY <1>t, <1>1, <1>2, <1>3, <1>4, <1>5 DEF Next

(* A check: what a step of it does to its record.                           *)
LEMMA CheckEffect ==
    ASSUME TypeInv, NEW c \in Checkers, CheckWork(c)
    PROVE  /\ check[c] \in CheckRec /\ check[c].pc # "idle" /\ check[c].n \in Writes
           /\ \/ check' = [check EXCEPT ![c] = IdleCheck]
              \/ \E pc \in CheckPcs \ {"idle"} :
                    /\ check' = [check EXCEPT ![c] = [check[c] EXCEPT !.pc = pc]]
                    /\ pc = "confirmed" => live = write[check[c].n].want /\ UNCHANGED <<holman, write, sub, fence>>
                    /\ pc \in {"verify", "expire"} =>
                          /\ check[c].pc = "confirmed" /\ MayRelease(check[c].n)
                          /\ UNCHANGED <<holman, write, sub, fence>>
                    /\ pc = "mirror" => check[c].pc = "expire"
<1>t. check \in [Checkers -> CheckRec]
  BY Typed DEF TypeInv
<1>1. check[c] \in CheckRec
  BY <1>t
<1>2. check[c].pc # "idle"
  BY DEF CheckWork, CheckConfirms, CheckSeesNothing, CheckReadFence, CheckVerifies,
         CheckExpires, CheckMirrors, CheckSettles, CheckCache, CheckNotes, CheckEnds, CheckStep
<1>3. check[c].n \in Writes
  BY <1>2 DEF TypeInv, Pointers, Pointed
<1>g. ASSUME NEW pc \in CheckPcs \ {"idle"}, CheckGoes(c, pc)
      PROVE  check' = [check EXCEPT ![c] = [check[c] EXCEPT !.pc = pc]]
  BY <1>g DEF CheckGoes
<1>i. ASSUME CheckGoes(c, "idle")
      PROVE  check' = [check EXCEPT ![c] = IdleCheck]
  BY <1>i DEF CheckGoes
<1>4. CASE CheckConfirms(c)
  <2>1. CheckGoes(c, "confirmed") /\ live = write[check[c].n].want /\ UNCHANGED <<holman, write, sub, fence>>
    BY <1>4 DEF CheckConfirms
  <2> QED BY <1>1, <1>2, <1>3, <1>g, <2>1 DEF CheckPcs
<1>5. CASE CheckReadFence(c)
  <2>1. CheckGoes(c, "settle") \/ CheckGoes(c, "verify") \/ CheckGoes(c, "expire")
    BY <1>5 DEF CheckReadFence
  <2>2. CheckGoes(c, "settle") \/ MayRelease(check[c].n)
    BY <1>5 DEF CheckReadFence
  <2>3. check[c].pc = "confirmed" /\ UNCHANGED <<holman, write, sub, fence>>
    BY <1>5 DEF CheckReadFence, CheckStep
  <2> QED BY <1>1, <1>2, <1>3, <1>g, <2>1, <2>2, <2>3 DEF CheckPcs
<1>6. CASE \/ CheckSeesNothing(c) \/ CheckVerifies(c) \/ CheckExpires(c) \/ CheckMirrors(c) \/ CheckCache(c)
           \/ CheckNotes(c)
  <2>1. \E pc \in {"fallback", "settle", "mirror", "note", "undecided"} :
           CheckGoes(c, pc) /\ (pc = "mirror" => check[c].pc = "expire")
    BY <1>6 DEF CheckSeesNothing, CheckVerifies, CheckExpires, CheckMirrors, CheckCache, CheckNotes, CheckStep
  <2> QED BY <1>1, <1>2, <1>3, <1>g, <2>1 DEF CheckPcs
<1>7. CASE CheckSettles(c) \/ CheckEnds(c)
  BY <1>1, <1>2, <1>3, <1>7, <1>i DEF CheckSettles, CheckEnds
<1> QED BY <1>4, <1>5, <1>6, <1>7 DEF CheckWork

LEMMA ChecksElse ==
    ASSUME Next, \A c \in Checkers : ~CheckWork(c)
    PROVE  \/ UNCHANGED check
           \/ \E c \in Checkers, n \in Writes :
                /\ check' = [check EXCEPT ![c] = [pc |-> "asking", n |-> n, late |-> sub[n].age >= Expired]]
                /\ sub[n].status = "pending"
<1>1. WriteStep \/ SweepWork => UNCHANGED check
  BY DEF WriteStep, Submit, SeesShown, ReadInFlight, SkipMirror, Track, LoseTrack, HumanMirror, BackstopMirror,
         MirrorFails, HolmanApplies, HolmanLoses, BulkMatch, BulkRepair, BulkVerify, BulkFlag, SweepWork, SweepRead,
         SweepQuery, SweepConfirms, SweepGivesUp, SweepExpires, SweepMirrors, readers
<1>2. ASSUME NEW s \in Syncs, SyncWork(s) PROVE UNCHANGED check
  BY <1>2 DEF SyncWork, SyncPull, SyncLoad, SyncUpsert, SyncReadUnassigns, SyncClear, SyncReadPending, SyncSettle
<1>3. FenceTtl \/ (\E n \in Writes : Age(n)) \/ (\E v \in Values : HolmanEdited(v)) => UNCHANGED check
  BY DEF FenceTtl, Age, HolmanEdited, readers
<1>4. ASSUME NEW c \in Checkers, NEW n \in Writes, CheckStart(c, n)
      PROVE  /\ check' = [check EXCEPT ![c] = [pc |-> "asking", n |-> n, late |-> sub[n].age >= Expired]]
             /\ sub[n].status = "pending"
  BY <1>4 DEF CheckStart, Pending
<1> QED BY <1>1, <1>2, <1>3, <1>4 DEF Next

LEMMA ChecksTyped ==
    ASSUME TypeInv, Next
    PROVE  check' \in [Checkers -> CheckRec] /\ \A c \in Checkers : Pointed(check[c])'
<1>t. /\ check \in [Checkers -> CheckRec] /\ \A c \in Checkers : Pointed(check[c])
      /\ fence.status # "none" => fence'.status # "none"
  BY Typed, FenceTyped DEF TypeInv, Pointers
<1>u. \A d \in Checkers : check'[d] = check[d] => Pointed(check[d])'
  BY <1>t DEF Pointed
<1>q. ASSUME NEW c \in Checkers, NEW q \in CheckRec, check' = [check EXCEPT ![c] = q],
             q.pc # "idle" => q.n \in Writes,
             q.pc \in {"verify", "expire"} => fence'.status # "none"
      PROVE  check' \in [Checkers -> CheckRec] /\ \A d \in Checkers : Pointed(check[d])'
  <2>1. check' \in [Checkers -> CheckRec] /\ check'[c] = q /\ \A d \in Checkers \ {c} : check'[d] = check[d]
    BY <1>t, <1>q
  <2>2. Pointed(check[c])'
    BY <1>q, <2>1 DEF Pointed
  <2> QED BY <1>u, <2>1, <2>2
<1>1. ASSUME NEW c \in Checkers, CheckWork(c)
      PROVE  check' \in [Checkers -> CheckRec] /\ \A d \in Checkers : Pointed(check[d])'
  <2>1. CASE check' = [check EXCEPT ![c] = IdleCheck]
    <3>1. IdleCheck \in CheckRec /\ IdleCheck.pc = "idle"
      BY DEF IdleCheck, CheckRec, CheckPcs
    <3> QED BY <1>q, <2>1, <3>1
  <2>2. ASSUME NEW pc \in CheckPcs \ {"idle"},
               check' = [check EXCEPT ![c] = [check[c] EXCEPT !.pc = pc]],
               pc \in {"verify", "expire"} => MayRelease(check[c].n)
        PROVE  check' \in [Checkers -> CheckRec] /\ \A d \in Checkers : Pointed(check[d])'
    <3>1. check[c] \in CheckRec /\ check[c].n \in Writes
      BY <1>1, CheckEffect
    <3>2. /\ [check[c] EXCEPT !.pc = pc] \in CheckRec /\ [check[c] EXCEPT !.pc = pc].pc = pc
          /\ [check[c] EXCEPT !.pc = pc].n = check[c].n
      BY <3>1 DEF CheckRec
    <3>3. pc \in {"verify", "expire"} => fence'.status # "none"
      BY <1>t, <2>2 DEF MayRelease, FenceActive
    <3> QED BY <1>q, <2>2, <3>1, <3>2, <3>3
  <2> QED BY <1>1, <2>1, <2>2, CheckEffect
<1>2. ASSUME NEW c \in Checkers, NEW n \in Writes,
             check' = [check EXCEPT ![c] = [pc |-> "asking", n |-> n, late |-> sub[n].age >= Expired]]
      PROVE  check' \in [Checkers -> CheckRec] /\ \A d \in Checkers : Pointed(check[d])'
  <2>1. (sub[n].age >= Expired) \in BOOLEAN
    <3>1. sub[n].age \in {Fresh, Expired, HourOld}
      BY Typed DEF TypeInv, SubRec
    <3> QED BY <3>1 DEF Fresh, Expired, HourOld
  <2>2. [pc |-> "asking", n |-> n, late |-> sub[n].age >= Expired] \in CheckRec
    BY <2>1 DEF CheckRec, CheckPcs
  <2> QED BY <1>2, <1>q, <2>2
<1>3. CASE UNCHANGED check
  BY <1>t, <1>u, <1>3
<1> QED BY <1>1, <1>2, <1>3, ChecksElse

LEMMA SweepTyped ==
    ASSUME TypeInv, Next
    PROVE  sweep' \in SweepRec /\ SweepPointed'
<1>t. /\ sweep \in SweepRec /\ SweepPointed /\ fence \in FenceRec
      /\ fence.status # "none" => fence'.status # "none"
  BY Typed, FenceTyped DEF TypeInv, Pointers
<1>i. IdleSweep \in SweepRec
  BY DEF IdleSweep, SweepRec, SweepPcs, Values
<1>1. CASE SweepRead
  <2>1. sweep' \in SweepRec /\ sweep'.pc = "fenced" /\ fence.status # "none"
    BY <1>t, <1>i, <1>1 DEF SweepRead, SweepRec, SweepPcs, FenceRec, IdleSweep, FenceActive
  <2> QED BY <1>t, <2>1 DEF SweepPointed
<1>2. CASE SweepQuery
  <2>1. CASE sweep' = IdleSweep
    BY <1>i, <2>1 DEF IdleSweep, SweepPointed
  <2>2. ASSUME NEW n \in Newer, sweep' = [IdleSweep EXCEPT !.pc = "asking", !.n = n]
        PROVE  sweep' \in SweepRec /\ SweepPointed'
    <3>1. n \in Writes /\ fence.status # "none"
      BY <1>t, <1>2 DEF Newer, SweepQuery, SweepPointed
    <3>2. sweep' \in SweepRec /\ sweep'.pc = "asking" /\ sweep'.n = n
      BY <1>i, <2>2, <3>1 DEF IdleSweep, SweepRec, SweepPcs
    <3> QED BY <1>t, <3>1, <3>2 DEF SweepPointed
  <2> QED BY <1>2, <2>1, <2>2 DEF SweepQuery
<1>3. CASE SweepConfirms \/ SweepExpires
  <2>1. sweep' \in SweepRec /\ sweep'.n = sweep.n /\ sweep.pc \in {"asking", "lift"}
    BY <1>t, <1>3 DEF SweepConfirms, SweepExpires, SweepRec, SweepPcs
  <2> QED BY <1>t, <2>1 DEF SweepPointed
<1>4. CASE SweepGivesUp \/ SweepMirrors
  BY <1>i, <1>4 DEF SweepGivesUp, SweepMirrors, IdleSweep, SweepPointed
<1>u. CASE UNCHANGED sweep
  BY <1>t, <1>u DEF SweepPointed
<1>5. WriteStep \/ FenceTtl \/ (\E n \in Writes : Age(n)) \/ (\E v \in Values : HolmanEdited(v)) => UNCHANGED sweep
  BY DEF WriteStep, Submit, SeesShown, ReadInFlight, SkipMirror, Track, LoseTrack, HumanMirror, BackstopMirror,
         MirrorFails, HolmanApplies, HolmanLoses, BulkMatch, BulkRepair, BulkVerify, BulkFlag,
         FenceTtl, Age, HolmanEdited, readers
<1>6. ASSUME NEW s \in Syncs, SyncWork(s) PROVE UNCHANGED sweep
  BY <1>6 DEF SyncWork, SyncPull, SyncLoad, SyncUpsert, SyncReadUnassigns, SyncClear, SyncReadPending, SyncSettle
<1>7. ASSUME NEW c \in Checkers, CheckWork(c) \/ \E n \in Writes : CheckStart(c, n) PROVE UNCHANGED sweep
  BY <1>7 DEF CheckWork, CheckStart, CheckConfirms, CheckSeesNothing, CheckReadFence, CheckVerifies,
              CheckExpires, CheckMirrors, CheckSettles, CheckCache, CheckNotes, CheckEnds
<1> QED BY <1>1, <1>2, <1>3, <1>4, <1>u, <1>5, <1>6, <1>7 DEF Next, SweepWork

LEMMA InitTypes == Init => TypeInv
<1> SUFFICES ASSUME Init PROVE TypeInv
  OBVIOUS
<1>1. /\ live \in Values /\ shown \subseteq Values /\ queued \subseteq Writes /\ cache \in CacheRec
      /\ clock \in Nat /\ faults \in 0..MaxFaults
  BY AssignmentAssumption DEF Init, Values, CacheRec
<1>2. write \in [Writes -> WriteRec] /\ sub \in [Writes -> SubRec]
  BY DEF Init, WriteRec, SubRec, WritePcs, SubStatuses, Values
<1>3. fence \in FenceRec /\ (fence.status = "none" <=> fence.stamped = 0)
  BY DEF Init, FenceRec, FenceStatuses, Values
<1>4. sync \in [Syncs -> SyncRec]
  BY DEF Init, IdleSync, SyncRec, SyncPcs, Values
<1>5. check \in [Checkers -> CheckRec] /\ \A c \in Checkers : Pointed(check[c])
  BY DEF Init, IdleCheck, CheckRec, CheckPcs, Pointed
<1>6. sweep \in SweepRec /\ SweepPointed
  BY DEF Init, IdleSweep, SweepRec, SweepPcs, Values, SweepPointed
<1> QED BY <1>1, <1>2, <1>3, <1>4, <1>5, <1>6
        DEF TypeInv, TypeOK, Pointers, WriteRec, SubRec, FenceRec, CacheRec, SyncRec, CheckRec, SweepRec

LEMMA StepTypes == TypeInv /\ [Next]_vars => TypeInv'
<1> SUFFICES ASSUME TypeInv, [Next]_vars PROVE TypeInv'
  OBVIOUS
<1>1. CASE UNCHANGED vars
  <2>1. TypeOK'
    BY <1>1 DEF TypeInv, TypeOK, vars, holman, readers
  <2>2. Pointers'
    BY <1>1 DEF TypeInv, Pointers, Pointed, SweepPointed, vars, readers
  <2> QED BY <2>1, <2>2 DEF TypeInv
<1>2. CASE Next
  <2>1. TypeOK /\ clock \in Nat
    BY Typed DEF TypeInv
  <2>2. clock' \in Nat
    BY <1>2, <2>1, CountersTyped
  <2>3. TypeOK'
    BY <1>2, <2>1, <2>2, HolmanTyped, WritesTyped, SubsTyped, FenceTyped, CacheTyped, SyncsTyped, ChecksTyped,
       SweepTyped, CountersTyped, Retyped
  <2> QED BY <1>2, <2>3, ChecksTyped, SweepTyped DEF TypeInv, Pointers
<1> QED BY <1>1, <1>2

(* Holman, the fence, the submissions and the cache only ever show          *)
(* technicians and statuses the code writes, and a fence that was stamped   *)
(* stays on file: no lift, however stale what it rests on, makes a row for  *)
(* a truck without one.                                                     *)
THEOREM AssignmentTypes == Spec => []TypeOK
<1>1. TypeInv => TypeOK
  BY DEF TypeInv
<1> QED BY <1>1, InitTypes, StepTypes, PTL DEF Spec

-----------------------------------------------------------------------------
(* The syncs and the fence.                                                 *)

(* A sync that loaded the fences and took this truck for unfenced loaded    *)
(* them before the stamp that fences it now.                                *)
LoadedSync(s) ==
    sync[s].pc = "loaded" =>
       /\ sync[s].now <= clock
       /\ FenceActive /\ ~sync[s].fenced => sync[s].now < fence.stamped

LoadedBefore == \A s \in Syncs : LoadedSync(s)

LEMMA SyncsElse ==
    ASSUME TypeInv, Next, NEW s \in Syncs, ~SyncLoad(s)
    PROVE  sync'[s] = sync[s] \/ sync'[s].pc # "loaded"
<1>t. sync \in [Syncs -> SyncRec]
  BY Typed DEF TypeInv
<1>1. WriteStep \/ SweepWork => UNCHANGED sync
  BY DEF WriteStep, Submit, SeesShown, ReadInFlight, SkipMirror, Track, LoseTrack, HumanMirror, BackstopMirror,
         MirrorFails, HolmanApplies, HolmanLoses, BulkMatch, BulkRepair, BulkVerify, BulkFlag, SweepWork, SweepRead,
         SweepQuery, SweepConfirms, SweepGivesUp, SweepExpires, SweepMirrors, readers
<1>2. ASSUME NEW c \in Checkers, CheckWork(c) \/ \E n \in Writes : CheckStart(c, n) PROVE UNCHANGED sync
  BY <1>2 DEF CheckWork, CheckStart, CheckConfirms, CheckSeesNothing, CheckReadFence, CheckVerifies,
              CheckExpires, CheckMirrors, CheckSettles, CheckCache, CheckNotes, CheckEnds
<1>3. FenceTtl \/ (\E n \in Writes : Age(n)) \/ (\E v \in Values : HolmanEdited(v)) => UNCHANGED sync
  BY DEF FenceTtl, Age, HolmanEdited, readers
<1>4. ASSUME NEW r \in Syncs, SyncWork(r) PROVE sync'[s] = sync[s] \/ sync'[s].pc # "loaded"
  <2>1. CASE r # s
    BY <1>t, <1>4, <2>1 DEF SyncWork, SyncPull, SyncLoad, SyncUpsert, SyncReadUnassigns, SyncClear,
                            SyncReadPending, SyncSettle
  <2>2. CASE r = s
    <3>s. sync[s] \in SyncRec
      BY <1>t
    <3>1. CASE SyncPull(s)
      <4>1. sync'[s].pc = "pulled"
        BY <1>t, <3>1 DEF SyncPull, IdleSync
      <4> QED BY <4>1
    <3>2. CASE SyncUpsert(s, "unassigns") \/ SyncUpsert(s, "pending")
      <4>1. sync'[s].pc \in {"unassigns", "pending"}
        BY <1>t, <3>s, <3>2 DEF SyncUpsert, SyncRec
      <4> QED BY <4>1
    <3>3. CASE SyncReadUnassigns(s) \/ SyncClear(s)
      <4>1. sync'[s].pc \in {"clearing", "pending"}
        BY <1>t, <3>s, <3>3 DEF SyncReadUnassigns, SyncClear, SyncRec
      <4> QED BY <4>1
    <3>4. CASE SyncReadPending(s)
      <4>1. sync'[s].pc \in {"idle", "settling"}
        BY <1>t, <3>s, <3>4 DEF SyncReadPending, SyncRec, IdleSync
      <4> QED BY <4>1
    <3>5. ASSUME NEW n \in Writes, SyncSettle(s, n) PROVE sync'[s].pc # "loaded"
      <4>1. sync'[s].pc \in {"idle", "settling"}
        BY <1>t, <3>s, <3>5 DEF SyncSettle, SyncStep, SyncRec, IdleSync
      <4> QED BY <4>1
    <3> QED BY <1>4, <2>2, <3>1, <3>2, <3>3, <3>4, <3>5 DEF SyncWork
  <2> QED BY <2>1, <2>2
<1> QED BY <1>1, <1>2, <1>3, <1>4 DEF Next

LEMMA LoadedKept ==
    ASSUME TypeInv, LoadedBefore, Next
    PROVE  LoadedBefore'
<1> SUFFICES ASSUME NEW s \in Syncs PROVE LoadedSync(s)'
  BY DEF LoadedBefore
<1>t. /\ sync \in [Syncs -> SyncRec] /\ clock \in Nat /\ clock' \in {clock, clock + 1}
      /\ sync[s] \in SyncRec /\ fence \in FenceRec /\ LoadedSync(s)
  BY Typed, CountersTyped DEF TypeInv, LoadedBefore
<1>1. CASE SyncLoad(s)
  <2>1. sync'[s].now = clock /\ sync'[s].fenced = FenceActive /\ clock' = clock /\ fence' = fence
    BY <1>t, <1>1 DEF SyncLoad, SyncRec
  <2>2. FenceActive' => FenceActive
    BY <2>1 DEF FenceActive
  <2>3. FenceActive' => sync'[s].fenced
    BY <2>1, <2>2, Zenon
  <2> QED BY <1>t, <2>1, <2>3 DEF LoadedSync
<1>2. CASE ~SyncLoad(s) /\ sync'[s] = sync[s] /\ sync[s].pc = "loaded"
  <2>1. sync[s].now \in Nat /\ sync[s].now <= clock
    BY <1>t, <1>2 DEF LoadedSync, SyncRec
  <2>2. sync'[s].now <= clock'
    BY <1>t, <1>2, <2>1
  <2>3. CASE fence' = fence
    BY <1>t, <1>2, <2>2, <2>3 DEF LoadedSync, FenceActive
  <2>4. ASSUME NEW n \in Writes, BackstopMirror(n) PROVE LoadedSync(s)'
    <3>1. fence'.stamped = clock + 1
      BY <2>4 DEF BackstopMirror, Stamped
    <3> QED BY <1>t, <1>2, <2>1, <2>2, <3>1 DEF LoadedSync
  <2>5. CASE fence' = Verified \/ fence' = ExpiredNow
    <3>1. ~FenceActive'
      BY <1>t, <2>5 DEF Verified, ExpiredNow, FenceActive, FenceRec
    <3> QED BY <2>2, <3>1 DEF LoadedSync
  <2> QED BY <2>3, <2>4, <2>5, FenceEffect
<1>3. CASE sync'[s].pc # "loaded"
  BY <1>3 DEF LoadedSync
<1> QED BY <1>1, <1>2, <1>3, SyncsElse

LEMMA OverwriteStep ==
    ASSUME TypeInv, LoadedBefore, [Next]_vars, Overwritten
    PROVE  MayOverwrite
<1>t. /\ write \in [Writes -> WriteRec] /\ sync \in [Syncs -> SyncRec] /\ check \in [Checkers -> CheckRec]
      /\ cache \in CacheRec
  BY Typed DEF TypeInv
<1>1. cache'.tech # cache.tech
  BY DEF Overwritten
<1>2. cache' # cache /\ Next
  BY <1>1 DEF vars
<1>3. CASE WriteStep
  <2>1. PICK n \in Writes : SkipMirror(n) \/ HumanMirror(n) \/ BackstopMirror(n) \/ BulkRepair(n)
    BY <1>2, <1>3 DEF WriteStep, Submit, SeesShown, ReadInFlight, Track, LoseTrack,
         MirrorFails, HolmanApplies, HolmanLoses, BulkMatch, BulkVerify, BulkFlag
  <2>2. write[n].pc \in {"clear", "tracked", "repair"} /\ write'[n].pc \in {"done", "landed", "repaired"}
    <3>1. write[n] \in WriteRec
      BY <1>t
    <3> QED BY <1>t, <2>1, <3>1 DEF SkipMirror, HumanMirror, BackstopMirror, BulkRepair, WriteGoes, WriteRec
  <2> QED BY <2>2 DEF MayOverwrite
<1>4. ASSUME NEW s \in Syncs, SyncWork(s) PROVE MayOverwrite
  <2>s. sync[s] \in SyncRec
    BY <1>t
  <2>1. ASSUME NEW next \in {"unassigns", "pending"}, SyncUpsert(s, next) PROVE MayOverwrite
    <3>1. sync[s].pc = "loaded" /\ sync'[s].pc # "loaded"
      BY <1>t, <2>s, <2>1 DEF SyncUpsert, SyncStep, SyncRec
    <3>2. ~sync[s].fenced
      BY <1>1, <2>1 DEF SyncUpsert, SyncedTech
    <3>3. sync[s].now < fence.stamped
      BY <3>1, <3>2 DEF LoadedBefore, LoadedSync, Overwritten
    <3> QED BY <3>1, <3>3 DEF MayOverwrite
  <2>2. CASE SyncClear(s)
    <3>1. sync[s].pc = "clearing" /\ sync'[s].pc = "pending"
      BY <1>t, <2>s, <2>2 DEF SyncClear, SyncStep, SyncRec
    <3> QED BY <3>1 DEF MayOverwrite
  <2> QED BY <1>2, <1>4, <2>1, <2>2
          DEF SyncWork, SyncPull, SyncLoad, SyncReadUnassigns, SyncReadPending, SyncSettle
<1>5. ASSUME NEW c \in Checkers, CheckWork(c) \/ \E n \in Writes : CheckStart(c, n) PROVE MayOverwrite
  <2>1. CheckMirrors(c)
    BY <1>2, <1>5 DEF CheckWork, CheckStart, CheckConfirms, CheckSeesNothing, CheckReadFence, CheckVerifies,
              CheckExpires, CheckSettles, CheckCache, CheckNotes, CheckEnds
  <2>2. check[c].pc = "mirror" /\ check'[c].pc = "settle"
    <3>1. check[c] \in CheckRec
      BY <1>t
    <3> QED BY <1>t, <2>1, <3>1 DEF CheckMirrors, CheckStep, CheckGoes, CheckRec
  <2> QED BY <2>2 DEF MayOverwrite
<1>6. CASE SweepWork
  <2>1. SweepMirrors
    BY <1>2, <1>6 DEF SweepWork, SweepRead, SweepQuery, SweepConfirms, SweepGivesUp, SweepExpires
  <2> QED BY <2>1 DEF SweepMirrors, IdleSweep, MayOverwrite
<1>7. ~FenceTtl /\ (\A n \in Writes : ~Age(n)) /\ \A v \in Values : ~HolmanEdited(v)
  BY <1>2 DEF FenceTtl, Age, HolmanEdited
<1> QED BY <1>2, <1>3, <1>4, <1>5, <1>6, <1>7 DEF Next

(* A sync of any number, however long it takes over its rows, never undoes  *)
(* a fenced correction unless it read the fences before the stamp; the      *)
(* other writers that may are the ones the property names.                  *)
THEOREM CorrectionOutlives == Spec => CorrectionOutlivesSyncs
<1>1. Init => TypeInv /\ LoadedBefore
  BY InitTypes DEF Init, LoadedBefore, LoadedSync, IdleSync
<1>2. TypeInv /\ LoadedBefore /\ [Next]_vars => TypeInv' /\ LoadedBefore'
  <2> SUFFICES ASSUME TypeInv, LoadedBefore, [Next]_vars PROVE TypeInv' /\ LoadedBefore'
    OBVIOUS
  <2>1. CASE UNCHANGED vars
    BY <2>1, StepTypes DEF vars, readers, LoadedBefore, LoadedSync, FenceActive
  <2> QED BY <2>1, StepTypes, LoadedKept
<1>3. TypeInv /\ LoadedBefore /\ [Next]_vars => [Overwritten => MayOverwrite]_vars
  BY OverwriteStep
<1> QED BY <1>1, <1>2, <1>3, PTL DEF Spec, CorrectionOutlivesSyncs

-----------------------------------------------------------------------------
(* Lifts and their evidence.                                                *)

Loose == {"unused", "shown", "clear", "sent"}
Untracked(n) == write[n].pc \in Loose
Busy(n) == write[n].pc \in {"sent", "tracked", "unmirrored", "repair", "repaired"}

(* What a step points at was submitted, and so keeps its value and its time.*)
Submissions ==
    /\ \A n \in Writes : Untracked(n) => sub[n].status = "none"
    /\ \A c \in Checkers : check[c].pc # "idle" => ~Untracked(check[c].n)
    /\ \A s \in Syncs : \A n \in sync[s].pend : ~Untracked(n)
    /\ sweep.pc \in {"asking", "lift", "mirror"} => ~Untracked(sweep.n)

Clocks ==
    /\ live \in shown
    /\ fence.created <= fence.stamped /\ fence.stamped <= clock
    /\ \A n \in Writes : sub[n].created <= clock

(* The backstop's changes: one at a time, each with its stamp.              *)
OneBusy == \A n, m \in Backstops : n # m /\ Busy(n) => ~Busy(m)

Placed(n) ==
    /\ write[n].pc \in {"landed", "unmirrored", "matched", "repair", "repaired"} => n \in Backstops
    /\ write[n].pc \in {"shown", "clear"} => n \notin Backstops

After(n) ==
    /\ write[n].pc \in {"tracked", "unmirrored", "repair", "repaired"} => sub[n].created > fence.stamped
    /\ write[n].pc \in {"repair", "repaired"} => write[n].want \in shown

Fenced(n) ==
    /\ write[n].pc \in {"landed", "matched"} =>
          /\ fence.stamped # 0
          /\ fence.created = fence.stamped => fence.expected = write[n].want
    /\ write[n].pc = "matched" => fence.created < fence.stamped \/ write[n].want \in shown

Backstop(n) == Placed(n) /\ (n \in Backstops => After(n) /\ Fenced(n))

Grounds(q) ==
    /\ q.pc = "confirmed" => write[q.n].want \in shown \/ sub[q.n].created < fence.stamped
    /\ q.pc \in {"verify", "expire"} =>
          \/ fence.created < fence.stamped
          \/ write[q.n].want \in shown /\ sub[q.n].created > fence.stamped

SweepGrounds ==
    /\ sweep.pc = "fenced" => sweep.created = fence.created
    /\ sweep.pc \in {"asking", "lift"} => sub[sweep.n].created > fence.created
    /\ sweep.pc = "lift" => fence.created < fence.stamped \/ write[sweep.n].want \in shown

LiftInv ==
    /\ TypeInv /\ Submissions /\ Clocks
    /\ OneBusy /\ \A n \in Writes : Backstop(n)
    /\ \A c \in Checkers : Grounds(check[c])
    /\ SweepGrounds

(* A change once submitted keeps its value, its record keeps its time.      *)
LEMMA Stable ==
    ASSUME TypeInv, Next, NEW n \in Writes, ~Untracked(n)
    PROVE  ~Untracked(n)' /\ write'[n].want = write[n].want /\ sub'[n].created = sub[n].created
<1>t. write \in [Writes -> WriteRec] /\ sub \in [Writes -> SubRec] /\ write[n] \in WriteRec
  BY Typed DEF TypeInv
<1>1. ~Untracked(n)' /\ write'[n].want = write[n].want
  <2>1. ASSUME NEW m \in Writes, \/ (\E v \in Values : Submit(m, v) \/ SeesShown(m, v)) \/ ReadInFlight(m)
                                 \/ SkipMirror(m) \/ Track(m) \/ LoseTrack(m)
        PROVE  write'[n] = write[n]
    <3>1. m # n
      BY <2>1 DEF Submit, SeesShown, ReadInFlight, SkipMirror, Track, LoseTrack, Untracked, Loose
    <3> QED BY <1>t, <2>1, <3>1
            DEF Submit, SeesShown, ReadInFlight, SkipMirror, Track, LoseTrack, Submitted, WriteGoes
  <2>2. ASSUME NEW m \in Writes, NEW to \in {"done", "landed", "unmirrored", "matched", "repair", "repaired"},
               WriteGoes(m, to)
        PROVE  ~Untracked(n)' /\ write'[n].want = write[n].want
    BY <1>t, <2>2 DEF WriteGoes, WriteRec, Untracked, Loose
  <2>3. WriteStep => \/ UNCHANGED write
                     \/ \E m \in Writes : \/ (\E v \in Values : Submit(m, v) \/ SeesShown(m, v)) \/ ReadInFlight(m)
                                          \/ SkipMirror(m) \/ Track(m) \/ LoseTrack(m)
                     \/ \E m \in Writes, to \in {"done", "landed", "unmirrored", "matched", "repair", "repaired"} :
                           WriteGoes(m, to)
    <3>1. ASSUME NEW m \in Writes, BulkMatch(m) PROVE WriteGoes(m, "matched") \/ WriteGoes(m, "repair")
      BY <3>1 DEF BulkMatch, WriteGoes
    <3> QED BY <3>1 DEF WriteStep, HumanMirror, BackstopMirror, MirrorFails,
           HolmanApplies, HolmanLoses, BulkRepair, BulkVerify, BulkFlag
  <2>4. ASSUME UNCHANGED write PROVE ~Untracked(n)' /\ write'[n].want = write[n].want
    BY <2>4 DEF Untracked
  <2>5. ~WriteStep => UNCHANGED write
    BY WriteElse
  <2> QED BY <2>1, <2>2, <2>3, <2>4, <2>5 DEF Untracked
<1>2. sub'[n].created = sub[n].created
  <2>1. ASSUME NEW m \in Writes, Track(m) PROVE sub'[n] = sub[n]
    BY <1>t, <2>1 DEF Track, Untracked, Loose
  <2>2. UNCHANGED sub \/ (\E m \in Writes : Track(m)) \/ (\E m \in Writes : Age(m))
        \/ \E m \in Writes, st \in SubStatuses : sub' = [sub EXCEPT ![m].status = st]
    BY SubEffect DEF Resettled
  <2>3. ASSUME NEW m \in Writes, Age(m) PROVE sub'[n].created = sub[n].created
    BY <1>t, <2>3 DEF Age, SubRec
  <2>4. ASSUME NEW m \in Writes, NEW st \in SubStatuses, sub' = [sub EXCEPT ![m].status = st]
        PROVE  sub'[n].created = sub[n].created
    BY <1>t, <2>4 DEF SubRec
  <2> QED BY <2>1, <2>2, <2>3, <2>4
<1> QED BY <1>1, <1>2

LEMMA Lifting ==
    ASSUME LiftInv
    PROVE  /\ TypeInv /\ Submissions /\ Clocks /\ OneBusy /\ SweepGrounds
           /\ \A n \in Writes : Backstop(n)
           /\ \A c \in Checkers : Grounds(check[c])
           /\ clock \in Nat /\ fence.created \in Nat /\ fence.stamped \in Nat
           /\ \A n \in Writes : sub[n].created \in Nat /\ sub[n].created <= clock
BY Typed DEF LiftInv, TypeInv, FenceRec, SubRec, Clocks

(* Between stamps the fence keeps what was stamped and what Holman has      *)
(* shown only grows.                                                        *)
LEMMA Calm ==
    ASSUME LiftInv, Next, \A n \in Writes : ~BackstopMirror(n)
    PROVE  /\ fence'.created = fence.created /\ fence'.stamped = fence.stamped
           /\ fence'.expected = fence.expected
           /\ shown \subseteq shown' /\ live' \in shown'
<1>t. TypeInv /\ live \in shown /\ fence \in FenceRec
  BY Lifting, Typed DEF Clocks, TypeInv
<1>1. fence' = fence \/ fence' = Verified \/ fence' = ExpiredNow
  BY <1>t, FenceEffect
<1>2. /\ fence'.created = fence.created /\ fence'.stamped = fence.stamped
      /\ fence'.expected = fence.expected
  BY <1>t, <1>1 DEF Verified, ExpiredNow, FenceRec
<1>3. WriteStep => shown \subseteq shown' /\ live' \in shown'
  BY <1>t DEF WriteStep, Submit, SeesShown, ReadInFlight, SkipMirror, Track, LoseTrack, Submitted, HumanMirror,
         MirrorFails, HolmanApplies, HolmanLoses, BulkMatch, BulkRepair, BulkVerify, BulkFlag, holman
<1>4. ASSUME NEW s \in Syncs, SyncWork(s) PROVE UNCHANGED holman
  BY <1>4 DEF SyncWork, SyncPull, SyncLoad, SyncUpsert, SyncReadUnassigns, SyncClear, SyncReadPending, SyncSettle
<1>5. ASSUME NEW c \in Checkers, CheckWork(c) \/ \E n \in Writes : CheckStart(c, n) PROVE UNCHANGED holman
  BY <1>5 DEF CheckWork, CheckStart, CheckConfirms, CheckSeesNothing, CheckReadFence, CheckVerifies,
              CheckExpires, CheckMirrors, CheckSettles, CheckCache, CheckNotes, CheckEnds
<1>6. SweepWork \/ FenceTtl \/ (\E n \in Writes : Age(n)) => UNCHANGED holman
  BY DEF SweepWork, SweepRead, SweepQuery, SweepConfirms, SweepGivesUp, SweepExpires, SweepMirrors, FenceTtl, Age
<1>7. (\E v \in Values : HolmanEdited(v)) => shown \subseteq shown' /\ live' \in shown'
  BY DEF HolmanEdited
<1>8. UNCHANGED holman => shown \subseteq shown' /\ live' \in shown'
  BY <1>t DEF holman
<1> QED BY <1>2, <1>3, <1>4, <1>5, <1>6, <1>7, <1>8 DEF Next

(* A stamp is later than every submission and every earlier stamp; a fence  *)
(* on file keeps its creation time.                                         *)
LEMMA Stamping ==
    ASSUME LiftInv, NEW n \in Writes, BackstopMirror(n)
    PROVE  /\ n \in Backstops /\ Busy(n) /\ write' = [write EXCEPT ![n].pc = "landed"]
           /\ fence'.stamped = clock + 1 /\ fence'.expected = write[n].want
           /\ \/ fence'.created = clock + 1
              \/ fence'.created = fence.created /\ fence'.created < fence'.stamped
           /\ fence.status # "none" => fence'.created < fence'.stamped /\ fence'.created = fence.created
           /\ sub' = sub /\ check' = check /\ sync' = sync /\ sweep' = sweep
           /\ clock' = clock + 1 /\ live' = live /\ shown' = {live}
<1>t. fence.created \in Nat /\ clock \in Nat /\ fence.created <= clock
  BY Lifting DEF Clocks
<1>1. fence' = Stamped(write[n].want)
  BY DEF BackstopMirror
<1>2. /\ fence'.stamped = clock + 1 /\ fence'.expected = write[n].want
      /\ fence'.created = IF fence.status = "none" THEN clock + 1 ELSE fence.created
  BY <1>1 DEF Stamped
<1>3. n \in Backstops /\ Busy(n) /\ write' = [write EXCEPT ![n].pc = "landed"]
  BY DEF BackstopMirror, Busy, WriteGoes
<1>4. /\ sub' = sub /\ check' = check /\ sync' = sync /\ sweep' = sweep
      /\ clock' = clock + 1 /\ live' = live /\ shown' = {live}
  BY DEF BackstopMirror, readers
<1> QED BY <1>t, <1>2, <1>3, <1>4

LEMMA ClocksKept ==
    ASSUME LiftInv, Next
    PROVE  Clocks'
<1>t. /\ TypeInv /\ clock \in Nat /\ fence.created \in Nat /\ fence.stamped \in Nat
      /\ \A n \in Writes : sub[n].created \in Nat /\ sub[n].created <= clock
      /\ fence.created <= fence.stamped /\ fence.stamped <= clock
      /\ sub \in [Writes -> SubRec]
  BY Lifting, Typed DEF Clocks, TypeInv
<1>c. clock' \in {clock, clock + 1}
  BY <1>t, CountersTyped
<1>1. live' \in shown' /\ fence'.created <= fence'.stamped /\ fence'.stamped <= clock'
  <2>1. ASSUME NEW n \in Writes, BackstopMirror(n)
        PROVE  live' \in shown' /\ fence'.created <= fence'.stamped /\ fence'.stamped <= clock'
    <3>1. live \in {live}
      OBVIOUS
    <3> QED BY <1>t, <2>1, <3>1, Stamping
  <2>2. CASE \A n \in Writes : ~BackstopMirror(n)
    BY <1>t, <1>c, <2>2, Calm
  <2> QED BY <2>1, <2>2
<1>2. ASSUME NEW m \in Writes PROVE sub'[m].created <= clock'
  <2>1. ASSUME NEW n \in Writes, Track(n) PROVE sub'[m].created <= clock'
    <3>1. sub'[m] = IF m = n THEN [status |-> "pending", created |-> clock + 1, age |-> Fresh] ELSE sub[m]
      BY <1>t, <2>1 DEF Track
    <3>2. clock' = clock + 1
      BY <2>1 DEF Track
    <3> QED BY <1>t, <3>1, <3>2
  <2>2. ASSUME NEW n \in Writes, Age(n) \/ Resettled(n) PROVE sub'[m].created = sub[m].created
    BY <1>t, <2>2 DEF Age, Resettled, SubRec
  <2>3. CASE sub' = sub
    BY <1>t, <1>c, <2>3
  <2>4. ASSUME sub'[m].created = sub[m].created PROVE sub'[m].created <= clock'
    BY <1>t, <1>c, <2>4
  <2> QED BY <1>t, <2>1, <2>2, <2>3, <2>4, SubEffect
<1> QED BY <1>1, <1>2 DEF Clocks

(* The lists of the syncs and the pointer of the sweep.                     *)
LEMMA PendEffect ==
    ASSUME TypeInv, Next, NEW s \in Syncs, NEW n \in sync'[s].pend
    PROVE  n \in sync[s].pend \/ sub[n].status = "pending"
<1>t. sync \in [Syncs -> SyncRec] /\ sync[s] \in SyncRec
  BY Typed DEF TypeInv
<1>1. WriteStep \/ SweepWork => UNCHANGED sync
  BY DEF WriteStep, Submit, SeesShown, ReadInFlight, SkipMirror, Track, LoseTrack, HumanMirror, BackstopMirror,
         MirrorFails, HolmanApplies, HolmanLoses, BulkMatch, BulkRepair, BulkVerify, BulkFlag, SweepWork, SweepRead,
         SweepQuery, SweepConfirms, SweepGivesUp, SweepExpires, SweepMirrors, readers
<1>2. ASSUME NEW c \in Checkers, CheckWork(c) \/ \E m \in Writes : CheckStart(c, m) PROVE UNCHANGED sync
  BY <1>2 DEF CheckWork, CheckStart, CheckConfirms, CheckSeesNothing, CheckReadFence, CheckVerifies,
              CheckExpires, CheckMirrors, CheckSettles, CheckCache, CheckNotes, CheckEnds
<1>3. FenceTtl \/ (\E m \in Writes : Age(m)) \/ (\E v \in Values : HolmanEdited(v)) => UNCHANGED sync
  BY DEF FenceTtl, Age, HolmanEdited, readers
<1>4. ASSUME NEW r \in Syncs, SyncWork(r) PROVE sync'[s].pend \subseteq sync[s].pend \cup Pending
  <2>1. CASE r # s
    BY <1>t, <1>4, <2>1 DEF SyncWork, SyncPull, SyncLoad, SyncUpsert, SyncReadUnassigns, SyncClear,
                            SyncReadPending, SyncSettle
  <2>2. CASE r = s
    <3>1. CASE SyncPull(s)
      <4>1. sync'[s].pend = {}
        BY <1>t, <3>1 DEF SyncPull, IdleSync
      <4> QED BY <4>1
    <3>2. CASE \/ SyncLoad(s) \/ SyncUpsert(s, "unassigns") \/ SyncUpsert(s, "pending")
               \/ SyncReadUnassigns(s) \/ SyncClear(s)
      <4>1. sync'[s].pend = sync[s].pend
        BY <1>t, <3>2 DEF SyncLoad, SyncUpsert, SyncReadUnassigns, SyncClear, SyncRec
      <4> QED BY <4>1
    <3>3. CASE SyncReadPending(s)
      <4>1. sync'[s].pend \in {{}, Pending}
        BY <1>t, <3>3 DEF SyncReadPending, SyncRec, IdleSync
      <4> QED BY <4>1
    <3>4. ASSUME NEW m \in Writes, SyncSettle(s, m) PROVE sync'[s].pend \subseteq sync[s].pend
      <4>1. sync'[s].pend \in {{}, sync[s].pend \ {m}}
        BY <1>t, <3>4 DEF SyncSettle, SyncRec, IdleSync
      <4> QED BY <4>1
    <3> QED BY <1>4, <2>2, <3>1, <3>2, <3>3, <3>4 DEF SyncWork
  <2> QED BY <2>1, <2>2
<1> QED BY <1>1, <1>2, <1>3, <1>4 DEF Next, Pending

LEMMA SweepEffect ==
    ASSUME TypeInv, Next
    PROVE  \/ sweep' = sweep
           \/ sweep'.pc = "idle"
           \/ sweep'.pc = "fenced" /\ sweep'.created = fence.created /\ UNCHANGED <<fence, write>>
           \/ /\ sweep.pc = "fenced" /\ sweep'.pc = "asking" /\ UNCHANGED <<holman, write, sub, fence>>
              /\ sweep'.n \in Writes /\ sub[sweep'.n].status = "completed"
              /\ sub[sweep'.n].created > sweep.created
           \/ /\ sweep.pc = "asking" /\ sweep'.pc = "lift" /\ UNCHANGED <<holman, write, sub, fence>>
              /\ sweep'.n = sweep.n /\ LiveMatchesNewer
           \/ /\ sweep.pc = "lift" /\ sweep'.pc = "mirror" /\ sweep'.n = sweep.n /\ UNCHANGED write
<1>t. sweep \in SweepRec
  BY Typed DEF TypeInv
<1>1. SweepRead =>
        sweep'.pc = "fenced" /\ sweep'.created = fence.created /\ UNCHANGED <<fence, write>>
  BY DEF SweepRead, IdleSweep
<1>2. SweepQuery =>
        \/ sweep'.pc = "idle"
        \/ /\ sweep.pc = "fenced" /\ sweep'.pc = "asking" /\ UNCHANGED <<holman, write, sub, fence>>
           /\ sweep'.n \in Writes /\ sub[sweep'.n].status = "completed"
           /\ sub[sweep'.n].created > sweep.created
  <2> SUFFICES ASSUME SweepQuery, sweep'.pc # "idle"
      PROVE  /\ sweep.pc = "fenced" /\ sweep'.pc = "asking" /\ UNCHANGED <<holman, write, sub, fence>>
             /\ sweep'.n \in Writes /\ sub[sweep'.n].status = "completed"
             /\ sub[sweep'.n].created > sweep.created
    OBVIOUS
  <2>1. sweep' # IdleSweep
    BY DEF IdleSweep
  <2>2. PICK n \in Newer : sweep' = [IdleSweep EXCEPT !.pc = "asking", !.n = n]
    BY <2>1 DEF SweepQuery
  <2>3. sweep'.pc = "asking" /\ sweep'.n = n
    BY <2>2 DEF IdleSweep
  <2>4. n \in Writes /\ sub[n].status = "completed" /\ sub[n].created > sweep.created
    BY <2>2 DEF Newer
  <2>5. sweep.pc = "fenced" /\ UNCHANGED <<holman, write, sub, fence>>
    BY DEF SweepQuery
  <2> QED BY <2>3, <2>4, <2>5
<1>3. SweepConfirms =>
        /\ sweep.pc = "asking" /\ sweep'.pc = "lift" /\ UNCHANGED <<holman, write, sub, fence>>
        /\ sweep'.n = sweep.n /\ LiveMatchesNewer
  BY <1>t DEF SweepConfirms, SweepRec
<1>4. SweepGivesUp \/ SweepMirrors => sweep'.pc = "idle"
  BY DEF SweepGivesUp, SweepMirrors, IdleSweep
<1>5. SweepExpires => sweep.pc = "lift" /\ sweep'.pc = "mirror" /\ sweep'.n = sweep.n /\ UNCHANGED write
  BY <1>t DEF SweepExpires, SweepRec
<1>6. WriteStep \/ FenceTtl \/ (\E n \in Writes : Age(n)) \/ (\E v \in Values : HolmanEdited(v)) => UNCHANGED sweep
  BY DEF WriteStep, Submit, SeesShown, ReadInFlight, SkipMirror, Track, LoseTrack, HumanMirror, BackstopMirror,
         MirrorFails, HolmanApplies, HolmanLoses, BulkMatch, BulkRepair, BulkVerify, BulkFlag,
         FenceTtl, Age, HolmanEdited, readers
<1>7. ASSUME NEW s \in Syncs, SyncWork(s) PROVE UNCHANGED sweep
  BY <1>7 DEF SyncWork, SyncPull, SyncLoad, SyncUpsert, SyncReadUnassigns, SyncClear, SyncReadPending, SyncSettle
<1>8. ASSUME NEW c \in Checkers, CheckWork(c) \/ \E n \in Writes : CheckStart(c, n) PROVE UNCHANGED sweep
  BY <1>8 DEF CheckWork, CheckStart, CheckConfirms, CheckSeesNothing, CheckReadFence, CheckVerifies,
              CheckExpires, CheckMirrors, CheckSettles, CheckCache, CheckNotes, CheckEnds
<1>9. CASE SweepWork
  <2> USE <1>9 DEF SweepWork
  <2>1. CASE SweepRead BY <1>1, <2>1
  <2>2. CASE SweepQuery BY <1>2, <2>2
  <2>3. CASE SweepConfirms BY <1>3, <2>3
  <2>4. CASE SweepGivesUp \/ SweepMirrors BY <1>4, <2>4
  <2>5. CASE SweepExpires BY <1>5, <2>5
  <2> QED BY <2>1, <2>2, <2>3, <2>4, <2>5
<1> QED BY <1>6, <1>7, <1>8, <1>9 DEF Next

LEMMA SubmissionsKept ==
    ASSUME LiftInv, Next
    PROVE  Submissions'
<1>t. /\ TypeInv /\ sub \in [Writes -> SubRec] /\ check \in [Checkers -> CheckRec] /\ sync \in [Syncs -> SyncRec]
      /\ write \in [Writes -> WriteRec] /\ Submissions
  BY Lifting, Typed DEF TypeInv
<1>s. ASSUME NEW n \in Writes, ~Untracked(n) PROVE write'[n].pc \notin Loose
  BY <1>t, <1>s, Stable DEF Untracked
<1>p. ASSUME NEW n \in Writes, sub[n].status # "none" PROVE write'[n].pc \notin Loose
  BY <1>t, <1>s, <1>p DEF Submissions
<1>1. ASSUME NEW n \in Writes, write'[n].pc \in Loose PROVE sub'[n].status = "none"
  <2>1. Untracked(n) /\ sub[n].status = "none"
    BY <1>t, <1>s, <1>1 DEF Submissions, Untracked
  <2>2. ASSUME NEW m \in Writes, Track(m) PROVE sub'[n] = sub[n]
    <3>1. CASE m = n
      <4>1. write'[n].pc = "tracked"
        BY <1>t, <2>2, <3>1 DEF Track, WriteGoes, WriteRec
      <4> QED BY <1>1, <4>1 DEF Loose
    <3>2. CASE m # n
      BY <1>t, <2>2, <3>2 DEF Track
    <3> QED BY <3>1, <3>2
  <2>3. ASSUME NEW m \in Writes, Age(m) PROVE sub'[n].status = sub[n].status
    BY <1>t, <2>3 DEF Age, SubRec
  <2>4. ASSUME NEW m \in Writes, Resettled(m) PROVE sub'[n] = sub[n]
    <3>1. ~Untracked(m)
      BY <1>t, <2>4 DEF Resettled, Submissions
    <3> QED BY <1>t, <2>1, <2>4, <3>1 DEF Resettled
  <2> QED BY <1>t, <2>1, <2>2, <2>3, <2>4, SubEffect
<1>2. ASSUME NEW c \in Checkers, check'[c].pc # "idle" PROVE write'[check'[c].n].pc \notin Loose
  <2>1. ASSUME check'[c] = check[c] PROVE write'[check'[c].n].pc \notin Loose
    <3>1. check[c].n \in Writes /\ ~Untracked(check[c].n)
      BY <1>t, <1>2, <2>1 DEF Submissions, TypeInv, Pointers, Pointed
    <3> QED BY <1>s, <2>1, <3>1
  <2>2. ASSUME NEW d \in Checkers, CheckWork(d) PROVE write'[check'[c].n].pc \notin Loose
    <3>1. CASE d # c
      <4>1. check'[c] = check[c]
        BY <1>t, <2>2, <3>1, CheckEffect
      <4> QED BY <2>1, <4>1
    <3>2. CASE d = c
      <4>1. check[c].n \in Writes /\ check[c].pc # "idle" /\ check[c] \in CheckRec
        BY <1>t, <2>2, <3>2, CheckEffect
      <4>2. check' # [check EXCEPT ![c] = IdleCheck]
        BY <1>t, <1>2 DEF IdleCheck
      <4>3. check'[c].n = check[c].n
        BY <1>t, <2>2, <3>2, <4>1, <4>2, CheckEffect DEF CheckRec
      <4> QED BY <1>t, <1>s, <4>1, <4>3 DEF Submissions
    <3> QED BY <3>1, <3>2
  <2>3. ASSUME NEW d \in Checkers, NEW n \in Writes, sub[n].status = "pending",
               check' = [check EXCEPT ![d] = [pc |-> "asking", n |-> n, late |-> sub[n].age >= Expired]]
        PROVE  write'[check'[c].n].pc \notin Loose
    <3>1. check'[c] = check[c] \/ check'[c].n = n
      BY <1>t, <2>3
    <3> QED BY <1>p, <2>1, <2>3, <3>1
  <2> QED BY <2>1, <2>2, <2>3, ChecksElse
<1>3. ASSUME NEW s \in Syncs, NEW n \in sync'[s].pend PROVE write'[n].pc \notin Loose
  <2>1. n \in Writes
    <3>1. sync'[s] \in SyncRec
      BY <1>t, SyncsTyped
    <3> QED BY <3>1 DEF SyncRec
  <2>2. n \in sync[s].pend \/ sub[n].status = "pending"
    BY <1>t, PendEffect
  <2> QED BY <1>t, <1>s, <1>p, <2>1, <2>2 DEF Submissions
<1>4. sweep'.pc \in {"asking", "lift", "mirror"} => write'[sweep'.n].pc \notin Loose
  <2> SUFFICES ASSUME sweep'.pc \in {"asking", "lift", "mirror"} PROVE write'[sweep'.n].pc \notin Loose
    OBVIOUS
  <2>1. ASSUME sweep'.n = sweep.n, sweep.pc \in {"asking", "lift", "mirror"} PROVE write'[sweep'.n].pc \notin Loose
    <3>1. sweep.n \in Writes /\ ~Untracked(sweep.n)
      BY <1>t, <2>1 DEF Submissions, TypeInv, Pointers, SweepPointed
    <3> QED BY <1>s, <2>1, <3>1
  <2>2. ASSUME sweep'.n \in Writes, sub[sweep'.n].status = "completed" PROVE write'[sweep'.n].pc \notin Loose
    BY <1>p, <2>2
  <2> QED BY <1>t, <2>1, <2>2, SweepEffect
<1> QED BY <1>1, <1>2, <1>3, <1>4 DEF Submissions, Untracked

(* The grounds of a check and of the sweep, once there, stay.            *)
LEMMA GroundKept ==
    ASSUME LiftInv, Next, NEW m \in Writes, ~Untracked(m), fence.status # "none"
    PROVE  /\ fence'.created = fence.created /\ sub'[m].created = sub[m].created
           /\ \/ fence'.created < fence'.stamped
              \/ /\ fence'.stamped = fence.stamped
                 /\ write[m].want \in shown => write'[m].want \in shown'
<1>t. TypeInv
  BY Lifting
<1>1. sub'[m].created = sub[m].created /\ write'[m].want = write[m].want
  BY <1>t, Stable
<1>2. CASE \A n \in Writes : ~BackstopMirror(n)
  BY <1>1, <1>2, Calm
<1>3. ASSUME NEW n \in Writes, BackstopMirror(n)
      PROVE  fence'.created = fence.created /\ fence'.created < fence'.stamped
  BY <1>3, Stamping
<1> QED BY <1>1, <1>2, <1>3

LEMMA SweepGroundsKept ==
    ASSUME LiftInv, Next
    PROVE  SweepGrounds'
<1>t. /\ TypeInv /\ Submissions /\ SweepGrounds /\ SweepPointed /\ live \in shown
      /\ fence.created \in Nat /\ fence.stamped \in Nat
      /\ \A n \in Writes : sub[n].created \in Nat
  BY Lifting DEF TypeInv, Pointers, Clocks
<1>1. CASE sweep' = sweep
  <2>1. CASE sweep.pc = "fenced"
    <3>1. fence.status # "none" /\ sweep.created = fence.created
      BY <1>t, <2>1 DEF SweepPointed, SweepGrounds
    <3>2. fence'.created = fence.created
      <4>1. CASE \A n \in Writes : ~BackstopMirror(n)
        BY <4>1, Calm
      <4>2. ASSUME NEW n \in Writes, BackstopMirror(n) PROVE fence'.created = fence.created
        BY <3>1, <4>2, Stamping
      <4> QED BY <4>1, <4>2
    <3> QED BY <1>1, <2>1, <3>1, <3>2 DEF SweepGrounds
  <2>2. CASE sweep.pc \in {"asking", "lift"}
    <3>1. sweep.n \in Writes /\ ~Untracked(sweep.n) /\ fence.status # "none"
      BY <1>t, <2>2 DEF SweepPointed, Submissions
    <3>2. /\ fence'.created = fence.created /\ sub'[sweep.n].created = sub[sweep.n].created
          /\ \/ fence'.created < fence'.stamped
             \/ /\ fence'.stamped = fence.stamped
                /\ write[sweep.n].want \in shown => write'[sweep.n].want \in shown'
      BY <3>1, GroundKept
    <3>3. /\ sub[sweep.n].created > fence.created
          /\ sweep.pc = "lift" => fence.created < fence.stamped \/ write[sweep.n].want \in shown
      BY <1>t, <2>2 DEF SweepGrounds
    <3>4. sub'[sweep'.n].created > fence'.created /\ sweep'.pc \in {"asking", "lift"}
      BY <1>1, <2>2, <3>2, <3>3
    <3>5. sweep'.pc = "lift" => fence'.created < fence'.stamped \/ write'[sweep'.n].want \in shown'
      BY <1>1, <3>2, <3>3
    <3> QED BY <3>4, <3>5 DEF SweepGrounds
  <2>3. CASE sweep.pc \notin {"fenced", "asking", "lift"}
    BY <1>1, <2>3 DEF SweepGrounds
  <2> QED BY <2>1, <2>2, <2>3
<1>2. CASE sweep'.pc = "fenced" /\ sweep'.created = fence.created /\ UNCHANGED <<fence, write>>
  BY <1>2 DEF SweepGrounds
<1>3. CASE /\ sweep.pc = "fenced" /\ sweep'.pc = "asking" /\ UNCHANGED <<holman, write, sub, fence>>
           /\ sub[sweep'.n].created > sweep.created
  BY <1>t, <1>3 DEF SweepGrounds
<1>4. CASE /\ sweep.pc = "asking" /\ sweep'.pc = "lift" /\ UNCHANGED <<holman, write, sub, fence>>
           /\ sweep'.n = sweep.n /\ LiveMatchesNewer
  BY <1>t, <1>4 DEF SweepGrounds, LiveMatchesNewer, holman
<1>5. CASE sweep'.pc \in {"idle", "mirror"}
  BY <1>5 DEF SweepGrounds
<1> QED BY <1>t, <1>1, <1>2, <1>3, <1>4, <1>5, SweepEffect

LEMMA GroundsKept ==
    ASSUME LiftInv, Next, NEW c \in Checkers
    PROVE  Grounds(check[c])'
<1>t. /\ TypeInv /\ Submissions /\ live \in shown /\ Grounds(check[c]) /\ Pointed(check[c])
      /\ fence.created \in Nat /\ fence.stamped \in Nat /\ clock \in Nat
      /\ \A n \in Writes : sub[n].created \in Nat /\ sub[n].created <= clock
      /\ check \in [Checkers -> CheckRec] /\ check[c] \in CheckRec
  BY Lifting, Typed DEF TypeInv, Pointers, Clocks
<1> DEFINE n == check[c].n
<1>1. CASE check'[c] = check[c] /\ check[c].pc = "confirmed"
  <2>1. n \in Writes /\ ~Untracked(n) /\ (write[n].want \in shown \/ sub[n].created < fence.stamped)
    BY <1>t, <1>1 DEF Pointed, Submissions, Grounds
  <2>2. sub'[n].created = sub[n].created /\ write'[n].want = write[n].want
    BY <1>t, <2>1, Stable
  <2>3. write'[n].want \in shown' \/ sub'[n].created < fence'.stamped
    <3>1. CASE \A m \in Writes : ~BackstopMirror(m)
      BY <2>1, <2>2, <3>1, Calm
    <3>2. ASSUME NEW m \in Writes, BackstopMirror(m) PROVE sub'[n].created < fence'.stamped
      <4>1. fence'.stamped = clock + 1
        BY <3>2, Stamping
      <4> QED BY <1>t, <2>1, <2>2, <4>1
    <3> QED BY <3>1, <3>2
  <2> QED BY <1>1, <2>3 DEF Grounds
<1>2. CASE check'[c] = check[c] /\ check[c].pc \in {"verify", "expire"}
  <2>1. /\ n \in Writes /\ ~Untracked(n) /\ fence.status # "none"
        /\ fence.created < fence.stamped \/ (write[n].want \in shown /\ sub[n].created > fence.stamped)
    BY <1>t, <1>2 DEF Pointed, Submissions, Grounds
  <2>2. /\ fence'.created = fence.created /\ sub'[n].created = sub[n].created
        /\ \/ fence'.created < fence'.stamped
           \/ /\ fence'.stamped = fence.stamped
              /\ write[n].want \in shown => write'[n].want \in shown'
    BY <2>1, GroundKept
  <2>3. fence'.created < fence'.stamped \/ (write'[n].want \in shown' /\ sub'[n].created > fence'.stamped)
    BY <2>1, <2>2
  <2> QED BY <1>2, <2>3 DEF Grounds
<1>3. CASE check'[c].pc \notin {"confirmed", "verify", "expire"}
  BY <1>3 DEF Grounds
<1>4. ASSUME CheckWork(c) PROVE Grounds(check[c])'
  <2>1. CASE check' = [check EXCEPT ![c] = IdleCheck]
    <3>1. check'[c].pc = "idle"
      BY <1>t, <2>1 DEF IdleCheck
    <3> QED BY <1>3, <3>1
  <2>2. ASSUME NEW pc \in CheckPcs \ {"idle"},
               check' = [check EXCEPT ![c] = [check[c] EXCEPT !.pc = pc]],
               pc = "confirmed" => live = write[n].want /\ UNCHANGED <<holman, write, sub, fence>>,
               pc \in {"verify", "expire"} =>
                  check[c].pc = "confirmed" /\ MayRelease(n) /\ UNCHANGED <<holman, write, sub, fence>>
        PROVE  Grounds(check[c])'
    <3>1. check'[c].pc = pc /\ check'[c].n = n
      BY <1>t, <2>2 DEF CheckRec
    <3>2. CASE pc = "confirmed"
      <4>1. write'[n].want \in shown'
        BY <1>t, <2>2, <3>2 DEF holman
      <4> QED BY <3>1, <3>2, <4>1 DEF Grounds
    <3>3. CASE pc \in {"verify", "expire"}
      <4>1. /\ n \in Writes /\ sub[n].created > fence.created
            /\ write[n].want \in shown \/ sub[n].created < fence.stamped
        BY <1>t, <2>2, <3>3 DEF Grounds, Pointed, MayRelease
      <4>2. fence.created < fence.stamped \/ (write[n].want \in shown /\ sub[n].created > fence.stamped)
        BY <1>t, <4>1
      <4>3. fence' = fence /\ write' = write /\ sub' = sub /\ shown' = shown
        BY <2>2, <3>3 DEF holman
      <4>4. \/ fence'.created < fence'.stamped
            \/ write'[n].want \in shown' /\ sub'[n].created > fence'.stamped
        BY <4>2, <4>3
      <4> QED BY <3>1, <3>3, <4>4 DEF Grounds
    <3>4. CASE pc \notin {"confirmed", "verify", "expire"}
      BY <1>3, <3>1, <3>4
    <3> QED BY <3>2, <3>3, <3>4
  <2> QED BY <1>t, <1>4, <2>1, <2>2, CheckEffect
<1>5. check'[c] = check[c] \/ check'[c].pc = "asking" \/ CheckWork(c)
  <2>1. ASSUME NEW d \in Checkers, CheckWork(d), d # c PROVE check'[c] = check[c]
    BY <1>t, <2>1, CheckEffect
  <2>2. ASSUME NEW d \in Checkers, NEW m \in Writes,
               check' = [check EXCEPT ![d] = [pc |-> "asking", n |-> m, late |-> sub[m].age >= Expired]]
        PROVE  check'[c] = check[c] \/ check'[c].pc = "asking"
    BY <1>t, <2>2
  <2> QED BY <2>1, <2>2, ChecksElse
<1> QED BY <1>1, <1>2, <1>3, <1>4, <1>5

(* What a step does to one change.                                          *)
LEMMA Moves ==
    ASSUME LiftInv, Next, NEW n \in Writes
    PROVE  \/ write'[n] = write[n]
           \/ \E v \in Values : Submit(n, v)
           \/ write'[n].pc \in {"shown", "clear", "sent"} /\ n \notin Backstops
           \/ Track(n) \/ BackstopMirror(n) \/ BulkMatch(n)
           \/ write'[n].pc = "done"
           \/ write[n].pc = "tracked" /\ n \in Backstops /\ write'[n] = [write[n] EXCEPT !.pc = "unmirrored"]
           \/ write[n].pc = "repair" /\ write'[n] = [write[n] EXCEPT !.pc = "repaired"]
<1>t. TypeInv /\ write \in [Writes -> WriteRec] /\ write[n] \in WriteRec /\ Placed(n)
  BY Lifting, Typed DEF TypeInv, Backstop
<1>1. ASSUME NEW m \in Writes, m # n,
             \/ (\E v \in Values : Submit(m, v) \/ SeesShown(m, v)) \/ ReadInFlight(m) \/ SkipMirror(m)
             \/ Track(m) \/ LoseTrack(m) \/ HumanMirror(m) \/ BackstopMirror(m) \/ MirrorFails(m)
             \/ HolmanApplies(m) \/ HolmanLoses(m)
             \/ BulkMatch(m) \/ BulkRepair(m) \/ BulkVerify(m) \/ BulkFlag(m)
      PROVE  write'[n] = write[n]
  BY <1>t, <1>1 DEF Submit, SeesShown, ReadInFlight, SkipMirror, Track, LoseTrack, Submitted, HumanMirror,
         BackstopMirror, MirrorFails, HolmanApplies, HolmanLoses, BulkMatch, BulkRepair, BulkVerify, BulkFlag, WriteGoes
<1>2. ASSUME NEW v \in Values, SeesShown(n, v) PROVE write'[n].pc = "shown" /\ n \notin Backstops
  BY <1>t, <1>2 DEF SeesShown
<1>3. ASSUME ReadInFlight(n) PROVE write'[n].pc \in {"clear", "sent"} /\ n \notin Backstops
  <2>1. n \notin Backstops
    BY <1>t, <1>3 DEF ReadInFlight, Placed
  <2> QED BY <1>t, <1>3, <2>1 DEF ReadInFlight, WriteGoes, Submitted, WriteRec
<1>4. ASSUME \/ SkipMirror(n) \/ LoseTrack(n) \/ HumanMirror(n) \/ BulkVerify(n) \/ BulkFlag(n)
             \/ MirrorFails(n) /\ n \notin Backstops
      PROVE  write'[n].pc = "done"
  BY <1>t, <1>4 DEF SkipMirror, LoseTrack, HumanMirror, MirrorFails, BulkVerify, BulkFlag, WriteGoes, WriteRec
<1>5. ASSUME MirrorFails(n), n \in Backstops
      PROVE  write[n].pc = "tracked" /\ write'[n] = [write[n] EXCEPT !.pc = "unmirrored"]
  BY <1>t, <1>5 DEF MirrorFails, WriteGoes, WriteRec
<1>6. ASSUME BulkRepair(n)
      PROVE  write[n].pc = "repair" /\ write'[n] = [write[n] EXCEPT !.pc = "repaired"]
  BY <1>t, <1>6 DEF BulkRepair, WriteGoes, WriteRec
<1>7. HolmanApplies(n) \/ HolmanLoses(n) => write'[n] = write[n]
  BY DEF HolmanApplies, HolmanLoses
<1>8. CASE WriteStep
  <2>1. PICK m \in Writes :
             \/ (\E v \in Values : Submit(m, v) \/ SeesShown(m, v)) \/ ReadInFlight(m) \/ SkipMirror(m)
             \/ Track(m) \/ LoseTrack(m) \/ HumanMirror(m) \/ BackstopMirror(m) \/ MirrorFails(m)
             \/ HolmanApplies(m) \/ HolmanLoses(m)
             \/ BulkMatch(m) \/ BulkRepair(m) \/ BulkVerify(m) \/ BulkFlag(m)
    BY <1>8, Zenon DEF WriteStep
  <2>2. CASE m # n
    BY <1>1, <2>1, <2>2
  <2>3. CASE m = n
    BY <1>2, <1>3, <1>4, <1>5, <1>6, <1>7, <2>1, <2>3
  <2> QED BY <2>2, <2>3
<1>9. CASE ~WriteStep
  BY <1>9, WriteElse
<1> QED BY <1>8, <1>9

LEMMA BusyKept ==
    ASSUME LiftInv, Next
    PROVE  OneBusy'
<1>t. TypeInv /\ OneBusy /\ Backstops \subseteq Writes /\ write \in [Writes -> WriteRec]
  BY Lifting, Typed, AssignmentAssumption DEF TypeInv, Writes
<1> DEFINE Doing == {"sent", "tracked", "unmirrored", "repair", "repaired"}
<1>1. ASSUME NEW n \in Backstops, write'[n].pc \in Doing
      PROVE  write[n].pc \in Doing \/ \E v \in Values : Submit(n, v)
  <2>w. n \in Writes /\ write[n] \in WriteRec
    BY <1>t
  <2>1. BackstopMirror(n) => write[n].pc \in Doing
    BY DEF BackstopMirror
  <2>2. Track(n) => write[n].pc \in Doing
    BY DEF Track
  <2>3. BulkMatch(n) => write[n].pc \in Doing
    <3> SUFFICES ASSUME BulkMatch(n) PROVE write[n].pc = "unmirrored"
      OBVIOUS
    <3>1. write[n].pc = "landed" => write'[n].pc = "matched"
      BY <1>t, <2>w DEF BulkMatch, WriteRec
    <3> QED BY <1>1, <3>1 DEF BulkMatch
  <2>4. write[n].pc \in {"tracked", "repair"} => write[n].pc \in Doing
    OBVIOUS
  <2>5. write'[n].pc \notin {"done"}
    BY <1>1
  <2>6. write'[n] = write[n] => write[n].pc \in Doing
    BY <1>1
  <2> HIDE DEF Doing
  <2> QED BY <2>w, <2>1, <2>2, <2>3, <2>4, <2>5, <2>6, Moves
<1>2. ASSUME NEW n \in Backstops, NEW v \in Values, Submit(n, v), NEW m \in Backstops, m # n
      PROVE  write'[m].pc \notin Doing
  <2>1. write[m].pc \notin Doing
    BY <1>2 DEF Submit, BackstopBusy
  <2>2. write'[m] = write[m]
    BY <1>t, <1>2 DEF Submit, Submitted
  <2> QED BY <2>1, <2>2
<1>3. ASSUME NEW n \in Backstops, NEW m \in Backstops, n # m, write'[n].pc \in Doing, write'[m].pc \in Doing
      PROVE  FALSE
  <2>1. \A v \in Values : ~Submit(n, v) /\ ~Submit(m, v)
    BY <1>2, <1>3
  <2>2. write[n].pc \in Doing /\ write[m].pc \in Doing
    BY <1>1, <1>3, <2>1
  <2> QED BY <1>t, <1>3, <2>2 DEF OneBusy, Busy
<1> QED BY <1>3 DEF OneBusy, Busy

LEMMA BackstopKept ==
    ASSUME LiftInv, Next, NEW n \in Writes
    PROVE  Backstop(n)'
<1>t. /\ TypeInv /\ OneBusy /\ Backstop(n) /\ Backstops \subseteq Writes /\ write \in [Writes -> WriteRec]
      /\ write[n] \in WriteRec /\ live \in shown /\ fence \in FenceRec
      /\ clock \in Nat /\ fence.created \in Nat /\ fence.stamped \in Nat /\ fence.stamped <= clock
      /\ sub \in [Writes -> SubRec] /\ sub[n].created \in Nat
      /\ fence.status = "none" <=> fence.stamped = 0
  BY Lifting, Typed, AssignmentAssumption DEF TypeInv, Writes, Clocks
<1>m. ASSUME BulkMatch(n)
      PROVE  /\ write'[n].want = write[n].want /\ write[n].want \in shown
             /\ \/ write[n].pc = "landed" /\ write'[n].pc = "matched"
                \/ write[n].pc = "unmirrored" /\ write'[n].pc = "repair"
  BY <1>t, <1>m DEF BulkMatch, WriteRec
<1>k. ASSUME Track(n) PROVE write'[n].pc = "tracked" /\ sub'[n].created = clock + 1 /\ fence' = fence
  BY <1>t, <1>k DEF Track, WriteGoes, WriteRec
<1>b. ASSUME BackstopMirror(n)
      PROVE  /\ n \in Backstops /\ write'[n].pc = "landed" /\ write'[n].want = write[n].want
             /\ fence'.stamped = clock + 1 /\ fence'.expected = write[n].want
  BY <1>t, <1>b, Stamping DEF WriteRec
<1>s. ASSUME NEW v \in Values, Submit(n, v) PROVE write'[n].pc = "sent"
  BY <1>t, <1>s DEF Submit, Submitted
<1>u. ASSUME write'[n] = [write[n] EXCEPT !.pc = "unmirrored"]
      PROVE  write'[n].pc = "unmirrored" /\ write'[n].want = write[n].want
  BY <1>t, <1>u DEF WriteRec
<1>r. ASSUME write'[n] = [write[n] EXCEPT !.pc = "repaired"]
      PROVE  write'[n].pc = "repaired" /\ write'[n].want = write[n].want
  BY <1>t, <1>r DEF WriteRec
<1>w. \/ write'[n] = write[n]
      \/ write'[n].pc \in {"sent", "done"}
      \/ write'[n].pc \in {"shown", "clear"} /\ n \notin Backstops
      \/ Track(n) \/ BackstopMirror(n) \/ BulkMatch(n)
      \/ /\ write[n].pc = "tracked" /\ n \in Backstops
         /\ write'[n].pc = "unmirrored" /\ write'[n].want = write[n].want
      \/ write[n].pc = "repair" /\ write'[n].pc = "repaired" /\ write'[n].want = write[n].want
  BY <1>s, <1>u, <1>r, Moves
<1>1. /\ write'[n].pc \in {"landed", "unmirrored", "matched", "repair", "repaired"} => n \in Backstops
      /\ write'[n].pc \in {"shown", "clear"} => n \notin Backstops
  BY <1>t, <1>m, <1>k, <1>b, <1>w DEF Backstop, Placed
<1>2. ASSUME n \in Backstops, write'[n].pc \in {"tracked", "unmirrored", "repair", "repaired"}
      PROVE  /\ sub'[n].created > fence'.stamped
             /\ write'[n].pc \in {"repair", "repaired"} => write'[n].want \in shown'
  <2>1. CASE Track(n)
    BY <1>t, <1>k, <2>1
  <2>2. CASE ~Track(n)
    <3>1. /\ write[n].pc \in {"tracked", "unmirrored", "repair", "repaired"} /\ write'[n].want = write[n].want
          /\ write'[n].pc \in {"repair", "repaired"} =>
                write[n].pc \in {"repair", "repaired"} \/ write[n].want \in shown
          /\ ~BackstopMirror(n)
      BY <1>m, <1>b, <1>w, <1>2, <2>2
    <3>2. Busy(n) /\ ~Untracked(n)
      BY <3>1 DEF Busy, Untracked, Loose
    <3>3. \A m \in Writes : ~BackstopMirror(m)
      <4>1. ASSUME NEW m \in Writes, BackstopMirror(m), m # n PROVE FALSE
        BY <1>t, <1>2, <3>2, <4>1, Stamping DEF OneBusy
      <4> QED BY <3>1, <4>1
    <3>4. fence'.stamped = fence.stamped /\ shown \subseteq shown' /\ sub'[n].created = sub[n].created
      BY <1>t, <3>2, <3>3, Calm, Stable
    <3>5. After(n)
      BY <1>t, <1>2 DEF Backstop
    <3>6. sub[n].created > fence.stamped
      BY <3>1, <3>5 DEF After
    <3>7. write'[n].pc \in {"repair", "repaired"} => write[n].want \in shown
      BY <3>1, <3>5 DEF After
    <3> QED BY <3>1, <3>4, <3>6, <3>7
  <2> QED BY <2>1, <2>2
<1>3. ASSUME n \in Backstops, write'[n].pc \in {"landed", "matched"}
      PROVE  /\ fence'.stamped # 0
             /\ fence'.created = fence'.stamped => fence'.expected = write'[n].want
             /\ write'[n].pc = "matched" => fence'.created < fence'.stamped \/ write'[n].want \in shown'
  <2>1. CASE BackstopMirror(n)
    BY <1>t, <1>b, <2>1
  <2>2. CASE ~BackstopMirror(n)
    <3>1. /\ write[n].pc \in {"landed", "matched"} /\ write'[n].want = write[n].want
          /\ write'[n].pc = "matched" => write[n].pc = "matched" \/ write[n].want \in shown
      BY <1>m, <1>k, <1>w, <1>3, <2>2
    <3>2. Fenced(n)
      BY <1>t, <1>3 DEF Backstop
    <3>3. /\ fence.stamped # 0 /\ fence.status # "none"
          /\ fence.created = fence.stamped => fence.expected = write[n].want
          /\ write'[n].pc = "matched" => fence.created < fence.stamped \/ write[n].want \in shown
      BY <1>t, <3>1, <3>2 DEF Fenced
    <3>4. ASSUME NEW m \in Writes, BackstopMirror(m)
          PROVE  fence'.stamped = clock + 1 /\ fence'.created < fence'.stamped /\ fence'.created = fence.created
      BY <3>3, <3>4, Stamping
    <3>5. CASE \E m \in Writes : BackstopMirror(m)
      BY <1>t, <3>4, <3>5
    <3>6. CASE \A m \in Writes : ~BackstopMirror(m)
      BY <3>1, <3>3, <3>6, Calm
    <3> QED BY <3>5, <3>6
  <2> QED BY <2>1, <2>2
<1> QED BY <1>1, <1>2, <1>3 DEF Backstop, Placed, After, Fenced

LEMMA StepLifts == LiftInv /\ [Next]_vars => LiftInv'
<1> SUFFICES ASSUME LiftInv, [Next]_vars PROVE LiftInv'
  OBVIOUS
<1>1. CASE Next
  BY <1>1, Lifting, StepTypes, SubmissionsKept, ClocksKept, BusyKept, BackstopKept, GroundsKept, SweepGroundsKept
     DEF LiftInv
<1>2. CASE UNCHANGED vars
  <2>t. TypeInv'
    BY <1>2, Lifting, StepTypes
  <2>1. /\ live' = live /\ write' = write /\ sub' = sub /\ fence' = fence /\ sync' = sync /\ check' = check
        /\ sweep' = sweep /\ clock' = clock /\ shown' = shown
    BY <1>2 DEF vars
  <2>2. Submissions' /\ Clocks' /\ OneBusy' /\ SweepGrounds'
    BY <2>1, Lifting DEF Submissions, Clocks, OneBusy, SweepGrounds, Untracked, Busy
  <2>3. (\A n \in Writes : Backstop(n))'
    BY <2>1, Lifting DEF Backstop, Placed, After, Fenced
  <2>4. (\A c \in Checkers : Grounds(check[c]))'
    BY <2>1, Lifting DEF Grounds
  <2> QED BY <2>t, <2>2, <2>3, <2>4 DEF LiftInv
<1> QED BY <1>1, <1>2

LEMMA InitLifts == Init => LiftInv
<1> SUFFICES ASSUME Init PROVE LiftInv
  OBVIOUS
<1>1. Submissions
  BY DEF Init, Submissions, Untracked, Loose, IdleSync, IdleCheck, IdleSweep
<1>2. Clocks
  BY DEF Init, Clocks
<1>3. OneBusy
  BY AssignmentAssumption DEF Init, OneBusy, Busy, Writes
<1>4. \A n \in Writes : Backstop(n)
  BY DEF Init, Backstop, Placed, After, Fenced
<1>5. \A c \in Checkers : Grounds(check[c])
  BY DEF Init, IdleCheck, Grounds
<1>6. SweepGrounds
  BY DEF Init, IdleSweep, SweepGrounds
<1> QED BY <1>1, <1>2, <1>3, <1>4, <1>5, <1>6, InitTypes DEF LiftInv

LEMMA LiftStep ==
    ASSUME LiftInv, [Next]_vars, LiftedEarly, fence.created = fence.stamped
    PROVE  EvidenceForLift
<1>t. /\ TypeInv /\ SweepGrounds /\ fence \in FenceRec
      /\ fence.created \in Nat /\ fence.stamped \in Nat
      /\ \A c \in Checkers : Grounds(check[c]) /\ Pointed(check[c])
      /\ \A n \in Writes : Backstop(n)
  BY Lifting, Typed DEF TypeInv, Pointers
<1>1. fence' # fence /\ fence'.status # "active" /\ <<write, readers>>' # <<write, readers>>
  BY DEF LiftedEarly, FenceActive
<1>2. Next
  BY <1>1 DEF vars
<1>3. ASSUME NEW n \in Writes, sub[n].created > fence.stamped, write[n].want \in shown PROVE EvidenceForLift
  BY <1>3 DEF EvidenceForLift
<1>4. ASSUME NEW c \in Checkers, CheckVerifies(c) \/ CheckExpires(c) PROVE EvidenceForLift
  <2>1. check[c].pc \in {"verify", "expire"}
    BY <1>4 DEF CheckVerifies, CheckExpires, CheckStep
  <2>2. /\ check[c].n \in Writes /\ sub[check[c].n].created > fence.stamped
        /\ write[check[c].n].want \in shown
    BY <1>t, <2>1 DEF Grounds, Pointed
  <2> QED BY <1>3, <2>2
<1>5. ASSUME NEW n \in Writes, BulkVerify(n) PROVE EvidenceForLift
  <2>1. write[n].pc \in {"matched", "repaired"} /\ n \in Backstops /\ After(n) /\ Fenced(n)
    BY <1>t, <1>5 DEF BulkVerify, Backstop, Placed
  <2>2. CASE write[n].pc = "matched"
    BY <1>t, <2>1, <2>2 DEF Fenced, EvidenceForLift
  <2>3. CASE write[n].pc = "repaired"
    BY <1>3, <2>1, <2>3 DEF After
  <2> QED BY <2>1, <2>2, <2>3
<1>6. SweepExpires => EvidenceForLift
  <2> SUFFICES ASSUME SweepExpires PROVE EvidenceForLift
    OBVIOUS
  <2>1. sweep.pc = "lift" /\ sweep.n \in Writes
    BY <1>t DEF SweepExpires, TypeInv, Pointers, SweepPointed
  <2> QED BY <1>t, <1>3, <2>1 DEF SweepGrounds
<1>7. ASSUME NEW n \in Writes, BackstopMirror(n) PROVE fence'.status = "active"
  BY <1>7 DEF BackstopMirror, Stamped
<1>8. ~FenceTtl
  BY <1>1 DEF FenceTtl, readers
<1> QED BY <1>t, <1>1, <1>2, <1>4, <1>5, <1>6, <1>7, <1>8, FenceEffect

(* No check, no sweep and no sync lifts a fence that was stamped once on a  *)
(* cached value, on a submission older than the stamp or on nothing,        *)
(* however many of them are at work and in whatever order their database    *)
(* statements fall.                                                         *)
THEOREM LiftsHaveEvidence == Spec => EarlyLiftsHaveEvidence
<1>1. LiftInv /\ [Next]_vars => [LiftedEarly /\ fence.created = fence.stamped => EvidenceForLift]_vars
  BY LiftStep
<1> QED BY <1>1, InitLifts, StepLifts, PTL DEF Spec, EarlyLiftsHaveEvidence

-----------------------------------------------------------------------------
(* The agreement lasts.  A settled row was there before it was settled: the *)
(* rows that checks and syncs have in hand exist.                           *)
Known ==
    /\ \A c \in Checkers : check[c].pc # "idle" => sub[check[c].n].status # "none"
    /\ \A s \in Syncs : \A n \in sync[s].pend : sub[n].status # "none"

KnownInv == TypeInv /\ Known

LEMMA RowStays ==
    ASSUME TypeInv, Next, NEW n \in Writes, sub[n].status # "none"
    PROVE  sub'[n].status # "none"
<1>t. sub \in [Writes -> SubRec]
  BY Typed DEF TypeInv
<1>1. ASSUME NEW m \in Writes, Track(m) PROVE sub'[n].status # "none"
  <2>1. sub' = [sub EXCEPT ![m] = [status |-> "pending", created |-> clock + 1, age |-> Fresh]]
    BY <1>1 DEF Track
  <2> QED BY <1>t, <2>1
<1>2. ASSUME NEW m \in Writes, Age(m) PROVE sub'[n].status # "none"
  BY <1>t, <1>2 DEF Age, SubRec
<1>3. ASSUME NEW m \in Writes, NEW st \in SubStatuses, sub' = [sub EXCEPT ![m].status = st],
             st = "none" => sub[m].status = "none"
      PROVE  sub'[n].status # "none"
  BY <1>t, <1>3 DEF SubRec
<1> QED BY <1>1, <1>2, <1>3, SubEffect DEF Resettled

LEMMA KnownKept == KnownInv /\ [Next]_vars => KnownInv'
<1> SUFFICES ASSUME KnownInv, [Next]_vars PROVE KnownInv'
  OBVIOUS
<1>t. /\ TypeInv /\ TypeInv' /\ Known /\ check \in [Checkers -> CheckRec]
      /\ \A c \in Checkers : check[c].pc # "idle" => check[c].n \in Writes
  BY StepTypes, Typed DEF KnownInv, TypeInv, Pointers, Pointed
<1>1. CASE UNCHANGED vars
  BY <1>t, <1>1 DEF vars, KnownInv, Known
<1>2. CASE Next
  <2>1. ASSUME NEW c \in Checkers, check'[c].pc # "idle" PROVE sub'[check'[c].n].status # "none"
    <3>1. ASSUME check'[c] = check[c] PROVE sub'[check'[c].n].status # "none"
      BY <1>t, <1>2, <2>1, <3>1, RowStays DEF Known
    <3>2. ASSUME NEW d \in Checkers, CheckWork(d) PROVE sub'[check'[c].n].status # "none"
      <4>1. CASE d # c
        <5>1. check'[c] = check[c]
          BY <1>t, <3>2, <4>1, CheckEffect
        <5> QED BY <3>1, <5>1
      <4>2. CASE d = c
        <5>1. check[c].n \in Writes /\ check[c].pc # "idle" /\ check[c] \in CheckRec
          BY <1>t, <3>2, <4>2, CheckEffect
        <5>2. check' # [check EXCEPT ![c] = IdleCheck]
          BY <1>t, <2>1 DEF IdleCheck
        <5>3. check'[c].n = check[c].n
          BY <1>t, <3>2, <4>2, <5>1, <5>2, CheckEffect DEF CheckRec
        <5> QED BY <1>t, <1>2, <5>1, <5>3, RowStays DEF Known
      <4> QED BY <4>1, <4>2
    <3>3. ASSUME NEW d \in Checkers, NEW n \in Writes, sub[n].status = "pending",
                 check' = [check EXCEPT ![d] = [pc |-> "asking", n |-> n, late |-> sub[n].age >= Expired]]
          PROVE  sub'[check'[c].n].status # "none"
      <4>1. check'[c] = check[c] \/ check'[c].n = n
        BY <1>t, <3>3
      <4>2. sub'[n].status # "none"
        BY <1>t, <1>2, <3>3, RowStays
      <4> QED BY <3>1, <4>1, <4>2
    <3> QED BY <1>2, <3>1, <3>2, <3>3, ChecksElse
  <2>2. ASSUME NEW s \in Syncs, NEW n \in sync'[s].pend PROVE sub'[n].status # "none"
    <3>1. n \in Writes
      <4>1. sync'[s] \in SyncRec
        BY <1>t, <1>2, SyncsTyped
      <4> QED BY <4>1 DEF SyncRec
    <3>2. sub[n].status # "none"
      BY <1>t, <1>2, PendEffect DEF Known
    <3> QED BY <1>t, <1>2, <3>1, <3>2, RowStays
  <2> QED BY <1>t, <2>1, <2>2 DEF KnownInv, Known
<1> QED BY <1>1, <1>2

(* The steps of a change that write the cache, the fence or a row move it.  *)
LEMMA StillWrites ==
    ASSUME TypeInv, UNCHANGED write, NEW n \in Writes
    PROVE  ~Track(n) /\ ~BackstopMirror(n) /\ ~SkipMirror(n) /\ ~HumanMirror(n) /\ ~BulkRepair(n)
<1>t. write \in [Writes -> WriteRec]
  BY Typed DEF TypeInv
<1>1. ASSUME NEW to, WriteGoes(n, to) PROVE write[n].pc = to
  BY <1>t, <1>1 DEF WriteGoes, WriteRec
<1> QED BY <1>1 DEF Track, BackstopMirror, SkipMirror, HumanMirror, BulkRepair

LEMMA PinsStay ==
    ASSUME KnownInv, Next, Agreed, UNCHANGED <<live, write>>
    PROVE  NothingPins'
<1>t. /\ TypeInv /\ Known /\ NothingPins /\ sub \in [Writes -> SubRec] /\ fence \in FenceRec
      /\ live' = live /\ write' = write
      /\ \A n \in Writes : ~Track(n) /\ ~BackstopMirror(n)
  BY Typed, StillWrites DEF KnownInv, TypeInv, Agreed
<1>1. fence'.status # "active"
  <2>1. Verified.status # "active" /\ ExpiredNow.status # "active"
    BY <1>t DEF Verified, ExpiredNow, FenceRec
  <2>2. fence.status # "active"
    BY <1>t DEF NothingPins, FenceActive
  <2> QED BY <1>t, <2>1, <2>2, FenceEffect
<1>2. ASSUME live # NoTech, NEW n \in Writes, sub'[n].status # "none", write[n].want = NoTech
      PROVE  sub'[n].age = HourOld
  <2>1. sub[n].status # "none" => sub[n].age = HourOld
    BY <1>t, <1>2 DEF NothingPins
  <2>2. CASE UNCHANGED sub
    BY <1>2, <2>1, <2>2
  <2>3. ASSUME NEW m \in Writes, Age(m) PROVE sub'[n].age = HourOld
    BY <1>t, <1>2, <2>1, <2>3 DEF Age, SubRec, HourOld
  <2>4. ASSUME NEW m \in Writes, Resettled(m) PROVE sub'[n].age = HourOld
    <3>1. sub[m].status # "none"
      BY <1>t, <2>4 DEF Resettled, Known
    <3> QED BY <1>t, <1>2, <2>1, <2>4, <3>1 DEF Resettled, SubRec
  <2> QED BY <1>t, <2>2, <2>3, <2>4, SubEffect
<1> QED BY <1>t, <1>1, <1>2 DEF NothingPins, FenceActive

(* A sync writes what it pulled, or clears for an unassign of the last hour.*)
LEMMA SyncEffect ==
    ASSUME TypeInv, Next, NEW s \in Syncs
    PROVE  \/ sync'[s] = sync[s]
           \/ sync'[s].pc = "pulled" /\ sync'[s].got = live
           \/ sync[s].pc = "pulled" /\ sync'[s].pc = "loaded" /\ sync'[s].got = sync[s].got
           \/ sync'[s].pc = "clearing" /\ RecentUnassign
           \/ sync'[s].pc \in {"idle", "unassigns", "pending", "settling"}
<1>t. sync \in [Syncs -> SyncRec] /\ sync[s] \in SyncRec
  BY Typed DEF TypeInv
<1>1. WriteStep \/ SweepWork => UNCHANGED sync
  BY DEF WriteStep, Submit, SeesShown, ReadInFlight, SkipMirror, Track, LoseTrack, HumanMirror, BackstopMirror,
         MirrorFails, HolmanApplies, HolmanLoses, BulkMatch, BulkRepair, BulkVerify, BulkFlag, SweepWork, SweepRead,
         SweepQuery, SweepConfirms, SweepGivesUp, SweepExpires, SweepMirrors, readers
<1>2. ASSUME NEW c \in Checkers, CheckWork(c) \/ \E m \in Writes : CheckStart(c, m) PROVE UNCHANGED sync
  BY <1>2 DEF CheckWork, CheckStart, CheckConfirms, CheckSeesNothing, CheckReadFence, CheckVerifies,
              CheckExpires, CheckMirrors, CheckSettles, CheckCache, CheckNotes, CheckEnds
<1>3. FenceTtl \/ (\E m \in Writes : Age(m)) \/ (\E v \in Values : HolmanEdited(v)) => UNCHANGED sync
  BY DEF FenceTtl, Age, HolmanEdited, readers
<1>4. ASSUME NEW r \in Syncs, SyncWork(r), r # s PROVE sync'[s] = sync[s]
  BY <1>t, <1>4 DEF SyncWork, SyncPull, SyncLoad, SyncUpsert, SyncReadUnassigns, SyncClear,
                    SyncReadPending, SyncSettle
<1>5. SyncPull(s) => sync'[s].pc = "pulled" /\ sync'[s].got = live
  BY <1>t DEF SyncPull, IdleSync
<1>6. SyncLoad(s) => sync[s].pc = "pulled" /\ sync'[s].pc = "loaded" /\ sync'[s].got = sync[s].got
  BY <1>t DEF SyncLoad, SyncStep, SyncRec
<1>7. SyncReadUnassigns(s) => (sync'[s].pc = "clearing" /\ RecentUnassign) \/ sync'[s].pc = "pending"
  BY <1>t DEF SyncReadUnassigns, SyncRec
<1>8. SyncUpsert(s, "unassigns") \/ SyncUpsert(s, "pending") \/ SyncClear(s) =>
         sync'[s].pc \in {"unassigns", "pending"}
  BY <1>t DEF SyncUpsert, SyncClear, SyncRec
<1>9. SyncReadPending(s) => sync'[s].pc \in {"idle", "settling"}
  BY <1>t DEF SyncReadPending, SyncRec, IdleSync
<1>10. ASSUME NEW n \in Writes, SyncSettle(s, n) PROVE sync'[s].pc \in {"idle", "settling"}
  BY <1>t, <1>10 DEF SyncSettle, SyncStep, SyncRec, IdleSync
<1>11. ASSUME SyncWork(s)
       PROVE  \/ sync'[s].pc = "pulled" /\ sync'[s].got = live
              \/ sync[s].pc = "pulled" /\ sync'[s].pc = "loaded" /\ sync'[s].got = sync[s].got
              \/ sync'[s].pc = "clearing" /\ RecentUnassign
              \/ sync'[s].pc \in {"idle", "unassigns", "pending", "settling"}
  BY <1>5, <1>6, <1>7, <1>8, <1>9, <1>10, <1>11 DEF SyncWork
<1> QED BY <1>1, <1>2, <1>3, <1>4, <1>11 DEF Next

LEMMA ReadersStay ==
    ASSUME KnownInv, Next, Agreed, UNCHANGED <<live, write>>
    PROVE  ReadersAgree'
<1>t. /\ TypeInv /\ NothingPins /\ ReadersAgree /\ check \in [Checkers -> CheckRec] /\ sub \in [Writes -> SubRec]
      /\ live' = live /\ write' = write
  BY Typed DEF KnownInv, TypeInv, Agreed
<1>1. ASSUME NEW s \in Syncs
      PROVE  /\ sync'[s].pc \in {"pulled", "loaded"} => sync'[s].got = live
             /\ sync'[s].pc = "clearing" => live = NoTech
  <2>1. /\ sync[s].pc \in {"pulled", "loaded"} => sync[s].got = live
        /\ sync[s].pc = "clearing" => live = NoTech
    BY <1>t DEF ReadersAgree
  <2>2. RecentUnassign => live = NoTech
    BY <1>t DEF RecentUnassign, NothingPins, SubRec, HourOld, Expired, Fresh
  <2> QED BY <1>t, <2>1, <2>2, SyncEffect
<1>2. ASSUME NEW c \in Checkers, check'[c].pc \in {"expire", "mirror"}
      PROVE  write[check'[c].n].want = live
  <2>0. check[c].pc \in {"expire", "mirror"} => write[check[c].n].want = live
    BY <1>t DEF ReadersAgree
  <2>1. ASSUME NEW d \in Checkers, CheckWork(d) PROVE write[check'[c].n].want = live
    <3>1. CASE d # c
      <4>1. check'[c] = check[c]
        BY <1>t, <2>1, <3>1, CheckEffect
      <4> QED BY <1>2, <2>0, <4>1
    <3>2. CASE d = c
      <4>1. check[c] \in CheckRec
        BY <1>t
      <4>2. check' # [check EXCEPT ![c] = IdleCheck]
        BY <1>t, <1>2 DEF IdleCheck
      <4>3. PICK pc \in CheckPcs \ {"idle"} :
               /\ check' = [check EXCEPT ![c] = [check[c] EXCEPT !.pc = pc]]
               /\ pc \in {"verify", "expire"} => MayRelease(check[c].n)
               /\ pc = "mirror" => check[c].pc = "expire"
        BY <1>t, <2>1, <3>2, <4>2, CheckEffect
      <4>4. check'[c].pc = pc /\ check'[c].n = check[c].n
        BY <1>t, <4>1, <4>3 DEF CheckRec
      <4>5. ~MayRelease(check[c].n)
        BY <1>t DEF NothingPins, MayRelease
      <4> QED BY <1>2, <2>0, <4>3, <4>4, <4>5
    <3> QED BY <3>1, <3>2
  <2>2. ASSUME NEW d \in Checkers, NEW n \in Writes,
               check' = [check EXCEPT ![d] = [pc |-> "asking", n |-> n, late |-> sub[n].age >= Expired]]
        PROVE  check'[c] = check[c]
    BY <1>t, <1>2, <2>2
  <2> QED BY <1>2, <2>0, <2>1, <2>2, ChecksElse
<1>3. sweep'.pc \in {"lift", "mirror"} => write[sweep'.n].want = live
  <2>1. sweep.pc \in {"lift", "mirror"} => write[sweep.n].want = live
    BY <1>t DEF ReadersAgree
  <2> QED BY <1>t, <2>1, SweepEffect DEF LiveMatchesNewer
<1> QED BY <1>t, <1>1, <1>2, <1>3 DEF ReadersAgree

LEMMA CacheStays ==
    ASSUME KnownInv, Next, Agreed, UNCHANGED <<live, write>>
    PROVE  cache'.tech = live
<1>t. /\ TypeInv /\ ReadersAgree /\ cache \in CacheRec /\ cache.tech = live /\ write' = write
      /\ \A n \in Writes : ~BackstopMirror(n) /\ ~SkipMirror(n) /\ ~HumanMirror(n) /\ ~BulkRepair(n)
  BY Typed, StillWrites DEF KnownInv, TypeInv, Agreed
<1>v. ASSUME cache' = [cache EXCEPT !.tech = live] PROVE cache'.tech = live
  BY <1>t, <1>v DEF CacheRec
<1>1. WriteStep => UNCHANGED cache
  BY <1>t DEF WriteStep, Submit, SeesShown, ReadInFlight, Track, LoseTrack,
         MirrorFails, HolmanApplies, HolmanLoses, BulkMatch, BulkVerify, BulkFlag
<1>2. ASSUME NEW s \in Syncs, SyncWork(s) PROVE cache'.tech = live
  <2>1. ASSUME NEW next, SyncUpsert(s, next) PROVE cache'.tech = live
    <3>1. sync[s].got = live
      BY <1>t, <2>1 DEF SyncUpsert, SyncStep, ReadersAgree
    <3>2. SyncedTech(s) = live
      BY <1>t, <3>1 DEF SyncedTech
    <3> QED BY <2>1, <3>2 DEF SyncUpsert
  <2>2. SyncClear(s) => cache'.tech = live
    BY <1>t, <1>v DEF SyncClear, SyncStep, ReadersAgree
  <2> QED BY <1>2, <1>t, <2>1, <2>2
          DEF SyncWork, SyncPull, SyncLoad, SyncReadUnassigns, SyncReadPending, SyncSettle
<1>3. ASSUME NEW c \in Checkers, CheckWork(c) \/ \E n \in Writes : CheckStart(c, n)
      PROVE  UNCHANGED cache \/ cache' = [cache EXCEPT !.tech = live]
  <2>1. CheckMirrors(c) => write[check[c].n].want = live
    BY <1>t DEF CheckMirrors, CheckStep, ReadersAgree
  <2> QED BY <1>3, <2>1 DEF CheckWork, CheckStart, CheckConfirms, CheckSeesNothing, CheckReadFence, CheckVerifies,
              CheckExpires, CheckMirrors, CheckSettles, CheckCache, CheckNotes, CheckEnds
<1>4. SweepWork => UNCHANGED cache \/ cache' = [cache EXCEPT !.tech = live]
  BY <1>t DEF SweepWork, SweepRead, SweepQuery, SweepConfirms, SweepGivesUp, SweepExpires, SweepMirrors, ReadersAgree
<1>5. FenceTtl \/ (\E n \in Writes : Age(n)) \/ (\E v \in Values : HolmanEdited(v)) => UNCHANGED cache
  BY DEF FenceTtl, Age, HolmanEdited
<1> QED BY <1>t, <1>1, <1>2, <1>3, <1>4, <1>5, <1>v DEF Next

LEMMA AgreedStep == KnownInv /\ [Next]_vars => [Agreed /\ UNCHANGED <<live, write>> => Agreed']_vars
<1> SUFFICES ASSUME KnownInv, [Next]_vars, Agreed, UNCHANGED <<live, write>>, vars' # vars PROVE Agreed'
  OBVIOUS
<1>1. Next /\ live' = live
  OBVIOUS
<1> QED BY <1>1, PinsStay, ReadersStay, CacheStays DEF Agreed

LEMMA InitKnown == Init => KnownInv
BY InitTypes DEF Init, IdleSync, IdleCheck, KnownInv, Known

(* Whatever the number of syncs and checks at work, once the cache and      *)
(* Holman agree and nothing pins the cache, none of them parts the two, in  *)
(* whatever order their statements fall: what EventuallyAgrees reaches, it  *)
(* keeps.                                                                   *)
THEOREM AgreementStays == Spec => AgreementLasts
<1> QED BY InitKnown, KnownKept, AgreedStep, PTL DEF Spec, AgreementLasts
=============================================================================
