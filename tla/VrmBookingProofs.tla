--------------------------- MODULE VrmBookingProofs ---------------------------
(***************************************************************************)
(* Proofs about one rental booking intent (VrmBooking), for any number of   *)
(* runners, staff, attempts and faults: the types, the truth of the ledger, *)
(* the reality of the evidence, the fencing of the attempts, and what is    *)
(* promised while no pass at work loses its claim.                          *)
(*                                                                          *)
(* Inductive invariants, each on top of one before it:                      *)
(*   TypeInv   the types, that a pass which opened an attempt names it, and *)
(*             the statuses staff are about to write;                       *)
(*   TruthInv  what each pass knows at each of its steps is so (Knows), two *)
(*             passes at their commits hold different attempts (Apart), and *)
(*             every reservation has a row in the ledger (Recorded);        *)
(*   FenceInv  tokens: those of the ledger and of the passes at work stay   *)
(*             at or below the intent's, differ from pass to pass, and a    *)
(*             pass that has not opened an attempt has none on file;        *)
(*   SoloInv   on TypeInv: one busy pass at a time (Solo), which between its*)
(*             search and its commit has nothing standing (Clear) and an    *)
(*             approval nobody took back (Approval);                        *)
(*   GoneInv   on TruthInv: nobody holds an abandoned intent, and a pass    *)
(*             still at its commit has had its attempt closed by a readback.*)
(***************************************************************************)
EXTENDS VrmBooking, FiniteSetTheorems, TLAPS

(* A pass that has opened an attempt, or is about to close one, names it,   *)
(* and after its commit it has an answer.                                   *)
Holds(q) ==
    /\ q.pc \in {"opened", "answered", "closing"} => q.att # None
    /\ q.pc = "answered" => q.result # "none"
Holding == \A r \in Runners : Holds(runner[r])

(* What staff are about to write is one of the statuses their handlers set. *)
Aims ==
    \A p \in Staff : staff[p].pc \in {"writing", "releasing"} =>
       staff[p].to \in {"preview_pending", "same", "booking", "reservation_verified",
                        "cancel_pending_readback", "cancelled"}

TypeInv == TypeOK /\ Holding /\ Aims

-----------------------------------------------------------------------------
(* Types.                                                                   *)
LEMMA Fields ==
    ASSUME TypeOK
    PROVE  /\ intent \in IntentRec /\ runner \in [Runners -> PassRec]
           /\ ledger \in [AttemptNos -> AttemptRec] /\ staff \in [Staff -> StaffRec]
           /\ made \subseteq AttemptNos /\ standing \subseteq made
           /\ intent.conf \in Refs /\ intent.token \in Nat
           /\ intent.status \in Statuses /\ intent.rsv \in ReservationStates
<1>1. intent \in IntentRec /\ runner \in [Runners -> PassRec]
  BY DEF TypeOK
<1>2. /\ ledger \in [AttemptNos -> AttemptRec] /\ staff \in [Staff -> StaffRec]
      /\ made \subseteq AttemptNos /\ standing \subseteq made
  BY DEF TypeOK
<1>3. intent.conf \in Refs /\ intent.token \in Nat
  BY <1>1 DEF IntentRec
<1>4. intent.status \in Statuses /\ intent.rsv \in ReservationStates
  BY <1>1 DEF IntentRec
<1> QED BY <1>1, <1>2, <1>3, <1>4

LEMMA PassFields ==
    ASSUME TypeOK, NEW r \in Runners
    PROVE  /\ runner[r] \in PassRec
           /\ runner[r].pc \in RunnerPcs /\ runner[r].token \in Nat
           /\ runner[r].att \in Refs /\ runner[r].known \in Refs
           /\ runner[r].hash \in Hashes \cup {None} /\ runner[r].seen \subseteq AttemptNos
           /\ runner[r].result \in Results \cup {"none"}
<1>1. runner[r] \in PassRec
  BY DEF TypeOK
<1> QED BY <1>1 DEF PassRec

LEMMA IdleTyped == Idle \in PassRec
BY DEF Idle, PassRec, RunnerPcs, Refs

LEMMA KindTyped == ASSUME NEW i PROVE KindOf(i) \in {"preview", "reconcile", "book"}
BY DEF KindOf

LEMMA NoneHeld == None \notin AttemptNos
BY BookingAssumption DEF None, AttemptNos

(* What a pass does to its own record keeps the record's type.              *)
LEMMA MoveTyped ==
    ASSUME TypeOK, NEW r \in Runners, NEW pc \in RunnerPcs, Goto(r, pc)
    PROVE  runner' \in [Runners -> PassRec]
<1>1. runner \in [Runners -> PassRec]
  BY DEF TypeOK
<1> QED BY <1>1 DEF Goto, PassRec

LEMMA FinishTyped ==
    ASSUME TypeOK, NEW r \in Runners, Finish(r)
    PROVE  runner' \in [Runners -> PassRec]
BY IdleTyped DEF Finish, TypeOK

LEMMA SetTyped ==
    ASSUME TypeOK, NEW r \in Runners, NEW q \in PassRec, runner' = [runner EXCEPT ![r] = q]
    PROVE  runner' \in [Runners -> PassRec]
BY DEF TypeOK

LEMMA PassUpdates ==
    ASSUME NEW q \in PassRec, NEW pc \in RunnerPcs
    PROVE  /\ \A h \in Hashes : [q EXCEPT !.pc = pc, !.hash = h] \in PassRec
           /\ \A n \in Refs : [q EXCEPT !.pc = pc, !.att = n] \in PassRec
           /\ \A x \in Results, k \in Refs : [q EXCEPT !.pc = pc, !.result = x, !.known = k] \in PassRec
           /\ \A S \in SUBSET AttemptNos, k \in Refs :
                 [q EXCEPT !.pc = pc, !.seen = S, !.known = k] \in PassRec
           /\ \A S \in SUBSET AttemptNos : [q EXCEPT !.pc = pc, !.seen = S] \in PassRec
           /\ \A x \in Results : [q EXCEPT !.pc = pc, !.result = x] \in PassRec
<1>1. /\ \A h \in Hashes : [q EXCEPT !.pc = pc, !.hash = h] \in PassRec
      /\ \A n \in Refs : [q EXCEPT !.pc = pc, !.att = n] \in PassRec
  BY DEF PassRec
<1>2. \A S \in SUBSET AttemptNos : [q EXCEPT !.pc = pc, !.seen = S] \in PassRec
  BY DEF PassRec
<1>3. \A x \in Results : [q EXCEPT !.pc = pc, !.result = x] \in PassRec
  BY DEF PassRec
<1>k. ASSUME NEW p \in PassRec PROVE \A k \in Refs : [p EXCEPT !.known = k] \in PassRec
  BY DEF PassRec
<1>4. ASSUME NEW x \in Results, NEW k \in Refs
      PROVE  [q EXCEPT !.pc = pc, !.result = x, !.known = k] \in PassRec
  <2> DEFINE p == [q EXCEPT !.pc = pc, !.result = x]
  <2>1. [q EXCEPT !.pc = pc, !.result = x, !.known = k] = [p EXCEPT !.known = k]
    OBVIOUS
  <2>2. p \in PassRec
    BY <1>3
  <2> HIDE DEF p
  <2>3. [p EXCEPT !.known = k] \in PassRec
    BY <1>k, <2>2
  <2> QED BY <2>1, <2>3
<1>5. ASSUME NEW S \in SUBSET AttemptNos, NEW k \in Refs
      PROVE  [q EXCEPT !.pc = pc, !.seen = S, !.known = k] \in PassRec
  <2> DEFINE p == [q EXCEPT !.pc = pc, !.seen = S]
  <2>1. [q EXCEPT !.pc = pc, !.seen = S, !.known = k] = [p EXCEPT !.known = k]
    OBVIOUS
  <2>2. p \in PassRec
    BY <1>2
  <2> HIDE DEF p
  <2>3. [p EXCEPT !.known = k] \in PassRec
    BY <1>k, <2>2
  <2> QED BY <2>1, <2>3
<1> QED BY <1>1, <1>2, <1>3, <1>4, <1>5

LEMMA Picked ==
    ASSUME NEW q \in PassRec, NEW n \in Nat, NEW k \in {"preview", "reconcile", "book"}, NEW c \in Refs
    PROVE  [q EXCEPT !.pc = "picked", !.token = n, !.kind = k, !.known = c] \in PassRec
<1> DEFINE a == [q EXCEPT !.pc = "picked", !.token = n]
<1>1. a \in PassRec
  BY DEF PassRec, RunnerPcs
<1> HIDE DEF a
<1>2. [a EXCEPT !.kind = k, !.known = c] \in PassRec
  BY <1>1 DEF PassRec
<1>3. [q EXCEPT !.pc = "picked", !.token = n, !.kind = k, !.known = c] = [a EXCEPT !.kind = k, !.known = c]
  BY DEF a
<1> QED BY <1>2, <1>3

LEMMA Judged ==
    ASSUME NEW q \in PassRec, NEW c \in Refs, NEW s \in Statuses, NEW x \in ReservationStates,
           NEW v \in {"none", "verified", "mismatch", "multiple"}
    PROVE  [q EXCEPT !.pc = "judged", !.verdict = v, !.known = c, !.status = s, !.rsv = x] \in PassRec
<1> DEFINE a == [q EXCEPT !.pc = "judged", !.verdict = v, !.known = c]
<1>1. a \in PassRec
  BY DEF PassRec, RunnerPcs
<1> HIDE DEF a
<1>2. [a EXCEPT !.status = s, !.rsv = x] \in PassRec
  BY <1>1 DEF PassRec
<1>3. [q EXCEPT !.pc = "judged", !.verdict = v, !.known = c, !.status = s, !.rsv = x]
         = [a EXCEPT !.status = s, !.rsv = x]
  BY DEF a
<1> QED BY <1>2, <1>3

LEMMA RunnersTyped ==
    ASSUME TypeInv, NEW r \in Runners, RunnerStep(r)
    PROVE  runner' \in [Runners -> PassRec]
<1> USE DEF TypeInv
<1>t. runner \in [Runners -> PassRec]
  BY DEF TypeOK
<1>f. CASE Finish(r)
  BY <1>f, FinishTyped
<1>m. ASSUME NEW pc \in RunnerPcs, Goto(r, pc) PROVE runner' \in [Runners -> PassRec]
  BY <1>m, MoveTyped
<1>1. CASE Claim(r)
  <2>1. intent.token + 1 \in Nat
    BY Fields
  <2>2. /\ \A n \in Nat, k \in {"preview", "reconcile", "book"}, c \in Refs :
             [Idle EXCEPT !.pc = "picked", !.token = n, !.kind = k, !.known = c] \in PassRec
    BY IdleTyped, Picked
  <2> QED BY <1>1, <1>t, <2>1, <2>2, KindTyped, Fields DEF Claim
<1>2. CASE LookUpOpen(r)
  <2> DEFINE pc == CASE runner[r].kind = "preview" -> "previewing"
                     [] runner[r].kind = "reconcile" \/ \E n \in AttemptNos : Open(n) -> "searching"
                     [] OTHER -> "booking"
  <2>1. pc \in RunnerPcs
    BY DEF RunnerPcs
  <2>2. Goto(r, pc)
    BY <1>2 DEF LookUpOpen, Goto
  <2> QED BY <2>1, <2>2, <1>m
<1>3. CASE PersistPreview(r) \/ AbortBeforeOpen(r) \/ DriftAtOpen(r) \/ DropResult(r)
  BY <1>3, <1>f DEF PersistPreview, AbortBeforeOpen, DriftAtOpen, DropResult
<1>4. CASE SearchDuplicate(r) \/ SearchJourneys(r)
  <2>1. \A S \in Sights : S \in SUBSET AttemptNos
    BY Fields DEF Sights
  <2>2. CASE SearchDuplicate(r)
    <3>1. PICK seen \in Sights :
            runner' = [runner EXCEPT ![r].seen = seen, ![r].known = None,
                                     ![r].pc = IF seen = {} THEN "asking" ELSE "posting"]
      BY <2>2 DEF SearchDuplicate
    <3> DEFINE pc == IF seen = {} THEN "asking" ELSE "posting"
    <3>2. pc \in RunnerPcs /\ None \in Refs
      BY DEF RunnerPcs, Refs
    <3> HIDE DEF pc
    <3>3. runner' = [runner EXCEPT ![r] = [runner[r] EXCEPT !.seen = seen, !.known = None, !.pc = pc]]
      BY <3>1 DEF pc
    <3>4. [runner[r] EXCEPT !.seen = seen, !.known = None, !.pc = pc]
             = [runner[r] EXCEPT !.pc = pc, !.seen = seen, !.known = None]
      OBVIOUS
    <3>5. [runner[r] EXCEPT !.pc = pc, !.seen = seen, !.known = None] \in PassRec
      BY <2>1, <3>2, PassUpdates, PassFields
    <3> QED BY <3>3, <3>4, <3>5, SetTyped
  <2>3. CASE SearchJourneys(r)
    <3>1. PICK seen \in Sights : runner' = [runner EXCEPT ![r].pc = "posting", ![r].seen = seen]
      BY <2>3 DEF SearchJourneys
    <3>2. runner' = [runner EXCEPT ![r] = [runner[r] EXCEPT !.pc = "posting", !.seen = seen]]
      BY <3>1
    <3>3. [runner[r] EXCEPT !.pc = "posting", !.seen = seen] \in PassRec
      BY <2>1, PassFields, PassUpdates DEF RunnerPcs
    <3> QED BY <3>2, <3>3, SetTyped
  <2> QED BY <1>4, <2>2, <2>3
<1>5. CASE AskToOpen(r)
  <2>1. ASSUME NEW h \in Hashes, runner' = [runner EXCEPT ![r].pc = "opening", ![r].hash = h]
        PROVE  runner' \in [Runners -> PassRec]
    <3>1. runner' = [runner EXCEPT ![r] = [runner[r] EXCEPT !.pc = "opening", !.hash = h]]
      BY <2>1
    <3> QED BY <3>1, SetTyped, PassUpdates, PassFields DEF RunnerPcs
  <2> QED BY <1>5, <1>f, <2>1 DEF AskToOpen
<1>6. CASE CheckUnfinished(r) \/ CheckAlreadyBooked(r) \/ CompleteRequest(r) \/ CloseOpenAttempt(r)
  BY <1>6, <1>f, <1>m DEF CheckUnfinished, CheckAlreadyBooked, CompleteRequest, CloseOpenAttempt,
                          RunnerPcs
<1>7. CASE OpenAttempt(r)
  <2>1. ASSUME NEW n \in AttemptNos, runner' = [runner EXCEPT ![r].pc = "opened", ![r].att = n]
        PROVE  runner' \in [Runners -> PassRec]
    <3>1. runner' = [runner EXCEPT ![r] = [runner[r] EXCEPT !.pc = "opened", !.att = n]]
      BY <2>1
    <3> QED BY <3>1, SetTyped, PassUpdates, PassFields DEF RunnerPcs, Refs
  <2> QED BY <1>7, <1>f, <2>1 DEF OpenAttempt
<1>8. CASE FailValidation(r)
  <2>1. runner' = [runner EXCEPT ![r] = [runner[r] EXCEPT !.pc = "answered", !.result = "failed_clean"]]
    BY <1>8 DEF FailValidation
  <2>2. [runner[r] EXCEPT !.pc = "answered", !.result = "failed_clean"] \in PassRec
    BY PassFields, PassUpdates DEF RunnerPcs, Results
  <2> QED BY <2>1, <2>2, SetTyped
<1>9. CASE Commit(r)
  <2>1. PICK result \in Results, k \in Refs :
          runner' = [runner EXCEPT ![r].pc = "answered", ![r].result = result, ![r].known = k]
    BY <1>9, PassFields DEF Commit, Results, Refs
  <2>2. runner' = [runner EXCEPT ![r] = [runner[r] EXCEPT !.pc = "answered", !.result = result, !.known = k]]
    BY <2>1
  <2> QED BY <2>2, SetTyped, PassUpdates, PassFields DEF RunnerPcs
<1>10. CASE RecordResult(r) \/ RecordSource(r)
  BY <1>10, <1>f, <1>m DEF RecordResult, RecordSource, RunnerPcs
<1>11. CASE SearchFails(r) \/ Die(r)
  BY <1>11, <1>f DEF SearchFails, Die
<1>12. CASE PostReadback(r)
  <2>1. ASSUME NEW v \in Verdicts(r),
               runner' = [runner EXCEPT ![r].pc = "judged", ![r].verdict = v, ![r].known = Expected(r),
                                        ![r].status = intent.status, ![r].rsv = intent.rsv]
        PROVE  runner' \in [Runners -> PassRec]
    <3>1. v \in {"none", "multiple", "verified", "mismatch"}
      BY DEF Verdicts
    <3>2. Expected(r) \in Refs
      BY Fields, PassFields DEF Expected
    <3>3. runner' = [runner EXCEPT ![r] =
                       [runner[r] EXCEPT !.pc = "judged", !.verdict = v, !.known = Expected(r),
                                         !.status = intent.status, !.rsv = intent.rsv]]
      BY <2>1
    <3> QED BY <3>1, <3>2, <3>3, Judged, Fields, PassFields, SetTyped
  <2> QED BY <1>12, <1>f, <2>1 DEF PostReadback
<1>13. CASE FindOpenAttempt(r)
  <2>1. OpenNo \in Refs
    BY DEF OpenNo, Refs
  <2>2. PICK pc \in RunnerPcs : runner' = [runner EXCEPT ![r].att = OpenNo, ![r].pc = pc]
    BY <1>13 DEF FindOpenAttempt, RunnerPcs
  <2>3. runner' = [runner EXCEPT ![r] = [runner[r] EXCEPT !.pc = pc, !.att = OpenNo]]
    BY <2>2
  <2> QED BY <2>1, <2>3, SetTyped, PassUpdates, PassFields
<1>14. CASE SettleCancel(r) \/ SettleVerified(r) \/ SettleNone(r) \/ SettleOther(r)
  BY <1>14, <1>f, <1>m DEF SettleCancel, SettleVerified, SettleNone, SettleOther, RunnerPcs
<1> QED BY <1>1, <1>2, <1>3, <1>4, <1>5, <1>6, <1>7, <1>8, <1>9, <1>10, <1>11, <1>12, <1>13, <1>14
        DEF RunnerStep

LEMMA IntentUpdates ==
    ASSUME NEW i \in IntentRec
    PROVE  /\ Released(i) \in IntentRec
           /\ \A s \in Statuses : [i EXCEPT !.status = s] \in IntentRec
           /\ \A c \in Refs : [i EXCEPT !.conf = c] \in IntentRec
           /\ \A s \in Statuses, x \in ReservationStates : [i EXCEPT !.status = s, !.rsv = x] \in IntentRec
           /\ \A s \in Statuses, x \in ReservationStates, c \in Refs :
                 [i EXCEPT !.status = s, !.rsv = x, !.conf = c] \in IntentRec
BY DEF IntentRec, Released

LEMMA ResultTyped ==
    ASSUME TypeOK, NEW r \in Runners
    PROVE  ResultPatch(r) \in IntentRec
<1>1. intent \in IntentRec /\ runner[r].known \in Refs
  BY Fields, PassFields
<1> DEFINE v == [intent EXCEPT !.status = "reservation_verified", !.rsv = "verified",
                               !.conf = runner[r].known]
           b == [intent EXCEPT !.status = "awaiting_verification", !.rsv = "booked_unverified",
                               !.conf = runner[r].known]
           f == [intent EXCEPT !.status = IF Request THEN "preview_required" ELSE "manual_review",
                               !.rsv = "failed"]
           u == [intent EXCEPT !.status = "booking_unknown", !.rsv = "unknown"]
<1>2. v \in IntentRec /\ b \in IntentRec /\ u \in IntentRec
  BY <1>1, IntentUpdates DEF Statuses, ReservationStates
<1>3. f \in IntentRec
  BY <1>1, IntentUpdates DEF Statuses, ReservationStates
<1>4. ResultPatch(r) \in {Released(v), b, Released(f), Released(u)}
  BY DEF ResultPatch
<1> HIDE DEF v, b, f, u
<1> QED BY <1>2, <1>3, <1>4, IntentUpdates

(* An attachment changes the confirmation of the intent and nothing else.   *)
LEMMA AttachEffect ==
    ASSUME TypeOK, NEW p \in Staff, Attach(p)
    PROVE  /\ staff[p].pc = "attaching" /\ source' = source /\ intent' \in IntentRec
           /\ intent'.conf \in {intent.conf, staff[p].conf}
           /\ intent'.lane = intent.lane /\ intent'.status = intent.status /\ intent'.rsv = intent.rsv
           /\ intent'.holder = intent.holder /\ intent'.fresh = intent.fresh
           /\ intent'.token = intent.token
<1>1. intent \in IntentRec /\ staff[p] \in StaffRec
  BY Fields
<1>2. staff[p].conf \in Refs
  BY <1>1 DEF StaffRec
<1>3. intent' = intent \/ intent' = [intent EXCEPT !.conf = staff[p].conf]
  BY DEF Attach
<1>4. staff[p].pc = "attaching" /\ source' = source
  BY DEF Attach
<1>5. CASE intent' = intent
  BY <1>1, <1>4, <1>5
<1>6. CASE intent' = [intent EXCEPT !.conf = staff[p].conf]
  BY <1>1, <1>2, <1>4, <1>6 DEF IntentRec
<1> QED BY <1>3, <1>5, <1>6

LEMMA IntentTyped ==
    ASSUME TypeInv, Next
    PROVE  intent' \in IntentRec
<1> USE DEF TypeInv
<1>i. intent \in IntentRec
  BY Fields
<1>s. ASSUME NEW s \in Statuses,
             intent' \in {[intent EXCEPT !.status = s], Released([intent EXCEPT !.status = s])}
      PROVE  intent' \in IntentRec
  BY <1>i, <1>s, IntentUpdates
<1>u. ASSUME UNCHANGED intent PROVE intent' \in IntentRec
  BY <1>i, <1>u
<1>1. ASSUME NEW r \in Runners, RunnerStep(r) PROVE intent' \in IntentRec
  <2>1. CASE Claim(r)
    <3>1. intent.token + 1 \in Nat
      BY Fields
    <3>2. \A n \in Nat : [intent EXCEPT
                !.status = IF intent.status = "confirmed" THEN "booking" ELSE @,
                !.holder = r, !.fresh = TRUE, !.token = n] \in IntentRec
      BY <1>i DEF IntentRec, Statuses
    <3> QED BY <2>1, <3>1, <3>2 DEF Claim
  <2>2. CASE PersistPreview(r)
    BY <2>2, <1>s, <1>u DEF PersistPreview, Statuses
  <2>3. CASE AbortBeforeOpen(r) \/ DriftAtOpen(r) \/ SettleOther(r)
    BY <2>3, <1>s, <1>u DEF AbortBeforeOpen, DriftAtOpen, SettleOther, Statuses
  <2>4. CASE RecordResult(r)
    BY <2>4, ResultTyped DEF RecordResult
  <2>5. CASE RecordSource(r)
    <3>1. [intent EXCEPT !.status = "manual_review", !.rsv = "unknown"] \in IntentRec
      BY <1>i, IntentUpdates DEF Statuses, ReservationStates
    <3> QED BY <2>5, <3>1, <1>i, IntentUpdates DEF RecordSource
  <2>6. CASE CompleteRequest(r)
    BY <2>6, <1>s, <1>u DEF CompleteRequest, Statuses
  <2>7. CASE SettleCancel(r)
    BY <2>7, <1>s, <1>u DEF SettleCancel, Statuses
  <2>8. CASE SettleVerified(r)
    <3>1. [intent EXCEPT !.status = "reservation_verified", !.rsv = "verified",
                         !.conf = runner[r].known] \in IntentRec
      BY <1>i, IntentUpdates, PassFields DEF Statuses, ReservationStates
    <3> QED BY <2>8, <3>1, <1>u DEF SettleVerified
  <2>9. CASE SettleNone(r)
    <3>1. [intent EXCEPT !.rsv = "pending",
                         !.status = IF Request THEN "preview_required" ELSE "confirmed"] \in IntentRec
      BY <1>i DEF IntentRec, Statuses, ReservationStates
    <3> QED BY <2>9, <3>1, IntentUpdates DEF SettleNone
  <2>10. CASE UNCHANGED intent
    BY <2>10, <1>u
  <2> QED BY <1>1, <2>1, <2>2, <2>3, <2>4, <2>5, <2>6, <2>7, <2>8, <2>9, <2>10
          DEF RunnerStep, LookUpOpen, SearchDuplicate, AskToOpen, CheckUnfinished, CheckAlreadyBooked,
              OpenAttempt, FailValidation, Commit, DropResult, SearchJourneys, SearchFails,
              PostReadback, FindOpenAttempt, CloseOpenAttempt, Die
<1>2. ASSUME NEW p \in Staff, StaffStep(p) PROVE intent' \in IntentRec
  <2>1. CASE Write(p)
    <3>1. staff[p].to \in {"preview_pending", "same", "booking", "reservation_verified",
                           "cancel_pending_readback", "cancelled"}
      BY <2>1 DEF Aims, Write
    <3>3. Patched(staff[p].to) \in IntentRec
      BY <3>1, <1>i, IntentUpdates DEF Patched, Statuses
    <3> QED BY <2>1, <3>3, IntentUpdates DEF Write
  <2>2. CASE Attach(p)
    BY <2>2, AttachEffect
  <2> QED BY <1>2, <2>1, <2>2, <1>u DEF StaffStep, AskPreview, AskRetry, AskCancel, CheckAttempts,
                                        AskAttach
<1>3. CASE PanelStep
  <2>1. CASE Confirm
    BY <2>1, <1>s DEF Confirm, Statuses
  <2>2. CASE EditInputs \/ RecordCancellation \/ Abandon
    BY <2>2, <1>s DEF EditInputs, RecordCancellation, Abandon, Statuses
  <2>3. CASE AfterReservation
    BY <2>3, <1>s DEF AfterReservation, Statuses
  <2> QED BY <1>3, <2>1, <2>2, <2>3, <1>u DEF PanelStep, Approve, CancelByHand
<1>4. CASE LeaseRunsOut \/ Overstay
  BY <1>4, <1>i DEF LeaseRunsOut, Overstay, IntentRec
<1> QED BY <1>1, <1>2, <1>3, <1>4 DEF Next

LEMMA StaffTyped ==
    ASSUME TypeInv, Next
    PROVE  staff' \in [Staff -> StaffRec] /\ Aims'
<1> USE DEF TypeInv
<1>t. staff \in [Staff -> StaffRec] /\ intent.status \in Statuses
  BY Fields
<1>u. ASSUME UNCHANGED staff PROVE staff' \in [Staff -> StaffRec] /\ Aims'
  BY <1>t, <1>u DEF Aims
<1>d. ASSUME NEW p \in Staff,
             \/ \E pc \in {"writing", "releasing", "checking"},
                   to \in {"preview_pending", "same", "booking", "reservation_verified",
                           "cancel_pending_readback", "cancelled"} : Decide(p, pc, to)
             \/ staff' = [staff EXCEPT ![p] = Resting]
      PROVE  staff' \in [Staff -> StaffRec] /\ Aims'
  <2>1. PICK q \in StaffRec :
          /\ staff' = [staff EXCEPT ![p] = q]
          /\ q.pc \in {"writing", "releasing"} =>
               q.to \in {"preview_pending", "same", "booking", "reservation_verified",
                         "cancel_pending_readback", "cancelled"}
    BY <1>d, <1>t DEF Decide, Resting, StaffRec, Statuses, Refs
  <2> QED BY <2>1, <1>t DEF Aims
<1>1. ASSUME NEW r \in Runners, RunnerStep(r) PROVE UNCHANGED staff
  BY <1>1 DEF RunnerStep, Claim, LookUpOpen, PersistPreview, AbortBeforeOpen, SearchDuplicate, AskToOpen,
              DriftAtOpen, CheckUnfinished, CheckAlreadyBooked, OpenAttempt, FailValidation, Commit,
              RecordResult, DropResult, RecordSource, CompleteRequest, SearchJourneys, SearchFails,
              PostReadback, FindOpenAttempt, CloseOpenAttempt, SettleCancel, SettleVerified, SettleNone,
              SettleOther, Die
<1>2. ASSUME NEW p \in Staff, StaffStep(p) PROVE staff' \in [Staff -> StaffRec] /\ Aims'
  <2>1. CASE AskRetry(p)
    <3>1. RetryTo(intent) \in {"booking", "same", "reservation_verified", "preview_pending"}
      BY DEF RetryTo
    <3> QED BY <2>1, <3>1, <1>d DEF AskRetry
  <2>2. CASE AskPreview(p)
    BY <2>2, <1>d DEF AskPreview
  <2>3. CASE AskCancel(p)
    BY <2>3, <1>d DEF AskCancel
  <2>4. CASE CheckAttempts(p)
    BY <2>4, <1>d DEF CheckAttempts
  <2>5. CASE Write(p) \/ Attach(p)
    BY <2>5, <1>d DEF Write, Attach
  <2>6. ASSUME NEW n \in AttemptNos, AskAttach(p, n) PROVE staff' \in [Staff -> StaffRec] /\ Aims'
    <3> DEFINE q == [pc |-> "attaching", status |-> intent.status, to |-> "none", conf |-> n]
    <3>1. q \in StaffRec /\ q.pc = "attaching"
      BY <1>t DEF StaffRec, Refs
    <3>2. staff' = [staff EXCEPT ![p] = q]
      BY <2>6 DEF AskAttach
    <3> HIDE DEF q
    <3> QED BY <3>1, <3>2, <1>t DEF Aims
  <2> QED BY <1>2, <2>1, <2>2, <2>3, <2>4, <2>5, <2>6 DEF StaffStep
<1>3. CASE PanelStep \/ LeaseRunsOut \/ Overstay
  BY <1>3, <1>u DEF PanelStep, Confirm, Approve, EditInputs, RecordCancellation, Abandon,
                    AfterReservation, CancelByHand, LeaseRunsOut, Overstay
<1> QED BY <1>1, <1>2, <1>3, <1>u DEF Next

LEMMA LedgerTyped ==
    ASSUME TypeInv, NEW r \in Runners, RunnerStep(r)
    PROVE  ledger' \in [AttemptNos -> AttemptRec]
<1> USE DEF TypeInv
<1>t. ledger \in [AttemptNos -> AttemptRec]
  BY Fields
<1>1. CASE OpenAttempt(r)
  <2>1. [outcome |-> "open", token |-> runner[r].token, hash |-> runner[r].hash] \in AttemptRec
    BY PassFields DEF AttemptRec, Outcomes
  <2> QED BY <1>1, <1>t, <2>1 DEF OpenAttempt
<1>2. CASE RecordResult(r)
  <2>1. runner[r].result \in Outcomes
    BY <1>2, PassFields DEF Outcomes, RecordResult, Holding, Holds
  <2> QED BY <1>2, <1>t, <2>1 DEF RecordResult, AttemptRec
<1>3. CASE CloseOpenAttempt(r)
  <2>1. ReadingOf(runner[r].verdict) \in Outcomes
    BY DEF ReadingOf, Outcomes, Readings
  <2> QED BY <1>3, <1>t, <2>1 DEF CloseOpenAttempt, AttemptRec
<1>4. CASE UNCHANGED ledger
  BY <1>4, <1>t
<1> QED BY <1>1, <1>2, <1>3, <1>4
        DEF RunnerStep, Claim, LookUpOpen, PersistPreview, AbortBeforeOpen, SearchDuplicate, AskToOpen,
            DriftAtOpen, CheckUnfinished, CheckAlreadyBooked, FailValidation, Commit, DropResult,
            RecordSource, CompleteRequest, SearchJourneys, SearchFails, PostReadback, FindOpenAttempt,
            SettleCancel, SettleVerified, SettleNone, SettleOther, Die

(* The names of a pass's steps after which it holds nothing.                *)
LEMMA HoldingKept ==
    ASSUME TypeInv, NEW r \in Runners, RunnerStep(r)
    PROVE  Holding'
<1> USE DEF TypeInv
<1>t. runner \in [Runners -> PassRec]
  BY Fields
<1>s. ASSUME NEW q, runner' = [runner EXCEPT ![r] = q], Holds(q) PROVE Holding'
  BY <1>s, <1>t DEF Holding
<1>f. CASE Finish(r)
  BY <1>f, <1>s DEF Finish, Idle, Holds
<1>m. ASSUME NEW pc \in RunnerPcs \ {"opened", "answered", "closing"}, Goto(r, pc) PROVE Holding'
  <2>1. runner' = [runner EXCEPT ![r] = [runner[r] EXCEPT !.pc = pc]]
    BY <1>m DEF Goto
  <2>2. Holds([runner[r] EXCEPT !.pc = pc])
    BY PassFields DEF Holds, PassRec
  <2> QED BY <2>1, <2>2, <1>s
<1>e. ASSUME runner'[r].pc \notin {"opened", "answered", "closing"},
             \A s \in Runners \ {r} : runner'[s] = runner[s]
      PROVE  Holding'
  BY <1>e DEF Holding, Holds
<1>1. CASE Claim(r) \/ LookUpOpen(r) \/ SearchDuplicate(r) \/ SearchJourneys(r)
  <2>1. CASE Claim(r)
    <3>1. runner'[r].pc = "picked" /\ \A s \in Runners \ {r} : runner'[s] = runner[s]
      BY <2>1, <1>t DEF Claim, Idle
    <3> QED BY <3>1, <1>e
  <2>2. CASE LookUpOpen(r)
    <3>1. runner'[r].pc \in {"previewing", "searching", "booking"} /\ \A s \in Runners \ {r} : runner'[s] = runner[s]
      BY <2>2, <1>t DEF LookUpOpen, PassRec
    <3> QED BY <3>1, <1>e
  <2>3. CASE SearchDuplicate(r)
    <3>1. runner'[r].pc \in {"asking", "posting"} /\ \A s \in Runners \ {r} : runner'[s] = runner[s]
      BY <2>3, <1>t DEF SearchDuplicate, PassRec
    <3> QED BY <3>1, <1>e
  <2>4. CASE SearchJourneys(r)
    <3>1. runner'[r].pc = "posting" /\ \A s \in Runners \ {r} : runner'[s] = runner[s]
      BY <2>4, <1>t DEF SearchJourneys, PassRec
    <3> QED BY <3>1, <1>e
  <2> QED BY <1>1, <2>1, <2>2, <2>3, <2>4
<1>2. CASE AskToOpen(r) \/ PostReadback(r)
  <2>1. ASSUME NEW h, runner' = [runner EXCEPT ![r].pc = "opening", ![r].hash = h] PROVE Holding'
    <3>1. runner'[r].pc = "opening" /\ \A s \in Runners \ {r} : runner'[s] = runner[s]
      BY <2>1, <1>t DEF PassRec
    <3> QED BY <3>1, <1>e
  <2>2. ASSUME NEW v, runner' = [runner EXCEPT ![r].pc = "judged", ![r].verdict = v, ![r].known = Expected(r),
                                   ![r].status = intent.status, ![r].rsv = intent.rsv]
        PROVE  Holding'
    <3>1. runner'[r].pc = "judged" /\ \A s \in Runners \ {r} : runner'[s] = runner[s]
      BY <2>2, <1>t DEF PassRec
    <3> QED BY <3>1, <1>e
  <2>3. CASE AskToOpen(r)
    BY <2>3, <2>1, <1>f DEF AskToOpen
  <2>4. CASE PostReadback(r)
    BY <2>4, <2>2, <1>f DEF PostReadback
  <2> QED BY <1>2, <2>3, <2>4
<1>3. CASE OpenAttempt(r)
  <2>1. ASSUME NEW n \in AttemptNos, runner' = [runner EXCEPT ![r].pc = "opened", ![r].att = n]
        PROVE  Holding'
    <3>1. runner' = [runner EXCEPT ![r] = [runner[r] EXCEPT !.pc = "opened", !.att = n]]
      BY <2>1
    <3>2. Holds([runner[r] EXCEPT !.pc = "opened", !.att = n])
      BY NoneHeld, PassFields DEF Holds, PassRec
    <3> QED BY <3>1, <3>2, <1>s
  <2> QED BY <1>3, <1>f, <2>1 DEF OpenAttempt
<1>4. CASE FailValidation(r)
  <2>1. runner' = [runner EXCEPT ![r] = [runner[r] EXCEPT !.pc = "answered", !.result = "failed_clean"]]
    BY <1>4 DEF FailValidation
  <2>2. Holds([runner[r] EXCEPT !.pc = "answered", !.result = "failed_clean"])
    BY <1>4, PassFields DEF Holds, Holding, PassRec, FailValidation
  <2> QED BY <2>1, <2>2, <1>s
<1>5. CASE Commit(r)
  <2>1. PICK result \in Results, k \in Refs :
          runner' = [runner EXCEPT ![r].pc = "answered", ![r].result = result, ![r].known = k]
    BY <1>5, PassFields DEF Commit, Results, Refs
  <2>2. runner' = [runner EXCEPT ![r] = [runner[r] EXCEPT !.pc = "answered", !.result = result, !.known = k]]
    BY <2>1
  <2>3. Holds([runner[r] EXCEPT !.pc = "answered", !.result = result, !.known = k])
    BY <1>5, PassFields DEF Holds, Holding, PassRec, Commit, Results
  <2> QED BY <2>2, <2>3, <1>s
<1>6. CASE FindOpenAttempt(r)
  <2> DEFINE pc == IF OpenNo = None THEN "settling" ELSE "closing"
  <2>1. runner' = [runner EXCEPT ![r] = [runner[r] EXCEPT !.pc = pc, !.att = OpenNo]]
    BY <1>6 DEF FindOpenAttempt
  <2>2. Holds([runner[r] EXCEPT !.pc = pc, !.att = OpenNo])
    BY PassFields DEF Holds, PassRec
  <2> QED BY <2>1, <2>2, <1>s
<1>7. CASE PersistPreview(r) \/ AbortBeforeOpen(r) \/ DriftAtOpen(r) \/ DropResult(r) \/ SearchFails(r) \/ Die(r)
  BY <1>7, <1>f DEF PersistPreview, AbortBeforeOpen, DriftAtOpen, DropResult, SearchFails, Die
<1>8. CASE CheckUnfinished(r) \/ CheckAlreadyBooked(r) \/ CompleteRequest(r) \/ CloseOpenAttempt(r)
  BY <1>8, <1>f, <1>m DEF CheckUnfinished, CheckAlreadyBooked, CompleteRequest, CloseOpenAttempt,
                          RunnerPcs
<1>9. CASE RecordResult(r) \/ RecordSource(r)
  BY <1>9, <1>f, <1>m DEF RecordResult, RecordSource, RunnerPcs
<1>10. CASE SettleCancel(r) \/ SettleVerified(r) \/ SettleNone(r) \/ SettleOther(r)
  BY <1>10, <1>f, <1>m DEF SettleCancel, SettleVerified, SettleNone, SettleOther, RunnerPcs
<1> QED BY <1>1, <1>2, <1>3, <1>4, <1>5, <1>6, <1>7, <1>8, <1>9, <1>10 DEF RunnerStep

LEMMA EnterpriseTyped ==
    ASSUME TypeInv, Next
    PROVE  /\ made \subseteq made' /\ made' \in SUBSET AttemptNos /\ standing' \in SUBSET made'
           /\ search' = search
<1> USE DEF TypeInv
<1>1. ASSUME NEW r \in Runners, RunnerStep(r)
      PROVE  UNCHANGED enterprise \/ Commit(r)
  BY <1>1 DEF RunnerStep, Claim, LookUpOpen, PersistPreview, AbortBeforeOpen, SearchDuplicate, AskToOpen,
              DriftAtOpen, CheckUnfinished, CheckAlreadyBooked, OpenAttempt, FailValidation,
              RecordResult, DropResult, RecordSource, CompleteRequest, SearchJourneys, SearchFails,
              PostReadback, FindOpenAttempt, CloseOpenAttempt, SettleCancel, SettleVerified, SettleNone,
              SettleOther, Die
<1>2. ASSUME NEW r \in Runners, Commit(r)
      PROVE  \/ UNCHANGED enterprise
             \/ /\ made' = made \cup {runner[r].att} /\ standing' = standing \cup {runner[r].att}
                /\ search' = search
  BY <1>2 DEF Commit, enterprise
<1>3. ASSUME NEW r \in Runners, Commit(r) PROVE runner[r].att \in AttemptNos
  BY <1>3, PassFields DEF Commit, Refs, Holding, Holds
<1>4. ASSUME NEW n, CancelByHand(n)
      PROVE  made' = made /\ standing' \subseteq standing /\ search' = search
  BY <1>4 DEF CancelByHand
<1>5. ASSUME NEW p \in Staff, StaffStep(p) PROVE UNCHANGED enterprise
  BY <1>5 DEF StaffStep, AskPreview, AskRetry, AskCancel, CheckAttempts, Write, AskAttach, Attach
<1>6. CASE PanelStep \/ LeaseRunsOut \/ Overstay
  <2>1. UNCHANGED enterprise \/ \E n \in AttemptNos : CancelByHand(n)
    BY <1>6 DEF PanelStep, Confirm, Approve, EditInputs, RecordCancellation, Abandon,
                AfterReservation, LeaseRunsOut, Overstay
  <2> QED BY <2>1, <1>4, Fields DEF enterprise
<1>7. made \subseteq AttemptNos /\ standing \subseteq made
  BY Fields
<1> QED BY <1>1, <1>2, <1>3, <1>5, <1>6, <1>7 DEF Next, enterprise

LEMMA SourceTyped ==
    ASSUME TypeInv, Next
    PROVE  source' \in [status : {"approved", "pending", "booked", "removed"}, ref : Refs]
<1> USE DEF TypeInv
<1>t. source \in [status : {"approved", "pending", "booked", "removed"}, ref : Refs]
  BY DEF TypeOK
<1>b. CASE BackToReview \/ UNCHANGED source
  BY <1>b, <1>t DEF BackToReview
<1>1. ASSUME NEW r \in Runners, RecordSource(r)
      PROVE  source' \in [status : {"approved", "pending", "booked", "removed"}, ref : Refs]
  BY <1>1, <1>t, PassFields DEF RecordSource
<1>2. ASSUME NEW r \in Runners, RunnerStep(r) PROVE BackToReview \/ UNCHANGED source \/ RecordSource(r)
  BY <1>2 DEF RunnerStep, Claim, LookUpOpen, PersistPreview, AbortBeforeOpen, SearchDuplicate, AskToOpen,
              DriftAtOpen, CheckUnfinished, CheckAlreadyBooked, OpenAttempt, FailValidation, Commit,
              RecordResult, DropResult, CompleteRequest, SearchJourneys, SearchFails,
              PostReadback, FindOpenAttempt, CloseOpenAttempt, SettleCancel, SettleVerified, SettleNone,
              SettleOther, Die
<1>3. ASSUME NEW p \in Staff, StaffStep(p) PROVE UNCHANGED source
  BY <1>3 DEF StaffStep, AskPreview, AskRetry, AskCancel, CheckAttempts, Write, AskAttach, Attach
<1>4. CASE Approve \/ Abandon
  BY <1>4, <1>t DEF Approve, Abandon
<1>5. CASE PanelStep \/ LeaseRunsOut \/ Overstay
  BY <1>5, <1>4, <1>b DEF PanelStep, Confirm, EditInputs, RecordCancellation, CancelByHand,
                AfterReservation, LeaseRunsOut, Overstay
<1> QED BY <1>1, <1>2, <1>3, <1>5, <1>b DEF Next

LEMMA CountersTyped ==
    ASSUME TypeInv, Next
    PROVE  usurped' \in BOOLEAN /\ faults' \in Nat /\ acts' \in Nat
<1> USE DEF TypeInv
<1>t. usurped \in BOOLEAN /\ faults \in Nat /\ acts \in Nat
  BY DEF TypeOK
<1>w. AtWork \in BOOLEAN
  BY DEF AtWork
<1>1. ASSUME NEW r \in Runners, RunnerStep(r)
      PROVE  UNCHANGED bounds \/ (faults' = faults + 1 /\ UNCHANGED <<usurped, acts>>)
  BY <1>1 DEF RunnerStep, Claim, LookUpOpen, PersistPreview, AbortBeforeOpen, SearchDuplicate, AskToOpen,
              DriftAtOpen, CheckUnfinished, CheckAlreadyBooked, OpenAttempt, FailValidation, Commit,
              RecordResult, DropResult, RecordSource, CompleteRequest, SearchJourneys, SearchFails,
              PostReadback, FindOpenAttempt, CloseOpenAttempt, SettleCancel, SettleVerified, SettleNone,
              SettleOther, Die
<1>2. ASSUME NEW p \in Staff, StaffStep(p)
      PROVE  usurped' \in BOOLEAN /\ faults' = faults /\ acts' \in {acts, acts + 1}
  BY <1>2, <1>t, <1>w DEF StaffStep, AskPreview, AskRetry, AskCancel, CheckAttempts, Write, AskAttach,
                          Attach, Act, KeepsClaim,
                    TakesClaim, bounds
<1>3. CASE PanelStep
  BY <1>3, <1>t, <1>w DEF PanelStep, Confirm, Approve, EditInputs, RecordCancellation, Abandon,
                          CancelByHand,
                    AfterReservation, Act, KeepsClaim, TakesClaim, bounds
<1>4. CASE LeaseRunsOut \/ Overstay
  <2>1. faults' \in {faults, faults + 1} /\ acts' = acts
    BY <1>4 DEF LeaseRunsOut, Overstay, bounds
  <2>2. usurped' = usurped \/ usurped' = TRUE
    BY <1>4, Zenon DEF LeaseRunsOut, Overstay, bounds
  <2>3. usurped' \in BOOLEAN
    BY <2>2, <1>t
  <2> QED BY <2>1, <2>3, <1>t
<1> QED BY <1>1, <1>2, <1>3, <1>4, <1>t DEF Next, bounds

-----------------------------------------------------------------------------
LEMMA InitTypes == Init => TypeInv
<1> SUFFICES ASSUME Init PROVE TypeInv
  OBVIOUS
<1>1. intent \in IntentRec
  BY BookingAssumption DEF Init, IntentRec, Statuses, ReservationStates, Refs
<1>2. ledger \in [AttemptNos -> AttemptRec]
  BY DEF Init, AttemptRec, Unused, Outcomes
<1>3. runner \in [Runners -> PassRec] /\ Holding
  BY IdleTyped DEF Init, Holding, Holds, Idle
<1>4. staff \in [Staff -> StaffRec] /\ Aims
  BY DEF Init, StaffRec, Resting, Aims, Refs
<1>5. /\ source \in [status : {"approved", "pending", "booked", "removed"}, ref : Refs]
      /\ made \in SUBSET AttemptNos /\ standing \in SUBSET made /\ search \in {"full", "past"}
      /\ usurped \in BOOLEAN /\ faults \in Nat /\ acts \in Nat
  BY BookingAssumption DEF Init, Refs
<1> QED BY <1>1, <1>2, <1>3, <1>4, <1>5 DEF TypeInv, TypeOK

LEMMA StepTypes == TypeInv /\ [Next]_vars => TypeInv'
<1> SUFFICES ASSUME TypeInv, [Next]_vars PROVE TypeInv'
  OBVIOUS
<1>1. CASE UNCHANGED vars
  <2>1. TypeOK'
    BY <1>1 DEF vars, TypeInv, TypeOK
  <2>2. Holding' /\ Aims'
    BY <1>1 DEF vars, TypeInv, Holding, Holds, Aims
  <2> QED BY <2>1, <2>2 DEF TypeInv
<1>2. CASE Next
  <2>1. runner' \in [Runners -> PassRec] /\ Holding' /\ ledger' \in [AttemptNos -> AttemptRec]
    <3>1. CASE UNCHANGED <<runner, ledger>>
      BY <3>1 DEF TypeInv, TypeOK, Holding, Holds
    <3>2. ASSUME NEW p \in Staff, StaffStep(p) PROVE UNCHANGED <<runner, ledger>>
      BY <3>2 DEF StaffStep, AskPreview, AskRetry, AskCancel, CheckAttempts, Write, AskAttach, Attach
    <3>3. CASE PanelStep \/ LeaseRunsOut \/ Overstay
      BY <3>1, <3>3 DEF PanelStep, Confirm, Approve, EditInputs, RecordCancellation, Abandon,
                  AfterReservation, CancelByHand, LeaseRunsOut, Overstay
    <3> QED BY <1>2, <3>1, <3>2, <3>3, RunnersTyped, HoldingKept, LedgerTyped DEF Next
  <2>2. search' \in {"full", "past"}
    BY <1>2, EnterpriseTyped DEF TypeInv, TypeOK
  <2> QED BY <1>2, <2>1, <2>2, IntentTyped, StaffTyped, EnterpriseTyped, SourceTyped, CountersTyped
          DEF TypeInv, TypeOK
<1> QED BY <1>1, <1>2

(* Every value the workflow ever writes, by any pass, staff member or late  *)
(* postback, is one its tables and its steps have a place for.              *)
THEOREM BookingTypes == Spec => []TypeOK
<1>1. TypeInv => TypeOK
  BY DEF TypeInv
<1> QED BY <1>1, InitTypes, StepTypes, PTL DEF Spec

-----------------------------------------------------------------------------
(* What a pass knows is so, step by step.                                   *)
Knows(q) ==
    /\ q.known \in made \cup {None} /\ q.seen \subseteq made
    /\ q.pc = "opened" => q.att \notin made /\ ledger[q.att].outcome \in {"open"} \cup Readings
    /\ q.pc \in {"answered", "closing"} => Used(q.att)
    /\ q.pc = "answered" /\ q.result = "booked" => q.att \in made
    /\ q.pc = "answered" /\ q.result = "failed_clean" => q.att \notin made
    /\ q.pc = "answered" /\ q.result = "booked" => q.known \in made
    /\ q.pc = "sourcing" => q.known \in made
    /\ q.pc \in {"judged", "closing", "settling"} /\ q.verdict = "verified" => q.known \in made

AtCommit(r) == runner[r].pc \in {"opened", "answered"}
Apart ==
    \A r, s \in Runners : r # s /\ AtCommit(r) /\ AtCommit(s) => runner[r].att # runner[s].att

Recorded == \A n \in made : Used(n)

(* What staff are about to attach is a reservation.                         *)
Brought == \A p \in Staff : staff[p].pc = "attaching" => staff[p].conf \in made

Truth ==
    /\ Brought
    /\ \A r \in Runners : Knows(runner[r])
    /\ Apart /\ Recorded /\ LedgerTellsTheTruth
    /\ intent.conf \in made \cup {None} /\ EvidenceIsReal

TruthInv == TypeInv /\ Truth

LEMMA Quiet ==
    ASSUME NEW r \in Runners, RunnerStep(r)
    PROVE  \/ OpenAttempt(r) \/ Commit(r) \/ RecordResult(r) \/ CloseOpenAttempt(r)
           \/ UNCHANGED <<ledger, made, standing>>
BY DEF RunnerStep, enterprise, Claim, LookUpOpen, PersistPreview, AbortBeforeOpen, SearchDuplicate,
       AskToOpen,
       DriftAtOpen, CheckUnfinished, CheckAlreadyBooked, FailValidation, DropResult, RecordSource,
       CompleteRequest, SearchJourneys, SearchFails, PostReadback, FindOpenAttempt, SettleCancel,
       SettleVerified, SettleNone, SettleOther, Die

(* A pass at work leaves the others alone.                                  *)
LEMMA Alone ==
    ASSUME TypeOK, NEW r \in Runners, RunnerStep(r), NEW s \in Runners, s # r
    PROVE  runner'[s] = runner[s]
<1>1. runner \in [Runners -> PassRec]
  BY Fields
<1> QED BY <1>1 DEF RunnerStep, Finish, Goto, Claim, LookUpOpen, PersistPreview, AbortBeforeOpen,
                    SearchDuplicate, AskToOpen,
              DriftAtOpen, CheckUnfinished, CheckAlreadyBooked, OpenAttempt, FailValidation, Commit,
              RecordResult, DropResult, RecordSource, CompleteRequest, SearchJourneys, SearchFails,
              PostReadback, FindOpenAttempt, CloseOpenAttempt, SettleCancel, SettleVerified, SettleNone,
              SettleOther, Die

(* The attempts a step changes, and how.                                    *)
LEMMA OpenEffect ==
    ASSUME TypeInv, NEW r \in Runners, OpenAttempt(r)
    PROVE  \/ UNCHANGED <<ledger, made, standing>> /\ Finish(r)
           \/ \E n \in AttemptNos :
                /\ ~Used(n) /\ (\A m \in AttemptNos : m < n => Used(m)) /\ GatePasses(r)
                /\ made' = made /\ standing' = standing
                /\ ledger'[n].outcome = "open" /\ ledger'[n].token = runner[r].token
                /\ \A m \in AttemptNos \ {n} : ledger'[m] = ledger[m]
                /\ runner' = [runner EXCEPT ![r] = [runner[r] EXCEPT !.pc = "opened", !.att = n]]
<1>1. ledger \in [AttemptNos -> AttemptRec]
  BY Fields DEF TypeInv
<1>2. CASE GatePasses(r) /\ \A m \in AttemptNos : ~Open(m)
  <2>1. PICK n \in AttemptNos :
          /\ NextNo(n)
          /\ ledger' = [ledger EXCEPT
                ![n] = [outcome |-> "open", token |-> runner[r].token, hash |-> runner[r].hash]]
          /\ runner' = [runner EXCEPT ![r].pc = "opened", ![r].att = n]
    BY <1>2 DEF OpenAttempt
  <2>2. /\ ledger'[n].outcome = "open" /\ ledger'[n].token = runner[r].token
        /\ \A m \in AttemptNos \ {n} : ledger'[m] = ledger[m]
    BY <1>1, <2>1
  <2>3. runner' = [runner EXCEPT ![r] = [runner[r] EXCEPT !.pc = "opened", !.att = n]]
    BY <2>1
  <2>4. /\ ~Used(n) /\ (\A m \in AttemptNos : m < n => Used(m))
        /\ made' = made /\ standing' = standing
    BY <2>1 DEF NextNo, OpenAttempt, enterprise
  <2> QED BY <1>2, <2>2, <2>3, <2>4
<1>3. CASE ~(GatePasses(r) /\ \A m \in AttemptNos : ~Open(m))
  BY <1>3 DEF OpenAttempt, enterprise
<1> QED BY <1>2, <1>3

LEMMA CommitEffect ==
    ASSUME TypeInv, NEW r \in Runners, Commit(r)
    PROVE  /\ runner[r].pc = "opened" /\ ledger' = ledger
           /\ \E result \in {"booked", "unparsed", "exception"}, k \in {runner[r].att, None} :
                 /\ runner' = [runner EXCEPT ![r] =
                                  [runner[r] EXCEPT !.pc = "answered", !.result = result, !.known = k]]
                 /\ result = "booked" => k = runner[r].att
                 /\ k # None => result = "booked"
                 /\ \/ made' = made \cup {runner[r].att}
                    \/ made' = made /\ result # "booked"
<1>1. PICK result \in {"booked", "unparsed", "exception"}, landed \in BOOLEAN :
          /\ result = "booked" => landed
          /\ IF landed
             THEN /\ made' = made \cup {runner[r].att}
                  /\ standing' = standing \cup {runner[r].att}
                  /\ UNCHANGED search
             ELSE UNCHANGED enterprise
          /\ runner' = [runner EXCEPT ![r].pc = "answered", ![r].result = result,
                          ![r].known = IF result = "booked" THEN runner[r].att ELSE None]
  BY DEF Commit
<1> DEFINE k == IF result = "booked" THEN runner[r].att ELSE None
<1>2. runner' = [runner EXCEPT ![r] = [runner[r] EXCEPT !.pc = "answered", !.result = result, !.known = k]]
  BY <1>1
<1>3. made' = made \cup {runner[r].att} \/ (made' = made /\ result # "booked")
  BY <1>1 DEF enterprise
<1>4. /\ k \in {runner[r].att, None}
      /\ result = "booked" => k = runner[r].att
      /\ k # None => result = "booked"
  OBVIOUS
<1>5. runner[r].pc = "opened" /\ ledger' = ledger
  BY DEF Commit
<1> QED BY <1>2, <1>3, <1>4, <1>5

LEMMA CloseEffect ==
    ASSUME TypeInv, NEW r \in Runners, RecordResult(r) \/ CloseOpenAttempt(r)
    PROVE  /\ runner[r].att \in AttemptNos /\ made' = made /\ standing' = standing
           /\ \A m \in AttemptNos \ {runner[r].att} : ledger'[m] = ledger[m]
           /\ ledger'[runner[r].att].token = ledger[runner[r].att].token
           /\ RecordResult(r) => /\ runner[r].pc = "answered"
                                 /\ ledger'[runner[r].att].outcome = runner[r].result
           /\ CloseOpenAttempt(r) => /\ runner[r].pc = "closing"
                                     /\ ledger'[runner[r].att].outcome \in Readings
<1>1. ledger \in [AttemptNos -> AttemptRec]
  BY Fields DEF TypeInv
<1>2. runner[r].att \in AttemptNos
  BY PassFields DEF TypeInv, Holding, Holds, RecordResult, CloseOpenAttempt, Refs
<1>3. made' = made /\ standing' = standing
  BY DEF RecordResult, CloseOpenAttempt, enterprise
<1>4. CASE RecordResult(r)
  BY <1>1, <1>2, <1>3, <1>4 DEF RecordResult, CloseOpenAttempt, AttemptRec
<1>5. CASE CloseOpenAttempt(r)
  <2>1. ReadingOf(runner[r].verdict) \in Readings
    BY DEF ReadingOf, Readings
  <2> QED BY <1>1, <1>2, <1>3, <1>5, <2>1 DEF RecordResult, CloseOpenAttempt, AttemptRec
<1> QED BY <1>4, <1>5

LEMMA MadeGrows ==
    ASSUME TypeInv, NEW r \in Runners, RunnerStep(r)
    PROVE  made \subseteq made' /\ made' \subseteq AttemptNos
BY EnterpriseTyped DEF Next

LEMMA OthersKnow ==
    ASSUME TruthInv, NEW r \in Runners, RunnerStep(r), NEW s \in Runners, s # r
    PROVE  Knows(runner[s])'
<1>1. TypeInv /\ TypeOK /\ Knows(runner[s]) /\ Recorded
  BY DEF TruthInv, TypeInv, Truth
<1>2. runner'[s] = runner[s] /\ made \subseteq made'
  BY <1>1, Alone, MadeGrows
<1>3. AtCommit(r) /\ AtCommit(s) => runner[r].att # runner[s].att
  BY DEF TruthInv, Truth, Apart
<1>4. AtCommit(s) \/ runner[s].pc = "closing" => runner[s].att \in AttemptNos
  BY <1>1, PassFields DEF AtCommit, TypeInv, Holding, Holds, Refs
<1>5. CASE UNCHANGED <<ledger, made, standing>>
  BY <1>1, <1>2, <1>5 DEF Knows, Used
<1>6. CASE OpenAttempt(r) /\ ~UNCHANGED <<ledger, made, standing>>
  <2>1. PICK n \in AttemptNos :
          /\ ~Used(n) /\ made' = made
          /\ ledger'[n].outcome = "open" /\ \A m \in AttemptNos \ {n} : ledger'[m] = ledger[m]
    BY <1>1, <1>6, OpenEffect, Zenon
  <2>2. CASE runner[s].pc \in {"opened", "answered", "closing"}
    <3>1. ledger'[runner[s].att] = ledger[runner[s].att]
      BY <1>1, <1>4, <2>1, <2>2 DEF Knows, Used, AtCommit, Readings
    <3> QED BY <1>1, <1>2, <2>1, <2>2, <3>1 DEF Knows, Used
  <2>3. CASE runner[s].pc \notin {"opened", "answered", "closing"}
    BY <1>1, <1>2, <2>1, <2>3 DEF Knows
  <2> QED BY <2>2, <2>3
<1>7. CASE Commit(r)
  <2>1. ledger' = ledger /\ made' \subseteq made \cup {runner[r].att} /\ AtCommit(r)
    BY <1>1, <1>7, CommitEffect DEF AtCommit
  <2> QED BY <1>1, <1>2, <1>3, <2>1 DEF Knows, Used, AtCommit
<1>8. CASE RecordResult(r)
  <2>1. /\ made' = made /\ AtCommit(r)
        /\ \A m \in AttemptNos \ {runner[r].att} : ledger'[m] = ledger[m]
        /\ ledger'[runner[r].att].outcome = runner[r].result /\ runner[r].result # "absent"
    BY <1>1, <1>8, CloseEffect, PassFields DEF AtCommit, Results
  <2>2. CASE runner[s].pc \in {"opened", "answered"}
    <3>1. ledger'[runner[s].att] = ledger[runner[s].att]
      BY <1>3, <1>4, <2>1, <2>2 DEF AtCommit
    <3> QED BY <1>1, <1>2, <2>1, <2>2, <3>1 DEF Knows, Used
  <2>3. CASE runner[s].pc = "closing"
    BY <1>1, <1>2, <1>4, <2>1, <2>3 DEF Knows, Used
  <2>4. CASE runner[s].pc \notin {"opened", "answered", "closing"}
    BY <1>1, <1>2, <2>1, <2>4 DEF Knows
  <2> QED BY <2>2, <2>3, <2>4
<1>9. CASE CloseOpenAttempt(r)
  <2>1. /\ made' = made
        /\ \A m \in AttemptNos \ {runner[r].att} : ledger'[m] = ledger[m]
        /\ ledger'[runner[r].att].outcome \in Readings
    BY <1>1, <1>9, CloseEffect
  <2>2. CASE runner[s].pc \in {"opened", "answered", "closing"}
    <3>1. \/ ledger'[runner[s].att] = ledger[runner[s].att]
          \/ ledger'[runner[s].att].outcome \in Readings
      BY <1>4, <2>1, <2>2 DEF AtCommit
    <3> QED BY <1>1, <1>2, <2>1, <2>2, <3>1 DEF Knows, Used, Readings
  <2>3. CASE runner[s].pc \notin {"opened", "answered", "closing"}
    BY <1>1, <1>2, <2>1, <2>3 DEF Knows
  <2> QED BY <2>2, <2>3
<1> QED BY <1>5, <1>6, <1>7, <1>8, <1>9, Quiet

LEMMA SelfKnows ==
    ASSUME TruthInv, NEW r \in Runners, RunnerStep(r)
    PROVE  Knows(runner[r])'
<1>1. TypeInv /\ TypeOK /\ Knows(runner[r]) /\ Recorded /\ intent.conf \in made \cup {None}
  BY DEF TruthInv, TypeInv, Truth
<1>2. runner \in [Runners -> PassRec] /\ runner[r] \in PassRec /\ made \subseteq made'
  BY <1>1, Fields, PassFields, MadeGrows
<1>3. standing \subseteq made /\ \A seen \in Sights : seen \subseteq made
  BY <1>1, Fields DEF Sights
<1>f. CASE Finish(r)
  <2>1. runner'[r] = Idle
    BY <1>f, <1>2 DEF Finish
  <2> QED BY <2>1 DEF Knows, Idle
<1>k. ASSUME NEW q, runner' = [runner EXCEPT ![r] = q] PROVE runner'[r] = q
  BY <1>2, <1>k
<1>m. ASSUME NEW pc \in RunnerPcs \ {"opened", "answered", "closing", "sourcing", "judged", "settling"},
             Goto(r, pc), made' = made
      PROVE  Knows(runner[r])'
  <2>1. runner'[r] = [runner[r] EXCEPT !.pc = pc]
    BY <1>m, <1>2 DEF Goto
  <2>2. runner'[r].pc = pc /\ runner'[r].known = runner[r].known /\ runner'[r].seen = runner[r].seen
    BY <2>1, <1>2 DEF PassRec
  <2> QED BY <1>1, <1>m, <2>2 DEF Knows
<1>4. CASE Claim(r)
  <2>1. /\ runner'[r].pc = "picked" /\ runner'[r].known = intent.conf /\ runner'[r].seen = {}
    BY <1>4, <1>2 DEF Claim, Idle
  <2> QED BY <1>1, <1>2, <2>1 DEF Knows
<1>5. CASE LookUpOpen(r)
  <2> DEFINE pc == CASE runner[r].kind = "preview" -> "previewing"
                     [] runner[r].kind = "reconcile" \/ \E n \in AttemptNos : Open(n) -> "searching"
                     [] OTHER -> "booking"
  <2>1. pc \in RunnerPcs \ {"opened", "answered", "closing", "sourcing", "judged", "settling"}
    BY DEF RunnerPcs
  <2>2. Goto(r, pc) /\ made' = made
    BY <1>5 DEF LookUpOpen, Goto, enterprise
  <2> QED BY <2>1, <2>2, <1>m
<1>6. CASE SearchDuplicate(r)
  <2>1. PICK seen \in Sights :
          /\ runner'[r].pc \in {"asking", "posting"}
          /\ runner'[r].known = None /\ runner'[r].seen = seen
    BY <1>6, <1>2 DEF SearchDuplicate, PassRec
  <2> QED BY <1>2, <1>3, <2>1 DEF Knows
<1>7. CASE SearchJourneys(r)
  <2>1. PICK seen \in Sights :
          runner'[r].pc = "posting" /\ runner'[r].known = runner[r].known /\ runner'[r].seen = seen
    BY <1>7, <1>2 DEF SearchJourneys, PassRec
  <2> QED BY <1>1, <1>2, <1>3, <2>1 DEF Knows
<1>8. CASE AskToOpen(r)
  <2>1. ASSUME NEW h \in Hashes, runner' = [runner EXCEPT ![r].pc = "opening", ![r].hash = h]
        PROVE  Knows(runner[r])'
    <3>1. runner'[r].pc = "opening" /\ runner'[r].known = runner[r].known /\ runner'[r].seen = runner[r].seen
      BY <1>2, <2>1 DEF PassRec
    <3> QED BY <1>1, <1>2, <3>1 DEF Knows
  <2> QED BY <1>8, <2>1, <1>f DEF AskToOpen
<1>9. CASE OpenAttempt(r)
  <2>1. CASE ~Finish(r)
    <3>1. PICK n \in AttemptNos :
            /\ ~Used(n) /\ made' = made /\ ledger'[n].outcome = "open"
            /\ runner' = [runner EXCEPT ![r] = [runner[r] EXCEPT !.pc = "opened", !.att = n]]
      BY <1>1, <1>9, <2>1, OpenEffect, Zenon
    <3>2. /\ runner'[r].pc = "opened" /\ runner'[r].att = n
          /\ runner'[r].known = runner[r].known /\ runner'[r].seen = runner[r].seen
      BY <1>2, <1>k, <3>1 DEF PassRec
    <3> QED BY <1>1, <3>1, <3>2 DEF Knows, Recorded
  <2> QED BY <1>f, <2>1
<1>10. CASE FailValidation(r)
  <2>1. /\ runner'[r].pc = "answered" /\ runner'[r].result = "failed_clean" /\ runner'[r].att = runner[r].att
        /\ runner'[r].known = runner[r].known /\ runner'[r].seen = runner[r].seen
        /\ runner[r].pc = "opened" /\ ledger' = ledger /\ made' = made
    BY <1>10, <1>2 DEF FailValidation, PassRec, enterprise
  <2> QED BY <1>1, <2>1 DEF Knows, Used, Readings
<1>11. CASE Commit(r)
  <2>1. PICK result \in {"booked", "unparsed", "exception"}, k \in {runner[r].att, None} :
                 /\ runner' = [runner EXCEPT ![r] =
                                  [runner[r] EXCEPT !.pc = "answered", !.result = result, !.known = k]]
                 /\ result = "booked" => k = runner[r].att
                 /\ k # None => result = "booked"
                 /\ \/ made' = made \cup {runner[r].att}
                    \/ made' = made /\ result # "booked"
    BY <1>1, <1>11, CommitEffect
  <2>2. runner[r].pc = "opened" /\ ledger' = ledger
    BY <1>1, <1>11, CommitEffect
  <2>3. /\ runner'[r].pc = "answered" /\ runner'[r].result = result /\ runner'[r].att = runner[r].att
        /\ runner'[r].known = k /\ runner'[r].seen = runner[r].seen
    BY <1>2, <1>k, <2>1 DEF PassRec
  <2> QED BY <1>1, <1>2, <2>1, <2>2, <2>3 DEF Knows, Used, Readings
<1>12. CASE RecordResult(r)
  <2>1. CASE OnCommitResponse(r)
    <3>1. runner' = [runner EXCEPT ![r].pc = "sourcing"] /\ made' = made
      BY <1>12, <2>1 DEF RecordResult, OnCommitResponse, Goto, enterprise
    <3>2. /\ runner'[r].pc = "sourcing" /\ runner'[r].known = runner[r].known
          /\ runner'[r].seen = runner[r].seen
      BY <1>2, <3>1 DEF PassRec
    <3>3. runner[r].pc = "answered" /\ runner[r].result = "booked"
      BY <1>12, <2>1 DEF RecordResult, OnCommitResponse
    <3> QED BY <1>1, <3>1, <3>2, <3>3 DEF Knows
  <2>2. CASE ~OnCommitResponse(r)
    <3>1. Finish(r) \/ (Goto(r, "searching") /\ made' = made)
      BY <1>12, <2>2 DEF RecordResult, enterprise
    <3> QED BY <3>1, <1>f, <1>m DEF RunnerPcs
  <2> QED BY <2>1, <2>2
<1>13. CASE PostReadback(r)
  <2>1. ASSUME NEW v \in Verdicts(r),
               runner' = [runner EXCEPT ![r].pc = "judged", ![r].verdict = v, ![r].known = Expected(r),
                                        ![r].status = intent.status, ![r].rsv = intent.rsv]
        PROVE  Knows(runner[r])'
    <3>1. /\ runner'[r].pc = "judged" /\ runner'[r].verdict = v /\ runner'[r].known = Expected(r)
          /\ runner'[r].seen = runner[r].seen
      BY <1>2, <2>1 DEF PassRec
    <3>2. Expected(r) \in made \cup {None}
      BY <1>1 DEF Expected, Knows
    <3>3. v = "verified" => Expected(r) \in runner[r].seen
      BY DEF Verdicts
    <3> QED BY <1>1, <1>2, <3>1, <3>2, <3>3 DEF Knows
  <2> QED BY <1>13, <1>f, <2>1 DEF PostReadback
<1>14. CASE FindOpenAttempt(r)
  <2>1. /\ runner'[r].pc \in {"settling", "closing"} /\ runner'[r].verdict = runner[r].verdict
        /\ runner'[r].known = runner[r].known /\ runner'[r].seen = runner[r].seen
        /\ runner[r].pc = "judged" /\ made' = made /\ ledger' = ledger
        /\ runner'[r].pc = "closing" => runner'[r].att = OpenNo /\ OpenNo # None
    BY <1>14, <1>2 DEF FindOpenAttempt, PassRec, enterprise
  <2>2. OpenNo # None => Used(OpenNo)
    BY DEF OpenNo, Used, Open
  <2>3. runner'[r].pc = "closing" => Used(runner'[r].att)
    BY <2>1, <2>2
  <2> QED BY <1>1, <2>1, <2>3 DEF Knows, Used
<1>15. CASE CloseOpenAttempt(r)
  <2>1. /\ runner'[r].pc = "settling" /\ runner'[r].verdict = runner[r].verdict
        /\ runner'[r].known = runner[r].known /\ runner'[r].seen = runner[r].seen
        /\ runner[r].pc = "closing" /\ made' = made
    BY <1>15, <1>2 DEF CloseOpenAttempt, Goto, PassRec, enterprise
  <2> QED BY <1>1, <2>1 DEF Knows
<1>16. CASE SettleVerified(r)
  <2>1. CASE ~Finish(r)
    <3>1. /\ runner'[r].pc = "sourcing" /\ runner'[r].known = runner[r].known
          /\ runner'[r].seen = runner[r].seen /\ made' = made
          /\ runner[r].pc = "settling" /\ runner[r].verdict = "verified"
      BY <1>16, <1>2, <2>1 DEF SettleVerified, Goto, PassRec, enterprise
    <3> QED BY <1>1, <3>1 DEF Knows
  <2> QED BY <1>f, <2>1
<1>17. CASE CheckUnfinished(r) \/ CheckAlreadyBooked(r) \/ RecordSource(r)
  <2>1. Finish(r) \/ (made' = made /\ (Goto(r, "hashing") \/ Goto(r, "gating") \/ Goto(r, "completing")))
    BY <1>17 DEF CheckUnfinished, CheckAlreadyBooked, RecordSource, enterprise
  <2> QED BY <2>1, <1>f, <1>m DEF RunnerPcs
<1>18. CASE \/ PersistPreview(r) \/ AbortBeforeOpen(r) \/ DriftAtOpen(r) \/ DropResult(r) \/ SearchFails(r)
            \/ Die(r) \/ CompleteRequest(r) \/ SettleCancel(r) \/ SettleNone(r) \/ SettleOther(r)
  BY <1>18, <1>f DEF PersistPreview, AbortBeforeOpen, DriftAtOpen, DropResult, SearchFails, Die,
                     CompleteRequest, SettleCancel, SettleNone, SettleOther
<1> QED BY <1>4, <1>5, <1>6, <1>7, <1>8, <1>9, <1>10, <1>11, <1>12, <1>13, <1>14, <1>15, <1>16, <1>17, <1>18
        DEF RunnerStep

(* Only these steps take a pass to its commit.                              *)
LEMMA Rests ==
    ASSUME TypeOK, NEW r \in Runners, RunnerStep(r),
           ~(OpenAttempt(r) \/ FailValidation(r) \/ Commit(r))
    PROVE  runner'[r].pc \notin {"opened", "answered"}
<1>1. runner \in [Runners -> PassRec] /\ runner[r] \in PassRec
  BY Fields, PassFields
<1>f. CASE Finish(r)
  BY <1>1, <1>f DEF Finish, Idle
<1>m. ASSUME NEW pc, Goto(r, pc) PROVE runner'[r].pc = pc
  BY <1>1, <1>m DEF Goto, PassRec
<1>2. CASE Claim(r) \/ LookUpOpen(r)
  <2>1. CASE Claim(r)
    BY <2>1, <1>1 DEF Claim, Idle
  <2>2. CASE LookUpOpen(r)
    BY <2>2, <1>1 DEF LookUpOpen, PassRec
  <2> QED BY <1>2, <2>1, <2>2
<1>3. CASE SearchDuplicate(r) \/ SearchJourneys(r)
  <2>1. CASE SearchDuplicate(r)
    <3>1. runner'[r].pc \in {"asking", "posting"}
      BY <2>1, <1>1 DEF SearchDuplicate, PassRec
    <3> QED BY <3>1
  <2>2. CASE SearchJourneys(r)
    BY <2>2, <1>1 DEF SearchJourneys, PassRec
  <2> QED BY <1>3, <2>1, <2>2
<1>4. CASE AskToOpen(r)
  BY <1>1, <1>f, <1>4 DEF AskToOpen, PassRec
<1>5. CASE PostReadback(r)
  <2>1. ASSUME NEW v, runner' = [runner EXCEPT ![r].pc = "judged", ![r].verdict = v, ![r].known = Expected(r),
                                   ![r].status = intent.status, ![r].rsv = intent.rsv]
        PROVE  runner'[r].pc = "judged"
    BY <2>1, <1>1 DEF PassRec
  <2>2. Finish(r) \/ runner'[r].pc = "judged"
    BY <1>5, <2>1 DEF PostReadback
  <2> QED BY <2>2, <1>f
<1>6. CASE FindOpenAttempt(r)
  BY <1>1, <1>6 DEF FindOpenAttempt, PassRec
<1>7. CASE CheckUnfinished(r) \/ CheckAlreadyBooked(r) \/ CompleteRequest(r) \/ CloseOpenAttempt(r)
  BY <1>f, <1>m, <1>7 DEF CheckUnfinished, CheckAlreadyBooked, CompleteRequest, CloseOpenAttempt
<1>8. CASE RecordResult(r) \/ RecordSource(r) \/ SettleVerified(r)
  <2>1. Finish(r) \/ \E pc \in {"sourcing", "searching", "completing"} : Goto(r, pc)
    BY <1>8 DEF RecordResult, RecordSource, SettleVerified
  <2> QED BY <2>1, <1>f, <1>m
<1>9. CASE \/ PersistPreview(r) \/ AbortBeforeOpen(r) \/ DriftAtOpen(r) \/ DropResult(r) \/ SearchFails(r)
           \/ Die(r) \/ SettleCancel(r) \/ SettleNone(r) \/ SettleOther(r)
  BY <1>9, <1>f DEF PersistPreview, AbortBeforeOpen, DriftAtOpen, DropResult, SearchFails, Die,
                    SettleCancel, SettleNone, SettleOther
<1> QED BY <1>2, <1>3, <1>4, <1>5, <1>6, <1>7, <1>8, <1>9 DEF RunnerStep

(* Two passes never have the same attempt open: the insert takes the next   *)
(* number, and one that is at its commit has a number already used.         *)
LEMMA ApartKept ==
    ASSUME TruthInv, NEW r \in Runners, RunnerStep(r)
    PROVE  Apart'
<1>1. TypeInv /\ TypeOK /\ Apart /\ \A s \in Runners : Knows(runner[s])
  BY DEF TruthInv, TypeInv, Truth
<1>2. \A s \in Runners \ {r} : runner'[s] = runner[s]
  BY <1>1, Alone
<1>3. runner \in [Runners -> PassRec] /\ runner[r] \in PassRec
  BY <1>1, Fields, PassFields
<1>4. \A s \in Runners : AtCommit(s) => Used(runner[s].att) /\ runner[s].att \in AttemptNos
  BY <1>1, PassFields DEF AtCommit, Knows, Used, Readings, TypeInv, Holding, Holds, Refs
<1>5. ASSUME runner'[r].pc \notin {"opened", "answered"} PROVE Apart'
  BY <1>1, <1>2, <1>5 DEF Apart, AtCommit
<1>6. ASSUME AtCommit(r), runner'[r].att = runner[r].att PROVE Apart'
  BY <1>1, <1>2, <1>6 DEF Apart, AtCommit
<1>7. CASE OpenAttempt(r)
  <2>1. CASE Finish(r)
    BY <2>1, <1>3, <1>5 DEF Finish, Idle
  <2>2. CASE ~Finish(r)
    <3>1. PICK n \in AttemptNos :
            /\ ~Used(n)
            /\ runner' = [runner EXCEPT ![r] = [runner[r] EXCEPT !.pc = "opened", !.att = n]]
      BY <1>1, <1>7, <2>2, OpenEffect, Zenon
    <3>2. runner'[r].att = n
      BY <1>3, <3>1 DEF PassRec
    <3> QED BY <1>1, <1>2, <1>4, <3>1, <3>2 DEF Apart, AtCommit
  <2> QED BY <2>1, <2>2
<1>8. CASE FailValidation(r)
  <2>1. AtCommit(r) /\ runner'[r].att = runner[r].att
    BY <1>3, <1>8 DEF FailValidation, AtCommit, PassRec
  <2> QED BY <2>1, <1>6
<1>9. CASE Commit(r)
  <2>1. runner[r].pc = "opened" /\ \E x, k :
          runner' = [runner EXCEPT ![r] = [runner[r] EXCEPT !.pc = "answered", !.result = x, !.known = k]]
    BY <1>1, <1>9, CommitEffect
  <2>2. AtCommit(r) /\ runner'[r].att = runner[r].att
    BY <1>3, <2>1 DEF AtCommit, PassRec
  <2> QED BY <2>2, <1>6
<1>10. CASE ~(OpenAttempt(r) \/ FailValidation(r) \/ Commit(r))
  <2>1. runner'[r].pc \notin {"opened", "answered"}
    BY <1>10, <1>1, <1>3, Rests
  <2> QED BY <2>1, <1>5
<1> QED BY <1>7, <1>8, <1>9, <1>10

(* The ledger and what Enterprise made move together.                       *)
LEMMA LedgerKept ==
    ASSUME TruthInv, NEW r \in Runners, RunnerStep(r)
    PROVE  Recorded' /\ LedgerTellsTheTruth'
<1>1. TypeInv /\ TypeOK /\ Recorded /\ LedgerTellsTheTruth /\ Knows(runner[r]) /\ made \subseteq AttemptNos
  BY Fields DEF TruthInv, TypeInv, Truth
<1>2. CASE UNCHANGED <<ledger, made, standing>>
  BY <1>1, <1>2 DEF Recorded, LedgerTellsTheTruth, Used
<1>3. CASE OpenAttempt(r) /\ ~UNCHANGED <<ledger, made, standing>>
  <2>1. PICK n \in AttemptNos :
          /\ ~Used(n) /\ made' = made
          /\ ledger'[n].outcome = "open" /\ \A m \in AttemptNos \ {n} : ledger'[m] = ledger[m]
    BY <1>1, <1>3, OpenEffect, Zenon
  <2> QED BY <1>1, <2>1 DEF Recorded, LedgerTellsTheTruth, Used
<1>4. CASE Commit(r)
  <2>1. /\ ledger' = ledger /\ made' \subseteq made \cup {runner[r].att}
        /\ runner[r].pc = "opened"
    BY <1>1, <1>4, CommitEffect
  <2>2. made \subseteq made'
    BY <1>1, MadeGrows
  <2>3. ledger[runner[r].att].outcome \in {"open"} \cup Readings
    BY <1>1, <2>1 DEF Knows
  <2> QED BY <1>1, <2>1, <2>2, <2>3 DEF Recorded, LedgerTellsTheTruth, Used, Readings
<1>5. CASE RecordResult(r)
  <2>1. /\ made' = made /\ runner[r].pc = "answered" /\ runner[r].att \in AttemptNos
        /\ \A m \in AttemptNos \ {runner[r].att} : ledger'[m] = ledger[m]
        /\ ledger'[runner[r].att].outcome = runner[r].result
    BY <1>1, <1>5, CloseEffect
  <2>2. runner[r].result # "absent"
    BY <1>1, PassFields DEF Results
  <2> QED BY <1>1, <2>1, <2>2 DEF Recorded, LedgerTellsTheTruth, Used, Knows
<1>6. CASE CloseOpenAttempt(r)
  <2>1. /\ made' = made /\ runner[r].att \in AttemptNos
        /\ \A m \in AttemptNos \ {runner[r].att} : ledger'[m] = ledger[m]
        /\ ledger'[runner[r].att].outcome \in Readings
    BY <1>1, <1>6, CloseEffect
  <2> QED BY <1>1, <2>1 DEF Recorded, LedgerTellsTheTruth, Used, Readings
<1> QED BY <1>2, <1>3, <1>4, <1>5, <1>6, Quiet

-----------------------------------------------------------------------------
(* The evidence on the intent and on the request.                           *)
Evidence == intent.conf \in made \cup {None} /\ EvidenceIsReal

(* A write that leaves reservation and confirmation alone keeps the         *)
(* evidence, unless it is the one that completes an intent.                 *)
LEMMA PlainWrite ==
    ASSUME Evidence, made \subseteq made', intent'.rsv = intent.rsv, intent'.conf = intent.conf,
           intent'.status = "completed" => intent.status = "completed" \/ intent'.rsv = "verified",
           source'.ref = source.ref
    PROVE  Evidence'
BY DEF Evidence, EvidenceIsReal

LEMMA RunnerEvidence ==
    ASSUME TruthInv, NEW r \in Runners, RunnerStep(r)
    PROVE  Evidence'
<1>1. TypeInv /\ TypeOK /\ Knows(runner[r]) /\ Evidence /\ made \subseteq made'
  BY MadeGrows DEF TruthInv, TypeInv, Truth, Evidence
<1>2. intent \in IntentRec /\ source \in [status : {"approved", "pending", "booked", "removed"}, ref : Refs]
  BY <1>1 DEF TypeOK
<1>b. ASSUME BackToReview \/ UNCHANGED source PROVE source'.ref = source.ref
  BY <1>2, <1>b DEF BackToReview
<1>s. ASSUME NEW s \in Statuses \ {"completed"}, source'.ref = source.ref,
             intent' \in {[intent EXCEPT !.status = s], Released([intent EXCEPT !.status = s])}
      PROVE  Evidence'
  <2>1. intent'.status = s /\ intent'.rsv = intent.rsv /\ intent'.conf = intent.conf
    BY <1>2, <1>s DEF IntentRec, Released
  <2> QED BY <1>1, <1>s, <2>1, PlainWrite
<1>u. ASSUME UNCHANGED intent, source'.ref = source.ref PROVE Evidence'
  BY <1>1, <1>u, PlainWrite
<1>3. CASE Claim(r)
  <2>1. /\ intent'.status \in {intent.status, "booking"} /\ intent'.rsv = intent.rsv
        /\ intent'.conf = intent.conf /\ source' = source
    BY <1>2, <1>3 DEF Claim, IntentRec
  <2> QED BY <1>1, <2>1, PlainWrite
<1>4. CASE PersistPreview(r)
  <2>1. source'.ref = source.ref
    BY <1>4, <1>b DEF PersistPreview
  <2> QED BY <1>4, <2>1, <1>s, <1>u DEF PersistPreview, Statuses
<1>5. CASE AbortBeforeOpen(r) \/ DriftAtOpen(r) \/ SettleOther(r)
  <2>1. BackToReview \/ UNCHANGED source
    BY <1>5 DEF AbortBeforeOpen, DriftAtOpen, SettleOther
  <2> QED BY <1>5, <2>1, <1>b, <1>s, <1>u DEF AbortBeforeOpen, DriftAtOpen, SettleOther, Statuses
<1>6. CASE RecordResult(r)
  <2>1. BackToReview \/ UNCHANGED source
    BY <1>6 DEF RecordResult
  <2>2. source'.ref = source.ref
    BY <2>1, <1>b
  <2>3. intent' = ResultPatch(r) /\ runner[r].pc = "answered"
    BY <1>6 DEF RecordResult
  <2>4. runner[r].result = "booked" => runner[r].known \in made
    BY <1>1, <2>3 DEF Knows
  <2>5. /\ intent'.status # "completed" /\ intent'.conf \in {intent.conf, runner[r].known}
        /\ intent'.conf # intent.conf => runner[r].result = "booked"
        /\ intent'.rsv = "verified" => runner[r].result = "booked" /\ intent'.conf = runner[r].known
    BY <1>2, <2>3 DEF ResultPatch, OnCommitResponse, Released, IntentRec
  <2> QED BY <1>1, <2>2, <2>4, <2>5 DEF Evidence, EvidenceIsReal
<1>7. CASE RecordSource(r)
  <2>1. runner[r].known \in made
    BY <1>1, <1>7 DEF RecordSource, Knows
  <2>2. source'.ref \in {source.ref, runner[r].known}
    BY <1>2, <1>7 DEF RecordSource
  <2>3. /\ intent'.conf = intent.conf
        /\ intent'.rsv = "verified" => intent.rsv = "verified"
        /\ intent'.status = "completed" => intent' = intent
    BY <1>2, <1>7 DEF RecordSource, Released, IntentRec
  <2> QED BY <1>1, <2>1, <2>2, <2>3 DEF Evidence, EvidenceIsReal
<1>8. CASE CompleteRequest(r)
  <2>1. /\ source' = source /\ intent'.rsv = intent.rsv /\ intent'.conf = intent.conf
        /\ intent'.status = "completed" => intent.status = "completed" \/ intent'.rsv = "verified"
    BY <1>2, <1>8 DEF CompleteRequest, IntentRec
  <2> QED BY <1>1, <2>1, PlainWrite
<1>9. CASE SettleCancel(r)
  BY <1>9, <1>s, <1>u DEF SettleCancel, Statuses
<1>10. CASE SettleVerified(r)
  <2>1. runner[r].known \in made
    BY <1>1, <1>10 DEF SettleVerified, Knows
  <2>2. CASE intent' = [intent EXCEPT !.status = "reservation_verified", !.rsv = "verified",
                                      !.conf = runner[r].known]
    <3>1. intent'.conf = runner[r].known /\ intent'.status = "reservation_verified" /\ source' = source
      BY <1>2, <1>10, <2>2 DEF SettleVerified, IntentRec
    <3> QED BY <1>1, <2>1, <3>1 DEF Evidence, EvidenceIsReal
  <2> QED BY <1>10, <2>2, <1>u DEF SettleVerified
<1>11. CASE SettleNone(r)
  <2>1. source'.ref = source.ref
    BY <1>11, <1>b DEF SettleNone
  <2>2. intent'.rsv = "pending" /\ intent'.conf = intent.conf /\ intent'.status # "completed"
    BY <1>2, <1>11 DEF SettleNone, Released, IntentRec
  <2> QED BY <1>1, <2>1, <2>2 DEF Evidence, EvidenceIsReal
<1>12. CASE UNCHANGED <<intent, source>>
  BY <1>12, <1>u
<1> QED BY <1>3, <1>4, <1>5, <1>6, <1>7, <1>8, <1>9, <1>10, <1>11, <1>12
        DEF RunnerStep, LookUpOpen, SearchDuplicate, AskToOpen, CheckUnfinished, CheckAlreadyBooked,
            OpenAttempt, FailValidation, Commit, DropResult, SearchJourneys, SearchFails,
            PostReadback, FindOpenAttempt, CloseOpenAttempt, Die

LEMMA OthersEvidence ==
    ASSUME TruthInv, (\E p \in Staff : StaffStep(p)) \/ PanelStep \/ LeaseRunsOut \/ Overstay
    PROVE  Evidence' /\ UNCHANGED <<runner, ledger, made>>
<1>1. TypeInv /\ TypeOK /\ Evidence /\ Brought
  BY DEF TruthInv, TypeInv, Truth, Evidence
<1>2. intent \in IntentRec /\ source \in [status : {"approved", "pending", "booked", "removed"}, ref : Refs]
  BY <1>1 DEF TypeOK
<1>3. UNCHANGED <<runner, ledger, made>>
  <2>1. ASSUME NEW p \in Staff, StaffStep(p) PROVE UNCHANGED <<runner, ledger, made>>
    BY <2>1 DEF StaffStep, AskPreview, AskRetry, AskCancel, CheckAttempts, Write, AskAttach, Attach,
                enterprise
  <2>2. CASE PanelStep \/ LeaseRunsOut \/ Overstay
    BY <2>2 DEF PanelStep, Confirm, Approve, EditInputs, RecordCancellation, Abandon, AfterReservation,
                CancelByHand, LeaseRunsOut, Overstay, enterprise
  <2> QED BY <2>1, <2>2
<1> SUFFICES Evidence'
  BY <1>3
<1>m. made \subseteq made'
  BY <1>3
<1>u. ASSUME UNCHANGED intent, source'.ref = source.ref PROVE Evidence'
  BY <1>1, <1>m, <1>u, PlainWrite
<1>s. ASSUME NEW s \in Statuses, source'.ref = source.ref, s = "completed" => intent.rsv = "verified",
             intent' \in {[intent EXCEPT !.status = s], Released([intent EXCEPT !.status = s])}
      PROVE  Evidence'
  <2>1. intent'.status = s /\ intent'.rsv = intent.rsv /\ intent'.conf = intent.conf
    BY <1>2, <1>s DEF IntentRec, Released
  <2> QED BY <1>1, <1>m, <1>s, <2>1, PlainWrite
<1>4. ASSUME NEW p \in Staff, StaffStep(p) PROVE Evidence'
  <2>1. CASE Write(p)
    <3>1. staff[p].to \in {"preview_pending", "same", "booking", "reservation_verified",
                           "cancel_pending_readback", "cancelled"}
      BY <1>1, <2>1 DEF TypeInv, Aims, Write
    <3>2. intent' \in {Patched(staff[p].to), Released(Patched(staff[p].to))} /\ source' = source
      BY <2>1 DEF Write
    <3>3. CASE staff[p].to = "same"
      <4>1. intent'.status = intent.status /\ intent'.rsv = intent.rsv /\ intent'.conf = intent.conf
        BY <1>2, <3>2, <3>3 DEF Patched, Released, IntentRec
      <4> QED BY <1>1, <1>m, <3>2, <4>1, PlainWrite
    <3>4. CASE staff[p].to # "same"
      <4>1. Patched(staff[p].to) = [intent EXCEPT !.status = staff[p].to]
        BY <3>4 DEF Patched
      <4>2. staff[p].to \in Statuses /\ staff[p].to # "completed"
        BY <3>1, <3>4 DEF Statuses
      <4> QED BY <3>2, <4>1, <4>2, <1>s
    <3> QED BY <3>3, <3>4
  <2>2. CASE Attach(p)
    <3>1. staff[p].conf \in made
      BY <1>1, <2>2 DEF Attach, Brought
    <3>2. /\ intent'.conf \in {intent.conf, staff[p].conf} /\ source' = source
          /\ intent'.status = intent.status /\ intent'.rsv = intent.rsv
      BY <1>1, <2>2, AttachEffect
    <3> QED BY <1>1, <1>m, <3>1, <3>2 DEF Evidence, EvidenceIsReal
  <2>3. CASE UNCHANGED <<intent, source>>
    BY <2>3, <1>u
  <2> QED BY <1>4, <2>1, <2>2, <2>3 DEF StaffStep, AskPreview, AskRetry, AskCancel, CheckAttempts,
                                        AskAttach
<1>5. CASE PanelStep
  <2>1. CASE Confirm \/ EditInputs \/ RecordCancellation
    BY <2>1, <1>s DEF Confirm, EditInputs, RecordCancellation, Statuses
  <2>2. CASE Abandon
    <3>1. source'.ref = source.ref
      BY <1>2, <2>2 DEF Abandon
    <3> QED BY <2>2, <3>1, <1>s DEF Abandon, Statuses
  <2>3. CASE AfterReservation
    BY <2>3, <1>s DEF AfterReservation, Statuses
  <2>4. CASE Approve
    <3>1. source'.ref = source.ref /\ intent' = intent
      BY <1>2, <2>4 DEF Approve
    <3> QED BY <3>1, <1>u
  <2>5. ASSUME NEW n \in AttemptNos, CancelByHand(n) PROVE Evidence'
    BY <2>5, <1>u DEF CancelByHand
  <2> QED BY <1>5, <2>1, <2>2, <2>3, <2>4, <2>5 DEF PanelStep
<1>6. CASE LeaseRunsOut \/ Overstay
  <2>1. /\ intent'.status = intent.status /\ intent'.rsv = intent.rsv /\ intent'.conf = intent.conf
        /\ source' = source
    BY <1>2, <1>6 DEF LeaseRunsOut, Overstay, IntentRec
  <2> QED BY <1>1, <1>m, <2>1, PlainWrite
<1> QED BY <1>4, <1>5, <1>6

(* Passes leave to staff what is theirs.                                    *)
LEMMA NotUsurped == ASSUME NEW r \in Runners, RunnerStep(r) PROVE usurped' = usurped /\ staff' = staff
BY DEF RunnerStep, bounds, Claim, LookUpOpen, PersistPreview, AbortBeforeOpen, SearchDuplicate, AskToOpen,
       DriftAtOpen, CheckUnfinished, CheckAlreadyBooked, OpenAttempt, FailValidation, Commit,
       RecordResult, DropResult, RecordSource, CompleteRequest, SearchJourneys, SearchFails,
       PostReadback, FindOpenAttempt, CloseOpenAttempt, SettleCancel, SettleVerified, SettleNone,
       SettleOther, Die

LEMMA BroughtKept == ASSUME TruthInv, Next PROVE Brought'
<1>1. TypeInv /\ TypeOK /\ Brought /\ made \subseteq made'
  BY EnterpriseTyped DEF TruthInv, TypeInv, Truth
<1>2. staff \in [Staff -> StaffRec] /\ standing \subseteq made
  BY <1>1, Fields
<1>u. ASSUME UNCHANGED staff PROVE Brought'
  BY <1>1, <1>u DEF Brought
<1>s. ASSUME NEW p \in Staff, NEW q, staff' = [staff EXCEPT ![p] = q],
             q.pc = "attaching" => q.conf \in made
      PROVE  Brought'
  BY <1>1, <1>2, <1>s DEF Brought
<1>3. ASSUME NEW r \in Runners, RunnerStep(r) PROVE Brought'
  BY <1>3, <1>u, NotUsurped
<1>4. ASSUME NEW p \in Staff, StaffStep(p) PROVE Brought'
  <2>1. ASSUME NEW pc \in {"writing", "releasing", "checking"}, NEW to, Decide(p, pc, to) PROVE Brought'
    BY <2>1, <1>s DEF Decide
  <2>2. CASE AskPreview(p) \/ AskRetry(p) \/ AskCancel(p) \/ CheckAttempts(p)
    BY <2>1, <2>2 DEF AskPreview, AskRetry, AskCancel, CheckAttempts
  <2>3. CASE Write(p) \/ Attach(p)
    BY <2>3, <1>s DEF Write, Attach, Resting
  <2>4. ASSUME NEW n \in AttemptNos, AskAttach(p, n) PROVE Brought'
    BY <1>2, <1>s, <2>4 DEF AskAttach
  <2> QED BY <1>4, <2>2, <2>3, <2>4 DEF StaffStep
<1>5. CASE PanelStep \/ LeaseRunsOut \/ Overstay
  BY <1>5, <1>u DEF PanelStep, Confirm, Approve, EditInputs, RecordCancellation, Abandon,
                    AfterReservation, CancelByHand, LeaseRunsOut, Overstay
<1> QED BY <1>3, <1>4, <1>5 DEF Next

LEMMA InitTruth == Init => Truth
<1> SUFFICES ASSUME Init PROVE Truth
  OBVIOUS
<1>1. \A r \in Runners : Knows(runner[r]) /\ ~AtCommit(r)
  BY DEF Init, Knows, Idle, AtCommit, Used
<1>2. Recorded /\ LedgerTellsTheTruth
  BY DEF Init, Recorded, LedgerTellsTheTruth, Unused
<1>3. intent.conf \in made \cup {None} /\ EvidenceIsReal
  BY DEF Init, EvidenceIsReal
<1>4. Brought
  BY DEF Init, Brought, Resting
<1> QED BY <1>1, <1>2, <1>3, <1>4 DEF Truth, Apart

LEMMA StepTruth == TruthInv /\ [Next]_vars => TruthInv'
<1> SUFFICES ASSUME TruthInv, [Next]_vars PROVE TruthInv'
  OBVIOUS
<1>1. TypeInv'
  BY StepTypes DEF TruthInv
<1>2. TypeInv /\ Truth
  BY DEF TruthInv
<1>s. ASSUME UNCHANGED <<runner, ledger, made>>
      PROVE  (\A r \in Runners : Knows(runner[r])') /\ Apart' /\ Recorded' /\ LedgerTellsTheTruth'
  <2>1. \A r \in Runners : Knows(runner[r])'
    BY <1>2, <1>s DEF Truth, Knows, Used
  <2>2. Apart'
    BY <1>2, <1>s DEF Truth, Apart, AtCommit
  <2>3. Recorded' /\ LedgerTellsTheTruth'
    BY <1>2, <1>s DEF Truth, Recorded, LedgerTellsTheTruth, Used
  <2> QED BY <2>1, <2>2, <2>3
<1>3. CASE UNCHANGED vars
  <2>1. Evidence'
    BY <1>2, <1>3 DEF vars, Truth, Evidence, EvidenceIsReal
  <2>2. Brought'
    BY <1>2, <1>3 DEF vars, Truth, Brought
  <2> QED BY <1>1, <1>3, <1>s, <2>1, <2>2 DEF vars, TruthInv, Truth, Evidence
<1>4. ASSUME NEW r \in Runners, RunnerStep(r) PROVE Truth'
  <2>1. \A s \in Runners : Knows(runner[s])'
    BY <1>4, OthersKnow, SelfKnows
  <2> QED BY <1>4, <2>1, ApartKept, LedgerKept, RunnerEvidence, BroughtKept DEF Truth, Evidence, Next
<1>5. CASE (\E p \in Staff : StaffStep(p)) \/ PanelStep \/ LeaseRunsOut \/ Overstay
  <2>1. Brought'
    BY <1>5, BroughtKept DEF Next
  <2> QED BY <1>1, <1>5, <1>s, <2>1, OthersEvidence DEF TruthInv, Truth, Evidence
<1> QED BY <1>1, <1>3, <1>4, <1>5 DEF Next, TruthInv

(* op_result, the readback and staff between them never write a result the  *)
(* facts contradict: failed_clean is only ever said of an attempt that made *)
(* nothing, booked only of one that made a reservation, however late a      *)
(* result is posted and whoever has closed the attempt.                     *)
THEOREM LedgerIsTrue == Spec => []LedgerTellsTheTruth
<1>1. Init => TruthInv
  BY InitTypes, InitTruth DEF TruthInv
<1>2. TruthInv => LedgerTellsTheTruth
  BY DEF TruthInv, Truth
<1> QED BY <1>1, <1>2, StepTruth, PTL DEF Spec

(* A verified or completed intent, and the reference shown on the request,  *)
(* name a reservation Enterprise made, for every interleaving of passes,    *)
(* readbacks, attached confirmations and unguarded staff writes.            *)
THEOREM VerifiedIsReal == Spec => []EvidenceIsReal
<1>1. Init => TruthInv
  BY InitTypes, InitTruth DEF TruthInv
<1>2. TruthInv => EvidenceIsReal
  BY DEF TruthInv, Truth
<1> QED BY <1>1, <1>2, StepTruth, PTL DEF Spec

-----------------------------------------------------------------------------
(* Fencing.                                                                 *)

(* A pass that has not opened an attempt yet.                               *)
Early(q) == q.pc \in {"picked", "previewing", "booking", "asking", "opening", "hashing", "gating"}

Working(r) == runner[r].pc # "idle"

Fence ==
    /\ \A n \in AttemptNos : Used(n) => ledger[n].token <= intent.token
    /\ \A r \in Runners : Working(r) => runner[r].token <= intent.token
    /\ \A r, s \in Runners : r # s /\ Working(r) /\ Working(s) => runner[r].token # runner[s].token
    /\ \A r \in Runners, n \in AttemptNos :
          Early(runner[r]) /\ Used(n) => ledger[n].token # runner[r].token
    /\ FencedInOrder

FenceInv == TruthInv /\ Fence

(* Only a claim takes a token, and a pass keeps the one it took.            *)
LEMMA TokenKept ==
    ASSUME TypeInv, NEW r \in Runners, RunnerStep(r), ~Claim(r)
    PROVE  /\ intent'.token = intent.token
           /\ \/ runner'[r].pc = "idle"
              \/ /\ Working(r) /\ runner'[r].token = runner[r].token
                 /\ Early(runner'[r]) => Early(runner[r])
<1>1. /\ intent \in IntentRec /\ runner \in [Runners -> PassRec] /\ runner[r] \in PassRec
  BY Fields, PassFields DEF TypeInv
<1>2. intent'.token = intent.token
  <2>1. CASE PersistPreview(r) \/ AbortBeforeOpen(r) \/ DriftAtOpen(r) \/ SettleOther(r)
    BY <1>1, <2>1 DEF PersistPreview, AbortBeforeOpen, DriftAtOpen, SettleOther, Released, IntentRec
  <2>2. CASE RecordResult(r)
    BY <1>1, <2>2 DEF RecordResult, ResultPatch, Released, IntentRec
  <2>3. CASE RecordSource(r) \/ CompleteRequest(r)
    BY <1>1, <2>3 DEF RecordSource, CompleteRequest, Released, IntentRec
  <2>4. CASE SettleCancel(r) \/ SettleVerified(r) \/ SettleNone(r)
    BY <1>1, <2>4 DEF SettleCancel, SettleVerified, SettleNone, Released, IntentRec
  <2>5. CASE UNCHANGED intent
    BY <2>5
  <2> QED BY <2>1, <2>2, <2>3, <2>4, <2>5
          DEF RunnerStep, LookUpOpen, SearchDuplicate, AskToOpen, CheckUnfinished, CheckAlreadyBooked,
              OpenAttempt, FailValidation, Commit, DropResult, SearchJourneys, SearchFails,
              PostReadback, FindOpenAttempt, CloseOpenAttempt, Die
<1> DEFINE Kept == \/ runner'[r].pc = "idle"
                   \/ /\ Working(r) /\ runner'[r].token = runner[r].token
                      /\ Early(runner'[r]) => Early(runner[r])
<1> SUFFICES Kept
  BY <1>2
<1>f. CASE Finish(r)
  BY <1>1, <1>f DEF Finish, Idle
<1>m. ASSUME NEW pc, Goto(r, pc) PROVE runner'[r].pc = pc /\ runner'[r].token = runner[r].token
  BY <1>1, <1>m DEF Goto, PassRec
<1>3. CASE LookUpOpen(r)
  <2>1. runner[r].pc = "picked" /\ runner'[r].token = runner[r].token
    BY <1>1, <1>3 DEF LookUpOpen, PassRec
  <2> QED BY <2>1 DEF Early, Working
<1>4. CASE SearchDuplicate(r)
  <2>1. runner[r].pc = "booking" /\ runner'[r].token = runner[r].token
    BY <1>1, <1>4 DEF SearchDuplicate, PassRec
  <2> QED BY <2>1 DEF Early, Working
<1>5. CASE AskToOpen(r)
  <2>1. ASSUME NEW h, runner' = [runner EXCEPT ![r].pc = "opening", ![r].hash = h]
        PROVE  runner'[r].token = runner[r].token
    BY <1>1, <2>1 DEF PassRec
  <2>2. Finish(r) \/ (runner[r].pc = "asking" /\ runner'[r].token = runner[r].token)
    BY <1>5, <2>1 DEF AskToOpen
  <2> QED BY <2>2, <1>f DEF Early, Working
<1>6. CASE CheckUnfinished(r) \/ CheckAlreadyBooked(r)
  <2>1. /\ runner[r].pc \in {"opening", "hashing"}
        /\ Finish(r) \/ Goto(r, "hashing") \/ Goto(r, "gating")
    BY <1>6 DEF CheckUnfinished, CheckAlreadyBooked
  <2> QED BY <2>1, <1>f, <1>m DEF Early, Working
<1>7. CASE OpenAttempt(r)
  <2>1. ASSUME NEW n, runner' = [runner EXCEPT ![r].pc = "opened", ![r].att = n]
        PROVE  runner'[r].token = runner[r].token /\ runner'[r].pc = "opened"
    BY <1>1, <2>1 DEF PassRec
  <2>2. Finish(r) \/ (runner[r].pc = "gating" /\ runner'[r].token = runner[r].token /\ runner'[r].pc = "opened")
    BY <1>7, <2>1 DEF OpenAttempt
  <2> QED BY <2>2, <1>f DEF Early, Working
<1>8. CASE FailValidation(r) \/ SearchJourneys(r)
  <2>1. /\ runner[r].pc # "idle" /\ runner'[r].token = runner[r].token
        /\ runner'[r].pc \in {"answered", "posting"}
    BY <1>1, <1>8 DEF FailValidation, SearchJourneys, PassRec
  <2> QED BY <2>1 DEF Early, Working
<1>9. CASE Commit(r)
  <2>1. runner[r].pc = "opened" /\ \E x, k :
          runner' = [runner EXCEPT ![r] = [runner[r] EXCEPT !.pc = "answered", !.result = x, !.known = k]]
    BY <1>9, CommitEffect
  <2>2. runner'[r].token = runner[r].token /\ runner'[r].pc = "answered"
    BY <1>1, <2>1 DEF PassRec
  <2> QED BY <2>1, <2>2 DEF Early, Working
<1>10. CASE RecordResult(r) \/ RecordSource(r) \/ SettleVerified(r) \/ CloseOpenAttempt(r) \/ CompleteRequest(r)
  <2>1. /\ runner[r].pc # "idle"
        /\ Finish(r) \/ \E pc \in {"sourcing", "searching", "completing", "settling"} : Goto(r, pc)
    BY <1>10 DEF RecordResult, RecordSource, SettleVerified, CloseOpenAttempt, CompleteRequest
  <2> QED BY <2>1, <1>f, <1>m DEF Early, Working
<1>11. CASE PostReadback(r)
  <2>1. ASSUME NEW v, runner' = [runner EXCEPT ![r].pc = "judged", ![r].verdict = v, ![r].known = Expected(r),
                                   ![r].status = intent.status, ![r].rsv = intent.rsv]
        PROVE  runner'[r].pc = "judged" /\ runner'[r].token = runner[r].token
    BY <2>1, <1>1 DEF PassRec
  <2>2. Finish(r) \/ (runner[r].pc = "posting" /\ runner'[r].pc = "judged" /\ runner'[r].token = runner[r].token)
    BY <1>11, <2>1 DEF PostReadback
  <2> QED BY <2>2, <1>f DEF Early, Working
<1>12. CASE FindOpenAttempt(r)
  <2>1. /\ runner[r].pc = "judged" /\ runner'[r].token = runner[r].token
        /\ runner'[r].pc \in {"settling", "closing"}
    BY <1>1, <1>12 DEF FindOpenAttempt, PassRec
  <2> QED BY <2>1 DEF Early, Working
<1>13. CASE \/ PersistPreview(r) \/ AbortBeforeOpen(r) \/ DriftAtOpen(r) \/ DropResult(r) \/ SearchFails(r)
            \/ Die(r) \/ SettleCancel(r) \/ SettleNone(r) \/ SettleOther(r)
  BY <1>13, <1>f DEF PersistPreview, AbortBeforeOpen, DriftAtOpen, DropResult, SearchFails, Die,
                     SettleCancel, SettleNone, SettleOther
<1> QED BY <1>3, <1>4, <1>5, <1>6, <1>7, <1>8, <1>9, <1>10, <1>11, <1>12, <1>13 DEF RunnerStep

LEMMA PanelToken ==
    ASSUME TypeInv, (\E p \in Staff : StaffStep(p)) \/ PanelStep \/ LeaseRunsOut \/ Overstay
    PROVE  intent'.token = intent.token
<1>1. intent \in IntentRec
  BY Fields DEF TypeInv
<1>2. ASSUME NEW p \in Staff, StaffStep(p) PROVE intent'.token = intent.token
  BY <1>1, <1>2, AttachEffect DEF TypeInv, StaffStep, AskPreview, AskRetry, AskCancel, CheckAttempts,
                                  Write, AskAttach, Patched, Released,
                    IntentRec
<1>3. CASE PanelStep
  BY <1>1, <1>3 DEF PanelStep, Confirm, Approve, EditInputs, RecordCancellation, Abandon,
                    AfterReservation,
                    CancelByHand, Released, IntentRec
<1>4. CASE LeaseRunsOut \/ Overstay
  BY <1>1, <1>4 DEF LeaseRunsOut, Overstay, IntentRec
<1> QED BY <1>2, <1>3, <1>4

(* Whatever closes an attempt leaves its number taken and its token alone.  *)
LEMMA TokensStand ==
    ASSUME TruthInv, NEW r \in Runners, RunnerStep(r),
           ~OpenAttempt(r) \/ UNCHANGED <<ledger, made, standing>>, NEW n \in AttemptNos
    PROVE  (Used(n)' <=> Used(n)) /\ ledger'[n].token = ledger[n].token
<1>1. TypeInv /\ TypeOK /\ Knows(runner[r])
  BY DEF TruthInv, TypeInv, Truth
<1>2. CASE RecordResult(r) \/ CloseOpenAttempt(r)
  <2>1. /\ \A m \in AttemptNos \ {runner[r].att} : ledger'[m] = ledger[m]
        /\ ledger'[runner[r].att].token = ledger[runner[r].att].token
        /\ runner[r].pc \in {"answered", "closing"}
        /\ ledger'[runner[r].att].outcome \in Readings \cup {runner[r].result}
    BY <1>1, <1>2, CloseEffect
  <2>2. Used(runner[r].att)
    BY <1>1, <2>1 DEF Knows
  <2>3. runner[r].result # "absent"
    BY <1>1, PassFields DEF Results
  <2> QED BY <2>1, <2>2, <2>3 DEF Used, Readings
<1>3. CASE ledger' = ledger
  BY <1>3 DEF Used
<1>4. Commit(r) => ledger' = ledger
  BY <1>1, CommitEffect
<1> QED BY <1>2, <1>3, <1>4, Quiet

LEMMA FenceKept ==
    ASSUME FenceInv, NEW r \in Runners, RunnerStep(r)
    PROVE  Fence'
<1>1. TruthInv /\ TypeInv /\ TypeOK /\ Fence
  BY DEF FenceInv, TruthInv, TypeInv
<1>2. /\ intent.token \in Nat /\ runner \in [Runners -> PassRec]
      /\ \A n \in AttemptNos : ledger[n].token \in Nat
      /\ \A s \in Runners : runner[s].token \in Nat
  <2>1. intent.token \in Nat /\ runner \in [Runners -> PassRec] /\ ledger \in [AttemptNos -> AttemptRec]
    BY <1>1, Fields
  <2> QED BY <2>1 DEF AttemptRec, PassRec
<1>3. \A s \in Runners \ {r} : runner'[s] = runner[s]
  BY <1>1, Alone
<1> DEFINE Std == \A n \in AttemptNos : (Used(n)' <=> Used(n)) /\ ledger'[n].token = ledger[n].token
<1>4. Std => FencedInOrder'
  BY <1>1 DEF Fence, FencedInOrder
<1>5. CASE Claim(r)
  <2>1. Std
    BY <1>5 DEF Claim, Used
  <2>2. /\ intent'.token = intent.token + 1 /\ runner'[r].token = intent.token + 1
    <3>1. intent \in IntentRec
      BY <1>1, Fields
    <3> QED BY <1>2, <1>5, <3>1 DEF Claim, Idle, IntentRec
  <2>3. \A n \in AttemptNos : Used(n)' => ledger'[n].token <= intent.token
    BY <1>1, <2>1 DEF Fence
  <2>4. \A s \in Runners \ {r} : runner'[s].pc # "idle" => runner'[s].token <= intent.token
    BY <1>1, <1>3 DEF Fence, Working
  <2>5. \A n \in AttemptNos : ledger'[n].token \in Nat
    BY <1>2, <2>1
  <2>6. \A s \in Runners \ {r} : runner'[s].token \in Nat
    BY <1>2, <1>3
  <2>7. (\A n \in AttemptNos : Used(n) => ledger[n].token <= intent.token)'
    BY <1>2, <2>2, <2>3, <2>5
  <2>8. (\A s \in Runners : Working(s) => runner[s].token <= intent.token)'
    BY <1>2, <2>2, <2>4, <2>6 DEF Working
  <2>9. (\A s, t \in Runners : s # t /\ Working(s) /\ Working(t) => runner[s].token # runner[t].token)'
    <3>1. \A s \in Runners \ {r} : runner'[s].pc # "idle" => runner'[s].token # runner'[r].token
      BY <1>2, <2>2, <2>4, <2>6
    <3>2. \A s, t \in Runners \ {r} : s # t /\ runner'[s].pc # "idle" /\ runner'[t].pc # "idle"
             => runner'[s].token # runner'[t].token
      BY <1>1, <1>3 DEF Fence, Working
    <3> QED BY <3>1, <3>2 DEF Working
  <2>10. (\A s \in Runners, n \in AttemptNos : Early(runner[s]) /\ Used(n) => ledger[n].token # runner[s].token)'
    <3>1. \A n \in AttemptNos : Used(n)' => ledger'[n].token # runner'[r].token
      BY <1>2, <2>2, <2>3, <2>5
    <3>2. \A s \in Runners \ {r}, n \in AttemptNos :
             Early(runner'[s]) /\ Used(n)' => ledger'[n].token # runner'[s].token
      BY <1>1, <1>3, <2>1 DEF Fence
    <3> QED BY <3>1, <3>2 DEF Early
  <2> QED BY <1>4, <2>1, <2>7, <2>8, <2>9, <2>10 DEF Fence
<1>6. ASSUME ~Claim(r)
      PROVE  /\ intent'.token = intent.token
             /\ \A s \in Runners : \/ runner'[s].pc = "idle"
                                   \/ /\ Working(s) /\ runner'[s].token = runner[s].token
                                      /\ Early(runner'[s]) => Early(runner[s])
  BY <1>1, <1>3, <1>6, TokenKept DEF Working
<1>7. ASSUME ~Claim(r)
      PROVE  /\ (\A s \in Runners : Working(s) => runner[s].token <= intent.token)'
             /\ (\A s, t \in Runners : s # t /\ Working(s) /\ Working(t) => runner[s].token # runner[t].token)'
  BY <1>1, <1>6, <1>7 DEF Fence, Working
<1>8. CASE ~Claim(r) /\ (~OpenAttempt(r) \/ UNCHANGED <<ledger, made, standing>>)
  <2>1. Std
    BY <1>1, <1>8, TokensStand
  <2>2. (\A n \in AttemptNos : Used(n) => ledger[n].token <= intent.token)'
    BY <1>1, <1>6, <1>8, <2>1 DEF Fence
  <2>3. (\A s \in Runners, n \in AttemptNos : Early(runner[s]) /\ Used(n) => ledger[n].token # runner[s].token)'
    BY <1>1, <1>6, <1>8, <2>1 DEF Fence, Early
  <2> QED BY <1>4, <1>7, <1>8, <2>1, <2>2, <2>3 DEF Fence
<1>9. CASE OpenAttempt(r) /\ ~UNCHANGED <<ledger, made, standing>>
  <2>1. PICK n \in AttemptNos :
          /\ ~Used(n) /\ (\A m \in AttemptNos : m < n => Used(m)) /\ GatePasses(r)
          /\ ledger'[n].outcome = "open" /\ ledger'[n].token = runner[r].token
          /\ \A m \in AttemptNos \ {n} : ledger'[m] = ledger[m]
          /\ runner' = [runner EXCEPT ![r] = [runner[r] EXCEPT !.pc = "opened", !.att = n]]
    BY <1>1, <1>9, OpenEffect, Zenon
  <2>2. runner[r].pc = "gating" /\ ~Claim(r)
    BY <1>9 DEF OpenAttempt, Claim
  <2>3. runner[r].token = intent.token /\ runner'[r].pc = "opened"
    BY <1>2, <2>1 DEF GatePasses, HoldsClaim, PassRec
  <2>4. \A m \in AttemptNos : Used(m) => ledger[m].token < runner[r].token
    <3>1. \A m \in AttemptNos : Used(m) => ledger[m].token <= intent.token /\ ledger[m].token # runner[r].token
      BY <1>1, <2>2 DEF Fence, Early
    <3> QED BY <1>2, <2>3, <3>1
  <2>5. \A m \in AttemptNos \ {n} : (Used(m)' <=> Used(m)) /\ ledger'[m].token = ledger[m].token
    BY <2>1 DEF Used
  <2>6. Used(n)' /\ ledger'[n].token = runner[r].token
    BY <2>1 DEF Used
  <2>7. (\A m \in AttemptNos : Used(m) => ledger[m].token <= intent.token)'
    BY <1>1, <1>2, <1>6, <2>2, <2>3, <2>5, <2>6 DEF Fence
  <2>8. (\A s \in Runners, m \in AttemptNos : Early(runner[s]) /\ Used(m) => ledger[m].token # runner[s].token)'
    <3>1. \A s \in Runners \ {r} : Early(runner'[s]) => Working(s) /\ runner'[s].token # runner[r].token
      BY <1>1, <1>3, <2>2 DEF Fence, Working, Early
    <3>2. \A s \in Runners \ {r}, m \in AttemptNos \ {n} :
             Early(runner'[s]) /\ Used(m)' => ledger'[m].token # runner'[s].token
      BY <1>1, <1>3, <2>5 DEF Fence
    <3>3. ~Early(runner'[r])
      BY <2>3 DEF Early
    <3> QED BY <2>6, <3>1, <3>2, <3>3
  <2>9. FencedInOrder'
    <3> SUFFICES ASSUME NEW a \in AttemptNos, NEW b \in AttemptNos, a < b, Used(b)'
                 PROVE  Used(a)' /\ ledger'[a].token < ledger'[b].token
      BY DEF FencedInOrder
    <3>1. CASE a # n /\ b # n
      BY <1>1, <2>5, <3>1 DEF Fence, FencedInOrder
    <3>2. CASE b = n
      <4>1. a # n /\ Used(a)
        BY <2>1, <3>2 DEF AttemptNos
      <4> QED BY <2>4, <2>5, <2>6, <3>2, <4>1
    <3>3. CASE a = n /\ b # n
      <4>1. Used(b) /\ a < b
        BY <2>5, <3>3
      <4>2. Used(a)
        BY <1>1, <4>1 DEF Fence, FencedInOrder
      <4> QED BY <2>1, <3>3, <4>2
    <3> QED BY <3>1, <3>2, <3>3
  <2> QED BY <1>7, <2>2, <2>7, <2>8, <2>9 DEF Fence
<1> QED BY <1>5, <1>8, <1>9

LEMMA FenceHolds == (Init => FenceInv) /\ (FenceInv /\ [Next]_vars => FenceInv')
<1>1. Init => FenceInv
  <2> SUFFICES ASSUME Init PROVE FenceInv
    OBVIOUS
  <2>1. \A n \in AttemptNos : ~Used(n)
    BY DEF Init, Used, Unused
  <2>2. \A r \in Runners : ~Working(r) /\ ~Early(runner[r])
    BY DEF Init, Working, Early, Idle
  <2> QED BY <2>1, <2>2, InitTypes, InitTruth DEF FenceInv, TruthInv, Fence, FencedInOrder
<1>2. FenceInv /\ [Next]_vars => FenceInv'
  <2> SUFFICES ASSUME FenceInv, [Next]_vars PROVE FenceInv'
    OBVIOUS
  <2>1. TruthInv /\ TypeInv /\ Fence
    BY DEF FenceInv, TruthInv
  <2>2. TruthInv'
    BY <2>1, StepTruth
  <2> SUFFICES Fence'
    BY <2>2 DEF FenceInv
  <2>3. ASSUME UNCHANGED <<runner, ledger>>, intent'.token = intent.token PROVE Fence'
    BY <2>1, <2>3 DEF Fence, FencedInOrder, Working, Early, Used
  <2>4. CASE UNCHANGED vars
    BY <2>3, <2>4 DEF vars
  <2>5. CASE (\E p \in Staff : StaffStep(p)) \/ PanelStep \/ LeaseRunsOut \/ Overstay
    BY <2>1, <2>3, <2>5, PanelToken, OthersEvidence
  <2>6. ASSUME NEW r \in Runners, RunnerStep(r) PROVE Fence'
    BY <2>6, FenceKept
  <2> QED BY <2>4, <2>5, <2>6 DEF Next
<1> QED BY <1>1, <1>2

(* However long a pass stalls between its checks and its insert, and        *)
(* whoever takes the claim meanwhile, attempts are opened in the order of   *)
(* the claims they belong to, one to a claim.                               *)
THEOREM FencingHolds == Spec => []FencedInOrder
<1>1. FenceInv => FencedInOrder
  BY DEF FenceInv, Fence
<1> QED BY <1>1, FenceHolds, PTL DEF Spec

-----------------------------------------------------------------------------
(* Passes at work alone.  As long as no pass at work lost its claim, every  *)
(* pass that still works on the reservation, and does not just write down   *)
(* one that is verified, holds the claim; so there is one such pass.        *)
Busy(q) == q.pc \notin {"idle", "sourcing", "completing"}

Solo ==
    ~usurped => \A r \in Runners : Busy(runner[r]) =>
                  /\ HoldsClaim(r) /\ intent.fresh
                  /\ Request => intent.status # "reservation_verified"

(* What only happens in the lane of a request.                              *)
InLane ==
    /\ \A r \in Runners : runner[r].pc \in {"sourcing", "completing"} => Request
    /\ Request => \A p \in Staff : staff[p].pc \in {"writing", "releasing"} =>
                                     staff[p].to # "reservation_verified"

(* Between its duplicate search and its commit a pass knows that nothing    *)
(* stands.                                                                  *)
Asking == {"asking", "opening", "hashing", "gating", "opened"}
Clear ==
    search = "full" /\ ~usurped =>
       /\ \A m, n \in standing : m = n
       /\ \A r \in Runners : runner[r].pc \in Asking => standing = {}

Opening == {"hashing", "gating", "opened"}
Approval ==
    Request /\ ~usurped => \A r \in Runners : runner[r].pc \in Opening =>
                              source.status \in {"approved", "booked"}

SoloInv == TypeInv /\ Solo /\ InLane /\ Clear /\ Approval

(* Which steps of a pass lead where.                                        *)
LEMMA Moves ==
    ASSUME TypeOK, NEW r \in Runners, RunnerStep(r)
    PROVE  /\ runner'[r].pc \in {"sourcing", "completing"}
                => RecordSource(r) \/ RecordResult(r) \/ SettleVerified(r)
           /\ runner'[r].pc \in Asking
                => SearchDuplicate(r) \/ AskToOpen(r) \/ CheckUnfinished(r) \/ CheckAlreadyBooked(r)
                     \/ OpenAttempt(r)
           /\ runner'[r].pc = "opened" => OpenAttempt(r)
<1>1. runner \in [Runners -> PassRec]
  BY Fields
<1>f. ASSUME Finish(r) PROVE runner'[r].pc = "idle"
  BY <1>1, <1>f DEF Finish, Idle
<1>m. ASSUME NEW pc, Goto(r, pc) PROVE runner'[r].pc = pc
  BY <1>1, <1>m DEF Goto, PassRec
<1> DEFINE P == runner'[r].pc
<1>2. CASE Claim(r)
  <2>1. P = "picked"
    BY <1>1, <1>2 DEF Claim, Idle
  <2> QED BY <2>1 DEF Asking
<1>3. CASE LookUpOpen(r)
  <2>1. P \in {"previewing", "searching", "booking"}
    BY <1>1, <1>3 DEF LookUpOpen, PassRec
  <2> QED BY <2>1 DEF Asking
<1>4. CASE FailValidation(r)
  <2>1. P = "answered"
    BY <1>1, <1>4 DEF FailValidation, PassRec
  <2> QED BY <2>1 DEF Asking
<1>5. CASE SearchJourneys(r)
  <2>1. P = "posting"
    BY <1>1, <1>5 DEF SearchJourneys, PassRec
  <2> QED BY <2>1 DEF Asking
<1>6. CASE FindOpenAttempt(r)
  <2>1. P \in {"settling", "closing"}
    BY <1>1, <1>6 DEF FindOpenAttempt, PassRec
  <2> QED BY <2>1 DEF Asking
<1>7. CASE Commit(r)
  <2>1. P = "answered"
    BY <1>1, <1>7 DEF Commit, PassRec
  <2> QED BY <2>1 DEF Asking
<1>8. CASE PostReadback(r)
  <2>1. P \in {"judged", "idle"}
    <3>1. CASE HoldsClaim(r) /\ intent.status \notin Terminal
      <4>1. PICK v : runner' = [runner EXCEPT ![r].pc = "judged", ![r].verdict = v,
                        ![r].known = Expected(r), ![r].status = intent.status, ![r].rsv = intent.rsv]
        BY <1>8, <3>1, Zenon DEF PostReadback
      <4> QED BY <1>1, <4>1 DEF PassRec
    <3> QED BY <1>8, <1>f, <3>1 DEF PostReadback
  <2> QED BY <2>1 DEF Asking
<1>9. CASE RecordResult(r)
  <2>1. Goto(r, "sourcing") \/ Goto(r, "searching") \/ Finish(r)
    BY <1>9 DEF RecordResult
  <2> QED BY <1>9, <1>f, <1>m, <2>1 DEF Asking
<1>10. CASE RecordSource(r)
  BY <1>10, <1>f, <1>m DEF RecordSource, Asking
<1>11. CASE SettleVerified(r)
  BY <1>11, <1>f, <1>m DEF SettleVerified, Asking
<1>12. CASE CloseOpenAttempt(r)
  BY <1>12, <1>f, <1>m DEF CloseOpenAttempt, Asking
<1>13. CASE \/ PersistPreview(r) \/ AbortBeforeOpen(r) \/ DriftAtOpen(r) \/ DropResult(r)
            \/ CompleteRequest(r) \/ SearchFails(r) \/ SettleCancel(r) \/ SettleNone(r)
            \/ SettleOther(r) \/ Die(r)
  BY <1>f, <1>13 DEF PersistPreview, AbortBeforeOpen, DriftAtOpen, DropResult,
     CompleteRequest, SearchFails, SettleCancel, SettleNone, SettleOther, Die, Asking
<1>14. CASE \/ SearchDuplicate(r) \/ AskToOpen(r) \/ CheckUnfinished(r) \/ CheckAlreadyBooked(r)
            \/ OpenAttempt(r)
  <2>1. P \notin {"sourcing", "completing"} /\ (P = "opened" => OpenAttempt(r))
    <3>1. CASE SearchDuplicate(r)
      BY <1>1, <3>1 DEF SearchDuplicate, PassRec
    <3>2. CASE AskToOpen(r)
      BY <1>1, <1>f, <3>2 DEF AskToOpen, PassRec
    <3>3. CASE OpenAttempt(r)
      BY <1>1, <1>f, <3>3 DEF OpenAttempt, PassRec
    <3>4. CASE CheckUnfinished(r) \/ CheckAlreadyBooked(r)
      BY <1>f, <1>m, <3>4 DEF CheckUnfinished, CheckAlreadyBooked
    <3> QED BY <1>14, <3>1, <3>2, <3>3, <3>4
  <2> QED BY <1>14, <2>1
<1> QED BY <1>2, <1>3, <1>4, <1>5, <1>6, <1>7, <1>8, <1>9, <1>10, <1>11, <1>12, <1>13, <1>14
        DEF RunnerStep

LEMMA SameClaim ==
    ASSUME TypeInv
    PROVE  /\ \A s \in Statuses : LET i == [intent EXCEPT !.status = s] IN
                 /\ i.holder = intent.holder /\ i.fresh = intent.fresh /\ i.token = intent.token
                 /\ i.lane = intent.lane /\ i.status = s
           /\ \A r, s \in Runners : HoldsClaim(r) /\ HoldsClaim(s) => r = s
<1>1. intent \in IntentRec
  BY Fields DEF TypeInv
<1> QED BY <1>1 DEF IntentRec, HoldsClaim

LEMMA LaneStays == ASSUME TypeInv, Next PROVE intent'.lane = intent.lane
<1>1. intent \in IntentRec
  BY Fields DEF TypeInv
<1>2. ASSUME NEW r \in Runners, RunnerStep(r) PROVE intent'.lane = intent.lane
  <2>1. CASE Claim(r) \/ PersistPreview(r) \/ AbortBeforeOpen(r) \/ DriftAtOpen(r) \/ SettleOther(r)
    BY <1>1, <2>1 DEF Claim, PersistPreview, AbortBeforeOpen, DriftAtOpen, SettleOther, Released,
                      IntentRec
  <2>2. CASE RecordResult(r)
    BY <1>1, <2>2 DEF RecordResult, ResultPatch, Released, IntentRec
  <2>3. CASE RecordSource(r) \/ CompleteRequest(r)
    BY <1>1, <2>3 DEF RecordSource, CompleteRequest, Released, IntentRec
  <2>4. CASE SettleCancel(r) \/ SettleVerified(r) \/ SettleNone(r)
    BY <1>1, <2>4 DEF SettleCancel, SettleVerified, SettleNone, Released, IntentRec
  <2> QED BY <1>2, <2>1, <2>2, <2>3, <2>4
          DEF RunnerStep, LookUpOpen, SearchDuplicate, AskToOpen, CheckUnfinished, CheckAlreadyBooked,
              OpenAttempt, FailValidation, Commit, DropResult, SearchJourneys, SearchFails,
              PostReadback, FindOpenAttempt, CloseOpenAttempt, Die
<1>3. ASSUME NEW p \in Staff, StaffStep(p) PROVE intent'.lane = intent.lane
  BY <1>1, <1>3, AttachEffect DEF TypeInv, StaffStep, AskPreview, AskRetry, AskCancel, CheckAttempts,
                                  Write, AskAttach, Patched, Released,
                    IntentRec
<1>4. CASE PanelStep
  BY <1>1, <1>4 DEF PanelStep, Confirm, Approve, EditInputs, RecordCancellation, Abandon,
                    AfterReservation,
                    CancelByHand, Released, IntentRec
<1>5. CASE LeaseRunsOut \/ Overstay
  BY <1>1, <1>5 DEF LeaseRunsOut, Overstay, IntentRec
<1> QED BY <1>2, <1>3, <1>4, <1>5 DEF Next

(* A step after which its pass is still busy leaves the claim as it was.    *)
LEMMA BusyMoves ==
    ASSUME TypeInv, NEW r \in Runners, RunnerStep(r), ~Claim(r), Busy(runner'[r])
    PROVE  /\ Busy(runner[r]) /\ runner'[r].token = runner[r].token
           /\ intent'.holder = intent.holder /\ intent'.fresh = intent.fresh
           /\ intent'.token = intent.token
           /\ Request => intent'.status = intent.status
<1>1. intent \in IntentRec /\ runner \in [Runners -> PassRec] /\ runner[r] \in PassRec
  BY Fields, PassFields DEF TypeInv
<1>2. runner'[r].token = runner[r].token
  BY TokenKept DEF Busy
<1>f. ~Finish(r) /\ ~Goto(r, "sourcing") /\ ~Goto(r, "completing")
  BY <1>1 DEF Finish, Idle, Goto, Busy, PassRec
<1>3. CASE RecordResult(r)
  <2>1. runner[r].result = "booked" /\ ~Request /\ runner[r].pc = "answered"
    BY <1>3, <1>f DEF RecordResult, OnCommitResponse
  <2>2. intent' = [intent EXCEPT !.status = "awaiting_verification", !.rsv = "booked_unverified",
                     !.conf = runner[r].known]
    BY <1>3, <2>1 DEF RecordResult, ResultPatch, OnCommitResponse
  <2> QED BY <1>1, <1>2, <2>1, <2>2 DEF IntentRec, Busy
<1>4. CASE ~RecordResult(r)
  <2>1. intent' = intent /\ runner[r].pc \notin {"idle", "sourcing", "completing"}
    BY <1>4, <1>f DEF RunnerStep, LookUpOpen, PersistPreview, AbortBeforeOpen, SearchDuplicate, AskToOpen,
       DriftAtOpen, CheckUnfinished, CheckAlreadyBooked, OpenAttempt, FailValidation, Commit,
       DropResult, RecordSource, CompleteRequest, SearchJourneys, SearchFails, PostReadback,
       FindOpenAttempt, CloseOpenAttempt, SettleCancel, SettleVerified, SettleNone, SettleOther, Die
  <2> QED BY <1>2, <2>1 DEF Busy
<1> QED BY <1>3, <1>4

(* A pass that only writes down a verified reservation takes the claim from *)
(* nobody but one who holds it over that reservation.                       *)
LEMMA TailMoves ==
    ASSUME TypeInv, InLane, NEW r \in Runners, RunnerStep(r), ~Claim(r), ~Busy(runner[r])
    PROVE  /\ Request \/ UNCHANGED intent
           /\ \/ intent.status = "reservation_verified"
              \/ /\ intent'.holder = intent.holder /\ intent'.fresh = intent.fresh
                 /\ intent'.token = intent.token
                 /\ intent'.status \in {intent.status, "completed"}
           /\ source' = source \/ source'.status = "booked"
           /\ UNCHANGED <<standing, ledger>>
<1>1. intent \in IntentRec
  BY Fields DEF TypeInv
<1>2. RecordSource(r) \/ CompleteRequest(r) \/ Die(r)
  BY DEF Busy, RunnerStep, LookUpOpen, PersistPreview, AbortBeforeOpen, SearchDuplicate, AskToOpen,
       DriftAtOpen, CheckUnfinished, CheckAlreadyBooked, OpenAttempt, FailValidation, Commit,
       RecordResult, DropResult, SearchJourneys, SearchFails, PostReadback,
       FindOpenAttempt, CloseOpenAttempt, SettleCancel, SettleVerified, SettleNone, SettleOther
<1>3. CASE RecordSource(r)
  <2>1. Request
    BY <1>3 DEF RecordSource, InLane
  <2> QED BY <1>3, <2>1 DEF RecordSource, enterprise
<1>4. CASE CompleteRequest(r)
  <2>1. Request
    BY <1>4 DEF CompleteRequest, InLane
  <2> QED BY <1>1, <1>4, <2>1 DEF CompleteRequest, enterprise, IntentRec
<1>5. CASE Die(r)
  BY <1>5 DEF Die, enterprise
<1> QED BY <1>2, <1>3, <1>4, <1>5

(* A busy pass is the only one.                                             *)
LEMMA OnlyOne ==
    ASSUME SoloInv, ~usurped, NEW r \in Runners, NEW s \in Runners,
           Busy(runner[r]), Busy(runner[s])
    PROVE  r = s
BY SameClaim DEF SoloInv, Solo

LEMMA SoloRunner ==
    ASSUME SoloInv, NEW r \in Runners, RunnerStep(r)
    PROVE  Solo'
<1>1. TypeInv /\ TypeOK /\ Solo /\ InLane
  BY DEF SoloInv, TypeInv
<1>2. intent'.lane = intent.lane /\ (Request' <=> Request)
  BY <1>1, LaneStays DEF Next, Request
<1>3. SUFFICES ASSUME ~usurped, NEW s \in Runners, Busy(runner'[s])
               PROVE  /\ intent'.holder = s /\ intent'.token = runner'[s].token /\ intent'.fresh
                      /\ Request => intent'.status # "reservation_verified"
  BY <1>2, NotUsurped DEF Solo, HoldsClaim
<1>4. /\ intent \in IntentRec /\ runner \in [Runners -> PassRec]
      /\ s # r => runner'[s] = runner[s]
  BY <1>1, Alone, Fields
<1>5. CASE Claim(r) /\ s = r
  <2>1. intent'.holder = r /\ intent'.fresh /\ intent'.token = runner'[r].token
    BY <1>4, <1>5 DEF Claim, Idle, IntentRec
  <2>2. intent'.status # "reservation_verified"
    BY <1>4, <1>5 DEF Claim, Claimable, IntentRec
  <2> QED BY <1>5, <2>1, <2>2
<1>6. CASE Claim(r) /\ s # r
  BY <1>1, <1>3, <1>4, <1>6 DEF Claim, Claimable, Solo
<1>7. CASE ~Claim(r) /\ s = r
  BY <1>1, <1>3, <1>7, BusyMoves DEF Solo, HoldsClaim
<1>8. CASE ~Claim(r) /\ s # r
  <2>1. Busy(runner[s]) /\ ~Busy(runner[r])
    BY <1>3, <1>4, <1>8, OnlyOne
  <2>2. /\ HoldsClaim(s) /\ intent.fresh
        /\ Request => intent.status # "reservation_verified"
    BY <1>1, <1>3, <2>1 DEF Solo
  <2>3. /\ intent'.holder = intent.holder /\ intent'.fresh = intent.fresh
        /\ intent'.token = intent.token /\ intent'.status \in {intent.status, "completed"}
    BY <1>1, <1>8, <2>1, <2>2, TailMoves
  <2> QED BY <1>4, <1>8, <2>2, <2>3 DEF HoldsClaim
<1> QED BY <1>5, <1>6, <1>7, <1>8

LEMMA OutsideEffect ==
    ASSUME (\E p \in Staff : StaffStep(p)) \/ PanelStep \/ LeaseRunsOut \/ Overstay
    PROVE  /\ UNCHANGED <<runner, ledger, made>>
           /\ standing' \subseteq standing
           /\ usurped => usurped'
<1>u. KeepsClaim \/ TakesClaim => (usurped => usurped')
  BY Zenon DEF KeepsClaim, TakesClaim
<1>1. ASSUME NEW p \in Staff, StaffStep(p)
      PROVE  UNCHANGED <<runner, ledger, made, standing>> /\ (usurped => usurped')
  <2>1. UNCHANGED <<runner, ledger, made, standing>>
    BY <1>1 DEF StaffStep, AskPreview, AskRetry, AskCancel, CheckAttempts, Write, AskAttach, Attach,
                enterprise
  <2>2. KeepsClaim \/ TakesClaim
    BY <1>1 DEF StaffStep, AskPreview, AskRetry, AskCancel, CheckAttempts, Write, AskAttach, Attach,
                KeepsClaim, bounds
  <2> QED BY <1>u, <2>1, <2>2
<1>2. ASSUME PanelStep
      PROVE  UNCHANGED <<runner, ledger, made>> /\ standing' \subseteq standing /\ (usurped => usurped')
  <2>1. UNCHANGED <<runner, ledger, made>> /\ standing' \subseteq standing
    BY <1>2 DEF PanelStep, Confirm, Approve, EditInputs, RecordCancellation, Abandon, AfterReservation,
                CancelByHand, enterprise
  <2>2. KeepsClaim \/ TakesClaim
    BY <1>2 DEF PanelStep, Confirm, Approve, EditInputs, RecordCancellation, Abandon, AfterReservation,
                CancelByHand, KeepsClaim, bounds
  <2> QED BY <1>u, <2>1, <2>2
<1>3. CASE LeaseRunsOut \/ Overstay
  BY <1>3 DEF LeaseRunsOut, Overstay, enterprise, bounds
<1> QED BY <1>1, <1>2, <1>3

(* What staff, the panel and the clock do while no pass at work loses its   *)
(* claim.                                                                   *)
LEMMA OutsideClaim ==
    ASSUME SoloInv, (\E p \in Staff : StaffStep(p)) \/ PanelStep \/ LeaseRunsOut \/ Overstay
    PROVE  /\ UNCHANGED <<runner, ledger>>
           /\ standing' \subseteq standing
           /\ usurped => usurped'
           /\ \A r \in Runners : ~usurped' /\ Busy(runner[r]) =>
                /\ intent'.holder = intent.holder /\ intent'.fresh = intent.fresh
                /\ intent'.token = intent.token
                /\ intent'.status = "reservation_verified" =>
                      intent.status = "reservation_verified" \/ ~Request
                /\ source' = source \/ source'.status = "approved"
<1>1. intent \in IntentRec /\ TypeInv /\ Solo /\ InLane
  BY Fields DEF SoloInv, TypeInv
<1>u. usurped \in BOOLEAN
  BY <1>1 DEF TypeInv, TypeOK
<1>2. /\ UNCHANGED <<runner, ledger>>
      /\ standing' \subseteq standing
      /\ usurped => usurped'
  BY OutsideEffect
<1>3. SUFFICES ASSUME NEW r \in Runners, ~usurped', Busy(runner[r])
               PROVE  /\ intent'.holder = intent.holder /\ intent'.fresh = intent.fresh
                      /\ intent'.token = intent.token
                      /\ intent'.status = "reservation_verified" =>
                            intent.status = "reservation_verified" \/ ~Request
                      /\ source' = source \/ source'.status = "approved"
  BY <1>2
<1>4. AtWork
  BY <1>1, <1>2, <1>3 DEF AtWork, Solo, Busy
<1>5. ~TakesClaim /\ ~LeaseRunsOut /\ ~Overstay
  BY <1>3, <1>4 DEF TakesClaim, LeaseRunsOut, Overstay
<1>6. ASSUME NEW p \in Staff, StaffStep(p)
      PROVE  /\ source' = source
             /\ \/ intent' = intent
                \/ staff[p].pc = "writing" /\ intent' = Patched(staff[p].to)
                \/ Attach(p)
  BY <1>5, <1>6 DEF StaffStep, AskPreview, AskRetry, AskCancel, CheckAttempts, Write, AskAttach, Attach
<1>7. ASSUME NEW p \in Staff, staff[p].pc = "writing", intent' = Patched(staff[p].to)
      PROVE  /\ intent'.holder = intent.holder /\ intent'.fresh = intent.fresh
             /\ intent'.token = intent.token
             /\ intent'.status = "reservation_verified" =>
                   intent.status = "reservation_verified" \/ ~Request
  BY <1>1, <1>7 DEF Patched, InLane, IntentRec
<1>8. CASE PanelStep
  <2>1. CASE Approve
    <3>1. intent' = intent /\ source'.status = "approved"
      BY <1>1, <2>1 DEF Approve, TypeInv, TypeOK
    <3> QED BY <3>1
  <2>3. CASE Confirm \/ EditInputs \/ AfterReservation
    <3>1. source' = source /\ \E s \in Statuses \ {"reservation_verified"} :
                                 intent' = [intent EXCEPT !.status = s]
      BY <2>3 DEF Confirm, EditInputs, AfterReservation, Statuses
    <3> QED BY <1>1, <3>1 DEF IntentRec
  <2>2. CASE \E n \in AttemptNos : CancelByHand(n)
    BY <2>2 DEF CancelByHand
  <2> QED BY <1>5, <1>8, <2>1, <2>2, <2>3 DEF PanelStep, RecordCancellation, Abandon
<1>9. ASSUME NEW p \in Staff, Attach(p)
      PROVE  /\ intent'.holder = intent.holder /\ intent'.fresh = intent.fresh
             /\ intent'.token = intent.token /\ intent'.status = intent.status
  BY <1>1, <1>9, AttachEffect DEF TypeInv
<1> QED BY <1>5, <1>6, <1>7, <1>8, <1>9

LEMMA InLaneKept == ASSUME TypeInv, InLane, Next PROVE InLane'
<1>1. Request' <=> Request
  BY LaneStays DEF Request
<1>2. ASSUME NEW r \in Runners, RunnerStep(r) PROVE InLane'
  <2>1. staff' = staff /\ \A s \in Runners \ {r} : runner'[s] = runner[s]
    BY <1>2, NotUsurped, Alone DEF TypeInv
  <2>2. runner \in [Runners -> PassRec]
    BY Fields DEF TypeInv
  <2>3. runner'[r].pc \in {"sourcing", "completing"} => Request
    <3>1. CASE RecordSource(r)
      BY <3>1 DEF RecordSource, InLane
    <3>2. CASE RecordResult(r)
      <4>1. Request \/ Finish(r) \/ Goto(r, "searching")
        BY <3>2 DEF RecordResult, OnCommitResponse
      <4> QED BY <2>2, <4>1 DEF Finish, Idle, Goto, PassRec
    <3>3. CASE SettleVerified(r)
      <4>1. Request \/ Finish(r)
        BY <3>3 DEF SettleVerified
      <4> QED BY <2>2, <4>1 DEF Finish, Idle
    <3>4. CASE ~(RecordSource(r) \/ RecordResult(r) \/ SettleVerified(r))
      BY <1>2, <3>4, Moves DEF TypeInv
    <3> QED BY <3>1, <3>2, <3>3, <3>4
  <2> QED BY <1>1, <2>1, <2>3 DEF InLane
<1>3. ASSUME NEW p \in Staff, StaffStep(p) PROVE InLane'
  <2>1. staff \in [Staff -> StaffRec]
    BY Fields DEF TypeInv
  <2>2. runner' = runner
    BY <1>3 DEF StaffStep, AskPreview, AskRetry, AskCancel, CheckAttempts, Write, AskAttach, Attach
  <2>3. /\ \A q \in Staff \ {p} : staff'[q] = staff[q]
        /\ Request => staff'[p].to # "reservation_verified"
    <3>1. CASE AskRetry(p)
      <4>1. Request => RetryTo(intent) # "reservation_verified"
        BY <3>1 DEF AskRetry, RetryTo
      <4> QED BY <2>1, <3>1, <4>1 DEF AskRetry, Decide
    <3>2. CASE ~AskRetry(p)
      BY <1>3, <2>1, <3>2 DEF StaffStep, AskPreview, AskCancel, CheckAttempts, Write, AskAttach,
                              Attach, Decide, Resting
    <3> QED BY <3>1, <3>2
  <2> QED BY <1>1, <2>2, <2>3 DEF InLane
<1>4. CASE PanelStep \/ LeaseRunsOut \/ Overstay
  <2>1. UNCHANGED <<runner, staff>>
    BY <1>4 DEF PanelStep, Confirm, Approve, EditInputs, RecordCancellation, Abandon,
                    AfterReservation, CancelByHand, LeaseRunsOut, Overstay
  <2> QED BY <1>1, <2>1 DEF InLane
<1> QED BY <1>2, <1>3, <1>4 DEF Next

LEMMA SoloKept == ASSUME SoloInv, Next PROVE Solo'
<1>1. TypeInv /\ Solo
  BY DEF SoloInv
<1>2. Request' <=> Request
  BY <1>1, LaneStays DEF Request
<1>3. ASSUME NEW r \in Runners, RunnerStep(r) PROVE Solo'
  BY <1>3, SoloRunner
<1>4. CASE (\E p \in Staff : StaffStep(p)) \/ PanelStep \/ LeaseRunsOut \/ Overstay
  <2> SUFFICES ASSUME ~usurped', NEW r \in Runners, Busy(runner'[r])
               PROVE  /\ HoldsClaim(r)' /\ intent'.fresh
                      /\ Request => intent'.status # "reservation_verified"
    BY <1>2 DEF Solo
  <2>1. runner' = runner /\ ~usurped
    BY <1>4, OutsideClaim
  <2>2. /\ HoldsClaim(r) /\ intent.fresh
        /\ Request => intent.status # "reservation_verified"
    BY <1>1, <2>1 DEF Solo
  <2>3. /\ intent'.holder = intent.holder /\ intent'.fresh = intent.fresh
        /\ intent'.token = intent.token
        /\ intent'.status = "reservation_verified"
             => intent.status = "reservation_verified" \/ ~Request
    BY <1>4, <2>1, OutsideClaim
  <2> QED BY <2>1, <2>2, <2>3 DEF HoldsClaim
<1> QED BY <1>3, <1>4 DEF Next

LEMMA SearchStays == ASSUME Next PROVE search' = search
<1>1. ASSUME NEW r \in Runners, RunnerStep(r) PROVE search' = search
  BY <1>1 DEF RunnerStep, enterprise, Claim, LookUpOpen, PersistPreview, AbortBeforeOpen, SearchDuplicate,
       AskToOpen, DriftAtOpen, CheckUnfinished, CheckAlreadyBooked, OpenAttempt, FailValidation, Commit,
       RecordResult, DropResult, RecordSource, CompleteRequest, SearchJourneys, SearchFails,
       PostReadback, FindOpenAttempt, CloseOpenAttempt, SettleCancel, SettleVerified, SettleNone,
       SettleOther, Die
<1>2. ASSUME NEW p \in Staff, StaffStep(p) PROVE search' = search
  BY <1>2 DEF StaffStep, AskPreview, AskRetry, AskCancel, CheckAttempts, Write, AskAttach, Attach,
              enterprise
<1>3. CASE PanelStep \/ LeaseRunsOut \/ Overstay
  BY <1>3 DEF PanelStep, Confirm, Approve, EditInputs, RecordCancellation, Abandon, AfterReservation,
              CancelByHand, LeaseRunsOut, Overstay, enterprise
<1> QED BY <1>1, <1>2, <1>3 DEF Next

(* A pass that gets past its duplicate search has seen nothing.             *)
LEMMA AskingMoves ==
    ASSUME TypeOK, NEW r \in Runners, RunnerStep(r), runner'[r].pc \in Asking
    PROVE  /\ UNCHANGED <<source, standing>> /\ ~Commit(r)
           /\ runner[r].pc \in Asking \/ {} \in Sights
           /\ runner'[r].pc \in Opening => runner[r].pc \in Opening \/ Eligible
<1>1. runner \in [Runners -> PassRec]
  BY Fields
<1>2. CASE SearchDuplicate(r)
  <2>1. PICK seen \in Sights :
          runner' = [runner EXCEPT ![r].seen = seen, ![r].known = None,
                                   ![r].pc = IF seen = {} THEN "asking" ELSE "posting"]
    BY <1>2 DEF SearchDuplicate
  <2>2. runner'[r].pc = IF seen = {} THEN "asking" ELSE "posting"
    BY <1>1, <2>1 DEF PassRec
  <2> QED BY <1>2, <2>1, <2>2, SMTT(30) DEF SearchDuplicate, enterprise, Asking, Opening, Commit
<1>3. CASE AskToOpen(r)
  <2>1. runner'[r].pc \in {"opening", "idle"}
    BY <1>1, <1>3 DEF AskToOpen, Finish, Idle, PassRec
  <2> QED BY <1>3, <2>1 DEF AskToOpen, enterprise, Asking, Opening, Commit
<1>4. CASE CheckUnfinished(r)
  BY <1>4 DEF CheckUnfinished, enterprise, Asking, Commit
<1>5. CASE CheckAlreadyBooked(r)
  BY <1>5 DEF CheckAlreadyBooked, enterprise, Asking, Opening, Commit
<1>6. CASE OpenAttempt(r)
  BY <1>6 DEF OpenAttempt, enterprise, Asking, Opening, Commit
<1> QED BY <1>2, <1>3, <1>4, <1>5, <1>6, Moves

LEMMA AskingIsBusy == \A q : q.pc \in Asking => Busy(q)
BY DEF Asking, Busy

LEMMA ClearKept == ASSUME SoloInv, Next PROVE Clear'
<1>1. TypeInv /\ TypeOK /\ Clear
  BY DEF SoloInv, TypeInv
<1>2. SUFFICES ASSUME search = "full", ~usurped'
               PROVE  /\ \A m, n \in standing' : m = n
                      /\ \A s \in Runners : runner'[s].pc \in Asking => standing' = {}
  BY SearchStays DEF Clear
<1>3. ASSUME NEW r \in Runners, RunnerStep(r)
      PROVE  /\ \A m, n \in standing' : m = n
             /\ \A s \in Runners : runner'[s].pc \in Asking => standing' = {}
  <2>1. /\ ~usurped
        /\ \A m, n \in standing : m = n
        /\ \A s \in Runners : runner[s].pc \in Asking => standing = {}
        /\ Sights = {standing}
    BY <1>1, <1>2, <1>3, NotUsurped DEF Clear, Sights
  <2>2. \A s \in Runners \ {r} : runner'[s] = runner[s]
    BY <1>1, <1>3, Alone
  <2>3. CASE Commit(r)
    <3>1. runner[r].pc \in Asking /\ standing = {}
      BY <2>1, <2>3 DEF Commit, Asking
    <3>2. standing' \subseteq {runner[r].att}
      BY <2>3, <3>1 DEF Commit, enterprise
    <3>3. ASSUME NEW s \in Runners, runner'[s].pc \in Asking PROVE FALSE
      <4>1. s # r
        BY <1>1, <1>3, <2>3, <3>3, AskingMoves
      <4>2. Busy(runner[s]) /\ Busy(runner[r])
        BY <2>2, <3>1, <3>3, <4>1, AskingIsBusy
      <4> QED BY <2>1, <4>1, <4>2, OnlyOne
    <3> QED BY <3>2, <3>3
  <2>4. CASE ~Commit(r)
    <3>1. standing' = standing
      BY <1>1, <1>3, <2>4, Quiet, CloseEffect, OpenEffect
    <3>2. runner'[r].pc \in Asking => standing = {}
      BY <1>1, <1>3, <2>1, AskingMoves
    <3> QED BY <2>1, <2>2, <3>1, <3>2
  <2> QED BY <2>3, <2>4
<1>4. CASE (\E p \in Staff : StaffStep(p)) \/ PanelStep \/ LeaseRunsOut \/ Overstay
  <2>1. runner' = runner /\ standing' \subseteq standing /\ ~usurped
    BY <1>2, <1>4, OutsideClaim
  <2> QED BY <1>1, <1>2, <2>1 DEF Clear
<1> QED BY <1>3, <1>4 DEF Next

LEMMA ApprovalKept == ASSUME SoloInv, Next PROVE Approval'
<1>1. TypeInv /\ TypeOK /\ Approval /\ InLane
  BY DEF SoloInv, TypeInv
<1>2. Request' <=> Request
  BY <1>1, LaneStays DEF Request
<1>3. SUFFICES ASSUME Request, ~usurped', NEW s \in Runners, runner'[s].pc \in Opening
               PROVE  source'.status \in {"approved", "booked"}
  BY <1>2 DEF Approval
<1>4. ASSUME NEW r \in Runners, RunnerStep(r)
      PROVE  source'.status \in {"approved", "booked"}
  <2>1. ~usurped
    BY <1>3, <1>4, NotUsurped
  <2>2. CASE s = r
    <3>1. source' = source /\ (runner[r].pc \in Opening \/ Eligible)
      BY <1>1, <1>3, <1>4, <2>2, AskingMoves DEF Opening, Asking
    <3> QED BY <1>1, <1>3, <2>1, <3>1 DEF Approval, Eligible
  <2>3. CASE s # r
    <3>1. runner[s].pc \in Opening /\ Busy(runner[s])
      BY <1>1, <1>3, <1>4, <2>3, Alone DEF Opening, Busy
    <3>2. source.status \in {"approved", "booked"} /\ ~Busy(runner[r])
      BY <1>1, <1>3, <2>1, <2>3, <3>1, OnlyOne DEF Approval
    <3>3. source' = source \/ source'.status = "booked"
      <4>1. CASE Claim(r)
        BY <4>1 DEF Claim
      <4>2. CASE ~Claim(r)
        BY <1>1, <1>4, <3>2, <4>2, TailMoves
      <4> QED BY <4>1, <4>2
    <3> QED BY <3>2, <3>3
  <2> QED BY <2>2, <2>3
<1>5. CASE (\E p \in Staff : StaffStep(p)) \/ PanelStep \/ LeaseRunsOut \/ Overstay
  <2>1. runner' = runner /\ ~usurped /\ Busy(runner[s]) /\ runner[s].pc \in Opening
    BY <1>3, <1>5, OutsideClaim DEF Opening, Busy
  <2>2. source' = source \/ source'.status = "approved"
    BY <1>3, <1>5, <2>1, OutsideClaim
  <2> QED BY <1>1, <1>3, <2>1, <2>2 DEF Approval
<1> QED BY <1>4, <1>5 DEF Next

LEMMA SoloHolds == (Init => SoloInv) /\ (SoloInv /\ [Next]_vars => SoloInv')
<1>1. ASSUME Init PROVE SoloInv
  <2>1. \A r \in Runners : runner[r].pc = "idle"
    BY <1>1 DEF Init, Idle
  <2>2. standing = {} /\ \A p \in Staff : staff[p].pc = "idle"
    BY <1>1 DEF Init, Resting
  <2> QED BY <1>1, <2>1, <2>2, InitTypes
          DEF SoloInv, Solo, InLane, Clear, Approval, Busy, Asking, Opening
<1>2. ASSUME SoloInv, Next PROVE SoloInv'
  <2>1. TypeInv /\ InLane /\ TypeInv'
    BY <1>2, StepTypes DEF SoloInv
  <2> QED BY <1>2, <2>1, SoloKept, InLaneKept, ClearKept, ApprovalKept DEF SoloInv
<1>3. ASSUME SoloInv, UNCHANGED vars PROVE SoloInv'
  <2>1. TypeInv'
    BY <1>3, StepTypes DEF SoloInv
  <2>2. Solo' /\ InLane'
    BY <1>3 DEF SoloInv, vars, Solo, InLane, HoldsClaim, Request
  <2>3. Clear' /\ Approval'
    BY <1>3 DEF SoloInv, vars, Clear, Approval, Request
  <2> QED BY <2>1, <2>2, <2>3 DEF SoloInv
<1> QED BY <1>1, <1>2, <1>3

(* Whatever dies, is retried or comes late: as long as the journey search   *)
(* shows what stands and no pass at work loses its claim, no two            *)
(* reservations ever stand at once for one intent.                          *)
THEOREM NoDoubleBooking == Spec => []NeverBookedTwice
<1>1. SoloInv => NeverBookedTwice
  <2> SUFFICES ASSUME \A m, n \in standing : m = n PROVE Cardinality(standing) <= 1
    BY DEF SoloInv, Clear, NeverBookedTwice
  <2>1. CASE standing = {}
    BY <2>1, FS_EmptySet
  <2>2. CASE standing # {}
    <3>1. PICK n \in standing : standing = {n}
      BY <2>2
    <3> QED BY <3>1, FS_Singleton
  <2> QED BY <2>1, <2>2
<1> QED BY <1>1, SoloHolds, PTL DEF Spec

(* Nobody's car is committed for a request that was sent back for review or *)
(* removed since the pass read its approval, as long as no pass at work     *)
(* loses its claim.                                                         *)
THEOREM CommitsAreApproved == Spec => CommitsForApproved
<1>1. SoloInv /\ [Next]_vars
        => [made' # made /\ Request /\ ~usurped => source.status \in {"approved", "booked"}]_vars
  <2> SUFFICES ASSUME SoloInv, Next, made' # made, Request, ~usurped
               PROVE  source.status \in {"approved", "booked"}
    OBVIOUS
  <2>1. TypeInv /\ Approval
    BY DEF SoloInv
  <2>2. PICK r \in Runners : RunnerStep(r)
    BY OutsideEffect DEF Next
  <2>3. Commit(r)
    BY <2>1, <2>2, Quiet, OpenEffect, CloseEffect
  <2> QED BY <2>1, <2>3 DEF Approval, Opening, Commit
<1> QED BY <1>1, SoloHolds, PTL DEF Spec, CommitsForApproved

-----------------------------------------------------------------------------
(* Removed requests.  Nobody holds the claim of an abandoned intent, and    *)
(* whoever still is at a commit has had its attempt closed by a readback.   *)
Gone ==
    intent.status = "abandoned" =>
       /\ intent.holder = Nobody
       /\ \A r \in Runners : runner[r].pc = "opened" => ledger[runner[r].att].outcome \in Readings

GoneInv == TruthInv /\ Gone

LEMMA RunnerReleases ==
    ASSUME TypeInv, NEW r \in Runners, RunnerStep(r)
    PROVE  /\ intent'.status = "abandoned" => intent.status = "abandoned"
           /\ intent.status = "abandoned" => intent'.holder \in {intent.holder, Nobody}
<1>1. intent \in IntentRec
  BY Fields DEF TypeInv
<1>2. CASE Claim(r)
  BY <1>1, <1>2 DEF Claim, Claimable, IntentRec
<1>3. CASE PersistPreview(r) \/ AbortBeforeOpen(r) \/ DriftAtOpen(r) \/ SettleOther(r)
  BY <1>1, <1>3 DEF PersistPreview, AbortBeforeOpen, DriftAtOpen, SettleOther, Released, IntentRec
<1>4. CASE RecordResult(r)
  BY <1>1, <1>4 DEF RecordResult, ResultPatch, Released, IntentRec
<1>5. CASE RecordSource(r) \/ CompleteRequest(r)
  BY <1>1, <1>5 DEF RecordSource, CompleteRequest, Released, IntentRec
<1>6. CASE SettleCancel(r) \/ SettleVerified(r)
  BY <1>1, <1>6 DEF SettleCancel, SettleVerified, Released, IntentRec
<1>7. CASE SettleNone(r)
  BY <1>1, <1>7 DEF SettleNone, Released, IntentRec
<1>8. CASE UNCHANGED intent
  BY <1>8
<1> QED BY <1>2, <1>3, <1>4, <1>5, <1>6, <1>7, <1>8
        DEF RunnerStep, LookUpOpen, SearchDuplicate, AskToOpen, CheckUnfinished, CheckAlreadyBooked,
            OpenAttempt, FailValidation, Commit, DropResult, SearchJourneys, SearchFails,
            PostReadback, FindOpenAttempt, CloseOpenAttempt, Die

LEMMA OutsideReleases ==
    ASSUME TypeInv, (\E p \in Staff : StaffStep(p)) \/ PanelStep \/ LeaseRunsOut \/ Overstay
    PROVE  /\ intent'.status = "abandoned" => intent.status = "abandoned" \/ Abandon
           /\ intent'.holder \in {intent.holder, Nobody}
<1>1. intent \in IntentRec
  BY Fields DEF TypeInv
<1>2. ASSUME NEW p \in Staff, StaffStep(p)
      PROVE  /\ intent'.status = "abandoned" => intent.status = "abandoned"
             /\ intent'.holder \in {intent.holder, Nobody}
  <2>1. CASE Write(p)
    <3>1. staff[p].to # "abandoned"
      BY <2>1 DEF Write, TypeInv, Aims
    <3> QED BY <1>1, <2>1, <3>1 DEF Write, Patched, Released, IntentRec
  <2>2. CASE Attach(p)
    BY <2>2, AttachEffect DEF TypeInv
  <2>3. CASE ~Write(p) /\ ~Attach(p)
    BY <1>2, <2>3 DEF StaffStep, AskPreview, AskRetry, AskCancel, CheckAttempts, AskAttach
  <2> QED BY <2>1, <2>2, <2>3
<1>3. CASE PanelStep
  <2>1. CASE RecordCancellation \/ Abandon
    BY <1>1, <2>1 DEF RecordCancellation, Abandon, Released, IntentRec
  <2>2. CASE Confirm \/ Approve \/ EditInputs \/ AfterReservation
    <3>1. intent' = intent \/ \E s \in Statuses \ {"abandoned"} :
                                 intent' = [intent EXCEPT !.status = s]
      BY <2>2 DEF Confirm, Approve, EditInputs, AfterReservation, Statuses
    <3> QED BY <1>1, <3>1 DEF IntentRec
  <2>3. CASE \E n \in AttemptNos : CancelByHand(n)
    BY <2>3 DEF CancelByHand
  <2> QED BY <1>3, <2>1, <2>2, <2>3 DEF PanelStep
<1>4. CASE LeaseRunsOut \/ Overstay
  BY <1>1, <1>4 DEF LeaseRunsOut, Overstay, IntentRec
<1> QED BY <1>2, <1>3, <1>4

LEMMA GoneKept == ASSUME GoneInv, [Next]_vars PROVE Gone'
<1>1. TypeInv /\ TypeOK /\ TruthInv /\ Gone
  BY DEF GoneInv, TruthInv, TypeInv
<1>2. SUFFICES ASSUME intent'.status = "abandoned"
               PROVE  /\ intent'.holder = Nobody
                      /\ \A s \in Runners : runner'[s].pc = "opened"
                                             => ledger'[runner'[s].att].outcome \in Readings
  BY DEF Gone
<1>3. ASSUME NEW r \in Runners, RunnerStep(r)
      PROVE  /\ intent'.holder = Nobody
             /\ \A s \in Runners : runner'[s].pc = "opened"
                                    => ledger'[runner'[s].att].outcome \in Readings
  <2>1. intent.status = "abandoned" /\ intent.holder = Nobody
    BY <1>1, <1>2, <1>3, RunnerReleases DEF Gone
  <2>2. intent'.holder = Nobody
    BY <1>1, <1>3, <2>1, RunnerReleases
  <2>3. ~HoldsClaim(r)
    BY <2>1, BookingAssumption DEF HoldsClaim
  <2>4. ~RecordResult(r)
    BY <2>3 DEF RecordResult, ResultCounts
  <2>5. runner'[r].pc # "opened"
    <3>1. runner \in [Runners -> PassRec]
      BY <1>1, Fields
    <3>2. CASE OpenAttempt(r)
      <4>1. Finish(r)
        BY <1>1, <2>3, <3>2 DEF OpenAttempt, GatePasses
      <4> QED BY <3>1, <4>1 DEF Finish, Idle
    <3> QED BY <1>1, <1>3, <3>2, Moves
  <2>6. ASSUME NEW s \in Runners, runner'[s].pc = "opened"
        PROVE  ledger'[runner'[s].att].outcome \in Readings
    <3>1. s # r /\ runner'[s] = runner[s] /\ ledger[runner[s].att].outcome \in Readings
      BY <1>1, <1>3, <2>1, <2>5, <2>6, Alone DEF Gone
    <3>2. runner[s].att \in AttemptNos
      BY <1>1, <2>6, <3>1, PassFields DEF TypeInv, Holding, Holds, Refs
    <3>3. CASE CloseOpenAttempt(r)
      BY <1>1, <3>1, <3>2, <3>3, CloseEffect
    <3>4. CASE ~CloseOpenAttempt(r)
      <4>1. ledger' = ledger
        BY <1>1, <1>3, <2>3, <2>4, <3>4, Quiet, CommitEffect, OpenEffect DEF GatePasses
      <4> QED BY <3>1, <4>1
    <3> QED BY <3>3, <3>4
  <2> QED BY <2>2, <2>6
<1>4. CASE (\E p \in Staff : StaffStep(p)) \/ PanelStep \/ LeaseRunsOut \/ Overstay
  <2>1. runner' = runner /\ ledger' = ledger
    BY <1>4, OutsideEffect
  <2>2. CASE intent.status = "abandoned"
    BY <1>1, <1>4, <2>1, <2>2, OutsideReleases DEF Gone
  <2>3. CASE Abandon
    <3>1. intent'.holder = Nobody
      BY <1>1, <2>3, Fields DEF Abandon, Released, IntentRec
    <3>2. ASSUME NEW s \in Runners, runner[s].pc = "opened"
          PROVE  ledger[runner[s].att].outcome \in Readings
      <4>1. ledger[runner[s].att].outcome \in {"open"} \cup Readings
        BY <1>1, <3>2 DEF TruthInv, Truth, Knows
      <4>2. runner[s].att \in AttemptNos
        BY <1>1, <3>2, PassFields DEF TypeInv, Holding, Holds, Refs
      <4>3. Used(runner[s].att)
        BY <4>1 DEF Used, Readings
      <4>4. ledger[runner[s].att].outcome \in ProvenClean
        BY <2>3, <4>2, <4>3 DEF Abandon, AttemptsAreClean
      <4> QED BY <4>1, <4>4 DEF ProvenClean
    <3> QED BY <2>1, <3>1, <3>2
  <2> QED BY <1>1, <1>2, <1>4, <2>2, <2>3, OutsideReleases
<1>5. CASE UNCHANGED vars
  BY <1>1, <1>2, <1>5 DEF Gone, vars
<1> QED BY <1>3, <1>4, <1>5 DEF Next

(* Before a request is removed a readback has sworn away whatever was made  *)
(* for it, and afterwards no pass commits but one whose attempt a readback  *)
(* closed while it was still at its commit.                                 *)
THEOREM RemovalHolds == Spec => RemovalIsFinal
<1>1. Init => GoneInv
  <2>1. Init => Gone
    BY DEF Init, Gone
  <2> QED BY <2>1, InitTypes, InitTruth DEF GoneInv, TruthInv
<1>2. GoneInv /\ [Next]_vars => GoneInv'
  BY StepTruth, GoneKept DEF GoneInv
<1> DEFINE Final ==
      /\ intent'.status = "abandoned" /\ intent.status # "abandoned"
           => \A n \in made : ledger[n].outcome = "no_reservation_found"
      /\ intent.status = "abandoned"
           => \A n \in made' \ made : ledger[n].outcome \in Readings
<1>3. GoneInv /\ [Next]_vars => [Final]_vars
  <2> SUFFICES ASSUME GoneInv, Next PROVE Final
    OBVIOUS
  <2>1. TypeInv /\ TruthInv /\ Gone
    BY DEF GoneInv, TruthInv
  <2>2. ASSUME intent'.status = "abandoned", intent.status # "abandoned", NEW n \in made
        PROVE  ledger[n].outcome = "no_reservation_found"
    <3>1. Abandon
      BY <2>1, <2>2, RunnerReleases, OutsideReleases DEF Next
    <3>2. n \in AttemptNos /\ Used(n) /\ ledger[n].outcome # "failed_clean"
      BY <2>1, <2>2, Fields DEF TypeInv, TruthInv, Truth, Recorded, LedgerTellsTheTruth
    <3> QED BY <3>1, <3>2 DEF Abandon, AttemptsAreClean, ProvenClean
  <2>3. ASSUME intent.status = "abandoned", NEW n \in made' \ made
        PROVE  ledger[n].outcome \in Readings
    <3>1. PICK r \in Runners : RunnerStep(r)
      BY <2>3, OutsideEffect DEF Next
    <3>2. Commit(r)
      BY <2>1, <2>3, <3>1, Quiet, OpenEffect, CloseEffect
    <3>3. runner[r].pc = "opened" /\ n = runner[r].att
      BY <2>1, <2>3, <3>2, CommitEffect
    <3> QED BY <2>1, <2>3, <3>3 DEF Gone
  <2> QED BY <2>2, <2>3
<1> QED BY <1>1, <1>2, <1>3, PTL DEF Spec, RemovalIsFinal

-----------------------------------------------------------------------------
(* The ledger implements AttemptLedger.                                     *)

(* A pass that opens an attempt holds the latest claim, so its token is     *)
(* above that of every row.                                                 *)
LEMMA OpensNext ==
    ASSUME FenceInv, NEW r \in Runners, OpenAttempt(r), ~UNCHANGED <<ledger, made, standing>>
    PROVE  Attempts!Next
<1>1. TypeInv /\ TypeOK /\ Fence
  BY DEF FenceInv, TruthInv, TypeInv
<1>2. PICK n \in AttemptNos :
        /\ ~Used(n) /\ (\A m \in AttemptNos : m < n => Used(m)) /\ GatePasses(r)
        /\ made' = made
        /\ ledger'[n].outcome = "open" /\ ledger'[n].token = runner[r].token
        /\ \A m \in AttemptNos \ {n} : ledger'[m] = ledger[m]
  BY <1>1, OpenEffect, Zenon
<1>3. runner[r].pc = "gating" /\ \A m \in AttemptNos : ~Open(m)
  BY DEF OpenAttempt, enterprise
<1>4. ASSUME NEW m \in AttemptNos, Used(m)
      PROVE  ledger[m].token < ledger'[n].token /\ ledger[m].outcome # "open"
  <2>1. ledger[m].token <= intent.token /\ ledger[m].token # runner[r].token
    BY <1>1, <1>3, <1>4 DEF Fence, Early
  <2>2. runner[r].token = intent.token
    BY <1>2 DEF GatePasses, HoldsClaim
  <2>3. ledger[m].token \in Nat /\ intent.token \in Nat
    BY <1>1, Fields DEF AttemptRec, IntentRec
  <2> QED BY <1>2, <1>3, <2>1, <2>2, <2>3 DEF Open
<1>5. ledger' = [ledger EXCEPT ![n] = ledger'[n]]
  <2>1. ledger \in [AttemptNos -> AttemptRec] /\ ledger' \in [AttemptNos -> AttemptRec]
    BY <1>1, LedgerTyped, Fields DEF RunnerStep
  <2> QED BY <1>2, <2>1
<1>6. Attempts!Open(n)
  BY <1>2, <1>4, <1>5 DEF Attempts!Open, Attempts!Used, Attempts!Says, Used
<1> QED BY <1>2, <1>6 DEF Attempts!Next

(* Every step of a pass is a step of the ledger, or none.                   *)
LEMMA LedgerMoves ==
    ASSUME FenceInv, NEW r \in Runners, RunnerStep(r)
    PROVE  [Attempts!Next]_(Attempts!vars)
<1>1. TypeInv /\ TypeOK /\ Knows(runner[r])
  BY DEF FenceInv, TruthInv, TypeInv, Truth
<1>2. CASE UNCHANGED <<ledger, made>>
  BY <1>2 DEF Attempts!vars
<1>3. CASE OpenAttempt(r)
  BY <1>2, <1>3, OpensNext
<1>4. CASE Commit(r) /\ made' # made
  <2>1. /\ runner[r].pc = "opened" /\ ledger' = ledger
        /\ made' = made \cup {runner[r].att}
    BY <1>1, <1>4, CommitEffect
  <2>2. runner[r].att \in AttemptNos
    BY <1>1, <2>1, PassFields DEF TypeInv, Holding, Holds, Refs
  <2>3. Attempts!Make(runner[r].att)
    BY <1>1, <2>1 DEF Knows, Readings, Attempts!Make, Attempts!Says, Attempts!Readings
  <2> QED BY <2>2, <2>3 DEF Attempts!Next
<1>5. CASE RecordResult(r)
  <2>1. runner[r].att \in AttemptNos /\ made' = made
    BY <1>1, <1>5, CloseEffect
  <2>2. /\ ledger[runner[r].att].outcome = "open" /\ runner[r].pc = "answered"
        /\ ledger' = [ledger EXCEPT ![runner[r].att].outcome = runner[r].result]
    BY <1>5 DEF RecordResult, ResultCounts, Open
  <2>3. runner[r].result \in Results
    BY <1>1, <2>2, PassFields DEF TypeInv, Holding, Holds
  <2>4. Attempts!Report(runner[r].att, runner[r].result)
    BY <1>1, <2>1, <2>2, <2>3
       DEF Knows, Results, Attempts!Report, Attempts!Says, Attempts!Close
  <2> QED BY <2>1, <2>3, <2>4 DEF Attempts!Next, Results
<1>6. CASE CloseOpenAttempt(r)
  <2>1. runner[r].att \in AttemptNos /\ made' = made
    BY <1>1, <1>6, CloseEffect
  <2>2. ReadingOf(runner[r].verdict) \in Attempts!Readings
    BY DEF ReadingOf, Attempts!Readings
  <2>3. Attempts!Overrule(runner[r].att, ReadingOf(runner[r].verdict))
    BY <1>1, <1>6, <2>1, <2>2
       DEF CloseOpenAttempt, Knows, Used, Attempts!Overrule, Attempts!Used, Attempts!Close
  <2> QED BY <2>1, <2>2, <2>3 DEF Attempts!Next
<1>7. CASE Commit(r) /\ made' = made
  BY <1>1, <1>2, <1>7, CommitEffect
<1> QED BY <1>2, <1>3, <1>4, <1>5, <1>6, <1>7, Quiet

(* Whatever passes die, come late or race with readbacks and staff, the     *)
(* ledger of attempts keeps the promises of AttemptLedger.                  *)
THEOREM LedgerImplementsAttempts == Spec => LedgerIsKept
<1>1. Init => Attempts!Init
  BY DEF Init, Unused, None, Attempts!Init, Attempts!Absent
<1>2. FenceInv /\ [Next]_vars => [Attempts!Next]_(Attempts!vars)
  <2> SUFFICES ASSUME FenceInv, [Next]_vars PROVE [Attempts!Next]_(Attempts!vars)
    OBVIOUS
  <2>1. CASE UNCHANGED <<ledger, made>>
    BY <2>1 DEF Attempts!vars
  <2>2. CASE (\E p \in Staff : StaffStep(p)) \/ PanelStep \/ LeaseRunsOut \/ Overstay
    BY <2>1, <2>2, OutsideEffect
  <2> QED BY <2>1, <2>2, LedgerMoves DEF Next, vars
<1> QED BY <1>1, <1>2, FenceHolds, PTL DEF Spec, LedgerIsKept, Attempts!Spec
=============================================================================
