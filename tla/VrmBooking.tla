----------------------------- MODULE VrmBooking ------------------------------
(***************************************************************************)
(* One rental booking intent (server/vrm/forms/cutover-orchestrator.ts) and *)
(* the runners that serve it (server/vrm/etd/executor.ts and the Python     *)
(* fallback): the preview, the confirmation, the leased claim with its      *)
(* fencing token, the ledger of booking attempts, the commit at Enterprise  *)
(* and the readback that settles it; beside them staff who preview,         *)
(* confirm, retry, cancel, attach a confirmation and record a cancellation. *)
(*                                                                         *)
(* A handler that reads and writes later is several steps: cancel, retry    *)
(* and attach read the intent and write it later, a readback judges it,     *)
(* closes an attempt and then writes it.  Enterprise may refuse a commit,   *)
(* accept it, accept it and have the answer lost, or answer with a page     *)
(* that says neither.  Its journey search may fail, and sees only           *)
(* past-dated journeys: a search of that kind may miss what stands.         *)
(* A reservation goes by the number of the attempt that made it.            *)
(***************************************************************************)
EXTENDS Naturals, FiniteSets

CONSTANTS
    Runners, Nobody,
    Staff,          \* staff members at the panel
    Lanes,          \* subset of {"cutover", "request"}
    Hashes,         \* the reservations a pass can ask for (branch, day, class)
    Searches,       \* subset of {"full", "past"}: what a journey search can see
    MaxAttempts,    \* bound: rows of the attempt ledger
    MaxClaims,      \* bound: claims, that is the fencing token
    MaxFaults,      \* bound: passes that die, overstay a lease or find no search
    MaxStaff        \* bound: what staff do

ASSUME BookingAssumption ==
    /\ Nobody \notin Runners
    /\ Lanes \subseteq {"cutover", "request"}
    /\ Searches \subseteq {"full", "past"}
    /\ MaxAttempts \in Nat /\ MaxClaims \in Nat /\ MaxFaults \in Nat /\ MaxStaff \in Nat

VARIABLES
    intent,    \* vrm_rental_workflow_intents
    source,    \* the vrm_rental_request behind a request intent
    ledger,    \* vrm_workflow_attempts, phase etd_booking
    runner,    \* what each pass is at
    staff,     \* what each staff member is at
    made,      \* reservations Enterprise ever made for this intent
    standing,  \* those not cancelled since
    search,    \* what its journey search sees
    usurped,   \* whether a pass at work ever lost its claim to time or to staff
    faults, acts

vars == <<intent, source, ledger, runner, staff, made, standing, search,
          usurped, faults, acts>>
enterprise == <<made, standing, search>>
bounds == <<usurped, faults, acts>>

AttemptNos == 1..MaxAttempts
None == 0                       \* no attempt, no confirmation on file

Statuses ==
    {"created", "preview_pending", "preview_ready", "preview_required", "confirmed",
     "booking", "awaiting_verification", "booking_unknown", "reservation_verified",
     "manual_review", "cancel_pending_readback", "completed", "cancelled", "abandoned"}

Terminal == {"completed", "cancelled", "abandoned"}

ReservationStates == {"pending", "unknown", "booked_unverified", "verified", "failed"}

Possible == {"booked_unverified", "verified", "unknown"}

(* What op_result and a readback write as the outcome of an attempt.        *)
Results == {"booked", "failed_clean", "exception", "unparsed"}
Readings == {"booked_via_readback", "no_reservation_found", "readback_other"}
ProvenClean == {"failed_clean", "no_reservation_found"}

Unused == [outcome |-> "absent", token |-> 0, hash |-> None]

Idle ==
    [pc |-> "idle", token |-> 0, kind |-> "none", att |-> None, hash |-> None, known |-> None,
     result |-> "none", seen |-> {}, verdict |-> "none", status |-> "none", rsv |-> "none"]

Resting == [pc |-> "idle", status |-> "none", to |-> "none", conf |-> None]

Init ==
    /\ \E l \in Lanes :
          intent = [lane |-> l, status |-> "created", rsv |-> "pending", conf |-> None,
                    holder |-> Nobody, fresh |-> FALSE, token |-> 0]
    /\ source = [status |-> "approved", ref |-> None]
    /\ ledger = [n \in AttemptNos |-> Unused]
    /\ runner = [r \in Runners |-> Idle]
    /\ staff = [p \in Staff |-> Resting]
    /\ made = {} /\ standing = {} /\ search \in Searches
    /\ usurped = FALSE /\ faults = 0 /\ acts = 0

-----------------------------------------------------------------------------
Request == intent.lane = "request"
Open(n) == ledger[n].outcome = "open"
Used(n) == ledger[n].outcome # "absent"

(* verifyClaim.                                                             *)
HoldsClaim(r) == intent.holder = r /\ intent.token = runner[r].token

GatePasses(r) == HoldsClaim(r) /\ intent.fresh

Released(i) == [i EXCEPT !.holder = Nobody, !.fresh = FALSE]

(* returnRequestToPendingReview.                                            *)
BackToReview ==
    source' = IF Request /\ source.status = "approved"
              THEN [source EXCEPT !.status = "pending"] ELSE source

(* What a journey search may identify, by reference or confirmation.        *)
Sights == IF search = "past" THEN SUBSET standing ELSE {standing}

(* What the eligibility gates ask of the request itself.                    *)
Eligible == Request => source.status = "approved"

Goto(r, pc) == runner' = [runner EXCEPT ![r].pc = pc]
Finish(r) == runner' = [runner EXCEPT ![r] = Idle]

-----------------------------------------------------------------------------
(* claimBookingWork.  Its lanes differ in the status they pick.             *)
Claimable_anyLease ==
    \/ intent.status = "awaiting_verification" /\ intent.rsv = "booked_unverified"
    \/ intent.status \in {"cancel_pending_readback", "preview_pending", "confirmed", "booking"}

Claimable ==
    /\ ~intent.fresh
    /\ \/ intent.status = "awaiting_verification" /\ intent.rsv = "booked_unverified"
       \/ intent.status \in {"cancel_pending_readback", "preview_pending", "confirmed", "booking"}

KindOf(i) ==
    CASE i.status = "preview_pending" -> "preview"
      [] \/ i.status \in {"awaiting_verification", "cancel_pending_readback"}
         \/ i.rsv \in {"unknown", "booked_unverified"} -> "reconcile"
      [] OTHER -> "book"

Claim(r) ==
    /\ runner[r].pc = "idle"
    /\ Claimable /\ intent.token < MaxClaims
    /\ intent' = [intent EXCEPT
                    !.status = IF intent.status = "confirmed" THEN "booking" ELSE @,
                    !.holder = r, !.fresh = TRUE, !.token = @ + 1]
    /\ runner' = [runner EXCEPT ![r] = [Idle EXCEPT
                    !.pc = "picked", !.token = intent.token + 1,
                    !.kind = KindOf(intent), !.known = intent.conf]]
    /\ UNCHANGED <<source, ledger, staff, enterprise, bounds>>

(* Its look-up of an open attempt, a statement later.                       *)
LookUpOpen(r) ==
    /\ runner[r].pc = "picked"
    /\ runner' = [runner EXCEPT
         ![r].pc = CASE runner[r].kind = "preview" -> "previewing"
                     [] runner[r].kind = "reconcile" \/ \E n \in AttemptNos : Open(n) -> "searching"
                     [] OTHER -> "booking"]
    /\ UNCHANGED <<intent, source, ledger, staff, enterprise, bounds>>

(* persistPreviewFromRunner: every write re-asserts status and claim.  A    *)
(* preview that fails sends its request back to review.                     *)
PersistPreview(r) ==
    /\ runner[r].pc = "previewing"
    /\ IF HoldsClaim(r) /\ intent.status = "preview_pending"
       THEN \E s \in {"preview_ready", "preview_required"} :
               /\ intent' = Released([intent EXCEPT !.status = s])
               /\ IF s = "preview_required" THEN BackToReview ELSE UNCHANGED source
       ELSE UNCHANGED <<intent, source>>
    /\ Finish(r)
    /\ UNCHANGED <<ledger, staff, enterprise, bounds>>

-----------------------------------------------------------------------------
(* runBook up to the commit.                                                *)

(* aborted_before_open: any gate before op_open, the duplicate search too.  *)
AbortBeforeOpen(r) ==
    /\ runner[r].pc = "booking"
    /\ IF /\ HoldsClaim(r) /\ intent.status = "booking"
          /\ \A n \in AttemptNos : Used(n) => ledger[n].token # runner[r].token
       THEN intent' = Released([intent EXCEPT !.status = "preview_required"]) /\ BackToReview
       ELSE UNCHANGED <<intent, source>>
    /\ Finish(r)
    /\ UNCHANGED <<ledger, staff, enterprise, bounds>>

(* The duplicate search: what it identifies is posted as a readback.        *)
SearchDuplicate(r) ==
    /\ runner[r].pc = "booking"
    /\ \E seen \in Sights :
          runner' = [runner EXCEPT ![r].seen = seen, ![r].known = None,
                                   ![r].pc = IF seen = {} THEN "asking" ELSE "posting"]
    /\ UNCHANGED <<intent, source, ledger, staff, enterprise, bounds>>

(* op_open: verifyClaim with a live lease, the status, the gates.           *)
AskToOpen(r) ==
    /\ runner[r].pc = "asking"
    /\ IF GatePasses(r) /\ intent.status = "booking"
       THEN \E h \in Hashes : runner' = [runner EXCEPT ![r].pc = "opening", ![r].hash = h]
       ELSE Finish(r)
    /\ UNCHANGED <<intent, source, ledger, staff, enterprise, bounds>>

(* Drift found by those gates: an unguarded write.                          *)
DriftAtOpen(r) ==
    /\ runner[r].pc = "opening"
    /\ intent' = Released([intent EXCEPT !.status = "preview_required"])
    /\ BackToReview
    /\ Finish(r)
    /\ UNCHANGED <<ledger, staff, enterprise, bounds>>

(* openBookingAttempt: unfinished_attempt, already_booked, then the gate    *)
(* and the insert in one statement.  A refusal keeps the claim.             *)
CheckUnfinished(r) ==
    /\ runner[r].pc = "opening" /\ Eligible
    /\ IF \E n \in AttemptNos : Open(n) THEN Finish(r) ELSE Goto(r, "hashing")
    /\ UNCHANGED <<intent, source, ledger, staff, enterprise, bounds>>

CheckAlreadyBooked(r) ==
    /\ runner[r].pc = "hashing"
    /\ IF \E n \in AttemptNos : ledger[n].outcome = "booked" /\ ledger[n].hash = runner[r].hash
       THEN Finish(r) ELSE Goto(r, "gating")
    /\ UNCHANGED <<intent, source, ledger, staff, enterprise, bounds>>

NextNo(n) == ~Used(n) /\ \A m \in AttemptNos : m < n => Used(m)

OpenAttempt_noGate(r) ==
    /\ runner[r].pc = "gating"
    /\ IF \A m \in AttemptNos : ~Open(m)
       THEN \E n \in AttemptNos :
              /\ NextNo(n)
              /\ ledger' = [ledger EXCEPT
                    ![n] = [outcome |-> "open", token |-> runner[r].token, hash |-> runner[r].hash]]
              /\ runner' = [runner EXCEPT ![r].pc = "opened", ![r].att = n]
       ELSE Finish(r) /\ UNCHANGED ledger
    /\ UNCHANGED <<intent, source, staff, enterprise, bounds>>

OpenAttempt(r) ==
    /\ runner[r].pc = "gating"
    /\ IF GatePasses(r) /\ \A m \in AttemptNos : ~Open(m)
       THEN \E n \in AttemptNos :
              /\ NextNo(n)
              /\ ledger' = [ledger EXCEPT
                    ![n] = [outcome |-> "open", token |-> runner[r].token, hash |-> runner[r].hash]]
              /\ runner' = [runner EXCEPT ![r].pc = "opened", ![r].att = n]
       ELSE Finish(r) /\ UNCHANGED ledger
    /\ UNCHANGED <<intent, source, staff, enterprise, bounds>>

(* A validation gate refuses: nothing was committed.                        *)
FailValidation(r) ==
    /\ runner[r].pc = "opened"
    /\ runner' = [runner EXCEPT ![r].pc = "answered", ![r].result = "failed_clean"]
    /\ UNCHANGED <<intent, source, ledger, staff, enterprise, bounds>>

(* mutant: what was thrown proves that nothing was made.                    *)
Commit_throwIsClean(r) ==
    /\ runner[r].pc = "opened"
    /\ \E result \in {"booked", "unparsed", "failed_clean"}, landed \in BOOLEAN :
          /\ result = "booked" => landed
          /\ IF landed
             THEN /\ made' = made \cup {runner[r].att}
                  /\ standing' = standing \cup {runner[r].att}
                  /\ UNCHANGED search
             ELSE UNCHANGED enterprise
          /\ runner' = [runner EXCEPT ![r].pc = "answered", ![r].result = result,
                          ![r].known = IF result = "booked" THEN runner[r].att ELSE None]
    /\ UNCHANGED <<intent, source, ledger, staff, bounds>>

(* confirmReservation.  It answers with a confirmation; or with a body in   *)
(* which the parser finds none, any page that came with a 2xx status among  *)
(* them; or throws: the last two whether or not the reservation was made.   *)
Commit(r) ==
    /\ runner[r].pc = "opened"
    /\ \E result \in {"booked", "unparsed", "exception"}, landed \in BOOLEAN :
          /\ result = "booked" => landed
          /\ IF landed
             THEN /\ made' = made \cup {runner[r].att}
                  /\ standing' = standing \cup {runner[r].att}
                  /\ UNCHANGED search
             ELSE UNCHANGED enterprise
          /\ runner' = [runner EXCEPT ![r].pc = "answered", ![r].result = result,
                          ![r].known = IF result = "booked" THEN runner[r].att ELSE None]
    /\ UNCHANGED <<intent, source, ledger, staff, bounds>>
-----------------------------------------------------------------------------
(* op_result: one transaction that re-asserts the status and the claim,     *)
(* closes the attempt and moves the intent.                                 *)
OnCommitResponse(r) == Request /\ runner[r].result = "booked"

ResultPatch(r) ==
    LET i == intent IN
    CASE OnCommitResponse(r) ->
           Released([i EXCEPT !.status = "reservation_verified", !.rsv = "verified",
                              !.conf = runner[r].known])
      [] runner[r].result = "booked" /\ ~Request ->
           [i EXCEPT !.status = "awaiting_verification", !.rsv = "booked_unverified",
                     !.conf = runner[r].known]
      [] runner[r].result = "failed_clean" ->
           Released([i EXCEPT !.status = IF Request THEN "preview_required" ELSE "manual_review",
                              !.rsv = "failed"])
      [] OTHER -> Released([i EXCEPT !.status = "booking_unknown", !.rsv = "unknown"])

ResultCounts(r) ==
    /\ HoldsClaim(r) /\ intent.status = "booking"
    /\ Open(runner[r].att) /\ ledger[runner[r].att].token = runner[r].token

RecordResult(r) ==
    /\ runner[r].pc = "answered" /\ ResultCounts(r)
    /\ ledger' = [ledger EXCEPT ![runner[r].att].outcome = runner[r].result]
    /\ intent' = ResultPatch(r)
    /\ IF runner[r].result = "failed_clean" THEN BackToReview ELSE UNCHANGED source
    /\ CASE OnCommitResponse(r) -> Goto(r, "sourcing")
         [] runner[r].result = "booked" /\ ~Request -> Goto(r, "searching")
         [] OTHER -> Finish(r)
    /\ UNCHANGED <<staff, enterprise, bounds>>

(* A result that is nobody's: refused, or acknowledged without effect.      *)
DropResult(r) ==
    /\ runner[r].pc = "answered" /\ ~ResultCounts(r)
    /\ Finish(r)
    /\ UNCHANGED <<intent, source, ledger, staff, enterprise, bounds>>

(* recordRequestBookedSource: never over a different confirmation.          *)
RecordSource(r) ==
    /\ runner[r].pc = "sourcing"
    /\ IF source.status # "removed" /\ source.ref \in {None, runner[r].known}
       THEN /\ source' = [status |-> "booked", ref |-> runner[r].known]
            /\ Goto(r, "completing") /\ UNCHANGED intent
       ELSE /\ intent' = IF intent.status = "reservation_verified"
                         THEN Released([intent EXCEPT !.status = "manual_review", !.rsv = "unknown"])
                         ELSE intent
            /\ Finish(r) /\ UNCHANGED source
    /\ UNCHANGED <<ledger, staff, enterprise, bounds>>

(* finalizeCompletion of a request, on the status it observed.              *)
CompleteRequest(r) ==
    /\ runner[r].pc = "completing"
    /\ intent' = IF intent.rsv = "verified" /\ intent.status \notin Terminal
                 THEN [intent EXCEPT !.status = "completed"] ELSE intent
    /\ Finish(r)
    /\ UNCHANGED <<source, ledger, staff, enterprise, bounds>>

-----------------------------------------------------------------------------
(* The readback.                                                            *)
SearchJourneys(r) ==
    /\ runner[r].pc = "searching"
    /\ \E seen \in Sights : runner' = [runner EXCEPT ![r].pc = "posting", ![r].seen = seen]
    /\ UNCHANGED <<intent, source, ledger, staff, enterprise, bounds>>

(* A search that fails is not authoritative: nothing but last_error moves.  *)
SearchFails(r) ==
    /\ runner[r].pc = "searching" /\ faults < MaxFaults
    /\ Finish(r) /\ faults' = faults + 1
    /\ UNCHANGED <<intent, source, ledger, staff, enterprise, usurped, acts>>

(* classifyJourneyReadback; whether branch, day and class agree is free.    *)
Expected(r) == IF runner[r].known # None THEN runner[r].known ELSE intent.conf

Verdicts_anyJourney(r) ==
    CASE runner[r].seen = {} -> {"none"}
      [] Cardinality(runner[r].seen) > 1 -> {"multiple"}
      [] OTHER -> {"verified", "mismatch"}

Verdicts(r) ==
    CASE runner[r].seen = {} -> {"none"}
      [] Cardinality(runner[r].seen) > 1 -> {"multiple"}
      [] OTHER -> IF Expected(r) \in runner[r].seen THEN {"verified", "mismatch"} ELSE {"mismatch"}

(* recordBookingPostback, readback: what the handler judges by.             *)
PostReadback(r) ==
    /\ runner[r].pc = "posting"
    /\ IF HoldsClaim(r) /\ intent.status \notin Terminal
       THEN \E v \in Verdicts(r) :
              runner' = [runner EXCEPT ![r].pc = "judged", ![r].verdict = v, ![r].known = Expected(r),
                                       ![r].status = intent.status, ![r].rsv = intent.rsv]
       ELSE Finish(r)
    /\ UNCHANGED <<intent, source, ledger, staff, enterprise, bounds>>

ReadingOf_raw(v) == v

ReadingOf(v) ==
    CASE v = "verified" -> "booked_via_readback"
      [] v = "none" -> "no_reservation_found"
      [] OTHER -> "readback_other"

(* It looks for an open attempt, and closes it by its number only.          *)
OpenNo == IF \E n \in AttemptNos : Open(n) THEN CHOOSE n \in AttemptNos : Open(n) ELSE None

FindOpenAttempt(r) ==
    /\ runner[r].pc = "judged"
    /\ runner' = [runner EXCEPT ![r].att = OpenNo, ![r].pc = IF OpenNo = None THEN "settling" ELSE "closing"]
    /\ UNCHANGED <<intent, source, ledger, staff, enterprise, bounds>>

CloseOpenAttempt(r) ==
    /\ runner[r].pc = "closing"
    /\ ledger' = [ledger EXCEPT ![runner[r].att].outcome = ReadingOf(runner[r].verdict)]
    /\ Goto(r, "settling")
    /\ UNCHANGED <<intent, source, staff, enterprise, bounds>>

(* The cancel lane, each write on cancel_pending_readback.  Journeys that   *)
(* carry a confirmation nobody knows (possibleUnlinked) are a free choice.  *)
CancelLane(r) == runner[r].status = "cancel_pending_readback"

SettleCancel(r) ==
    /\ runner[r].pc = "settling" /\ CancelLane(r)
    /\ \E s \in {"cancelled", "manual_review"} :
          /\ s = "cancelled" => runner[r].verdict = "none"
          /\ intent' = IF intent.status = "cancel_pending_readback"
                       THEN Released([intent EXCEPT !.status = s]) ELSE intent
    /\ Finish(r)
    /\ UNCHANGED <<source, ledger, staff, enterprise, bounds>>

(* Verified: a compare-and-set from the statuses a readback may move.       *)
SettleVerified(r) ==
    /\ runner[r].pc = "settling" /\ ~CancelLane(r) /\ runner[r].verdict = "verified"
    /\ IF intent.status \in {"awaiting_verification", "booking", "booking_unknown"}
       THEN /\ intent' = [intent EXCEPT !.status = "reservation_verified", !.rsv = "verified",
                                        !.conf = runner[r].known]
            /\ IF Request THEN Goto(r, "sourcing") ELSE Finish(r)
       ELSE Finish(r) /\ UNCHANGED intent
    /\ UNCHANGED <<source, ledger, staff, enterprise, bounds>>

(* Nothing booked under a result nobody knew: bookable again, unguarded.    *)
CleanNone(r) ==
    /\ runner[r].verdict = "none"
    /\ \/ runner[r].status = "booking_unknown"
       \/ runner[r].status = "booking" /\ runner[r].rsv = "unknown"

SettleNone(r) ==
    /\ runner[r].pc = "settling" /\ ~CancelLane(r) /\ CleanNone(r)
    /\ intent' = Released([intent EXCEPT !.rsv = "pending",
                             !.status = IF Request THEN "preview_required" ELSE "confirmed"])
    /\ BackToReview
    /\ Finish(r)
    /\ UNCHANGED <<ledger, staff, enterprise, bounds>>

(* Anything else is a human's, again unguarded.  (A request never gets here *)
(* with a booking of its own: its op_result has verified it already.)       *)
SettleOther(r) ==
    /\ runner[r].pc = "settling" /\ ~CancelLane(r)
    /\ runner[r].verdict # "verified" /\ ~CleanNone(r)
    /\ intent' = Released([intent EXCEPT !.status = "manual_review"])
    /\ Finish(r)
    /\ UNCHANGED <<source, ledger, staff, enterprise, bounds>>

-----------------------------------------------------------------------------
(* A pass may die at any await, or outlive its lease.                       *)
Die(r) ==
    /\ runner[r].pc # "idle" /\ faults < MaxFaults
    /\ Finish(r) /\ faults' = faults + 1
    /\ UNCHANGED <<intent, source, ledger, staff, enterprise, usurped, acts>>

AtWork == \E r \in Runners : runner[r].pc # "idle" /\ HoldsClaim(r)

LeaseRunsOut ==
    /\ intent.fresh /\ ~AtWork
    /\ intent' = [intent EXCEPT !.fresh = FALSE]
    /\ UNCHANGED <<source, ledger, runner, staff, enterprise, bounds>>

Overstay ==
    /\ intent.fresh /\ AtWork /\ faults < MaxFaults
    /\ intent' = [intent EXCEPT !.fresh = FALSE] /\ faults' = faults + 1
    /\ usurped' = TRUE
    /\ UNCHANGED <<source, ledger, runner, staff, enterprise, acts>>

-----------------------------------------------------------------------------
(* Staff.  Act counts what they do.                                         *)
Act == acts < MaxStaff /\ acts' = acts + 1

KeepsClaim == UNCHANGED usurped
TakesClaim == usurped' = (usurped \/ AtWork)

Decide(p, pc, to) ==
    staff' = [staff EXCEPT ![p] = [pc |-> pc, status |-> intent.status, to |-> to, conf |-> None]]

(* requestPreview: read, check, and write unguarded.                        *)
AskPreview(p) ==
    /\ staff[p].pc = "idle" /\ Act /\ KeepsClaim
    /\ intent.status \in {"created", "preview_ready", "preview_required", "preview_pending"}
    /\ Decide(p, "writing", "preview_pending")
    /\ UNCHANGED <<intent, source, ledger, runner, enterprise, faults>>

(* confirmIntent: drift found by the gates, or the compare-and-set.         *)
Confirm ==
    /\ intent.status = "preview_ready" /\ Act /\ KeepsClaim
    /\ \E s \in {"confirmed", "preview_required"} :
          /\ s = "confirmed" => Eligible
          /\ intent' = [intent EXCEPT !.status = s]
    /\ UNCHANGED <<source, ledger, runner, staff, enterprise, faults>>

(* A rental request is approved again, or its inputs change under a preview *)
(* (invalidateRequestPreviews).                                             *)
Approve ==
    /\ Request /\ source.status = "pending" /\ Act /\ KeepsClaim
    /\ source' = [source EXCEPT !.status = "approved"]
    /\ UNCHANGED <<intent, ledger, runner, staff, enterprise, faults>>

EditInputs ==
    /\ Request /\ intent.status \in {"preview_pending", "preview_ready"} /\ Act /\ KeepsClaim
    /\ intent' = [intent EXCEPT !.status = "preview_required"]
    /\ UNCHANGED <<source, ledger, runner, staff, enterprise, faults>>

(* retryIntent reads the intent and decides; a request only reconciles.     *)
RetryTo(i) ==
    CASE i.status = "booking_unknown" -> "booking"
      [] i.status = "awaiting_verification" -> "same"
      [] i.rsv = "verified" -> "reservation_verified"
      [] i.rsv \in {"unknown", "booked_unverified"} -> "booking"
      [] OTHER -> "preview_pending"

AskRetry(p) ==
    /\ staff[p].pc = "idle" /\ Act /\ KeepsClaim
    /\ \/ intent.status \in {"preview_required", "manual_review", "booking_unknown"}
       \/ intent.status = "awaiting_verification" /\ intent.rsv = "booked_unverified"
    /\ Request => intent.rsv \in {"unknown", "booked_unverified"}
    /\ LET to == RetryTo(intent) IN
       Decide(p, IF to = "reservation_verified" THEN "writing" ELSE "releasing", to)
    /\ UNCHANGED <<intent, source, ledger, runner, enterprise, faults>>

(* cancelIntent reads the intent, then the attempts, then writes.           *)
AskCancel(p) ==
    /\ staff[p].pc = "idle" /\ Act /\ KeepsClaim /\ intent.status \notin Terminal
    /\ IF intent.rsv \in Possible
       THEN Decide(p, "releasing", "cancel_pending_readback")
       ELSE Decide(p, "checking", "cancelled")
    /\ UNCHANGED <<intent, source, ledger, runner, enterprise, faults>>

AttemptsAreClean_finished == \A n \in AttemptNos : Used(n) /\ ~Open(n) => ledger[n].outcome \in ProvenClean

AttemptsAreClean == \A n \in AttemptNos : Used(n) => ledger[n].outcome \in ProvenClean

CheckAttempts(p) ==
    /\ staff[p].pc = "checking"
    /\ Decide(p, "releasing", IF AttemptsAreClean THEN "cancelled" ELSE "cancel_pending_readback")
    /\ UNCHANGED <<intent, source, ledger, runner, enterprise, bounds>>

(* The write, guarded by nothing.  A preview, and a retry of a verified     *)
(* reservation, leave the claim.                                            *)
Patched(to) == IF to = "same" THEN intent ELSE [intent EXCEPT !.status = to]

Write(p) ==
    /\ \/ staff[p].pc = "writing" /\ intent' = Patched(staff[p].to) /\ KeepsClaim
       \/ staff[p].pc = "releasing" /\ intent' = Released(Patched(staff[p].to)) /\ TakesClaim
    /\ staff' = [staff EXCEPT ![p] = Resting]
    /\ UNCHANGED <<source, ledger, runner, enterprise, faults, acts>>

(* A reservation is cancelled at Enterprise by hand; recorded afterwards.   *)
CancelByHand(n) ==
    /\ n \in standing /\ intent.status \in {"cancel_pending_readback", "manual_review"} /\ Act /\ KeepsClaim
    /\ standing' = standing \ {n}
    /\ UNCHANGED <<intent, source, ledger, runner, staff, made, search, faults>>

RecordCancellation ==
    /\ intent.status \in {"cancel_pending_readback", "manual_review"} /\ standing = {} /\ Act /\ TakesClaim
    /\ intent' = Released([intent EXCEPT !.status = "cancelled"])
    /\ UNCHANGED <<source, ledger, runner, staff, enterprise, faults>>

(* attachReservationConfirmation reads the intent and refuses to go over a  *)
(* different confirmation; its write asks for the same status only.         *)
AskAttach(p, n) ==
    /\ staff[p].pc = "idle" /\ Act /\ KeepsClaim
    /\ n \in standing /\ intent.conf \in {None, n}
    /\ intent.status \in {"booking", "booking_unknown", "awaiting_verification", "manual_review",
                          "cancel_pending_readback"}
    /\ staff' = [staff EXCEPT ![p] =
                    [pc |-> "attaching", status |-> intent.status, to |-> "none", conf |-> n]]
    /\ UNCHANGED <<intent, source, ledger, runner, enterprise, faults>>

Attach(p) ==
    /\ staff[p].pc = "attaching" /\ KeepsClaim
    /\ intent' = IF intent.status = staff[p].status
                 THEN [intent EXCEPT !.conf = staff[p].conf] ELSE intent
    /\ staff' = [staff EXCEPT ![p] = Resting]
    /\ UNCHANGED <<source, ledger, runner, enterprise, faults, acts>>

Abandon_keepsClaim ==
    /\ Request /\ intent.status \notin Terminal /\ Act /\ KeepsClaim
    /\ intent.rsv \in {"pending", "failed"} /\ intent.conf = None /\ AttemptsAreClean
    /\ intent' = [intent EXCEPT !.status = "abandoned"]
    /\ source' = [source EXCEPT !.status = "removed"]
    /\ UNCHANGED <<ledger, runner, staff, enterprise, faults>>

(* The request is removed: its intent is abandoned under the row lock that  *)
(* op_open takes, if nothing names a possible booking.                      *)
Abandon ==
    /\ Request /\ intent.status \notin Terminal /\ Act /\ TakesClaim
    /\ intent.rsv \in {"pending", "failed"} /\ intent.conf = None /\ AttemptsAreClean
    /\ intent' = Released([intent EXCEPT !.status = "abandoned"])
    /\ source' = [source EXCEPT !.status = "removed"]
    /\ UNCHANGED <<ledger, runner, staff, enterprise, faults>>

(* A cutover past its reservation: the block and the texts decide.          *)
AfterReservation ==
    /\ ~Request /\ intent.status = "reservation_verified"
    /\ \E s \in {"completed", "manual_review"} :
          /\ s = "completed" => intent.rsv = "verified"
          /\ intent' = [intent EXCEPT !.status = s]
    /\ UNCHANGED <<source, ledger, runner, staff, enterprise, bounds>>

-----------------------------------------------------------------------------
RunnerStep(r) ==
    \/ Claim(r) \/ LookUpOpen(r) \/ PersistPreview(r)
    \/ AbortBeforeOpen(r) \/ SearchDuplicate(r) \/ AskToOpen(r) \/ DriftAtOpen(r)
    \/ CheckUnfinished(r) \/ CheckAlreadyBooked(r) \/ OpenAttempt(r)
    \/ FailValidation(r) \/ Commit(r) \/ RecordResult(r) \/ DropResult(r)
    \/ RecordSource(r) \/ CompleteRequest(r)
    \/ SearchJourneys(r) \/ SearchFails(r) \/ PostReadback(r) \/ FindOpenAttempt(r) \/ CloseOpenAttempt(r)
    \/ SettleCancel(r) \/ SettleVerified(r) \/ SettleNone(r) \/ SettleOther(r)
    \/ Die(r)

StaffStep(p) ==
    \/ AskPreview(p) \/ AskRetry(p) \/ AskCancel(p) \/ CheckAttempts(p) \/ Write(p)
    \/ Attach(p) \/ \E n \in AttemptNos : AskAttach(p, n)

PanelStep ==
    \/ Confirm \/ Approve \/ EditInputs \/ RecordCancellation \/ Abandon \/ AfterReservation
    \/ \E n \in AttemptNos : CancelByHand(n)

Next ==
    \/ \E r \in Runners : RunnerStep(r)
    \/ \E p \in Staff : StaffStep(p)
    \/ PanelStep \/ LeaseRunsOut \/ Overstay

Spec == Init /\ [][Next]_vars

-----------------------------------------------------------------------------
(* Types.                                                                   *)
Outcomes == {"absent", "open"} \cup Results \cup Readings
RunnerPcs ==
    {"idle", "picked", "previewing", "booking", "searching", "asking", "opening", "hashing",
     "gating", "opened", "answered", "sourcing", "completing", "posting", "judged", "closing", "settling"}
Refs == AttemptNos \cup {None}

IntentRec ==
    [lane : {"cutover", "request"}, status : Statuses, rsv : ReservationStates, conf : Refs,
     holder : Runners \cup {Nobody}, fresh : BOOLEAN, token : Nat]
AttemptRec == [outcome : Outcomes, token : Nat, hash : Hashes \cup {None}]
PassRec ==
    [pc : RunnerPcs, token : Nat, kind : {"none", "preview", "reconcile", "book"}, att : Refs,
     hash : Hashes \cup {None}, known : Refs, result : Results \cup {"none"},
     seen : SUBSET AttemptNos, verdict : {"none", "verified", "mismatch", "multiple"},
     status : Statuses \cup {"none"}, rsv : ReservationStates \cup {"none"}]
StaffRec ==
    [pc : {"idle", "writing", "releasing", "checking", "attaching"}, status : Statuses \cup {"none"},
     to : Statuses \cup {"none", "same"}, conf : Refs]

(* Every column and every step of a pass stays within the values the code   *)
(* has for it, whoever writes it and however late.                          *)
TypeOK ==
    /\ intent \in IntentRec
    /\ source \in [status : {"approved", "pending", "booked", "removed"}, ref : Refs]
    /\ ledger \in [AttemptNos -> AttemptRec]
    /\ runner \in [Runners -> PassRec]
    /\ staff \in [Staff -> StaffRec]
    /\ made \in SUBSET AttemptNos /\ standing \in SUBSET made
    /\ search \in {"full", "past"} /\ usurped \in BOOLEAN
    /\ faults \in Nat /\ acts \in Nat

-----------------------------------------------------------------------------
(* What the workflow promises.                                              *)

(* If the journey search shows what stands and no pass at work ever lost    *)
(* its claim, two reservations never stand at once for one intent: whatever *)
(* dies, is retried or comes late, the open attempt, the unknown result and *)
(* the duplicate search together send the next pass to read back first.     *)
NeverBookedTwice == search = "full" /\ ~usurped => Cardinality(standing) <= 1

(* A verified reservation, a completed intent and the reference a rental    *)
(* request shows name a reservation Enterprise really made: op_result, the  *)
(* readback, an attached confirmation and the source write never pass on    *)
(* one that nobody made.                                                    *)
EvidenceIsReal ==
    /\ intent.rsv = "verified" => intent.conf \in made
    /\ intent.status = "completed" => intent.rsv = "verified"
    /\ source.ref # None => source.ref \in made

(* The ledger never says the opposite of what happened: failed_clean, on    *)
(* which cancel, retry and removal rely, is written only of an attempt that *)
(* made nothing, and booked only of one that made a reservation.  (Unparsed *)
(* and exception claim neither.)                                            *)
LedgerTellsTheTruth ==
    \A n \in AttemptNos :
        /\ ledger[n].outcome = "failed_clean" => n \notin made
        /\ ledger[n].outcome = "booked" => n \in made

(* A request is removed only if a readback swore away whatever was made for *)
(* it, and once it is removed no pass commits, however far it had come when *)
(* the row was taken from under it, but one whose attempt a readback closed *)
(* while it was still at its commit.                                        *)
RemovalIsFinal ==
    [][/\ intent'.status = "abandoned" /\ intent.status # "abandoned"
          => \A n \in made : ledger[n].outcome = "no_reservation_found"
       /\ intent.status = "abandoned"
          => \A n \in made' \ made : ledger[n].outcome \in Readings]_vars

(* Fencing: attempts are opened in the order of their claims, one to a      *)
(* claim.  A pass that lost its lease between its checks and its insert     *)
(* opens nothing behind the back of the pass that followed it.              *)
FencedInOrder ==
    \A m, n \in AttemptNos :
        m < n /\ Used(n) => Used(m) /\ ledger[m].token < ledger[n].token

(* Whatever passes, readbacks and staff do, and in whatever order what they *)
(* do arrives, the rows of the ledger and what Enterprise made live the     *)
(* life that AttemptLedger promises.                                        *)
Attempts == INSTANCE AttemptLedger WITH rows <- ledger, Numbers <- AttemptNos

LedgerIsKept == Attempts!Spec

(* While no pass at work loses its claim, a car is only ever committed for  *)
(* a request that nobody sent back for review or removed since the pass     *)
(* read its approval, several steps before.  (It may have been recorded as  *)
(* booked by an earlier pass: a retry staff asked for long before and write *)
(* now makes a verified intent bookable again.)                             *)
CommitsForApproved ==
    [][made' # made /\ Request /\ ~usurped => source.status \in {"approved", "booked"}]_vars

-----------------------------------------------------------------------------
(* What the code's comments say, and the code does not keep.                *)

(* "Two runners cannot double-book the same intent" (etd/executor.ts:22).   *)
BookedOnce == Cardinality(standing) <= 1
=============================================================================
