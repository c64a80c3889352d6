----------------------------- MODULE CommsQueue ------------------------------
(***************************************************************************)
(* The outbound pipeline of Fleet Communications                            *)
(* (server/fleet-comms/outbound.ts): sendMessage and its manager copy,      *)
(* createBulkSend, the durable queue fs_comms_send_queue with its partial   *)
(* unique index on idempotency_key, and any number of concurrent drains     *)
(* (processSendQueue runs in-process, as a scheduled deployment and as a    *)
(* kick after a bulk send).                                                 *)
(*                                                                         *)
(* Each await is a step of its own.  Twilio may refuse a text, accept it,   *)
(* or accept it after the 15 second timeout has already thrown.  Whether a  *)
(* number is opted out, has a phone, or is in quiet hours when it is looked *)
(* up is free.                                                              *)
(***************************************************************************)
EXTENDS Naturals, FiniteSets

CONSTANTS
    Callers,      \* requests to sendMessage; a retry is another caller
    Keys, NoKey,
    KeyOf,        \* Callers -> the idempotency key, or NoKey
    BodyOf,       \* Callers -> what is said to whom under which category
    Guarded,      \* callers with skipRecentDuplicate
    WantsCc,      \* callers with managerCc, and a manager on file
    Holds,        \* callers with hold (the cutover's morning text)
    Audience,     \* the recipients of the one bulk send
    BulkCc,       \* managerCc of the bulk send
    RowIds,       \* bound: the rows the queue can come to hold
    Processors,   \* concurrent drains
    MaxAttempts,  \* 3 in the code
    CrashLimit,   \* bound: drains that die, of a crash or of a failing catch
    NoRow

ASSUME CommsAssumption ==
    /\ NoKey \notin Keys
    /\ KeyOf \in [Callers -> Keys \cup {NoKey}]
    /\ Guarded \subseteq Callers /\ WantsCc \subseteq Callers /\ Holds \subseteq Callers
    /\ IsFiniteSet(Audience) /\ BulkCc \in BOOLEAN
    /\ RowIds \subseteq Nat /\ NoRow \notin RowIds
    /\ MaxAttempts \in Nat \ {0} /\ CrashLimit \in Nat

VARIABLES
    queue,     \* fs_comms_send_queue
    logged,    \* bodies fs_comms_messages holds as outbound
    caller,    \* what each request is at, and the row it was answered with
    copied,    \* callers whose manager copy reached the provider
    bulk,      \* what createBulkSend is at, and the recipients still to enqueue
    batch,     \* the status of its fs_comms_send_batches row
    proc,      \* what each drain is at, the ids it still has, the row it claimed
    texts,     \* per row, how often Twilio accepted its text
    crashes

vars == <<queue, logged, caller, copied, bulk, batch, proc, texts, crashes>>
requests == <<caller, copied>>
batches == <<bulk, batch>>

Absent ==
    [status |-> "absent", key |-> NoKey, body |-> NoRow, inBatch |-> FALSE,
     cc |-> FALSE, due |-> FALSE, attempts |-> 0]

Statuses ==
    {"absent", "held", "pending", "claimed", "sent", "skipped", "failed", "cancelled"}

Live == {"pending", "claimed"}
Settled == {"sent", "skipped", "failed"}

Exists(r) == queue[r].status # "absent"
RowsOf(k) == {r \in RowIds : Exists(r) /\ queue[r].key = k}

Init ==
    /\ queue = [r \in RowIds |-> Absent]
    /\ logged = {}
    /\ caller = [c \in Callers |-> [pc |-> "idle", path |-> "queue", answer |-> NoRow]]
    /\ copied = {}
    /\ bulk = [pc |-> "idle", todo |-> {}]
    /\ batch = "none"
    /\ proc = [p \in Processors |-> [pc |-> "idle", ids |-> {}, row |-> NoRow]]
    /\ texts = [r \in RowIds |-> 0]
    /\ crashes = 0

-----------------------------------------------------------------------------
(* enqueue: the row takes a new id.                                         *)
NewId(r) == ~Exists(r) /\ \A q \in RowIds : Exists(q) \/ r <= q

Insert(r, row) == NewId(r) /\ queue' = [queue EXCEPT ![r] = row]

(* scheduled_for, also where it is null or now, comes a step later.         *)
Row(status, key, body, inBatch, cc) ==
    [status |-> status, key |-> key, body |-> body, inBatch |-> inBatch,
     cc |-> cc, due |-> FALSE, attempts |-> 0]

(* sendManagerCc, from the body b: no phone, opted out or a failure (caught *)
(* by both callers of it) leaves nothing behind; in quiet hours a row       *)
(* without a key is enqueued; otherwise the provider is called.  reached    *)
(* tells whether it accepted, also when the wait for it then timed out.     *)
(* The copy's wording, <<b>>, is nobody else's: its log entry is left out.  *)
ManagerCc(b, reached) ==
    \/ ~reached /\ UNCHANGED queue
    \/ /\ ~reached
       /\ \E r \in RowIds : Insert(r, Row("pending", NoKey, <<b>>, FALSE, FALSE))
    \/ reached /\ UNCHANGED queue

-----------------------------------------------------------------------------
(* sendMessage.                                                             *)
MoveCaller(c, pc) == caller' = [caller EXCEPT ![c].pc = pc]

RecentDuplicate(b) ==
    b \in logged \/ \E r \in RowIds : queue[r].body = b /\ queue[r].status \in {"pending", "claimed", "sent"}

Keyed(c) == KeyOf[c] # NoKey

(* No phone, opted out, or a duplicate of what was said in the last day.    *)
Refuse(c) ==
    /\ caller[c].pc = "idle"
    /\ MoveCaller(c, "refused")
    /\ UNCHANGED <<queue, logged, copied, batches, proc, texts, crashes>>

(* A known key is answered from its row, with no side effect.               *)
AnswerKnownKey(c) ==
    /\ caller[c].pc = "idle" /\ Keyed(c)
    /\ \E r \in RowsOf(KeyOf[c]) :
          caller' = [caller EXCEPT ![c].pc = "answered", ![c].answer = r]
    /\ UNCHANGED <<queue, logged, copied, batches, proc, texts, crashes>>

(* All gates passed.  Only an undeferred send without a key goes inline.    *)
PassGates(c) ==
    /\ caller[c].pc = "idle"
    /\ Keyed(c) => RowsOf(KeyOf[c]) = {}
    /\ c \in Guarded => ~RecentDuplicate(BodyOf[c])
    /\ \E deferred \in BOOLEAN :
          LET path == IF c \in Holds \/ deferred \/ Keyed(c) THEN "queue" ELSE "inline"
          IN  caller' = [caller EXCEPT ![c].path = path,
                                       ![c].pc = IF c \in WantsCc THEN "copy" ELSE path]
    /\ UNCHANGED <<queue, logged, copied, batches, proc, texts, crashes>>

CopyManager(c) ==
    /\ caller[c].pc = "copy"
    /\ \E reached \in BOOLEAN :
          /\ ManagerCc(BodyOf[c], reached)
          /\ copied' = IF reached THEN copied \cup {c} ELSE copied
    /\ MoveCaller(c, caller[c].path)
    /\ UNCHANGED <<logged, batches, proc, texts, crashes>>

(* mutant: no unique index on the key.                                      *)
EnqueueOwn_noIndex(c) ==
    /\ caller[c].pc = "queue"
    /\ \E r \in RowIds :
          /\ Insert(r, Row(IF c \in Holds THEN "held" ELSE "pending",
                           KeyOf[c], BodyOf[c], FALSE, FALSE))
          /\ caller' = [caller EXCEPT ![c].pc = "answered", ![c].answer = r]
    /\ UNCHANGED <<logged, copied, batches, proc, texts, crashes>>

(* enqueue: insert on conflict do nothing, returning the id.                *)
EnqueueOwn(c) ==
    /\ caller[c].pc = "queue"
    /\ Keyed(c) => RowsOf(KeyOf[c]) = {}
    /\ \E r \in RowIds :
          /\ Insert(r, Row(IF c \in Holds THEN "held" ELSE "pending",
                           KeyOf[c], BodyOf[c], FALSE, FALSE))
          /\ caller' = [caller EXCEPT ![c].pc = "answered", ![c].answer = r]
    /\ UNCHANGED <<logged, copied, batches, proc, texts, crashes>>

(* ... which returns nothing when a concurrent caller won the key ...       *)
LoseKey(c) ==
    /\ caller[c].pc = "queue" /\ Keyed(c)
    /\ RowsOf(KeyOf[c]) # {}
    /\ MoveCaller(c, "reread")
    /\ UNCHANGED <<queue, logged, copied, batches, proc, texts, crashes>>

(* ... and hands back the row that won.                                     *)
ReadWinner(c) ==
    /\ caller[c].pc = "reread"
    /\ \E r \in RowsOf(KeyOf[c]) :
          caller' = [caller EXCEPT ![c].pc = "answered", ![c].answer = r]
    /\ UNCHANGED <<queue, logged, copied, batches, proc, texts, crashes>>

(* The inline send: refused or timed out it throws, accepted it is logged   *)
(* unless the append throws.                                                *)
SendInline(c) ==
    /\ caller[c].pc = "inline"
    /\ \/ MoveCaller(c, "failed") /\ UNCHANGED logged
       \/ MoveCaller(c, "answered") /\ logged' = logged \cup {BodyOf[c]}
    /\ UNCHANGED <<queue, copied, batches, proc, texts, crashes>>

-----------------------------------------------------------------------------
(* createBulkSend.                                                          *)
(* mutant: the batch may be completed from the start.                       *)
OpenBatch_processing ==
    /\ bulk.pc = "idle"
    /\ batch' = "processing"
    /\ \E reachable \in SUBSET Audience : bulk' = [pc |-> "enqueue", todo |-> reachable]
    /\ UNCHANGED <<queue, logged, requests, proc, texts, crashes>>

OpenBatch ==
    /\ bulk.pc = "idle"
    /\ batch' = "pending"
    /\ \E reachable \in SUBSET Audience : bulk' = [pc |-> "enqueue", todo |-> reachable]
    /\ UNCHANGED <<queue, logged, requests, proc, texts, crashes>>

EnqueueBulk ==
    /\ bulk.pc = "enqueue"
    /\ \E b \in bulk.todo, r \in RowIds :
          /\ Insert(r, Row("pending", NoKey, b, TRUE, BulkCc))
          /\ bulk' = [bulk EXCEPT !.todo = @ \ {b}]
    /\ UNCHANGED <<logged, requests, batch, proc, texts, crashes>>

(* Only now may a drain complete the batch.                                 *)
FinishBulk ==
    /\ bulk.pc = "enqueue" /\ bulk.todo = {}
    /\ bulk' = [bulk EXCEPT !.pc = "done"]
    /\ batch' = "processing"
    /\ UNCHANGED <<queue, logged, requests, proc, texts, crashes>>

-----------------------------------------------------------------------------
SetStatus(r, status) == queue' = [queue EXCEPT ![r].status = status]

(* A 'held' row: the cutover workflow releases or cancels it.               *)
Release(r) ==
    /\ queue[r].status = "held"
    /\ SetStatus(r, "pending")
    /\ UNCHANGED <<logged, requests, batches, proc, texts, crashes>>

(* mutant: cancels whatever the row has become.                             *)
Cancel_anyStatus(r) ==
    /\ Exists(r)
    /\ SetStatus(r, "cancelled")
    /\ UNCHANGED <<logged, requests, batches, proc, texts, crashes>>

Cancel(r) ==
    /\ queue[r].status = "held"
    /\ SetStatus(r, "cancelled")
    /\ UNCHANGED <<logged, requests, batches, proc, texts, crashes>>

(* scheduled_for comes.                                                     *)
FallsDue(r) ==
    /\ queue[r].status = "pending" /\ ~queue[r].due
    /\ queue' = [queue EXCEPT ![r].due = TRUE]
    /\ UNCHANGED <<logged, requests, batches, proc, texts, crashes>>

-----------------------------------------------------------------------------
(* processSendQueue.                                                        *)
Own(p) == proc[p].row
At(p, pc) == proc[p].pc = pc
Move(p, pc) == proc' = [proc EXCEPT ![p].pc = pc]
NextRow(p) == proc' = [proc EXCEPT ![p].pc = "loop", ![p].row = NoRow]
Stop(p) == proc' = [proc EXCEPT ![p] = [pc |-> "idle", ids |-> {}, row |-> NoRow]]

SelectDue(p) ==
    /\ At(p, "idle")
    /\ proc' = [proc EXCEPT ![p].pc = "loop",
                 ![p].ids = {r \in RowIds : queue[r].status = "pending" /\ queue[r].due}]
    /\ UNCHANGED <<queue, logged, requests, batches, texts, crashes>>

(* mutant: the claim does not compare.                                      *)
Claim_noCompare(p) ==
    /\ At(p, "loop")
    /\ \E r \in proc[p].ids :
          /\ SetStatus(r, "claimed")
          /\ proc' = [proc EXCEPT ![p] = [pc |-> "gate", ids |-> @.ids \ {r}, row |-> r]]
    /\ UNCHANGED <<logged, requests, batches, texts, crashes>>

(* The compare-and-set claim of the next id, or a race lost.                *)
Claim(p) ==
    /\ At(p, "loop")
    /\ \E r \in proc[p].ids :
          \/ /\ queue[r].status = "pending"
             /\ SetStatus(r, "claimed")
             /\ proc' = [proc EXCEPT ![p] = [pc |-> "gate", ids |-> @.ids \ {r}, row |-> r]]
          \/ /\ queue[r].status # "pending"
             /\ proc' = [proc EXCEPT ![p].ids = @ \ {r}]
             /\ UNCHANGED queue
    /\ UNCHANGED <<logged, requests, batches, texts, crashes>>

(* The phone and the opt-out are read afresh; a read may throw.             *)
Gate(p) ==
    /\ At(p, "gate")
    /\ \/ Move(p, "send") /\ UNCHANGED queue
       \/ Move(p, "count") /\ SetStatus(Own(p), "skipped")
       \/ Move(p, "catch") /\ UNCHANGED queue
    /\ UNCHANGED <<logged, requests, batches, texts, crashes>>

(* Accepted, accepted after the timeout threw, or not accepted.             *)
Send(p) ==
    /\ At(p, "send")
    /\ \/ /\ Move(p, "record") \/ Move(p, "catch")
          /\ texts' = [texts EXCEPT ![Own(p)] = @ + 1]
       \/ Move(p, "catch") /\ UNCHANGED texts
    /\ UNCHANGED <<queue, logged, requests, batches, crashes>>

(* The thread, appendMessage, then markQueue 'sent': each may throw.        *)
Record(p) ==
    /\ At(p, "record")
    /\ \/ /\ Move(p, "count") /\ SetStatus(Own(p), "sent")
          /\ logged' = logged \cup {queue[Own(p)].body}
       \/ /\ Move(p, "catch") /\ UNCHANGED queue
          /\ logged' \in {logged, logged \cup {queue[Own(p)].body}}
    /\ UNCHANGED <<requests, batches, texts, crashes>>

(* bumpBatch, which does nothing for a row of no batch; a sent row then     *)
(* looks up its contact and copies the manager.  A throw of either sends    *)
(* the row, settled as it is, through the same catch.                       *)
Count(p) ==
    /\ At(p, "count")
    /\ \/ queue[Own(p)].inBatch /\ Move(p, "catch") /\ UNCHANGED queue
       \/ /\ queue[Own(p)].status = "sent" /\ queue[Own(p)].cc
          /\ \/ Move(p, "catch") /\ UNCHANGED queue
             \/ NextRow(p) /\ \E reached \in BOOLEAN : ManagerCc(queue[Own(p)].body, reached)
       \/ /\ ~(queue[Own(p)].status = "sent" /\ queue[Own(p)].cc)
          /\ NextRow(p) /\ UNCHANGED queue
    /\ UNCHANGED <<logged, requests, batches, texts, crashes>>

(* mutants: the attempt is not charged; one attempt more; the claim stays.  *)
Catch_uncharged(p) ==
    /\ At(p, "catch")
    /\ SetStatus(Own(p), "pending")
    /\ NextRow(p)
    /\ UNCHANGED <<logged, requests, batches, texts, crashes>>

Catch_oneMore(p) ==
    /\ At(p, "catch")
    /\ LET attempts == queue[Own(p)].attempts + 1
       IN  queue' = [queue EXCEPT ![Own(p)].attempts = attempts,
                       ![Own(p)].status = IF attempts > MaxAttempts THEN "failed" ELSE "pending"]
    /\ NextRow(p)
    /\ UNCHANGED <<logged, requests, batches, texts, crashes>>

Catch_keepsClaim(p) ==
    /\ At(p, "catch")
    /\ queue' = [queue EXCEPT ![Own(p)].attempts = @ + 1]
    /\ NextRow(p)
    /\ UNCHANGED <<logged, requests, batches, texts, crashes>>

(* The catch of a row: back to pending, or failed for good.                 *)
Catch(p) ==
    /\ At(p, "catch")
    /\ LET attempts == queue[Own(p)].attempts + 1
       IN  queue' = [queue EXCEPT ![Own(p)].attempts = attempts,
                       ![Own(p)].status = IF attempts >= MaxAttempts THEN "failed" ELSE "pending"]
    /\ NextRow(p)
    /\ UNCHANGED <<logged, requests, batches, texts, crashes>>

(* Mark fully-drained batches complete.                                     *)
CompleteBatches(p) ==
    /\ At(p, "loop") /\ proc[p].ids = {}
    /\ batch' = IF /\ batch = "processing"
                   /\ \A r \in RowIds : queue[r].inBatch => queue[r].status \notin Live
                THEN "completed" ELSE batch
    /\ Stop(p)
    /\ UNCHANGED <<queue, logged, requests, bulk, texts, crashes>>

(* The process dies, or a throw inside the catch ends the drain: the row it *)
(* had claimed is left as it is, and nothing takes it up again.             *)
Die(p) ==
    /\ ~At(p, "idle")
    /\ crashes < CrashLimit
    /\ crashes' = crashes + 1
    /\ Stop(p)
    /\ UNCHANGED <<queue, logged, requests, batches, texts>>

-----------------------------------------------------------------------------
SendMessageStep(c) ==
    \/ Refuse(c) \/ AnswerKnownKey(c) \/ PassGates(c) \/ CopyManager(c)
    \/ EnqueueOwn(c) \/ LoseKey(c) \/ ReadWinner(c) \/ SendInline(c)

BulkStep == OpenBatch \/ EnqueueBulk \/ FinishBulk

DrainStep(p) ==
    \/ SelectDue(p) \/ Claim(p) \/ Gate(p) \/ Send(p) \/ Record(p)
    \/ Count(p) \/ Catch(p) \/ CompleteBatches(p)

Next ==
    \/ \E c \in Callers : SendMessageStep(c)
    \/ BulkStep
    \/ \E r \in RowIds : Release(r) \/ Cancel(r) \/ FallsDue(r)
    \/ \E p \in Processors : DrainStep(p) \/ Die(p)

(* The drain's timers never stop ticking, an await settles, time passes.    *)
Spec ==
    /\ Init /\ [][Next]_vars
    /\ \A p \in Processors : WF_vars(DrainStep(p))
    /\ \A r \in RowIds : WF_vars(FallsDue(r))

-----------------------------------------------------------------------------
Bodies == Audience \cup {BodyOf[c] : c \in Callers}

TypeOK ==
    /\ queue \in [RowIds -> [status : Statuses, key : Keys \cup {NoKey},
                             body : {NoRow} \cup Bodies \cup {<<b>> : b \in Bodies},
                             inBatch : BOOLEAN, cc : BOOLEAN, due : BOOLEAN,
                             attempts : 0..MaxAttempts]]
    /\ logged \subseteq Bodies \cup {<<b>> : b \in Bodies}
    /\ caller \in [Callers -> [pc : {"idle", "copy", "queue", "inline", "reread",
                                     "answered", "refused", "failed"},
                               path : {"queue", "inline"}, answer : RowIds \cup {NoRow}]]
    /\ copied \subseteq WantsCc
    /\ bulk \in [pc : {"idle", "enqueue", "done"}, todo : SUBSET Audience]
    /\ batch \in {"none", "pending", "processing", "completed"}
    /\ proc \in [Processors -> [pc : {"idle", "loop", "gate", "send", "record", "count", "catch"},
                                ids : SUBSET RowIds, row : RowIds \cup {NoRow}]]
    /\ texts \in [RowIds -> 0..MaxAttempts]
    /\ crashes \in 0..CrashLimit

(* The row a key was accepted as, and what its callers were answered.       *)
OneOf(rows) == IF rows = {} THEN NoRow ELSE CHOOSE r \in rows : TRUE
AcceptedAs == [k \in Keys |-> OneOf(RowsOf(k))]
Answers == [c \in {d \in Callers : KeyOf[d] \in Keys} |-> caller[c].answer]

Acceptance == INSTANCE KeyedAcceptance WITH
    Messages <- RowIds, None <- NoRow, acceptedAs <- AcceptedAs, answer <- Answers

(* One key, one message, one answer: what a key promises whatever the       *)
(* lookups and inserts of concurrent callers interleave to.                 *)
KeyedAcceptanceHolds == Acceptance!Spec

(* A row is worked on by one drain at a time: nobody else can claim it      *)
(* before the drain that did has let go of it.                              *)
ClaimsAreExclusive ==
    \A p, q \in Processors : p # q /\ Own(p) # NoRow => Own(p) # Own(q)

(* However sends time out, records fail and drains die, a row is texted     *)
(* once per attempt it is charged for and once more at most; a held or      *)
(* cancelled row is not texted at all.                                      *)
TextsArePaidFor ==
    \A r \in RowIds :
       /\ texts[r] <= queue[r].attempts + (IF queue[r].status \in {"claimed", "sent"} THEN 1 ELSE 0)
       /\ queue[r].status \in {"held", "cancelled"} => texts[r] = 0

(* A completed batch has nothing left to drain but rows that a drain itself *)
(* had settled and then put back: none was still to be enqueued or to be    *)
(* claimed for the first time.                                              *)
CompletedBatchIsDrained ==
    batch = "completed" =>
       /\ bulk.todo = {}
       /\ \A r \in RowIds : queue[r].inBatch /\ queue[r].status \in Live => queue[r].attempts > 0

(* Every pending row is settled in the end, or is the claimed row of a      *)
(* drain that died.                                                         *)
Stranded(r) ==
    crashes > 0 /\ queue[r].status = "claimed" /\ \A p \in Processors : Own(p) # r

PendingRowsSettle ==
    \A r \in RowIds :
       queue[r].status = "pending" ~> (queue[r].status \in Settled \/ Stranded(r))
=============================================================================
