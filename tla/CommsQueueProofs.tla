-------------------------- MODULE CommsQueueProofs ---------------------------
(***************************************************************************)
(* Proofs about the send queue: claims are exclusive, no row is texted more *)
(* often than its attempts and once more, batches complete only when        *)
(* drained, and a key is accepted once.                                     *)
(***************************************************************************)
EXTENDS CommsQueue, TLAPS

USE CommsAssumption

Wordings == {NoRow} \cup Bodies \cup {<<b>> : b \in Bodies}

RowType ==
    [status : Statuses, key : Keys \cup {NoKey}, body : Wordings,
     inBatch : BOOLEAN, cc : BOOLEAN, due : BOOLEAN, attempts : Nat]

Steps == {"idle", "loop", "gate", "send", "record", "count", "catch"}
DrainType == [pc : Steps, ids : SUBSET RowIds, row : RowIds \cup {NoRow}]

QueueTypes ==
    /\ queue \in [RowIds -> RowType]
    /\ proc \in [Processors -> DrainType]
    /\ texts \in [RowIds -> Nat]

(* What a drain at each step knows of the row in its hands.                 *)
HandOK(p) ==
    /\ proc[p].pc \in {"idle", "loop"} <=> Own(p) = NoRow
    /\ proc[p].pc \in {"gate", "send", "record"} => queue[Own(p)].status = "claimed"
    /\ proc[p].pc = "count" => queue[Own(p)].status \in {"sent", "skipped"}
    /\ proc[p].pc = "catch" => queue[Own(p)].status \in {"claimed", "sent", "skipped"}
    /\ proc[p].pc \in {"gate", "send"} => texts[Own(p)] <= queue[Own(p)].attempts

(* What a row's status tells of its attempts and texts.                     *)
RowOK(r) ==
    /\ queue[r].status \in {"absent", "held", "cancelled"} =>
          texts[r] = 0 /\ queue[r].attempts = 0
    /\ queue[r].status \in {"pending", "skipped", "failed"} => texts[r] <= queue[r].attempts
    /\ queue[r].status \in {"claimed", "sent"} => texts[r] <= queue[r].attempts + 1
    /\ queue[r].status # "failed" => queue[r].attempts < MaxAttempts
    /\ queue[r].attempts <= MaxAttempts
    /\ queue[r].cc => queue[r].body \in Audience

QInv ==
    /\ QueueTypes
    /\ ClaimsAreExclusive
    /\ \A p \in Processors : HandOK(p)
    /\ \A r \in RowIds : RowOK(r)

-----------------------------------------------------------------------------
(* The updates of the queue and of a drain keep their types.                *)
LEMMA StatusTyped ==
    ASSUME QueueTypes, NEW r \in RowIds, NEW s \in Statuses, SetStatus(r, s)
    PROVE  /\ queue' \in [RowIds -> RowType]
           /\ queue'[r].status = s
           /\ /\ queue'[r].attempts = queue[r].attempts
              /\ queue'[r].cc = queue[r].cc /\ queue'[r].body = queue[r].body
           /\ \A q \in RowIds \ {r} : queue'[q] = queue[q]
BY DEF SetStatus, QueueTypes, RowType

LEMMA InsertTyped ==
    ASSUME QueueTypes, NEW r \in RowIds, NEW row \in RowType, Insert(r, row)
    PROVE  /\ queue' \in [RowIds -> RowType]
           /\ queue[r].status = "absent"
           /\ queue'[r] = row
           /\ \A q \in RowIds \ {r} : queue'[q] = queue[q]
BY DEF Insert, NewId, Exists, QueueTypes

LEMMA DrainTyped ==
    ASSUME QueueTypes, NEW p \in Processors,
           \/ \E pc \in Steps : Move(p, pc)
           \/ NextRow(p)
           \/ Stop(p)
    PROVE  /\ proc' \in [Processors -> DrainType]
           /\ \A q \in Processors \ {p} : proc'[q] = proc[q]
<1>1. ASSUME NEW pc \in Steps, Move(p, pc) PROVE proc' \in [Processors -> DrainType]
  BY <1>1 DEF Move, QueueTypes, DrainType
<1>2. CASE NextRow(p)
  BY <1>2 DEF NextRow, QueueTypes, DrainType, Steps
<1>3. CASE Stop(p)
  BY <1>3 DEF Stop, QueueTypes, DrainType, Steps
<1>4. \A q \in Processors \ {p} : proc'[q] = proc[q]
  BY DEF Move, NextRow, Stop, QueueTypes, DrainType
<1> QED BY <1>1, <1>2, <1>3, <1>4

-----------------------------------------------------------------------------
(* What the steps of callers, of the bulk send and of the cutover do to the *)
(* queue: nothing, or a new row, or a row no drain holds changes.           *)
NewRow(r) ==
    /\ queue[r].status = "absent"
    /\ queue'[r].status \in {"held", "pending"} /\ queue'[r].attempts = 0
    /\ queue'[r].cc => queue'[r].body \in Audience

FreeRow(r) ==
    /\ queue'[r].attempts = queue[r].attempts
    /\ queue'[r].cc = queue[r].cc /\ queue'[r].body = queue[r].body
    /\ \/ queue[r].status = "held" /\ queue'[r].status \in {"pending", "cancelled"}
       \/ queue[r].status = "pending" /\ queue'[r].status = "pending"

OutsideStep ==
    /\ queue' \in [RowIds -> RowType]
    /\ \/ queue' = queue
       \/ \E r \in RowIds :
             /\ NewRow(r) \/ FreeRow(r)
             /\ \A q \in RowIds \ {r} : queue'[q] = queue[q]

LEMMA WordingFacts ==
    /\ \A c \in Callers : BodyOf[c] \in Wordings /\ <<BodyOf[c]>> \in Wordings
    /\ \A b \in Audience : b \in Wordings /\ <<b>> \in Wordings
BY DEF Wordings, Bodies

(* A manager copy, when its body is one of those that are sent.             *)
LEMMA CopyIsOutside ==
    ASSUME QueueTypes, NEW b \in Bodies, NEW reached \in BOOLEAN, ManagerCc(b, reached)
    PROVE  OutsideStep
<1>1. CASE UNCHANGED queue
  BY <1>1 DEF OutsideStep, QueueTypes
<1>2. ASSUME NEW r \in RowIds, Insert(r, Row("pending", NoKey, <<b>>, FALSE, FALSE))
      PROVE  OutsideStep
  <2>1. <<b>> \in Wordings
    BY DEF Wordings
  <2>2. Row("pending", NoKey, <<b>>, FALSE, FALSE) \in RowType
    BY <2>1 DEF Row, RowType, Statuses
  <2>3. /\ queue' \in [RowIds -> RowType] /\ queue[r].status = "absent"
        /\ queue'[r] = Row("pending", NoKey, <<b>>, FALSE, FALSE)
        /\ \A q \in RowIds \ {r} : queue'[q] = queue[q]
    BY <1>2, <2>2, InsertTyped
  <2> QED BY <2>3 DEF OutsideStep, NewRow, Row
<1> QED BY <1>1, <1>2 DEF ManagerCc

LEMMA SendMessageIsOutside ==
    ASSUME QueueTypes, NEW c \in Callers, SendMessageStep(c)
    PROVE  OutsideStep /\ UNCHANGED <<proc, texts>>
<1>1. CASE Refuse(c) \/ AnswerKnownKey(c) \/ PassGates(c) \/ LoseKey(c) \/ ReadWinner(c) \/ SendInline(c)
  BY <1>1 DEF Refuse, AnswerKnownKey, PassGates, LoseKey, ReadWinner, SendInline, OutsideStep, QueueTypes
<1>2. CASE CopyManager(c)
  <2>1. BodyOf[c] \in Bodies
    BY DEF Bodies
  <2>2. PICK reached \in BOOLEAN : ManagerCc(BodyOf[c], reached)
    BY <1>2 DEF CopyManager
  <2> QED BY <1>2, <2>1, <2>2, CopyIsOutside DEF CopyManager
<1>3. CASE EnqueueOwn(c)
  <2>1. PICK r \in RowIds : Insert(r, Row(IF c \in Holds THEN "held" ELSE "pending",
                                         KeyOf[c], BodyOf[c], FALSE, FALSE))
    BY <1>3 DEF EnqueueOwn
  <2>2. BodyOf[c] \in Wordings /\ KeyOf[c] \in Keys \cup {NoKey}
    BY WordingFacts
  <2>3. Row(IF c \in Holds THEN "held" ELSE "pending", KeyOf[c], BodyOf[c], FALSE, FALSE) \in RowType
    BY <2>2 DEF Row, RowType, Statuses
  <2>4. /\ queue' \in [RowIds -> RowType] /\ queue[r].status = "absent"
        /\ queue'[r] = Row(IF c \in Holds THEN "held" ELSE "pending",
                          KeyOf[c], BodyOf[c], FALSE, FALSE)
        /\ \A q \in RowIds \ {r} : queue'[q] = queue[q]
    BY <2>1, <2>3, InsertTyped
  <2>5. NewRow(r)
    BY <2>4 DEF NewRow, Row
  <2> QED BY <1>3, <2>4, <2>5 DEF OutsideStep, EnqueueOwn
<1> QED BY <1>1, <1>2, <1>3 DEF SendMessageStep

LEMMA BulkIsOutside ==
    ASSUME QueueTypes, BulkStep, bulk.todo \subseteq Audience
    PROVE  OutsideStep /\ UNCHANGED <<proc, texts>>
<1>1. CASE OpenBatch \/ FinishBulk
  BY <1>1 DEF OpenBatch, FinishBulk, OutsideStep, QueueTypes
<1>2. CASE EnqueueBulk
  <2>1. PICK b \in bulk.todo, r \in RowIds : Insert(r, Row("pending", NoKey, b, TRUE, BulkCc))
    BY <1>2 DEF EnqueueBulk
  <2>2. b \in Audience /\ Row("pending", NoKey, b, TRUE, BulkCc) \in RowType
    BY WordingFacts DEF Row, RowType, Statuses
  <2>3. /\ queue' \in [RowIds -> RowType] /\ queue[r].status = "absent"
        /\ queue'[r] = Row("pending", NoKey, b, TRUE, BulkCc)
        /\ \A q \in RowIds \ {r} : queue'[q] = queue[q]
    BY <2>1, <2>2, InsertTyped
  <2>4. NewRow(r)
    BY <2>2, <2>3 DEF NewRow, Row
  <2> QED BY <1>2, <2>3, <2>4 DEF OutsideStep, EnqueueBulk
<1> QED BY <1>1, <1>2 DEF BulkStep

LEMMA CutoverIsOutside ==
    ASSUME QueueTypes, NEW r \in RowIds, Release(r) \/ Cancel(r) \/ FallsDue(r)
    PROVE  OutsideStep /\ UNCHANGED <<proc, texts>>
<1>1. CASE Release(r)
  <2>1. "pending" \in Statuses
    BY DEF Statuses
  <2> QED BY <1>1, <2>1, StatusTyped DEF Release, OutsideStep, FreeRow
<1>2. CASE Cancel(r)
  <2>1. "cancelled" \in Statuses
    BY DEF Statuses
  <2> QED BY <1>2, <2>1, StatusTyped DEF Cancel, OutsideStep, FreeRow
<1>3. CASE FallsDue(r)
  <2> DEFINE row == [queue[r] EXCEPT !.due = TRUE]
  <2>0. queue[r] \in RowType
    BY DEF QueueTypes
  <2>1. /\ row \in RowType
        /\ row.status = queue[r].status /\ row.attempts = queue[r].attempts
        /\ row.cc = queue[r].cc /\ row.body = queue[r].body
    BY <2>0 DEF RowType
  <2>2. queue' = [queue EXCEPT ![r] = row] /\ UNCHANGED <<proc, texts>>
    BY <1>3 DEF FallsDue
  <2>3. queue' \in [RowIds -> RowType] /\ queue'[r] = row
        /\ \A q \in RowIds \ {r} : queue'[q] = queue[q]
    BY <2>1, <2>2 DEF QueueTypes
  <2> HIDE DEF row
  <2> QED BY <1>3, <2>1, <2>2, <2>3 DEF FallsDue, OutsideStep, FreeRow
<1> QED BY <1>1, <1>2, <1>3

(* Such a step leaves the rows in the drains' hands alone.                  *)
LEMMA OutsideKeeps ==
    ASSUME QInv, OutsideStep, texts' = texts,
           NEW p \in Processors, Own(p) \in RowIds
    PROVE  queue'[Own(p)] = queue[Own(p)]
<1>1. queue[Own(p)].status \in {"claimed", "sent", "skipped"}
  BY DEF QInv, HandOK, QueueTypes, DrainType, Own, Steps
<1> QED BY <1>1 DEF OutsideStep, NewRow, FreeRow

LEMMA OutsideRows ==
    ASSUME QInv, OutsideStep, texts' = texts, NEW r \in RowIds
    PROVE  RowOK(r)'
<1>1. RowOK(r) /\ queue[r] \in RowType /\ texts[r] \in Nat
  BY DEF QInv, QueueTypes
<1>2. CASE queue'[r] = queue[r]
  BY <1>1, <1>2 DEF RowOK
<1>3. CASE NewRow(r)
  BY <1>1, <1>3 DEF RowOK, NewRow
<1>4. CASE FreeRow(r)
  BY <1>1, <1>4 DEF RowOK, FreeRow
<1> QED BY <1>2, <1>3, <1>4 DEF OutsideStep

-----------------------------------------------------------------------------
(* A step of others, at which at most drain p lets go of what it had.       *)
LEMMA OutsideKeepsQInv ==
    ASSUME QInv, OutsideStep, texts' = texts, proc' \in [Processors -> DrainType],
           \A p \in Processors :
              proc'[p] = proc[p] \/ (proc'[p].pc \in {"idle", "loop"} /\ proc'[p].row = NoRow)
    PROVE  QInv'
<1>1. QueueTypes'
  BY DEF QInv, QueueTypes, OutsideStep
<1>2. \A r \in RowIds : RowOK(r)'
  BY OutsideRows
<1>3. ClaimsAreExclusive'
  BY DEF QInv, ClaimsAreExclusive, Own
<1>4. ASSUME NEW p \in Processors PROVE HandOK(p)'
  <2>1. HandOK(p) /\ proc[p] \in DrainType
    BY DEF QInv, QueueTypes
  <2>2. CASE proc'[p] # proc[p]
    BY <2>2 DEF HandOK, Own
  <2>3. CASE proc'[p] = proc[p] /\ Own(p) \in RowIds
    BY <2>1, <2>3, OutsideKeeps DEF HandOK, Own
  <2>4. CASE proc'[p] = proc[p] /\ Own(p) = NoRow
    BY <2>1, <2>4 DEF HandOK, Own
  <2> QED BY <2>1, <2>2, <2>3, <2>4 DEF Own, DrainType
<1> QED BY <1>1, <1>2, <1>3, <1>4 DEF QInv

(* A step of drain p on row r, which no other drain holds.                  *)
LEMMA HandStepKeepsQInv ==
    ASSUME QInv, NEW p \in Processors, NEW r \in RowIds,
           \A q \in Processors \ {p} : Own(q) # r /\ proc'[q] = proc[q],
           \A q \in RowIds \ {r} : queue'[q] = queue[q] /\ texts'[q] = texts[q],
           QueueTypes', HandOK(p)', RowOK(r)', proc'[p].row \in {r, NoRow}
    PROVE  QInv'
<1>1. ASSUME NEW q \in RowIds PROVE RowOK(q)'
  BY <1>1 DEF QInv, RowOK
<1>2. ClaimsAreExclusive'
  BY DEF QInv, ClaimsAreExclusive, Own
<1>3. ASSUME NEW q \in Processors PROVE HandOK(q)'
  <2>1. HandOK(q) /\ proc[q] \in DrainType
    BY DEF QInv, QueueTypes
  <2>2. CASE q # p /\ Own(q) \in RowIds
    <3>1. /\ proc'[q] = proc[q] /\ proc'[q].row = proc[q].row
          /\ queue'[proc[q].row] = queue[proc[q].row] /\ texts'[proc[q].row] = texts[proc[q].row]
      BY <2>2 DEF Own
    <3> QED BY <2>1, <3>1 DEF HandOK, Own
  <2>3. CASE q # p /\ Own(q) = NoRow
    BY <2>1, <2>3 DEF HandOK, Own, DrainType
  <2> QED BY <2>1, <2>2, <2>3 DEF Own, DrainType
<1> QED BY <1>1, <1>2, <1>3 DEF QInv

(* What a drain with a row in its hands may count on.                       *)
LEMMA InHand ==
    ASSUME QInv, NEW p \in Processors,
           proc[p].pc \in {"gate", "send", "record", "count", "catch"}
    PROVE  /\ Own(p) \in RowIds
           /\ HandOK(p) /\ RowOK(Own(p))
           /\ queue[Own(p)] \in RowType /\ texts[Own(p)] \in Nat /\ proc[p] \in DrainType
           /\ \A q \in Processors \ {p} : Own(q) # Own(p)
<1>1. Own(p) \in RowIds
  BY DEF QInv, QueueTypes, HandOK, Own, DrainType
<1> QED BY <1>1 DEF QInv, QueueTypes, ClaimsAreExclusive

LEMMA ClaimKeeps ==
    ASSUME QInv, NEW p \in Processors, Claim(p)
    PROVE  QInv'
<1>1. QueueTypes /\ HandOK(p) /\ proc[p] \in DrainType /\ proc[p].pc = "loop" /\ Own(p) = NoRow
  BY DEF QInv, QueueTypes, Claim, At, HandOK
<1>2. PICK r \in proc[p].ids :
         \/ /\ queue[r].status = "pending"
            /\ SetStatus(r, "claimed")
            /\ proc' = [proc EXCEPT ![p] = [pc |-> "gate", ids |-> @.ids \ {r}, row |-> r]]
         \/ /\ proc' = [proc EXCEPT ![p].ids = @ \ {r}]
            /\ UNCHANGED queue
  BY DEF Claim
<1>3. r \in RowIds /\ texts' = texts
  BY <1>1 DEF DrainType, Claim
<1>4. CASE /\ queue[r].status = "pending"
           /\ SetStatus(r, "claimed")
           /\ proc' = [proc EXCEPT ![p] = [pc |-> "gate", ids |-> @.ids \ {r}, row |-> r]]
  <2>1. "claimed" \in Statuses
    BY DEF Statuses
  <2>2. /\ queue' \in [RowIds -> RowType]
        /\ queue'[r].status = "claimed" /\ queue'[r].attempts = queue[r].attempts
        /\ queue'[r].cc = queue[r].cc /\ queue'[r].body = queue[r].body
        /\ \A q \in RowIds \ {r} : queue'[q] = queue[q]
    BY <1>1, <1>3, <1>4, <2>1, StatusTyped
  <2>3. /\ proc' \in [Processors -> DrainType]
        /\ proc'[p].pc = "gate" /\ proc'[p].row = r
        /\ \A q \in Processors \ {p} : proc'[q] = proc[q]
    <3>1. [pc |-> "gate", ids |-> proc[p].ids \ {r}, row |-> r] \in DrainType
      BY <1>1, <1>3 DEF DrainType, Steps
    <3> QED BY <1>1, <1>4, <3>1 DEF QueueTypes
  <2>4. RowOK(r) /\ queue[r] \in RowType /\ texts[r] \in Nat
    BY <1>1, <1>3 DEF QInv, QueueTypes
  <2>5. RowOK(r)'
    BY <1>3, <1>4, <2>2, <2>4 DEF RowOK, RowType
  <2>6. HandOK(p)'
    BY <1>3, <1>4, <2>2, <2>3, <2>4 DEF HandOK, RowOK, Own, RowType
  <2>7. \A q \in Processors \ {p} : Own(q) # r
    BY <1>3, <1>4 DEF QInv, QueueTypes, HandOK, Own, DrainType, Steps
  <2>8. QueueTypes'
    BY <1>1, <1>3, <2>2, <2>3 DEF QueueTypes
  <2> QED BY <1>3, <2>2, <2>3, <2>5, <2>6, <2>7, <2>8, HandStepKeepsQInv
<1>5. CASE proc' = [proc EXCEPT ![p].ids = @ \ {r}] /\ UNCHANGED queue
  <2>1. /\ proc' \in [Processors -> DrainType]
        /\ proc'[p].pc = "loop" /\ proc'[p].row = NoRow
        /\ \A q \in Processors \ {p} : proc'[q] = proc[q]
    <3>1. [proc[p] EXCEPT !.ids = @ \ {r}] \in DrainType
      BY <1>1 DEF DrainType
    <3> QED BY <1>1, <1>5, <3>1 DEF QueueTypes, DrainType, Own
  <2>2. OutsideStep
    BY <1>1, <1>5 DEF OutsideStep, QueueTypes
  <2> QED BY <1>3, <2>1, <2>2, OutsideKeepsQInv
<1> QED BY <1>2, <1>4, <1>5

LEMMA GateKeeps ==
    ASSUME QInv, NEW p \in Processors, Gate(p)
    PROVE  QInv'
<1>0. PICK r \in RowIds : r = Own(p)
  BY InHand DEF Gate, At
<1>1. /\ r = Own(p) /\ HandOK(p) /\ RowOK(r)
      /\ queue[r] \in RowType /\ texts[r] \in Nat /\ proc[p] \in DrainType
      /\ \A q \in Processors \ {p} : Own(q) # r
      /\ proc[p].pc = "gate" /\ texts' = texts /\ QueueTypes
  BY <1>0, InHand DEF Gate, At, QInv
<1>2. queue[r].status = "claimed" /\ texts[r] <= queue[r].attempts
  BY <1>1 DEF HandOK
<1>3. PICK pc \in {"send", "count", "catch"} : Move(p, pc)
  BY DEF Gate
<1>4. /\ proc' \in [Processors -> DrainType]
      /\ proc'[p].pc = pc /\ proc'[p].row = r
      /\ \A q \in Processors \ {p} : proc'[q] = proc[q]
  <2>1. pc \in Steps
    BY DEF Steps
  <2> QED BY <1>1, <1>3, <2>1, DrainTyped DEF Move, QueueTypes, DrainType, Own
<1>5. CASE UNCHANGED queue /\ pc # "count"
  <2>1. HandOK(p)' /\ RowOK(r)' /\ QueueTypes'
    BY <1>1, <1>2, <1>4, <1>5 DEF HandOK, RowOK, QueueTypes, Own
  <2> QED BY <1>1, <1>4, <1>5, <2>1, HandStepKeepsQInv
<1>6. CASE SetStatus(r, "skipped") /\ pc = "count"
  <2>1. "skipped" \in Statuses
    BY DEF Statuses
  <2>2. /\ queue' \in [RowIds -> RowType]
        /\ queue'[r].status = "skipped" /\ queue'[r].attempts = queue[r].attempts
        /\ queue'[r].cc = queue[r].cc /\ queue'[r].body = queue[r].body
        /\ \A q \in RowIds \ {r} : queue'[q] = queue[q]
    BY <1>1, <1>6, <2>1, StatusTyped
  <2>3. HandOK(p)' /\ RowOK(r)' /\ QueueTypes'
    BY <1>1, <1>2, <1>4, <1>6, <2>2 DEF HandOK, RowOK, QueueTypes, Own
  <2> QED BY <1>1, <1>4, <2>2, <2>3, HandStepKeepsQInv
<1>7. \/ UNCHANGED queue /\ pc # "count"
      \/ SetStatus(r, "skipped") /\ pc = "count"
  BY <1>1, <1>3, <1>4 DEF Gate, Move, QueueTypes, DrainType
<1> QED BY <1>5, <1>6, <1>7

LEMMA SendKeeps ==
    ASSUME QInv, NEW p \in Processors, Send(p)
    PROVE  QInv'
<1>0. PICK r \in RowIds : r = Own(p)
  BY InHand DEF Send, At
<1>1. /\ r = Own(p) /\ HandOK(p) /\ RowOK(r)
      /\ queue[r] \in RowType /\ texts[r] \in Nat /\ proc[p] \in DrainType
      /\ \A q \in Processors \ {p} : Own(q) # r
      /\ proc[p].pc = "send" /\ queue' = queue /\ QueueTypes
  BY <1>0, InHand DEF Send, At, QInv
<1>2. queue[r].status = "claimed" /\ texts[r] <= queue[r].attempts
  BY <1>1 DEF HandOK
<1>3. PICK pc \in {"record", "catch"} : Move(p, pc)
  BY DEF Send
<1>4. /\ proc' \in [Processors -> DrainType]
      /\ proc'[p].pc = pc /\ proc'[p].row = r
      /\ \A q \in Processors \ {p} : proc'[q] = proc[q]
  <2>1. pc \in Steps
    BY DEF Steps
  <2> QED BY <1>1, <1>3, <2>1, DrainTyped DEF Move, QueueTypes, DrainType, Own
<1>5. /\ texts' \in [RowIds -> Nat]
      /\ texts'[r] \in {texts[r], texts[r] + 1}
      /\ \A q \in RowIds \ {r} : texts'[q] = texts[q]
  BY <1>1 DEF Send, QueueTypes
<1>6. HandOK(p)' /\ RowOK(r)' /\ QueueTypes'
  BY <1>1, <1>2, <1>4, <1>5 DEF HandOK, RowOK, QueueTypes, Own, RowType
<1> QED BY <1>1, <1>4, <1>5, <1>6, HandStepKeepsQInv

LEMMA RecordKeeps ==
    ASSUME QInv, NEW p \in Processors, Record(p)
    PROVE  QInv'
<1>0. PICK r \in RowIds : r = Own(p)
  BY InHand DEF Record, At
<1>1. /\ r = Own(p) /\ HandOK(p) /\ RowOK(r)
      /\ queue[r] \in RowType /\ texts[r] \in Nat /\ proc[p] \in DrainType
      /\ \A q \in Processors \ {p} : Own(q) # r
      /\ proc[p].pc = "record" /\ texts' = texts /\ QueueTypes
  BY <1>0, InHand DEF Record, At, QInv
<1>2. queue[r].status = "claimed"
  BY <1>1 DEF HandOK
<1>3. PICK pc \in {"count", "catch"} :
         /\ Move(p, pc)
         /\ \/ pc = "catch" /\ UNCHANGED queue
            \/ pc = "count" /\ SetStatus(r, "sent")
  BY <1>1 DEF Record
<1>4. /\ proc' \in [Processors -> DrainType]
      /\ proc'[p].pc = pc /\ proc'[p].row = r
      /\ \A q \in Processors \ {p} : proc'[q] = proc[q]
  <2>1. pc \in Steps
    BY DEF Steps
  <2> QED BY <1>1, <1>3, <2>1, DrainTyped DEF Move, QueueTypes, DrainType, Own
<1>5. CASE pc = "catch" /\ UNCHANGED queue
  <2>1. HandOK(p)' /\ RowOK(r)' /\ QueueTypes'
    BY <1>1, <1>2, <1>4, <1>5 DEF HandOK, RowOK, QueueTypes, Own
  <2> QED BY <1>1, <1>4, <1>5, <2>1, HandStepKeepsQInv
<1>6. CASE pc = "count" /\ SetStatus(r, "sent")
  <2>1. "sent" \in Statuses
    BY DEF Statuses
  <2>2. /\ queue' \in [RowIds -> RowType]
        /\ queue'[r].status = "sent" /\ queue'[r].attempts = queue[r].attempts
        /\ queue'[r].cc = queue[r].cc /\ queue'[r].body = queue[r].body
        /\ \A q \in RowIds \ {r} : queue'[q] = queue[q]
    BY <1>1, <1>6, <2>1, StatusTyped
  <2>3. HandOK(p)' /\ RowOK(r)' /\ QueueTypes'
    BY <1>1, <1>2, <1>4, <1>6, <2>2 DEF HandOK, RowOK, QueueTypes, Own
  <2> QED BY <1>1, <1>4, <2>2, <2>3, HandStepKeepsQInv
<1> QED BY <1>3, <1>5, <1>6

LEMMA CountKeeps ==
    ASSUME QInv, NEW p \in Processors, Count(p)
    PROVE  QInv'
<1>0. PICK r \in RowIds : r = Own(p)
  BY InHand DEF Count, At
<1>1. /\ r = Own(p) /\ HandOK(p) /\ RowOK(r)
      /\ queue[r] \in RowType /\ texts[r] \in Nat /\ proc[p] \in DrainType
      /\ \A q \in Processors \ {p} : Own(q) # r
      /\ proc[p].pc = "count" /\ texts' = texts /\ QueueTypes
  BY <1>0, InHand DEF Count, At, QInv
<1>2. CASE Move(p, "catch") /\ UNCHANGED queue
  <2>1. /\ proc' \in [Processors -> DrainType]
        /\ proc'[p].pc = "catch" /\ proc'[p].row = r
        /\ \A q \in Processors \ {p} : proc'[q] = proc[q]
    <3>1. "catch" \in Steps
      BY DEF Steps
    <3> QED BY <1>1, <1>2, <3>1, DrainTyped DEF Move, QueueTypes, DrainType, Own
  <2>2. HandOK(p)' /\ RowOK(r)' /\ QueueTypes'
    BY <1>1, <1>2, <2>1 DEF HandOK, RowOK, QueueTypes, Own
  <2> QED BY <1>1, <1>2, <2>1, <2>2, HandStepKeepsQInv
<1>3. CASE NextRow(p) /\ OutsideStep
  <2>1. /\ proc' \in [Processors -> DrainType]
        /\ proc'[p].pc = "loop" /\ proc'[p].row = NoRow
        /\ \A q \in Processors \ {p} : proc'[q] = proc[q]
    BY <1>1, <1>3, DrainTyped DEF NextRow, QueueTypes, DrainType
  <2> QED BY <1>1, <1>3, <2>1, OutsideKeepsQInv
<1>4. ASSUME queue[r].cc, NEW reached \in BOOLEAN, ManagerCc(queue[r].body, reached)
      PROVE  OutsideStep
  <2>1. queue[r].body \in Bodies
    BY <1>1, <1>4 DEF RowOK, Bodies
  <2> QED BY <1>1, <1>4, <2>1, CopyIsOutside
<1>5. ASSUME UNCHANGED queue PROVE OutsideStep
  BY <1>1, <1>5 DEF OutsideStep, QueueTypes
<1>6. \/ Move(p, "catch") /\ UNCHANGED queue
      \/ NextRow(p) /\ OutsideStep
  BY <1>1, <1>4, <1>5 DEF Count
<1> QED BY <1>2, <1>3, <1>6

LEMMA CatchKeeps ==
    ASSUME QInv, NEW p \in Processors, Catch(p)
    PROVE  QInv'
<1>0. PICK r \in RowIds : r = Own(p)
  BY InHand DEF Catch, At
<1> DEFINE attempts == queue[r].attempts + 1
           status == IF attempts >= MaxAttempts THEN "failed" ELSE "pending"
<1>1. /\ r = Own(p) /\ HandOK(p) /\ RowOK(r)
      /\ queue[r] \in RowType /\ texts[r] \in Nat /\ proc[p] \in DrainType
      /\ \A q \in Processors \ {p} : Own(q) # r
      /\ proc[p].pc = "catch" /\ texts' = texts /\ QueueTypes
  BY <1>0, InHand DEF Catch, At, QInv
<1>2. /\ texts[r] <= attempts
      /\ attempts \in Nat /\ attempts <= MaxAttempts
  BY <1>1 DEF HandOK, RowOK, RowType
<1>3. status \in Statuses
  BY DEF Statuses
<1>4. /\ queue' \in [RowIds -> RowType]
      /\ queue'[r].status = status /\ queue'[r].attempts = attempts
      /\ queue'[r].cc = queue[r].cc /\ queue'[r].body = queue[r].body
      /\ \A q \in RowIds \ {r} : queue'[q] = queue[q]
  <2>1. queue' = [queue EXCEPT ![r] = [queue[r] EXCEPT !.attempts = attempts, !.status = status]]
    BY <1>1 DEF Catch, QueueTypes
  <2>2. [queue[r] EXCEPT !.attempts = attempts, !.status = status] \in RowType
    BY <1>1, <1>2, <1>3 DEF RowType
  <2> QED BY <1>1, <1>2, <1>3, <2>1, <2>2 DEF QueueTypes, RowType
<1>5. /\ proc' \in [Processors -> DrainType]
      /\ proc'[p].pc = "loop" /\ proc'[p].row = NoRow
      /\ \A q \in Processors \ {p} : proc'[q] = proc[q]
  BY <1>1, DrainTyped DEF Catch, NextRow, QueueTypes, DrainType
<1>6. HandOK(p)' /\ RowOK(r)' /\ QueueTypes'
  BY <1>1, <1>2, <1>4, <1>5 DEF HandOK, RowOK, QueueTypes, Own
<1> QED BY <1>1, <1>4, <1>5, <1>6, HandStepKeepsQInv

-----------------------------------------------------------------------------
LEMMA DrainKeeps ==
    ASSUME QInv, NEW p \in Processors, DrainStep(p) \/ Die(p)
    PROVE  QInv'
<1>1. QueueTypes
  BY DEF QInv
<1>2. ASSUME UNCHANGED queue PROVE OutsideStep
  BY <1>1, <1>2 DEF OutsideStep, QueueTypes
<1>3. CASE SelectDue(p)
  <2> DEFINE ids == {r \in RowIds : queue[r].status = "pending" /\ queue[r].due}
  <2>1. proc[p] \in DrainType /\ proc[p].pc = "idle" /\ Own(p) = NoRow
    BY <1>1, <1>3 DEF QInv, QueueTypes, HandOK, SelectDue, At
  <2>2. proc' = [proc EXCEPT ![p] = [proc[p] EXCEPT !.pc = "loop", !.ids = ids]]
    BY <1>1, <1>3 DEF SelectDue, QueueTypes
  <2>3. /\ [proc[p] EXCEPT !.pc = "loop", !.ids = ids] \in DrainType
        /\ [proc[p] EXCEPT !.pc = "loop", !.ids = ids].pc = "loop"
        /\ [proc[p] EXCEPT !.pc = "loop", !.ids = ids].row = NoRow
    BY <2>1 DEF DrainType, Steps, Own
  <2>4. /\ proc' \in [Processors -> DrainType]
        /\ proc'[p].pc = "loop" /\ proc'[p].row = NoRow
        /\ \A q \in Processors \ {p} : proc'[q] = proc[q]
    BY <1>1, <2>2, <2>3 DEF QueueTypes
  <2> QED BY <1>2, <1>3, <2>4, OutsideKeepsQInv DEF SelectDue
<1>4. CASE CompleteBatches(p) \/ Die(p)
  <2>1. Stop(p) /\ queue' = queue /\ texts' = texts
    BY <1>4 DEF CompleteBatches, Die
  <2>2. /\ proc' \in [Processors -> DrainType]
        /\ proc'[p].pc = "idle" /\ proc'[p].row = NoRow
        /\ \A q \in Processors \ {p} : proc'[q] = proc[q]
    BY <1>1, <2>1, DrainTyped DEF Stop, QueueTypes, DrainType
  <2> QED BY <1>2, <2>1, <2>2, OutsideKeepsQInv
<1> QED BY <1>3, <1>4, ClaimKeeps, GateKeeps, SendKeeps, RecordKeeps, CountKeeps, CatchKeeps
        DEF DrainStep

(* The bulk send only enqueues its audience.                                *)
BulkShape == bulk.todo \subseteq Audience

LEMMA BulkShapeStep == BulkShape /\ [Next]_vars => BulkShape'
<1> SUFFICES ASSUME BulkShape, [Next]_vars PROVE BulkShape'
  OBVIOUS
<1>1. CASE OpenBatch
  BY <1>1 DEF BulkShape, OpenBatch
<1>2. CASE EnqueueBulk
  <2>1. PICK b \in bulk.todo : bulk' = [bulk EXCEPT !.todo = @ \ {b}]
    BY <1>2 DEF EnqueueBulk
  <2>2. bulk'.todo = bulk.todo \ {b} \/ bulk'.todo = bulk.todo
    BY <2>1
  <2> QED BY <2>2 DEF BulkShape
<1>3. CASE FinishBulk
  BY <1>3 DEF BulkShape, FinishBulk
<1>4. CASE UNCHANGED bulk
  BY <1>4 DEF BulkShape
<1>5. ASSUME NEW c \in Callers, SendMessageStep(c) PROVE UNCHANGED bulk
  BY <1>5 DEF SendMessageStep, Refuse, AnswerKnownKey, PassGates, CopyManager, EnqueueOwn,
     LoseKey, ReadWinner, SendInline, batches
<1>6. ASSUME NEW r \in RowIds, Release(r) \/ Cancel(r) \/ FallsDue(r) PROVE UNCHANGED bulk
  BY <1>6 DEF Release, Cancel, FallsDue, batches
<1>7. ASSUME NEW p \in Processors, DrainStep(p) \/ Die(p) PROVE UNCHANGED bulk
  BY <1>7 DEF DrainStep, SelectDue, Claim, Gate, Send, Record, Count, Catch, CompleteBatches,
     Die, batches
<1>8. CASE UNCHANGED vars
  BY <1>8 DEF BulkShape, vars
<1> QED BY <1>1, <1>2, <1>3, <1>4, <1>5, <1>6, <1>7, <1>8 DEF Next, BulkStep

LEMMA QInvInit == Init => QInv /\ BulkShape
<1> SUFFICES ASSUME Init PROVE QInv /\ BulkShape
  OBVIOUS
<1>1. Absent \in RowType
  BY DEF Absent, RowType, Statuses, Wordings
<1>2. QueueTypes
  BY <1>1 DEF Init, QueueTypes, DrainType, Steps
<1>3. ASSUME NEW p \in Processors PROVE HandOK(p) /\ Own(p) = NoRow
  BY <1>3 DEF Init, HandOK, Own
<1>4. ASSUME NEW r \in RowIds PROVE RowOK(r)
  BY <1>4 DEF Init, RowOK, Absent
<1>5. BulkShape
  BY DEF Init, BulkShape
<1> QED BY <1>2, <1>3, <1>4, <1>5 DEF QInv, ClaimsAreExclusive

LEMMA QInvStep == QInv /\ BulkShape /\ [Next]_vars => QInv'
<1> SUFFICES ASSUME QInv, BulkShape, [Next]_vars PROVE QInv'
  OBVIOUS
<1>1. QueueTypes
  BY DEF QInv
<1>2. ASSUME OutsideStep, UNCHANGED <<proc, texts>> PROVE QInv'
  BY <1>1, <1>2, OutsideKeepsQInv DEF QueueTypes
<1>3. ASSUME NEW c \in Callers, SendMessageStep(c) PROVE QInv'
  BY <1>1, <1>2, <1>3, SendMessageIsOutside
<1>4. CASE BulkStep
  BY <1>1, <1>2, <1>4, BulkIsOutside DEF BulkShape
<1>5. ASSUME NEW r \in RowIds, Release(r) \/ Cancel(r) \/ FallsDue(r) PROVE QInv'
  BY <1>1, <1>2, <1>5, CutoverIsOutside
<1>6. ASSUME NEW p \in Processors, DrainStep(p) \/ Die(p) PROVE QInv'
  BY <1>6, DrainKeeps
<1>7. CASE UNCHANGED vars
  BY <1>1, <1>2, <1>7 DEF vars, OutsideStep, QueueTypes
<1> QED BY <1>3, <1>4, <1>5, <1>6, <1>7 DEF Next

THEOREM QueueHolds == Spec => [](QInv /\ BulkShape)
<1> QED BY QInvInit, QInvStep, BulkShapeStep, PTL DEF Spec

(* However many drains run and die, two of them never work on one row.      *)
THEOREM ClaimsExclusive == Spec => []ClaimsAreExclusive
<1>1. QInv => ClaimsAreExclusive
  BY DEF QInv
<1> QED BY <1>1, QueueHolds, PTL

(* Whatever fails after the provider took a text, no row is texted more     *)
(* often than the attempts it is charged for and once more.                 *)
THEOREM TextsPaidFor == Spec => []TextsArePaidFor
<1>1. QInv => TextsArePaidFor
  <2> SUFFICES ASSUME QInv, NEW r \in RowIds
               PROVE  /\ texts[r] <= queue[r].attempts
                                   + (IF queue[r].status \in {"claimed", "sent"} THEN 1 ELSE 0)
                      /\ queue[r].status \in {"held", "cancelled"} => texts[r] = 0
    BY DEF TextsArePaidFor
  <2>1. RowOK(r) /\ queue[r] \in RowType /\ texts[r] \in Nat
    BY DEF QInv, QueueTypes
  <2>2. queue[r].status \in Statuses /\ queue[r].attempts \in Nat
    BY <2>1 DEF RowType
  <2> QED BY <2>1, <2>2 DEF RowOK, Statuses
<1> QED BY <1>1, QueueHolds, PTL

(* Hence never more than MaxAttempts times.                                 *)
THEOREM TextsBounded == Spec => [](\A r \in RowIds : texts[r] <= MaxAttempts)
<1> DEFINE Bounded == \A r \in RowIds : texts[r] <= MaxAttempts
<1>1. QInv => Bounded
  <2> SUFFICES ASSUME QInv, NEW r \in RowIds PROVE texts[r] <= MaxAttempts
    OBVIOUS
  <2>1. RowOK(r) /\ queue[r] \in RowType /\ texts[r] \in Nat
    BY DEF QInv, QueueTypes
  <2>2. queue[r].status \in Statuses /\ queue[r].attempts \in Nat
    BY <2>1 DEF RowType
  <2> QED BY <2>1, <2>2 DEF RowOK, Statuses
<1> QED BY <1>1, QueueHolds, PTL


-----------------------------------------------------------------------------
(* The queue implements the acceptance of keys.  All steps but the insert   *)
(* of a keyed row leave the rows of every key as they are.                  *)
KeysKept == \A k \in Keys : RowsOf(k)' = RowsOf(k)

LEMMA QuietKeepsKeys == UNCHANGED queue => KeysKept
BY DEF KeysKept, RowsOf, Exists

LEMMA StatusKeepsKeys ==
    ASSUME QueueTypes, NEW r \in RowIds, NEW s \in Statuses \ {"absent"},
           Exists(r), SetStatus(r, s)
    PROVE  KeysKept
<1>1. \A q \in RowIds : queue'[q].key = queue[q].key /\ (Exists(q)' <=> Exists(q))
  BY DEF SetStatus, Exists, QueueTypes, RowType
<1> QED BY <1>1 DEF KeysKept, RowsOf

LEMMA UnkeyedInsertKeepsKeys ==
    ASSUME QueueTypes, NEW r \in RowIds, NEW row \in RowType, row.key = NoKey, Insert(r, row)
    PROVE  KeysKept
<1>1. /\ queue'[r] = row
      /\ \A q \in RowIds \ {r} : queue'[q] = queue[q]
      /\ ~Exists(r)
  BY InsertTyped DEF Exists
<1> QED BY <1>1 DEF KeysKept, RowsOf, Exists

LEMMA CopyKeepsKeys ==
    ASSUME QueueTypes, NEW b \in Bodies, NEW reached \in BOOLEAN, ManagerCc(b, reached)
    PROVE  KeysKept
<1>1. ASSUME NEW r \in RowIds, Insert(r, Row("pending", NoKey, <<b>>, FALSE, FALSE))
      PROVE  KeysKept
  <2>1. /\ Row("pending", NoKey, <<b>>, FALSE, FALSE) \in RowType
        /\ Row("pending", NoKey, <<b>>, FALSE, FALSE).key = NoKey
    BY DEF Row, RowType, Statuses, Wordings
  <2> QED BY <1>1, <2>1, UnkeyedInsertKeepsKeys
<1> QED BY <1>1, QuietKeepsKeys DEF ManagerCc

LEMMA DrainKeepsKeys ==
    ASSUME QInv, NEW p \in Processors, DrainStep(p) \/ Die(p)
    PROVE  KeysKept
<1>0. QueueTypes
  BY DEF QInv
<1>1. CASE UNCHANGED queue
  BY <1>1, QuietKeepsKeys
<1>2. ASSUME NEW r \in RowIds, NEW s \in Statuses \ {"absent"},
             queue[r].status # "absent", SetStatus(r, s)
      PROVE  KeysKept
  BY <1>0, <1>2, StatusKeepsKeys DEF Exists
<1>3. {"claimed", "skipped", "sent"} \subseteq Statuses \ {"absent"}
  BY DEF Statuses
<1>4. ASSUME proc[p].pc \in {"gate", "send", "record", "count", "catch"}
      PROVE  Own(p) \in RowIds /\ queue[Own(p)].status # "absent"
  BY <1>4, InHand DEF HandOK
<1>5. CASE Claim(p)
  <2>1. ASSUME NEW r \in proc[p].ids PROVE r \in RowIds
    BY <1>0, <2>1 DEF QueueTypes, DrainType
  <2> QED BY <1>1, <1>2, <1>3, <1>5, <2>1 DEF Claim
<1>6. CASE Gate(p)
  BY <1>1, <1>2, <1>3, <1>4, <1>6 DEF Gate, At
<1>7. CASE Record(p)
  BY <1>1, <1>2, <1>3, <1>4, <1>7 DEF Record, At
<1>8. CASE Count(p)
  <2>1. ASSUME queue[Own(p)].cc, NEW reached \in BOOLEAN, ManagerCc(queue[Own(p)].body, reached)
        PROVE  KeysKept
    <3>1. queue[Own(p)].body \in Bodies
      BY <1>8, <2>1, InHand DEF Count, At, RowOK, Bodies
    <3> QED BY <1>0, <2>1, <3>1, CopyKeepsKeys
  <2> QED BY <1>1, <1>8, <2>1 DEF Count
<1>9. CASE Catch(p)
  <2>1. PICK r \in RowIds : r = Own(p) /\ queue[r].status # "absent" /\ queue[r] \in RowType
    BY <1>4, <1>9, InHand DEF Catch, At
  <2>2. \A q \in RowIds : queue'[q].key = queue[q].key /\ (Exists(q)' <=> Exists(q))
    BY <1>0, <1>9, <2>1 DEF Catch, QueueTypes, RowType, Exists
  <2> QED BY <2>2 DEF KeysKept, RowsOf
<1>10. CASE SelectDue(p) \/ Send(p) \/ CompleteBatches(p) \/ Die(p)
  BY <1>1, <1>10 DEF SelectDue, Send, CompleteBatches, Die
<1> QED BY <1>5, <1>6, <1>7, <1>8, <1>9, <1>10 DEF DrainStep

(* What callers and the key index keep between them: a key has one row, and *)
(* only an answered caller has an answer.                                   *)
KeyInv ==
    /\ \A k \in Keys : \A r, q \in RowsOf(k) : r = q
    /\ caller \in [Callers -> [pc : {"idle", "copy", "queue", "inline", "reread",
                                     "answered", "refused", "failed"},
                               path : {"queue", "inline"}, answer : RowIds \cup {NoRow}]]
    /\ \A c \in Callers : caller[c].pc # "answered" => caller[c].answer = NoRow

LEMMA AcceptedIs ==
    ASSUME KeyInv, NEW k \in Keys, NEW r \in RowsOf(k)
    PROVE  AcceptedAs[k] = r
BY DEF AcceptedAs, OneOf, KeyInv

LEMMA KeysKeptAcceptance ==
    ASSUME KeysKept PROVE AcceptedAs' = AcceptedAs
BY DEF KeysKept, AcceptedAs

(* A step that keeps the keys' rows and all answers is a stutter.           *)
LEMMA QuietStep ==
    ASSUME KeysKept, \A c \in Callers : KeyOf[c] \in Keys => caller'[c].answer = caller[c].answer
    PROVE  UNCHANGED Acceptance!vars
<1>1. Answers' = Answers
  BY DEF Answers
<1> QED BY <1>1, KeysKeptAcceptance DEF Acceptance!vars

(* Being told the row of one's key.                                         *)
LEMMA RecallStep ==
    ASSUME KeyInv, KeysKept, NEW c \in Callers, NEW r \in RowsOf(KeyOf[c]),
           caller[c].pc # "answered",
           caller' = [caller EXCEPT ![c].pc = "answered", ![c].answer = r]
    PROVE  [Acceptance!Next]_(Acceptance!vars)
<1>1. \A d \in Callers \ {c} : caller'[d].answer = caller[d].answer
  BY DEF KeyInv
<1>2. CASE KeyOf[c] \notin Keys
  BY <1>1, <1>2, QuietStep
<1>3. CASE KeyOf[c] \in Keys
  <2>1. r \in RowIds /\ r # NoRow /\ AcceptedAs[KeyOf[c]] = r
    BY <1>3, AcceptedIs DEF RowsOf
  <2>2. Answers[c] = NoRow
    BY <1>3 DEF Answers, KeyInv
  <2>3. Answers' = [Answers EXCEPT ![c] = r]
    <3>1. caller'[c].answer = r
      BY DEF KeyInv
    <3> QED BY <1>1, <1>3, <3>1 DEF Answers
  <2>4. Acceptance!Recall(c)
    BY <2>1, <2>2, <2>3, KeysKeptAcceptance DEF Acceptance!Recall
  <2> QED BY <1>3, <2>4 DEF Acceptance!Next, Acceptance!Keyed
<1> QED BY <1>2, <1>3

(* The insert of a row by its caller.                                       *)
LEMMA EnqueueStep ==
    ASSUME QueueTypes, KeyInv, NEW c \in Callers, EnqueueOwn(c)
    PROVE  /\ [Acceptance!Next]_(Acceptance!vars)
           /\ \A k \in Keys : \A q1, q2 \in RowsOf(k)' : q1 = q2
<1> DEFINE row == Row(IF c \in Holds THEN "held" ELSE "pending", KeyOf[c], BodyOf[c], FALSE, FALSE)
<1>1. PICK r \in RowIds :
         /\ Insert(r, row)
         /\ caller' = [caller EXCEPT ![c].pc = "answered", ![c].answer = r]
  BY DEF EnqueueOwn
<1>2. row \in RowType /\ row.key = KeyOf[c] /\ row.status # "absent"
  BY WordingFacts DEF Row, RowType, Statuses
<1> HIDE DEF row
<1>3. /\ queue'[r] = row /\ ~Exists(r)
      /\ \A q \in RowIds \ {r} : queue'[q] = queue[q]
  BY <1>1, <1>2, InsertTyped DEF Exists
<1>4. /\ \A d \in Callers \ {c} : caller'[d].answer = caller[d].answer
      /\ caller'[c].answer = r /\ caller[c].answer = NoRow
  BY <1>1 DEF KeyInv, EnqueueOwn
<1>5. CASE KeyOf[c] \notin Keys
  <2>1. KeysKept
    BY <1>1, <1>2, <1>5, UnkeyedInsertKeepsKeys
  <2> QED BY <1>4, <1>5, <2>1, QuietStep DEF KeysKept, KeyInv
<1>6. CASE KeyOf[c] \in Keys
  <2>1. RowsOf(KeyOf[c]) = {}
    BY <1>6 DEF EnqueueOwn, Keyed
  <2>2. RowsOf(KeyOf[c])' = {r}
    BY <1>2, <1>3, <2>1 DEF RowsOf, Exists
  <2>3. \A k \in Keys \ {KeyOf[c]} : RowsOf(k)' = RowsOf(k)
    BY <1>2, <1>3 DEF RowsOf, Exists
  <2>4. \A k \in Keys : \A q1, q2 \in RowsOf(k)' : q1 = q2
    BY <2>2, <2>3 DEF KeyInv
  <2>5. OneOf({}) = NoRow /\ OneOf({r}) = r
    BY DEF OneOf
  <2>6. /\ AcceptedAs[KeyOf[c]] = NoRow
        /\ AcceptedAs' = [AcceptedAs EXCEPT ![KeyOf[c]] = r]
    BY <1>6, <2>1, <2>2, <2>3, <2>5 DEF AcceptedAs
  <2>7. ASSUME NEW k \in Keys PROVE AcceptedAs[k] # r
    <3>1. CASE RowsOf(k) = {}
      BY <3>1, <2>5 DEF AcceptedAs
    <3>2. ASSUME NEW q \in RowsOf(k) PROVE AcceptedAs[k] # r
      BY <1>3, <3>2, AcceptedIs DEF RowsOf
    <3> QED BY <3>1, <3>2
  <2>8. Answers' = [Answers EXCEPT ![c] = r]
    BY <1>4, <1>6 DEF Answers
  <2>9. Acceptance!Accept(c, r)
    BY <2>6, <2>7, <2>8 DEF Acceptance!Accept
  <2> QED BY <1>6, <2>4, <2>9 DEF Acceptance!Next, Acceptance!Keyed
<1> QED BY <1>5, <1>6

(* Callers only ever gain an answer by being answered.                      *)
LEMMA CallerMoves ==
    ASSUME KeyInv, NEW c \in Callers,
           \/ \E pc \in {"refused", "reread", "answered", "failed", "queue", "inline"} :
                 MoveCaller(c, pc)
           \/ \E path \in {"queue", "inline"}, pc \in {"copy", "queue", "inline"} :
                 caller' = [caller EXCEPT ![c].path = path, ![c].pc = pc],
           caller[c].pc # "answered"
    PROVE  /\ caller' \in [Callers -> [pc : {"idle", "copy", "queue", "inline", "reread",
                                             "answered", "refused", "failed"},
                                       path : {"queue", "inline"}, answer : RowIds \cup {NoRow}]]
           /\ \A d \in Callers : /\ caller'[d].answer = caller[d].answer
                                 /\ caller'[d].pc # "answered" => caller'[d].answer = NoRow
<1>1. CASE \E pc \in {"refused", "reread", "answered", "failed", "queue", "inline"} :
              MoveCaller(c, pc)
  BY <1>1 DEF MoveCaller, KeyInv
<1>2. CASE \E path \in {"queue", "inline"}, pc \in {"copy", "queue", "inline"} :
              caller' = [caller EXCEPT ![c].path = path, ![c].pc = pc]
  BY <1>2 DEF KeyInv
<1> QED BY <1>1, <1>2

LEMMA UniqueRowsKept ==
    ASSUME KeyInv, KeysKept
    PROVE  \A k \in Keys : \A r, q \in RowsOf(k)' : r = q
BY DEF KeysKept, KeyInv

(* Every step of a caller maps to a step of the abstract specification.     *)
LEMMA SendMessageImplements ==
    ASSUME QueueTypes, KeyInv, NEW c \in Callers, SendMessageStep(c)
    PROVE  KeyInv' /\ [Acceptance!Next]_(Acceptance!vars)
<1>1. ASSUME KeysKept, caller[c].pc # "answered",
             \/ \E pc \in {"refused", "reread", "answered", "failed", "queue", "inline"} :
                   MoveCaller(c, pc)
             \/ \E path \in {"queue", "inline"}, pc \in {"copy", "queue", "inline"} :
                   caller' = [caller EXCEPT ![c].path = path, ![c].pc = pc]
      PROVE  KeyInv' /\ [Acceptance!Next]_(Acceptance!vars)
  BY <1>1, CallerMoves, UniqueRowsKept, QuietStep DEF KeyInv
<1>2. ASSUME NEW r \in RowIds, caller[c].pc # "answered",
             caller' = [caller EXCEPT ![c].pc = "answered", ![c].answer = r]
      PROVE  /\ caller' \in [Callers -> [pc : {"idle", "copy", "queue", "inline", "reread",
                                             "answered", "refused", "failed"},
                                         path : {"queue", "inline"}, answer : RowIds \cup {NoRow}]]
             /\ \A d \in Callers : caller'[d].pc # "answered" => caller'[d].answer = NoRow
  BY <1>2 DEF KeyInv
<1>3. CASE Refuse(c) \/ LoseKey(c) \/ SendInline(c)
  <2>1. KeysKept /\ caller[c].pc # "answered"
    BY <1>3, QuietKeepsKeys DEF Refuse, LoseKey, SendInline
  <2> QED BY <1>1, <1>3, <2>1 DEF Refuse, LoseKey, SendInline
<1>4. CASE PassGates(c)
  <2>1. KeysKept /\ caller[c].pc # "answered"
    BY <1>4, QuietKeepsKeys DEF PassGates
  <2>2. \E path \in {"queue", "inline"}, pc \in {"copy", "queue", "inline"} :
           caller' = [caller EXCEPT ![c].path = path, ![c].pc = pc]
    BY <1>4 DEF PassGates
  <2> QED BY <1>1, <2>1, <2>2
<1>5. CASE CopyManager(c)
  <2>1. BodyOf[c] \in Bodies
    BY DEF Bodies
  <2>2. KeysKept
    BY <1>5, <2>1, CopyKeepsKeys DEF CopyManager
  <2>3. caller[c].path \in {"queue", "inline"} /\ caller[c].pc # "answered"
    BY <1>5 DEF CopyManager, KeyInv
  <2>4. MoveCaller(c, caller[c].path)
    BY <1>5 DEF CopyManager
  <2> QED BY <1>1, <2>2, <2>3, <2>4
<1>6. CASE AnswerKnownKey(c) \/ ReadWinner(c)
  <2>1. KeysKept /\ caller[c].pc # "answered"
    BY <1>6, QuietKeepsKeys DEF AnswerKnownKey, ReadWinner
  <2>2. PICK r \in RowsOf(KeyOf[c]) :
           caller' = [caller EXCEPT ![c].pc = "answered", ![c].answer = r]
    BY <1>6 DEF AnswerKnownKey, ReadWinner
  <2>3. r \in RowIds
    BY DEF RowsOf
  <2>4. KeyInv'
    BY <1>2, <2>1, <2>2, <2>3, UniqueRowsKept DEF KeyInv
  <2> QED BY <2>1, <2>2, <2>4, RecallStep
<1>7. CASE EnqueueOwn(c)
  <2>1. PICK r \in RowIds : caller' = [caller EXCEPT ![c].pc = "answered", ![c].answer = r]
    BY <1>7 DEF EnqueueOwn
  <2>2. caller[c].pc # "answered"
    BY <1>7 DEF EnqueueOwn
  <2>3. KeyInv'
    BY <1>2, <1>7, <2>1, <2>2, EnqueueStep DEF KeyInv
  <2> QED BY <1>7, <2>3, EnqueueStep
<1> QED BY <1>3, <1>4, <1>5, <1>6, <1>7 DEF SendMessageStep

LEMMA AcceptanceStep ==
    QInv /\ BulkShape /\ KeyInv /\ [Next]_vars
       => KeyInv' /\ [Acceptance!Next]_(Acceptance!vars)
<1> SUFFICES ASSUME QInv, BulkShape, KeyInv, [Next]_vars
             PROVE  KeyInv' /\ [Acceptance!Next]_(Acceptance!vars)
  OBVIOUS
<1>1. QueueTypes
  BY DEF QInv
<1>2. ASSUME KeysKept, UNCHANGED caller
      PROVE  KeyInv' /\ [Acceptance!Next]_(Acceptance!vars)
  BY <1>2, UniqueRowsKept, QuietStep DEF KeyInv
<1>3. ASSUME NEW c \in Callers, SendMessageStep(c)
      PROVE  KeyInv' /\ [Acceptance!Next]_(Acceptance!vars)
  BY <1>1, <1>3, SendMessageImplements
<1>4. CASE BulkStep
  <2>1. ASSUME NEW b \in Audience, NEW r \in RowIds, Insert(r, Row("pending", NoKey, b, TRUE, BulkCc))
        PROVE  KeysKept
    <3>1. /\ Row("pending", NoKey, b, TRUE, BulkCc) \in RowType
          /\ Row("pending", NoKey, b, TRUE, BulkCc).key = NoKey
      BY WordingFacts DEF Row, RowType, Statuses
    <3> QED BY <1>1, <2>1, <3>1, UnkeyedInsertKeepsKeys
  <2>2. KeysKept
    BY <1>4, <2>1, QuietKeepsKeys DEF BulkStep, OpenBatch, EnqueueBulk, FinishBulk, BulkShape
  <2>3. UNCHANGED caller
    BY <1>4 DEF BulkStep, OpenBatch, EnqueueBulk, FinishBulk, requests
  <2> QED BY <1>2, <2>2, <2>3
<1>5. ASSUME NEW r \in RowIds, Release(r) \/ Cancel(r) \/ FallsDue(r)
      PROVE  KeyInv' /\ [Acceptance!Next]_(Acceptance!vars)
  <2>1. UNCHANGED caller
    BY <1>5 DEF Release, Cancel, FallsDue, requests
  <2>2. CASE Release(r) \/ Cancel(r)
    <3>1. {"pending", "cancelled"} \subseteq Statuses \ {"absent"} /\ Exists(r)
      BY <2>2 DEF Statuses, Release, Cancel, Exists
    <3>2. SetStatus(r, "pending") \/ SetStatus(r, "cancelled")
      BY <2>2 DEF Release, Cancel
    <3> QED BY <1>1, <1>2, <2>1, <3>1, <3>2, StatusKeepsKeys
  <2>3. CASE FallsDue(r)
    <3>1. \A q \in RowIds : queue'[q].key = queue[q].key /\ (Exists(q)' <=> Exists(q))
      BY <1>1, <2>3 DEF FallsDue, QueueTypes, RowType, Exists
    <3>2. KeysKept
      BY <3>1 DEF KeysKept, RowsOf
    <3> QED BY <1>2, <2>1, <3>2
  <2> QED BY <1>5, <2>2, <2>3
<1>6. ASSUME NEW p \in Processors, DrainStep(p) \/ Die(p)
      PROVE  KeyInv' /\ [Acceptance!Next]_(Acceptance!vars)
  <2>1. UNCHANGED caller
    BY <1>6 DEF DrainStep, SelectDue, Claim, Gate, Send, Record, Count, Catch, CompleteBatches,
       Die, requests
  <2> QED BY <1>2, <1>6, <2>1, DrainKeepsKeys
<1>7. CASE UNCHANGED vars
  BY <1>2, <1>7, QuietKeepsKeys DEF vars
<1> QED BY <1>3, <1>4, <1>5, <1>6, <1>7 DEF Next

LEMMA AcceptanceInit == Init => KeyInv /\ Acceptance!Init
<1> SUFFICES ASSUME Init PROVE KeyInv /\ Acceptance!Init
  OBVIOUS
<1>1. \A k \in Keys : RowsOf(k) = {}
  BY DEF Init, RowsOf, Exists, Absent
<1>2. OneOf({}) = NoRow
  BY DEF OneOf
<1>3. KeyInv
  BY <1>1 DEF Init, KeyInv
<1>4. AcceptedAs = [k \in Keys |-> NoRow]
  BY <1>1, <1>2 DEF AcceptedAs
<1>5. Answers = [c \in {d \in Callers : KeyOf[d] \in Keys} |-> NoRow]
  BY DEF Init, Answers
<1> QED BY <1>3, <1>4, <1>5 DEF Acceptance!Init, Acceptance!Keyed

(* The pipeline, with its lookups, races for the index and drains, accepts  *)
(* a key as one message and answers every caller of the key with it.        *)
THEOREM AcceptsOnce == Spec => KeyedAcceptanceHolds
<1>1. Init => KeyInv /\ Acceptance!Init
  BY AcceptanceInit
<1>2. QInv /\ BulkShape /\ KeyInv /\ [Next]_vars
         => KeyInv' /\ [Acceptance!Next]_(Acceptance!vars)
  BY AcceptanceStep
<1> QED BY <1>1, <1>2, QueueHolds, PTL DEF Spec, KeyedAcceptanceHolds, Acceptance!Spec

-----------------------------------------------------------------------------
(* Completed batches, and what is left of the types.  Said is every wording *)
(* a row that exists can have.                                              *)
Said == Bodies \cup {<<b>> : b \in Bodies}

RestInv ==
    /\ logged \subseteq Said
    /\ copied \subseteq WantsCc
    /\ crashes \in 0..CrashLimit
    /\ bulk \in [pc : {"idle", "enqueue", "done"}, todo : SUBSET Audience]
    /\ batch \in {"none", "pending", "processing", "completed"}
    /\ \A c \in Callers : caller[c].pc = "copy" => c \in WantsCc

(* Rows of the batch are never held, and exist.                             *)
RowShape(r) ==
    /\ queue[r].status # "absent" => queue[r].body \in Said
    /\ queue[r].status \in {"absent", "held"} => ~queue[r].inBatch

Undrained(r) == queue[r].inBatch /\ queue[r].status \in Live /\ queue[r].attempts = 0

(* A batch is open to completion only once everybody is enqueued, and from  *)
(* its completion on no row of it waits for its first attempt.              *)
BatchInv ==
    /\ \A r \in RowIds : RowShape(r)
    /\ batch \in {"processing", "completed"} => bulk.pc = "done" /\ bulk.todo = {}
    /\ batch = "completed" => \A r \in RowIds : ~Undrained(r)

(* What every step but the bulk send's own insert does to a row: nothing,   *)
(* or it makes one outside the batch, or it moves it; and a settled row is  *)
(* put back only by a catch, which charges an attempt.                      *)
RowKept(r) ==
    \/ queue'[r] = queue[r]
    \/ /\ ~queue'[r].inBatch
       /\ queue'[r].body \in Said
    \/ /\ queue'[r].inBatch = queue[r].inBatch /\ queue'[r].body = queue[r].body
       /\ queue[r].status # "absent" /\ queue'[r].status \notin {"absent", "held"}
       /\ \/ queue'[r].status \in Live => queue[r].status \in Live \cup {"held"}
          \/ queue'[r].attempts # 0
       /\ queue'[r].attempts = queue[r].attempts \/ queue'[r].attempts # 0

RowsKept == \A r \in RowIds : RowKept(r)

LEMMA QuietKeepsRows == UNCHANGED queue => RowsKept
BY DEF RowsKept, RowKept

LEMMA StatusKeepsRows ==
    ASSUME QueueTypes, NEW r \in RowIds, queue[r].status # "absent",
           NEW s \in Statuses \ {"absent", "held"}, SetStatus(r, s),
           s \in Live => queue[r].status \in Live \cup {"held"}
    PROVE  RowsKept
<1>1. /\ queue'[r].inBatch = queue[r].inBatch /\ queue'[r].body = queue[r].body
      /\ queue'[r].status = s /\ queue'[r].attempts = queue[r].attempts
      /\ \A q \in RowIds \ {r} : queue'[q] = queue[q]
  BY DEF SetStatus, QueueTypes, RowType
<1> QED BY <1>1 DEF RowsKept, RowKept

LEMMA CopyKeepsRows ==
    ASSUME QueueTypes, NEW b \in Bodies, NEW reached \in BOOLEAN, ManagerCc(b, reached)
    PROVE  RowsKept
<1>1. ASSUME NEW r \in RowIds, Insert(r, Row("pending", NoKey, <<b>>, FALSE, FALSE))
      PROVE  RowsKept
  <2>1. Row("pending", NoKey, <<b>>, FALSE, FALSE) \in RowType
    BY DEF Row, RowType, Statuses, Wordings
  <2>2. /\ queue'[r] = Row("pending", NoKey, <<b>>, FALSE, FALSE)
        /\ \A q \in RowIds \ {r} : queue'[q] = queue[q]
    BY <1>1, <2>1, InsertTyped
  <2>3. ~queue'[r].inBatch /\ queue'[r].body = <<b>> /\ <<b>> \in Said
    BY <2>2 DEF Row, Said
  <2> QED BY <2>2, <2>3 DEF RowsKept, RowKept
<1> QED BY <1>1, QuietKeepsRows DEF ManagerCc

LEMMA SendMessageKeepsRows ==
    ASSUME QueueTypes, NEW c \in Callers, SendMessageStep(c)
    PROVE  RowsKept
<1>1. CASE UNCHANGED queue
  BY <1>1, QuietKeepsRows
<1>2. CASE CopyManager(c)
  <2>1. BodyOf[c] \in Bodies
    BY DEF Bodies
  <2> QED BY <1>2, <2>1, CopyKeepsRows DEF CopyManager
<1>3. CASE EnqueueOwn(c)
  <2> DEFINE row == Row(IF c \in Holds THEN "held" ELSE "pending", KeyOf[c], BodyOf[c], FALSE, FALSE)
  <2>1. PICK r \in RowIds : Insert(r, row)
    BY <1>3 DEF EnqueueOwn
  <2>2. row \in RowType /\ ~row.inBatch /\ row.body \in Said
    BY WordingFacts DEF Row, RowType, Statuses, Said, Bodies
  <2> HIDE DEF row
  <2>3. queue'[r] = row /\ \A q \in RowIds \ {r} : queue'[q] = queue[q]
    BY <2>1, <2>2, InsertTyped
  <2> QED BY <2>2, <2>3 DEF RowsKept, RowKept
<1> QED BY <1>1, <1>2, <1>3 DEF SendMessageStep, Refuse, AnswerKnownKey, PassGates, LoseKey,
        ReadWinner, SendInline

LEMMA CutoverKeepsRows ==
    ASSUME QueueTypes, NEW r \in RowIds, Release(r) \/ Cancel(r) \/ FallsDue(r)
    PROVE  RowsKept
<1>1. CASE Release(r) \/ Cancel(r)
  <2>1. {"pending", "cancelled"} \subseteq Statuses \ {"absent", "held"} /\ "cancelled" \notin Live
    BY DEF Statuses, Live
  <2> QED BY <1>1, <2>1, StatusKeepsRows DEF Release, Cancel
<1>2. CASE FallsDue(r)
  <2>1. /\ queue'[r].inBatch = queue[r].inBatch /\ queue'[r].body = queue[r].body
        /\ queue'[r].status = "pending" /\ queue[r].status = "pending"
        /\ queue'[r].attempts = queue[r].attempts
        /\ \A q \in RowIds \ {r} : queue'[q] = queue[q]
    BY <1>2 DEF FallsDue, QueueTypes, RowType
  <2> QED BY <2>1 DEF RowsKept, RowKept, Live
<1> QED BY <1>1, <1>2

LEMMA DrainKeepsRows ==
    ASSUME QInv, NEW p \in Processors, DrainStep(p) \/ Die(p)
    PROVE  RowsKept
<1>0. QueueTypes
  BY DEF QInv
<1>1. CASE UNCHANGED queue
  BY <1>1, QuietKeepsRows
<1>2. {"claimed", "skipped", "sent"} \subseteq Statuses \ {"absent", "held"}
      /\ Live = {"pending", "claimed"}
  BY DEF Statuses, Live
<1>3. ASSUME proc[p].pc \in {"gate", "send", "record", "count", "catch"}
      PROVE  Own(p) \in RowIds /\ queue[Own(p)].status # "absent"
  BY <1>3, InHand DEF HandOK
<1>4. CASE Claim(p)
  <2>1. ASSUME NEW r \in proc[p].ids PROVE r \in RowIds
    BY <1>0, <2>1 DEF QueueTypes, DrainType
  <2>2. ASSUME NEW r \in proc[p].ids, queue[r].status = "pending", SetStatus(r, "claimed")
        PROVE  RowsKept
    BY <1>0, <1>2, <2>1, <2>2, StatusKeepsRows
  <2> QED BY <1>1, <1>4, <2>2 DEF Claim
<1>5. CASE Gate(p)
  <2>1. CASE SetStatus(Own(p), "skipped")
    BY <1>0, <1>2, <1>3, <1>5, <2>1, StatusKeepsRows DEF Gate, At
  <2> QED BY <1>1, <1>5, <2>1 DEF Gate
<1>6. CASE Record(p)
  <2>1. CASE SetStatus(Own(p), "sent")
    BY <1>0, <1>2, <1>3, <1>6, <2>1, StatusKeepsRows DEF Record, At
  <2> QED BY <1>1, <1>6, <2>1 DEF Record
<1>7. CASE Count(p)
  <2>1. ASSUME queue[Own(p)].cc, NEW reached \in BOOLEAN, ManagerCc(queue[Own(p)].body, reached)
        PROVE  RowsKept
    <3>1. queue[Own(p)].body \in Bodies
      BY <1>7, <2>1, InHand DEF Count, At, RowOK, Bodies
    <3> QED BY <1>0, <2>1, <3>1, CopyKeepsRows
  <2> QED BY <1>1, <1>7, <2>1 DEF Count
<1>8. CASE Catch(p)
  <2>1. PICK r \in RowIds : r = Own(p) /\ queue[r].status # "absent" /\ queue[r] \in RowType
    BY <1>3, <1>8, InHand DEF Catch, At
  <2>2. /\ queue'[r].inBatch = queue[r].inBatch /\ queue'[r].body = queue[r].body
        /\ queue'[r].status \in {"failed", "pending"}
        /\ queue'[r].attempts = queue[r].attempts + 1
        /\ \A q \in RowIds \ {r} : queue'[q] = queue[q]
    BY <1>0, <1>8, <2>1 DEF Catch, QueueTypes, RowType
  <2>3. queue'[r].attempts # 0
    BY <2>1, <2>2 DEF RowType
  <2> QED BY <2>1, <2>2, <2>3 DEF RowsKept, RowKept
<1>9. CASE SelectDue(p) \/ Send(p) \/ CompleteBatches(p) \/ Die(p)
  BY <1>1, <1>9 DEF SelectDue, Send, CompleteBatches, Die
<1> QED BY <1>4, <1>5, <1>6, <1>7, <1>8, <1>9 DEF DrainStep

(* Such a step leaves no row of the batch waiting that was not.             *)
LEMMA KeptRows ==
    ASSUME RowsKept, NEW r \in RowIds, RowShape(r)
    PROVE  RowShape(r)' /\ (Undrained(r)' => Undrained(r))
<1>1. RowKept(r)
  BY DEF RowsKept
<1>2. CASE queue'[r] = queue[r]
  BY <1>2 DEF RowShape, Undrained
<1>3. CASE ~queue'[r].inBatch /\ queue'[r].body \in Said
  BY <1>3 DEF RowShape, Undrained
<1>4. CASE /\ queue'[r].inBatch = queue[r].inBatch /\ queue'[r].body = queue[r].body
           /\ queue[r].status # "absent" /\ queue'[r].status \notin {"absent", "held"}
           /\ \/ queue'[r].status \in Live => queue[r].status \in Live \cup {"held"}
              \/ queue'[r].attempts # 0
           /\ queue'[r].attempts = queue[r].attempts \/ queue'[r].attempts # 0
  BY <1>4 DEF RowShape, Undrained
<1> QED BY <1>1, <1>2, <1>3, <1>4 DEF RowKept

LEMMA BatchKept ==
    ASSUME BatchInv, RowsKept, UNCHANGED bulk, batch' = batch
    PROVE  BatchInv'
BY KeptRows DEF BatchInv

LEMMA BulkKeepsBatch ==
    ASSUME QueueTypes, RestInv, BatchInv, BulkStep
    PROVE  BatchInv' /\ bulk' \in [pc : {"idle", "enqueue", "done"}, todo : SUBSET Audience]
                     /\ batch' \in {"none", "pending", "processing", "completed"}
<1> USE DEF RestInv
<1>1. CASE OpenBatch
  <2>1. RowsKept
    BY <1>1, QuietKeepsRows DEF OpenBatch
  <2>2. \A r \in RowIds : RowShape(r)'
    BY <2>1, KeptRows DEF BatchInv
  <2> QED BY <1>1, <2>2 DEF OpenBatch, BatchInv
<1>2. CASE FinishBulk
  <2>1. RowsKept
    BY <1>2, QuietKeepsRows DEF FinishBulk
  <2>2. \A r \in RowIds : RowShape(r)'
    BY <2>1, KeptRows DEF BatchInv
  <2>3. bulk'.pc = "done" /\ bulk'.todo = {} /\ batch' = "processing"
    BY <1>2 DEF FinishBulk
  <2>4. bulk' \in [pc : {"idle", "enqueue", "done"}, todo : SUBSET Audience]
    BY <1>2 DEF FinishBulk
  <2> QED BY <2>2, <2>3, <2>4 DEF BatchInv
<1>3. CASE EnqueueBulk
  <2>1. PICK b \in bulk.todo, r \in RowIds :
           /\ Insert(r, Row("pending", NoKey, b, TRUE, BulkCc))
           /\ bulk' = [bulk EXCEPT !.todo = bulk.todo \ {b}]
    BY <1>3 DEF EnqueueBulk
  <2>2. b \in Audience /\ Row("pending", NoKey, b, TRUE, BulkCc) \in RowType
    BY <2>1, WordingFacts DEF Row, RowType, Statuses
  <2>3. /\ queue'[r] = Row("pending", NoKey, b, TRUE, BulkCc)
        /\ \A q \in RowIds \ {r} : queue'[q] = queue[q]
    BY <2>1, <2>2, InsertTyped
  <2>4. RowShape(r)'
    BY <2>2, <2>3 DEF RowShape, Row, Said, Bodies
  <2>5. \A q \in RowIds \ {r} : RowShape(q)'
    BY <2>3 DEF RowShape, BatchInv
  <2>6. batch' = batch /\ batch \notin {"processing", "completed"}
    BY <1>3 DEF EnqueueBulk, BatchInv
  <2>7. bulk' \in [pc : {"idle", "enqueue", "done"}, todo : SUBSET Audience]
    BY <2>1
  <2> QED BY <2>4, <2>5, <2>6, <2>7 DEF BatchInv
<1> QED BY <1>1, <1>2, <1>3 DEF BulkStep

(* The completion looks at every row of the batch in one statement.         *)
LEMMA CompletionKeepsBatch ==
    ASSUME BatchInv, NEW p \in Processors, CompleteBatches(p)
    PROVE  BatchInv' /\ batch' \in {batch, "completed"}
<1>1. RowsKept /\ UNCHANGED bulk
  BY QuietKeepsRows DEF CompleteBatches
<1>2. CASE batch' = batch
  BY <1>1, <1>2, BatchKept
<1>3. CASE /\ batch = "processing" /\ batch' = "completed"
           /\ \A r \in RowIds : queue[r].inBatch => queue[r].status \notin Live
  <2>1. \A r \in RowIds : RowShape(r)' /\ ~Undrained(r)'
    <3>1. \A r \in RowIds : ~Undrained(r)
      BY <1>3 DEF Undrained
    <3> QED BY <1>1, <3>1, KeptRows DEF BatchInv
  <2> QED BY <1>1, <1>3, <2>1 DEF BatchInv
<1> QED BY <1>2, <1>3 DEF CompleteBatches

LEMMA BatchStep ==
    QInv /\ RestInv /\ BatchInv /\ [Next]_vars => BatchInv'
<1> SUFFICES ASSUME QInv, RestInv, BatchInv, [Next]_vars PROVE BatchInv'
  OBVIOUS
<1>1. QueueTypes
  BY DEF QInv
<1>2. ASSUME NEW c \in Callers, SendMessageStep(c) PROVE BatchInv'
  <2>1. UNCHANGED bulk /\ batch' = batch
    BY <1>2 DEF SendMessageStep, Refuse, AnswerKnownKey, PassGates, CopyManager, EnqueueOwn,
       LoseKey, ReadWinner, SendInline, batches
  <2> QED BY <1>1, <1>2, <2>1, SendMessageKeepsRows, BatchKept
<1>3. CASE BulkStep
  BY <1>1, <1>3, BulkKeepsBatch
<1>4. ASSUME NEW r \in RowIds, Release(r) \/ Cancel(r) \/ FallsDue(r) PROVE BatchInv'
  <2>1. UNCHANGED bulk /\ batch' = batch
    BY <1>4 DEF Release, Cancel, FallsDue, batches
  <2> QED BY <1>1, <1>4, <2>1, CutoverKeepsRows, BatchKept
<1>5. ASSUME NEW p \in Processors, CompleteBatches(p) PROVE BatchInv'
  BY <1>5, CompletionKeepsBatch
<1>6. ASSUME NEW p \in Processors, DrainStep(p) \/ Die(p), ~CompleteBatches(p) PROVE BatchInv'
  <2>1. UNCHANGED bulk /\ batch' = batch
    BY <1>6 DEF DrainStep, SelectDue, Claim, Gate, Send, Record, Count, Catch, Die, batches
  <2> QED BY <1>6, <2>1, DrainKeepsRows, BatchKept
<1>7. CASE UNCHANGED vars
  BY <1>7, QuietKeepsRows, BatchKept DEF vars
<1> QED BY <1>2, <1>3, <1>4, <1>5, <1>6, <1>7 DEF Next

LEMMA RestStep ==
    QInv /\ KeyInv /\ RestInv /\ BatchInv /\ [Next]_vars => RestInv'
<1> SUFFICES ASSUME QInv, KeyInv, RestInv, BatchInv, [Next]_vars PROVE RestInv'
  OBVIOUS
<1> USE DEF RestInv
<1>1. QueueTypes
  BY DEF QInv
<1>2. ASSUME NEW c \in Callers, SendMessageStep(c) PROVE RestInv'
  <2>1. BodyOf[c] \in Said /\ caller[c].path # "copy"
    BY DEF Said, Bodies, KeyInv
  <2>2. logged' \subseteq Said
    BY <1>2, <2>1 DEF SendMessageStep, Refuse, AnswerKnownKey, PassGates, CopyManager,
       EnqueueOwn, LoseKey, ReadWinner, SendInline
  <2>3. copied' \subseteq WantsCc
    <3>1. CASE CopyManager(c)
      BY <3>1 DEF CopyManager
    <3> QED BY <1>2, <3>1 DEF SendMessageStep, Refuse, AnswerKnownKey, PassGates,
            EnqueueOwn, LoseKey, ReadWinner, SendInline
  <2>4. ASSUME NEW d \in Callers, caller'[d].pc = "copy" PROVE d \in WantsCc
    <3>1. CASE PassGates(c)
      BY <2>4, <3>1 DEF PassGates, KeyInv
    <3>2. CASE CopyManager(c)
      BY <2>1, <2>4, <3>2 DEF CopyManager, MoveCaller, KeyInv
    <3>3. CASE Refuse(c) \/ LoseKey(c) \/ SendInline(c)
      BY <2>4, <3>3 DEF Refuse, LoseKey, SendInline, MoveCaller, KeyInv
    <3>4. CASE AnswerKnownKey(c) \/ EnqueueOwn(c) \/ ReadWinner(c)
      <4>1. PICK r : caller' = [caller EXCEPT ![c].pc = "answered", ![c].answer = r]
        BY <3>4 DEF AnswerKnownKey, EnqueueOwn, ReadWinner
      <4> QED BY <2>4, <4>1 DEF KeyInv
    <3> QED BY <1>2, <3>1, <3>2, <3>3, <3>4 DEF SendMessageStep
  <2>5. UNCHANGED <<crashes, bulk, batch>>
    BY <1>2 DEF SendMessageStep, Refuse, AnswerKnownKey, PassGates, CopyManager,
       EnqueueOwn, LoseKey, ReadWinner, SendInline, batches
  <2> QED BY <2>2, <2>3, <2>4, <2>5
<1>3. CASE BulkStep
  BY <1>1, <1>3, BulkKeepsBatch DEF BulkStep, OpenBatch, EnqueueBulk, FinishBulk, requests
<1>4. ASSUME NEW r \in RowIds, Release(r) \/ Cancel(r) \/ FallsDue(r) PROVE RestInv'
  BY <1>4 DEF Release, Cancel, FallsDue, requests, batches
<1>5. ASSUME NEW p \in Processors, CompleteBatches(p) PROVE RestInv'
  BY <1>5, CompletionKeepsBatch DEF CompleteBatches, requests
<1>6. ASSUME NEW p \in Processors, Record(p) PROVE RestInv'
  <2>1. queue[Own(p)].body \in Said
    BY <1>6, InHand DEF Record, At, HandOK, BatchInv, RowShape
  <2> QED BY <1>6, <2>1 DEF Record, requests, batches
<1>7. ASSUME NEW p \in Processors, Die(p) PROVE RestInv'
  BY <1>7 DEF Die, requests, batches
<1>8. ASSUME NEW p \in Processors,
             SelectDue(p) \/ Claim(p) \/ Gate(p) \/ Send(p) \/ Count(p) \/ Catch(p)
      PROVE  RestInv'
  BY <1>8 DEF SelectDue, Claim, Gate, Send, Count, Catch, requests, batches
<1>9. CASE UNCHANGED vars
  BY <1>9 DEF vars
<1> QED BY <1>2, <1>3, <1>4, <1>5, <1>6, <1>7, <1>8, <1>9 DEF Next, DrainStep

LEMMA BatchInit == Init => RestInv /\ BatchInv
<1> SUFFICES ASSUME Init PROVE RestInv /\ BatchInv
  OBVIOUS
<1>1. RestInv
  BY DEF Init, RestInv
<1>2. BatchInv
  BY DEF Init, BatchInv, RowShape, Absent
<1> QED BY <1>1, <1>2

THEOREM BatchHolds == Spec => [](QInv /\ KeyInv /\ RestInv /\ BatchInv)
<1>1. Init => KeyInv
  BY AcceptanceInit
<1>2. QInv /\ BulkShape /\ KeyInv /\ [Next]_vars => KeyInv'
  BY AcceptanceStep
<1> QED BY <1>1, <1>2, BatchInit, BatchStep, RestStep, QueueHolds, PTL DEF Spec

(* A batch is completed only when everybody is enqueued, and from then on a *)
(* row of it is live only if a drain had it in hand and put it back.        *)
THEOREM CompletedIsDrained == Spec => []CompletedBatchIsDrained
<1>1. QInv /\ BatchInv => CompletedBatchIsDrained
  <2> SUFFICES ASSUME QInv, BatchInv, batch = "completed"
               PROVE  /\ bulk.todo = {}
                      /\ \A r \in RowIds : queue[r].inBatch /\ queue[r].status \in Live
                                              => queue[r].attempts > 0
    BY DEF CompletedBatchIsDrained
  <2>1. ASSUME NEW r \in RowIds, queue[r].inBatch, queue[r].status \in Live
        PROVE  queue[r].attempts > 0
    <3>1. queue[r].attempts \in Nat /\ queue[r].attempts # 0
      BY <2>1 DEF QInv, QueueTypes, RowType, BatchInv, Undrained
    <3> QED BY <3>1
  <2> QED BY <2>1 DEF BatchInv
<1> QED BY <1>1, BatchHolds, PTL

(* Every value a request, a drain or the bulk send writes is one its column *)
(* or its step has a place for, and attempts and texts keep their limit.    *)
THEOREM QueueTypeCorrect == Spec => []TypeOK
<1>1. QInv /\ KeyInv /\ RestInv /\ BatchInv => TypeOK
  <2> SUFFICES ASSUME QInv, KeyInv, RestInv, BatchInv PROVE TypeOK
    OBVIOUS
  <2>1. ASSUME NEW r \in RowIds
        PROVE  /\ queue[r] \in [status : Statuses, key : Keys \cup {NoKey},
                                body : {NoRow} \cup Bodies \cup {<<b>> : b \in Bodies},
                                inBatch : BOOLEAN, cc : BOOLEAN, due : BOOLEAN,
                                attempts : 0..MaxAttempts]
               /\ texts[r] \in 0..MaxAttempts
    <3>1. queue[r] \in RowType /\ texts[r] \in Nat /\ RowOK(r)
      BY DEF QInv, QueueTypes
    <3>2. queue[r].status \in Statuses /\ queue[r].attempts \in Nat
      BY <3>1 DEF RowType
    <3>3. queue[r].attempts \in 0..MaxAttempts /\ texts[r] \in 0..MaxAttempts
      BY <3>1, <3>2 DEF RowOK, Statuses
    <3> QED BY <3>1, <3>3 DEF RowType, Wordings
  <2>2. queue \in [RowIds -> [status : Statuses, key : Keys \cup {NoKey},
                              body : {NoRow} \cup Bodies \cup {<<b>> : b \in Bodies},
                              inBatch : BOOLEAN, cc : BOOLEAN, due : BOOLEAN,
                              attempts : 0..MaxAttempts]]
    BY <2>1 DEF QInv, QueueTypes
  <2>3. texts \in [RowIds -> 0..MaxAttempts]
    BY <2>1 DEF QInv, QueueTypes
  <2>4. proc \in [Processors -> [pc : Steps, ids : SUBSET RowIds, row : RowIds \cup {NoRow}]]
    BY DEF QInv, QueueTypes, DrainType
  <2> QED BY <2>2, <2>3, <2>4 DEF TypeOK, KeyInv, RestInv, Said, Steps
<1> QED BY <1>1, BatchHolds, PTL
=============================================================================
