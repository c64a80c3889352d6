------------------------ MODULE VrmNotificationsProofs ------------------------
(***************************************************************************)
(* Proofs about the outbox of rental decisions (VrmNotifications), for any  *)
(* number of instances, rows, ticks, callbacks and faults: the types, that  *)
(* a row at rest stays at rest, and that no instance texts a row twice for  *)
(* nothing.                                                                 *)
(***************************************************************************)
EXTENDS VrmNotifications, FiniteSetTheorems, TLAPS

USE NotificationAssumption

-----------------------------------------------------------------------------
(* Bags.                                                                   *)

(* How often a dispatch stands in a bag.                                    *)
Copies(e, B) == IF BagIn(e, B) THEN B[e] ELSE 0

(* Adding a set to a bag adds one copy of each member.                      *)
LEMMA Added ==
    ASSUME NEW B, IsABag(B), NEW S
    PROVE  /\ IsABag(B (+) SetToBag(S))
           /\ \A e : Copies(e, B (+) SetToBag(S)) = Copies(e, B) + (IF e \in S THEN 1 ELSE 0)
BY DEF IsABag, (+), SetToBag, Copies, BagIn, BagToSet

(* Taking one member out of a bag takes one copy of it.                     *)
LEMMA Dropped ==
    ASSUME NEW B, IsABag(B), NEW x, BagIn(x, B)
    PROVE  /\ IsABag(B (-) SetToBag({x}))
           /\ \A e : Copies(e, B (-) SetToBag({x})) = Copies(e, B) - (IF e = x THEN 1 ELSE 0)
BY DEF IsABag, (-), SetToBag, Copies, BagIn, BagToSet

(* The members are those with a copy.                                       *)
LEMMA Members ==
    ASSUME NEW B, IsABag(B)
    PROVE  \A e : /\ Copies(e, B) \in Nat
                  /\ BagIn(e, B) <=> Copies(e, B) > 0
                  /\ e \in BagToSet(B) <=> Copies(e, B) > 0
BY DEF IsABag, Copies, BagIn, BagToSet

-----------------------------------------------------------------------------
(* The types, and the shape of a tick: it has a row in hand while it waits  *)
(* for one or is about to mark it, and no list before its query.            *)
TickRec == [pc : TickPcs, batch : SUBSET Rows, at : Rows \cup {None}, call : CallPcs \cup CallEnds]

WellShaped(q) ==
    /\ q \in TickRec
    /\ q.pc \in {"waiting", "failing"} => q.at \in Rows \ q.batch
    /\ q.at # None => q.pc \in {"waiting", "failing"}
    /\ q.pc \in {"idle", "query", "hung"} => q.batch = {}

RowTypes == row \in [Rows -> [status : Statuses, due : BOOLEAN, sid : BOOLEAN, phone : BOOLEAN]]
TickTypes == tick \in [Ticks -> TickRec] /\ \A t \in Ticks : WellShaped(tick[t])
LateBag(B) == IsABag(B) /\ \A c \in BagToSet(B) : c \in Rows \X CallPcs
LateTypes == DOMAIN late = Instances /\ \A i \in Instances : LateBag(late[i])
CallbackTypes ==
    callback \in [Callbacks -> [pc : {"idle", "write"}, n : Rows \cup {None}, news : News]]
CallbackAims == \A k \in Callbacks : callback[k].pc = "write" => callback[k].n \in Rows
CountTypes ==
    /\ guard \in [Instances -> GuardStates] /\ rerun \in [Instances -> BOOLEAN]
    /\ texts \in [Instances -> [Rows -> Nat]]
    /\ faults \in [Instances -> Nat] /\ slow \in 0..MaxSlow

TypeInv == RowTypes /\ TickTypes /\ LateTypes /\ CallbackTypes /\ CallbackAims /\ CountTypes

(* A step that replaces one tick by a well-shaped one keeps their types.    *)
LEMMA OneTick ==
    ASSUME TickTypes, NEW t \in Ticks, NEW q, WellShaped(q), tick' = [tick EXCEPT ![t] = q]
    PROVE  TickTypes' /\ tick'[t] = q /\ \A u \in Ticks \ {t} : tick'[u] = tick[u]
<1>1. tick' \in [Ticks -> TickRec]
  BY DEF TickTypes, WellShaped
<1>2. tick'[t] = q /\ \A u \in Ticks \ {t} : tick'[u] = tick[u]
  BY DEF TickTypes
<1>3. \A u \in Ticks : WellShaped(tick'[u])
  BY <1>2 DEF TickTypes
<1> QED BY <1>1, <1>2, <1>3 DEF TickTypes, WellShaped

LEMMA IdleShaped == WellShaped(IdleTick)
BY DEF WellShaped, IdleTick, TickRec, TickPcs, CallPcs, CallEnds

(* So does a step that replaces the late dispatches of one instance.        *)
LEMMA OneLate ==
    ASSUME LateTypes, NEW i \in Instances, NEW B, LateBag(B), late' = [late EXCEPT ![i] = B]
    PROVE  LateTypes' /\ late'[i] = B /\ \A j \in Instances \ {i} : late'[j] = late[j]
<1>1. late'[i] = B /\ \A j \in Instances \ {i} : late'[j] = late[j]
  BY DEF LateTypes
<1>2. DOMAIN late' = Instances
  BY DEF LateTypes
<1>3. \A j \in Instances : LateBag(late'[j])
  BY <1>1 DEF LateTypes
<1> QED BY <1>1, <1>2, <1>3 DEF LateTypes, LateBag

(* What a step of dispatchOne does to the tick that awaits it or to those   *)
(* that go on late.                                                         *)
AwaitedMove(t, n, from, to) ==
    /\ tick[t].pc = "waiting" /\ tick[t].at = n /\ tick[t].call = from
    /\ tick' = [tick EXCEPT ![t] = [tick[t] EXCEPT !.call = to]]
    /\ late' = late

LateMove(i, n, from, to) ==
    /\ Copies(<<n, from>>, late[i]) > 0
    /\ \A e : Copies(e, late'[i]) = Copies(e, late[i]) - (IF e = <<n, from>> THEN 1 ELSE 0)
                                   + (IF e = <<n, to>> /\ to \notin CallEnds THEN 1 ELSE 0)
    /\ \A j \in Instances \ {i} : late'[j] = late[j]
    /\ tick' = tick

LEMMA MovesDo ==
    ASSUME TickTypes, LateTypes, NEW i \in Instances, NEW n \in Rows,
           NEW from \in CallPcs, NEW to \in CallPcs \cup CallEnds, Moves(i, n, from, to)
    PROVE  /\ TickTypes' /\ LateTypes'
           /\ (\E t \in TicksOf(i) : AwaitedMove(t, n, from, to)) \/ LateMove(i, n, from, to)
<1>1. ASSUME NEW t \in TicksOf(i), tick[t].pc = "waiting", tick[t].at = n, tick[t].call = from,
             tick' = [tick EXCEPT ![t].call = to], UNCHANGED late
      PROVE  TickTypes' /\ LateTypes' /\ AwaitedMove(t, n, from, to)
  <2>1. t \in Ticks /\ tick' = [tick EXCEPT ![t] = [tick[t] EXCEPT !.call = to]]
    BY <1>1 DEF TicksOf
  <2>2. WellShaped([tick[t] EXCEPT !.call = to])
    BY <2>1 DEF TickTypes, WellShaped, TickRec
  <2>3. LateTypes'
    BY <1>1 DEF LateTypes
  <2> QED BY <1>1, <2>1, <2>2, <2>3, OneTick DEF AwaitedMove
<1>2. ASSUME BagIn(<<n, from>>, late[i]),
             late' = [late EXCEPT ![i] = (late[i] (-) SetToBag({<<n, from>>}))
                                            (+) SetToBag({<<n, pc>> : pc \in {to} \ CallEnds})],
             UNCHANGED tick
      PROVE  TickTypes' /\ LateTypes' /\ LateMove(i, n, from, to)
  <2> DEFINE rest == late[i] (-) SetToBag({<<n, from>>})
             more == {<<n, pc>> : pc \in {to} \ CallEnds}
             after == rest (+) SetToBag(more)
  <2>1. /\ IsABag(rest)
        /\ \A e : Copies(e, rest) = Copies(e, late[i]) - (IF e = <<n, from>> THEN 1 ELSE 0)
    BY <1>2, Dropped DEF LateTypes, LateBag
  <2>2. /\ IsABag(after)
        /\ \A e : Copies(e, after) = Copies(e, rest) + (IF e \in more THEN 1 ELSE 0)
    <3> HIDE DEF rest, more
    <3> QED BY <2>1, Added
  <2>3. \A e : e \in more <=> (e = <<n, to>> /\ to \notin CallEnds)
    OBVIOUS
  <2>8. late' = [late EXCEPT ![i] = after]
    BY <1>2
  <2> HIDE DEF rest, more, after
  <2>4. \A e : Copies(e, after) = Copies(e, late[i]) - (IF e = <<n, from>> THEN 1 ELSE 0)
                                   + (IF e = <<n, to>> /\ to \notin CallEnds THEN 1 ELSE 0)
    BY <2>1, <2>2, <2>3
  <2>5. Copies(<<n, from>>, late[i]) > 0
    BY <1>2, Members DEF LateTypes, LateBag
  <2>6. \A e \in BagToSet(after) : e \in Rows \X CallPcs
    <3> SUFFICES ASSUME NEW e, e \in BagToSet(after), ~(e = <<n, to>> /\ to \notin CallEnds)
                 PROVE  e \in Rows \X CallPcs
      OBVIOUS
    <3>1. Copies(e, after) > 0
      BY <2>2, Members
    <3>2. Copies(e, late[i]) \in Nat /\ Copies(e, late[i]) > 0
      BY <2>4, <3>1, Members DEF LateTypes, LateBag
    <3> QED BY <3>2, Members DEF LateTypes, LateBag
  <2>7. TickTypes'
    BY <1>2 DEF TickTypes
  <2>9. LateTypes' /\ late'[i] = after /\ \A j \in Instances \ {i} : late'[j] = late[j]
    BY <2>2, <2>6, <2>8, OneLate DEF LateBag
  <2> QED BY <1>2, <2>4, <2>5, <2>7, <2>9 DEF LateMove
<1> QED BY <1>1, <1>2 DEF Moves

(* Each step of a tick leaves it well-shaped and the other ticks alone.     *)
LEMMA TickSteps ==
    ASSUME TypeInv, NEW t \in Ticks,
           \/ TickStart(t) \/ TickForce(t) \/ TickQuery(t) \/ QueryHangs(t) \/ Send(t) \/ SendEnds(t)
           \/ SendTimesOut(t) \/ TickMarksFailed(t) \/ TickMarkFails(t) \/ TickAgain(t) \/ TickEnd(t)
           \/ TickThrows(t)
    PROVE  TickTypes' /\ \A u \in Ticks \ {t} : tick'[u] = tick[u]
<1> USE DEF TypeInv
<1> DEFINE q == tick[t]
           Goal == TickTypes' /\ \A u \in Ticks \ {t} : tick'[u] = tick[u]
<1>0. q \in TickRec /\ WellShaped(q)
  BY DEF TickTypes
<1>1. CASE TickStart(t) \/ TickForce(t)
  <2>1. tick' = [tick EXCEPT ![t] = [IdleTick EXCEPT !.pc = "query"]]
    BY <1>1 DEF TickStart, TickForce, Begins
  <2>2. WellShaped([IdleTick EXCEPT !.pc = "query"])
    BY DEF WellShaped, IdleTick, TickRec, TickPcs, CallPcs, CallEnds
  <2> QED BY <2>1, <2>2, OneTick
<1>2. CASE TickQuery(t)
  <2>1. tick' = [tick EXCEPT ![t] = [[q EXCEPT !.pc = "loop"] EXCEPT !.batch = getQueuedNotifications]]
    BY <1>2 DEF TickQuery, TickTypes
  <2>2. WellShaped([[q EXCEPT !.pc = "loop"] EXCEPT !.batch = getQueuedNotifications])
    BY <1>0, <1>2 DEF TickQuery, WellShaped, TickRec, TickPcs, getQueuedNotifications
  <2> QED BY <2>1, <2>2, OneTick
<1>3. CASE QueryHangs(t) \/ TickAgain(t)
  <2>1. PICK to \in {"hung", "query"} : tick' = [tick EXCEPT ![t] = [q EXCEPT !.pc = to]]
    BY <1>3 DEF QueryHangs, TickAgain, TickGoes
  <2>2. q.batch = {} /\ q.pc \in {"query", "loop"}
    BY <1>0, <1>3 DEF QueryHangs, TickAgain, WellShaped
  <2>3. WellShaped([q EXCEPT !.pc = to])
    BY <1>0, <2>1, <2>2 DEF WellShaped, TickRec, TickPcs
  <2> QED BY <2>1, <2>3, OneTick
<1>4. CASE Send(t)
  <2>1. PICK n \in First(q.batch) :
            tick' = [tick EXCEPT ![t] = [pc |-> "waiting", batch |-> q.batch \ {n}, at |-> n, call |-> "gate"]]
    BY <1>4 DEF Send, Left
  <2>2. WellShaped([pc |-> "waiting", batch |-> q.batch \ {n}, at |-> n, call |-> "gate"])
    BY <1>0, <2>1 DEF First, WellShaped, TickRec, TickPcs, CallPcs
  <2> QED BY <2>1, <2>2, OneTick
<1>5. ASSUME tick' = [tick EXCEPT ![t] = [[[q EXCEPT !.pc = "loop"] EXCEPT !.at = None] EXCEPT !.call = "gate"]]
      PROVE  Goal
  <2>1. WellShaped([[[q EXCEPT !.pc = "loop"] EXCEPT !.at = None] EXCEPT !.call = "gate"])
    BY <1>0 DEF WellShaped, TickRec, TickPcs, CallPcs
  <2> QED BY <1>5, <2>1, OneTick
<1>6. Loops(t) => tick' = [tick EXCEPT ![t] = [[[q EXCEPT !.pc = "loop"] EXCEPT !.at = None] EXCEPT !.call = "gate"]]
  BY DEF Loops, TickTypes
<1>7. CASE SendEnds(t)
  <2>1. CASE TickGoes(t, "failing")
    <3>1. tick' = [tick EXCEPT ![t] = [q EXCEPT !.pc = "failing"]]
      BY <2>1 DEF TickGoes
    <3>2. WellShaped([q EXCEPT !.pc = "failing"])
      BY <1>0, <1>7 DEF SendEnds, WellShaped, TickRec, TickPcs
    <3> QED BY <3>1, <3>2, OneTick
  <2> QED BY <1>5, <1>6, <1>7, <2>1 DEF SendEnds
<1>8. CASE SendTimesOut(t)
  <2>1. tick' = [tick EXCEPT ![t] = [[q EXCEPT !.pc = "failing"] EXCEPT !.call = "gate"]]
    BY <1>8 DEF SendTimesOut, TickTypes
  <2>2. WellShaped([[q EXCEPT !.pc = "failing"] EXCEPT !.call = "gate"])
    BY <1>0, <1>8 DEF SendTimesOut, GivesUp, WellShaped, TickRec, TickPcs, CallPcs
  <2> QED BY <2>1, <2>2, OneTick
<1>9. CASE TickMarksFailed(t) \/ TickMarkFails(t)
  BY <1>5, <1>6, <1>9 DEF TickMarksFailed, TickMarkFails
<1>10. CASE TickEnd(t) \/ TickThrows(t)
  BY <1>10, IdleShaped, OneTick DEF TickEnd, TickThrows
<1> QED BY <1>1, <1>2, <1>3, <1>4, <1>7, <1>8, <1>9, <1>10

(* A dispatch whose tick gives up on it goes on late.                       *)
LEMMA GoesOnLate ==
    ASSUME TypeInv, NEW t \in Ticks, SendTimesOut(t)
    PROVE  /\ LateTypes' /\ tick[t].at \in Rows
           /\ \A j \in Instances \ {Host[t]} : late'[j] = late[j]
           /\ \A e : Copies(e, late'[Host[t]]) =
                 Copies(e, late[Host[t]])
                    + (IF e = <<tick[t].at, tick[t].call>> /\ tick[t].call \notin CallEnds THEN 1 ELSE 0)
<1> DEFINE more == {<<tick[t].at, pc>> : pc \in {tick[t].call} \ CallEnds}
           after == late[Host[t]] (+) SetToBag(more)
<1>1. /\ tick[t].at \in Rows /\ tick[t].call \in CallPcs \cup CallEnds
      /\ Host[t] \in Instances
  BY DEF TypeInv, TickTypes, WellShaped, TickRec, SendTimesOut, GivesUp
<1>2. \A e : e \in more <=> (e = <<tick[t].at, tick[t].call>> /\ tick[t].call \notin CallEnds)
  OBVIOUS
<1>3. late' = [late EXCEPT ![Host[t]] = after]
  BY DEF SendTimesOut
<1>4. LateBag(late[Host[t]])
  BY <1>1 DEF TypeInv, LateTypes
<1> HIDE DEF more
<1>5. /\ IsABag(after)
      /\ \A e : Copies(e, after) = Copies(e, late[Host[t]]) + (IF e \in more THEN 1 ELSE 0)
  BY <1>4, Added DEF LateBag
<1> HIDE DEF after
<1>6. \A e \in BagToSet(after) : e \in Rows \X CallPcs
  <2> SUFFICES ASSUME NEW e, e \in BagToSet(after), e \notin more PROVE e \in Rows \X CallPcs
    BY <1>1, <1>2
  <2>1. Copies(e, late[Host[t]]) > 0
    BY <1>4, <1>5, Members DEF LateBag
  <2> QED BY <1>4, <2>1, Members DEF LateBag
<1>7. /\ LateTypes' /\ late'[Host[t]] = after
      /\ \A j \in Instances \ {Host[t]} : late'[j] = late[j]
  BY <1>1, <1>3, <1>5, <1>6, OneLate DEF TypeInv, LateBag
<1> QED BY <1>1, <1>2, <1>5, <1>7

(* The steps of dispatchOne, each a move of one dispatch of its row.        *)
LEMMA CallMoves ==
    ASSUME TypeInv, NEW i \in Instances, NEW n \in Rows, CallStep(i, n)
    PROVE  /\ \E from \in CallPcs, to \in CallPcs \cup CallEnds : Moves(i, n, from, to)
           /\ TickTypes' /\ LateTypes' /\ UNCHANGED <<guard, callback, slow>>
<1>1. /\ \E from \in CallPcs, to \in CallPcs \cup CallEnds : Moves(i, n, from, to)
      /\ UNCHANGED <<guard, callback, slow>>
  BY DEF CallStep, SkipRow, deferNotificationUntil, ProviderTakes, SendThrows, MarkSent, MarkFailed,
         MarkFails, Fault, bounds, CallPcs, CallEnds
<1> QED BY <1>1, MovesDo DEF TypeInv

-----------------------------------------------------------------------------
(* What happens to a row.                                                  *)
RowRec == [status : Statuses, due : BOOLEAN, sid : BOOLEAN, phone : BOOLEAN]

(* Somebody is under way who may write the row.                             *)
Writer(n) ==
    \/ \E t \in Ticks : tick[t].at = n
    \/ \E i \in Instances, pc \in CallPcs : BagIn(<<n, pc>>, late[i])
    \/ \E k \in Callbacks : callback[k].pc = "write" /\ callback[k].n = n

Settled(n) == row[n].status \notin {"absent", "queued"}

(* A row keeps its status, is enqueued, or is settled; one that reads       *)
(* delivered changes by the hand of a writer only.                          *)
RowMoves(n) ==
    \/ row'[n].status = row[n].status
    \/ row[n].status = "absent" /\ row'[n].status = "queued"
    \/ /\ row'[n].status \in Statuses \ {"absent", "queued"}
       /\ row[n].status = "delivered" => Writer(n)

LEMMA OneRow ==
    ASSUME RowTypes, NEW n \in Rows, NEW q \in RowRec, row' = [row EXCEPT ![n] = q],
           \/ q.status = row[n].status
           \/ row[n].status = "absent" /\ q.status = "queued"
           \/ /\ q.status \notin {"absent", "queued"}
              /\ row[n].status = "delivered" => Writer(n)
    PROVE  RowTypes' /\ \A m \in Rows : RowMoves(m)
<1>1. RowTypes'
  BY DEF RowTypes, RowRec
<1>2. ASSUME NEW m \in Rows PROVE RowMoves(m)
  <2>1. CASE m = n
    <3>1. row'[m] = q
      BY <2>1 DEF RowTypes
    <3> QED BY <2>1, <3>1 DEF RowMoves, RowRec
  <2>2. CASE m # n
    BY <2>2 DEF RowMoves, RowTypes
  <2> QED BY <2>1, <2>2
<1> QED BY <1>1, <1>2

LEMMA RowSteps ==
    ASSUME TypeInv, Next
    PROVE  RowTypes' /\ \A n \in Rows : RowMoves(n)
<1> USE DEF TypeInv
<1> DEFINE Goal == RowTypes' /\ \A n \in Rows : RowMoves(n)
<1>0. \A n \in Rows : row[n] \in RowRec
  BY DEF RowTypes, RowRec
<1>1. ASSUME UNCHANGED row PROVE Goal
  BY <1>1 DEF RowTypes, RowMoves
<1>2. ASSUME NEW n \in Rows, enqueueNotification(n) PROVE Goal
  <2>1. PICK phone \in BOOLEAN : row' = [row EXCEPT ![n].status = "queued", ![n].phone = phone]
    BY <1>2 DEF enqueueNotification
  <2> DEFINE q == [[row[n] EXCEPT !.status = "queued"] EXCEPT !.phone = phone]
  <2>2. row' = [row EXCEPT ![n] = q]
    BY <1>0, <2>1 DEF RowTypes, RowRec
  <2>3. q \in RowRec /\ q.status = "queued"
    BY <1>0 DEF RowRec, Statuses
  <2>4. row[n].status = "absent"
    BY <1>2 DEF enqueueNotification
  <2> HIDE DEF q
  <2> QED BY <2>2, <2>3, <2>4, OneRow
<1>3. ASSUME NEW n \in Rows, NEW d \in BOOLEAN, row' = [row EXCEPT ![n].due = d] PROVE Goal
  <2>1. row' = [row EXCEPT ![n] = [row[n] EXCEPT !.due = d]]
    BY <1>3
  <2>2. [row[n] EXCEPT !.due = d] \in RowRec /\ [row[n] EXCEPT !.due = d].status = row[n].status
    BY <1>0 DEF RowRec
  <2> QED BY <2>1, <2>2, OneRow
<1>4. ASSUME NEW n \in Rows, NEW s \in Statuses \ {"absent", "queued"}, Writer(n),
             row' = [row EXCEPT ![n].status = s]
      PROVE  Goal
  <2>1. row' = [row EXCEPT ![n] = [row[n] EXCEPT !.status = s]]
    BY <1>4
  <2>2. [row[n] EXCEPT !.status = s] \in RowRec /\ [row[n] EXCEPT !.status = s].status = s
    BY <1>0 DEF RowRec
  <2> QED BY <1>4, <2>1, <2>2, OneRow
<1>5. ASSUME NEW n \in Rows, Writer(n), markNotificationSent(n) PROVE Goal
  <2> DEFINE s == IF row[n].status \in {"queued", "sent"} THEN "sent" ELSE row[n].status
             q == [[row[n] EXCEPT !.status = s] EXCEPT !.sid = TRUE]
  <2>1. row' = [row EXCEPT ![n] = q]
    BY <1>0, <1>5 DEF markNotificationSent, RowTypes, RowRec
  <2>2. q \in RowRec /\ q.status = s
    BY <1>0 DEF RowRec, Statuses
  <2>3. s = row[n].status \/ s = "sent"
    OBVIOUS
  <2> HIDE DEF q, s
  <2> QED BY <1>5, <2>1, <2>2, <2>3, OneRow
<1>6. ASSUME NEW i \in Instances, NEW n \in Rows, NEW from \in CallPcs, NEW to \in CallPcs \cup CallEnds,
             Moves(i, n, from, to)
      PROVE  Writer(n)
  BY <1>6 DEF Moves, Writer, TicksOf
<1>7. ASSUME NEW i \in Instances, NEW n \in Rows, CallStep(i, n) PROVE Goal
  <2>1. Writer(n)
    BY <1>6, <1>7, CallMoves
  <2>2. CASE SkipRow(i, n) \/ MarkFailed(i, n)
    BY <1>4, <2>1, <2>2 DEF SkipRow, MarkFailed, markNotificationFailed, Statuses, Terminal
  <2>3. CASE deferNotificationUntil(i, n)
    <3>1. PICK d \in BOOLEAN : row' = [row EXCEPT ![n].due = d]
      <4>1. row' = [row EXCEPT ![n].due = IF row[n].status = "queued" THEN FALSE ELSE row[n].due]
        BY <2>3 DEF deferNotificationUntil
      <4> QED BY <1>0, <4>1 DEF RowRec
    <3> QED BY <1>3, <3>1
  <2>4. CASE MarkSent(i, n)
    BY <1>5, <2>1, <2>4 DEF MarkSent
  <2>5. CASE ProviderTakes(i, n) \/ SendThrows(i, n) \/ MarkFails(i, n)
    BY <1>1, <2>5 DEF ProviderTakes, SendThrows, MarkFails
  <2> QED BY <1>7, <2>2, <2>3, <2>4, <2>5 DEF CallStep
<1>8. ASSUME NEW t \in Ticks, TickMarksFailed(t) PROVE Goal
  <2>1. tick[t].at \in Rows /\ Writer(tick[t].at)
    BY <1>8 DEF TickMarksFailed, TickTypes, WellShaped, Writer
  <2> QED BY <1>4, <1>8, <2>1 DEF TickMarksFailed, markNotificationFailed, Statuses, Terminal
<1>9. ASSUME NEW k \in Callbacks, CallbackWrites(k) PROVE Goal
  <2>1. callback[k].n \in Rows /\ Writer(callback[k].n) /\ callback[k].news \in News
    BY <1>9 DEF CallbackWrites, CallbackAims, CallbackTypes, Writer
  <2> QED BY <1>4, <1>9, <2>1 DEF CallbackWrites, News, Statuses, Terminal
<1>10. ASSUME NEW t \in Ticks, TickStep(t) \/ QueryHangs(t) \/ TickMarkFails(t) \/ TickThrows(t),
              ~TickMarksFailed(t)
       PROVE  UNCHANGED row
  BY <1>10 DEF TickStep, TickStart, TickForce, TickQuery, QueryHangs, Send, SendEnds, SendTimesOut,
               TickMarkFails, TickAgain, TickEnd, TickThrows
<1>11. ASSUME NEW n \in Rows, QuietHoursEnd(n) PROVE Goal
  BY <1>3, <1>11 DEF QuietHoursEnd
<1>12. ASSUME \/ \E i \in Instances : TickSkip(i) \/ GuardOverdue(i) \/ Restart(i)
              \/ \E k \in Callbacks, n \in Rows, news \in News : CallbackReads(k, n, news)
       PROVE  UNCHANGED row
  BY <1>12 DEF TickSkip, GuardOverdue, Restart, CallbackReads
<1> QED BY <1>1, <1>2, <1>7, <1>8, <1>9, <1>10, <1>11, <1>12 DEF Next

-----------------------------------------------------------------------------
(* The types hold.                                                         *)

(* What a tick's own steps leave alone, timeouts but for the late bag.      *)
LEMMA TickLeaves ==
    ASSUME NEW t \in Ticks, TickStep(t) \/ QueryHangs(t) \/ TickMarkFails(t) \/ TickThrows(t)
    PROVE  /\ UNCHANGED <<callback, texts, slow>> /\ (SendTimesOut(t) \/ UNCHANGED late)
           /\ \/ faults' = faults
              \/ faults' = [faults EXCEPT ![Host[t]] = faults[Host[t]] + 1]
           /\ \/ guard' = guard
              \/ guard' = [guard EXCEPT ![Host[t]] = "free"]
              \/ guard' = [guard EXCEPT ![Host[t]] = "held"]
           /\ rerun' = rerun \/ rerun' = [rerun EXCEPT ![Host[t]] = FALSE]
BY DEF TickStep, TickStart, TickForce, TickQuery, QueryHangs, Send, SendEnds, SendTimesOut,
       TickMarksFailed, TickMarkFails, TickAgain, TickEnd, TickThrows, Begins, Fault, bounds

LEMMA NoLate ==
    IsABag(EmptyBag) /\ BagToSet(EmptyBag) = {} /\ LateBag(EmptyBag) /\ \A e : Copies(e, EmptyBag) = 0
BY DEF EmptyBag, IsABag, SetToBag, BagToSet, Copies, BagIn, LateBag

(* What a dispatch does to the texts and the faults.                        *)
LEMMA CallCounts ==
    ASSUME NEW i \in Instances, NEW n \in Rows, CallStep(i, n)
    PROVE  /\ UNCHANGED rerun
           /\ texts' = texts \/ texts' = [texts EXCEPT ![i] = [texts[i] EXCEPT ![n] = texts[i][n] + 1]]
           /\ faults' = faults \/ faults' = [faults EXCEPT ![i] = faults[i] + 1]
BY DEF CallStep, SkipRow, deferNotificationUntil, ProviderTakes, SendThrows, MarkSent, MarkFailed,
       MarkFails, Fault, bounds

LEMMA CountSteps == ASSUME TypeInv, Next PROVE CountTypes'
<1> USE DEF TypeInv, CountTypes, GuardStates
<1>1. ASSUME NEW i \in Instances, faults' = faults \/ faults' = [faults EXCEPT ![i] = faults[i] + 1]
      PROVE  faults' \in [Instances -> Nat]
  BY <1>1
<1>2. ASSUME NEW n \in Rows, enqueueNotification(n) \/ QuietHoursEnd(n) PROVE CountTypes'
  BY <1>2 DEF enqueueNotification, QuietHoursEnd, bounds
<1>3. ASSUME NEW i \in Instances, NEW n \in Rows, CallStep(i, n) PROVE CountTypes'
  <2>1. UNCHANGED <<guard, rerun, slow>> /\ faults' \in [Instances -> Nat]
    BY <1>1, <1>3, CallMoves, CallCounts
  <2>2. texts' = texts \/ texts' = [texts EXCEPT ![i] = [texts[i] EXCEPT ![n] = texts[i][n] + 1]]
    BY <1>3, CallCounts
  <2>3. texts' \in [Instances -> [Rows -> Nat]]
    <3>1. [texts[i] EXCEPT ![n] = texts[i][n] + 1] \in [Rows -> Nat]
      OBVIOUS
    <3> QED BY <2>2, <3>1
  <2> QED BY <2>1, <2>3
<1>4. ASSUME NEW t \in Ticks, TickStep(t) \/ QueryHangs(t) \/ TickMarkFails(t) \/ TickThrows(t)
      PROVE  CountTypes'
  <2>1. UNCHANGED <<texts, slow>> /\ Host[t] \in Instances
    BY <1>4, TickLeaves
  <2>2. guard' \in [Instances -> GuardStates]
    BY <1>4, <2>1, TickLeaves
  <2>3. rerun' \in [Instances -> BOOLEAN]
    BY <1>4, <2>1, TickLeaves
  <2>4. faults' \in [Instances -> Nat]
    BY <1>1, <1>4, <2>1, TickLeaves
  <2> QED BY <2>1, <2>2, <2>3, <2>4
<1>5. ASSUME NEW i \in Instances, TickSkip(i) PROVE CountTypes'
  BY <1>5 DEF TickSkip, bounds
<1>8. ASSUME NEW i \in Instances, GuardOverdue(i) PROVE CountTypes'
  <2>1. slow' = slow \/ (slow < MaxSlow /\ slow' = slow + 1)
    BY <1>8 DEF GuardOverdue
  <2>2. slow' \in 0..MaxSlow
    BY <2>1
  <2>3. UNCHANGED <<rerun, texts, faults>> /\ guard' = [guard EXCEPT ![i] = "overdue"]
    BY <1>8 DEF GuardOverdue
  <2> QED BY <2>2, <2>3
<1>6. ASSUME NEW k \in Callbacks,
             CallbackWrites(k) \/ \E n \in Rows, news \in News : CallbackReads(k, n, news)
      PROVE  CountTypes'
  BY <1>6 DEF CallbackWrites, CallbackReads, bounds
<1>7. ASSUME NEW i \in Instances, Restart(i) PROVE CountTypes'
  <2>1. faults' = [faults EXCEPT ![i] = faults[i] + 1] /\ UNCHANGED <<texts, slow>>
    BY <1>7 DEF Restart, Fault
  <2>2. guard' \in [Instances -> GuardStates] /\ rerun' \in [Instances -> BOOLEAN]
    BY <1>7 DEF Restart
  <2> QED BY <1>1, <2>1, <2>2
<1> QED BY <1>2, <1>3, <1>4, <1>5, <1>6, <1>7, <1>8 DEF Next

LEMMA CallbackSteps == ASSUME TypeInv, Next PROVE CallbackTypes' /\ CallbackAims'
<1> USE DEF TypeInv
<1> DEFINE Kept == CallbackTypes' /\ CallbackAims'
           Rec == [pc : {"idle", "write"}, n : Rows \cup {None}, news : News]
<1>1. ASSUME UNCHANGED callback PROVE Kept
  BY <1>1 DEF CallbackTypes, CallbackAims
<1>2. ASSUME NEW k \in Callbacks, NEW q \in Rec, q.pc = "write" => q.n \in Rows,
             callback' = [callback EXCEPT ![k] = q]
      PROVE  Kept
  BY <1>2 DEF CallbackTypes, CallbackAims
<1>3. IdleCallback \in Rec /\ IdleCallback.pc = "idle"
  BY DEF IdleCallback, News
<1>4. ASSUME NEW k \in Callbacks, CallbackWrites(k) PROVE Kept
  BY <1>2, <1>3, <1>4 DEF CallbackWrites
<1>5. ASSUME NEW k \in Callbacks, NEW n \in Rows, NEW news \in News, CallbackReads(k, n, news) PROVE Kept
  <2>1. CASE TakesNews(n)
    BY <1>2, <1>5, <2>1 DEF CallbackReads
  <2>2. CASE ~TakesNews(n)
    BY <1>1, <1>5, <2>2 DEF CallbackReads, CallbackTypes
  <2> QED BY <2>1, <2>2
<1>6. ASSUME NEW i \in Instances, Restart(i) PROVE Kept
  <2>1. callback' = [k \in Callbacks |-> IF Host[k] = i THEN IdleCallback ELSE callback[k]]
    BY <1>6 DEF Restart
  <2> QED BY <1>3, <2>1 DEF CallbackTypes, CallbackAims
<1>7. ASSUME \/ \E n \in Rows : enqueueNotification(n) \/ QuietHoursEnd(n)
             \/ \E i \in Instances, n \in Rows : CallStep(i, n)
             \/ \E t \in Ticks : TickStep(t) \/ QueryHangs(t) \/ TickMarkFails(t) \/ TickThrows(t)
             \/ \E i \in Instances : TickSkip(i) \/ GuardOverdue(i)
      PROVE  UNCHANGED callback
  BY <1>7, CallMoves, TickLeaves DEF enqueueNotification, QuietHoursEnd, TickSkip, GuardOverdue
<1> QED BY <1>1, <1>4, <1>5, <1>6, <1>7 DEF Next

LEMMA TypeStep == ASSUME TypeInv, [Next]_vars PROVE TypeInv'
<1>1. CASE UNCHANGED vars
  BY <1>1 DEF vars, bounds, TypeInv, RowTypes, TickTypes, LateTypes, CallbackTypes, CallbackAims, CountTypes
<1>2. CASE Next
  <2>1. TickTypes' /\ LateTypes'
    <3>1. ASSUME NEW t \in Ticks, TickStep(t) \/ QueryHangs(t) \/ TickMarkFails(t) \/ TickThrows(t)
          PROVE  TickTypes' /\ LateTypes'
      <4>1. TickTypes'
        BY <3>1, TickSteps DEF TickStep
      <4>2. LateTypes'
        BY <3>1, TickLeaves, GoesOnLate DEF TypeInv, LateTypes
      <4> QED BY <4>1, <4>2
    <3>2. ASSUME NEW i \in Instances, NEW n \in Rows, CallStep(i, n) PROVE TickTypes' /\ LateTypes'
      BY <3>2, CallMoves
    <3>3. ASSUME NEW i \in Instances, Restart(i) PROVE TickTypes' /\ LateTypes'
      <4>1. /\ tick' = [t \in Ticks |-> IF Host[t] = i THEN IdleTick ELSE tick[t]]
            /\ late' = [late EXCEPT ![i] = EmptyBag]
        BY <3>3 DEF Restart
      <4>2. TickTypes'
        BY <4>1, IdleShaped DEF TypeInv, TickTypes, WellShaped
      <4> QED BY <4>1, <4>2, NoLate, OneLate DEF TypeInv
    <3>4. ASSUME \/ \E n \in Rows : enqueueNotification(n) \/ QuietHoursEnd(n)
                 \/ \E i \in Instances : TickSkip(i) \/ GuardOverdue(i)
                 \/ \E k \in Callbacks :
                       CallbackWrites(k) \/ \E n \in Rows, news \in News : CallbackReads(k, n, news)
          PROVE  UNCHANGED <<tick, late>>
      BY <3>4 DEF enqueueNotification, QuietHoursEnd, TickSkip, GuardOverdue, CallbackWrites, CallbackReads
    <3>5. UNCHANGED <<tick, late>> => TickTypes' /\ LateTypes'
      BY DEF TypeInv, TickTypes, LateTypes
    <3> QED BY <1>2, <3>1, <3>2, <3>3, <3>4, <3>5 DEF Next
  <2> QED BY <1>2, <2>1, RowSteps, CountSteps, CallbackSteps DEF TypeInv
<1> QED BY <1>1, <1>2

LEMMA TypeInit == Init => TypeInv
<1> SUFFICES ASSUME Init PROVE TypeInv
  OBVIOUS
<1>1. RowTypes
  BY DEF Init, RowTypes, Statuses
<1>4. CountTypes
  <2>1. guard \in [Instances -> GuardStates] /\ rerun \in [Instances -> BOOLEAN]
    BY DEF Init, GuardStates
  <2>2. /\ texts \in [Instances -> [Rows -> Nat]]
        /\ faults \in [Instances -> Nat] /\ slow \in 0..MaxSlow
    BY DEF Init
  <2> QED BY <2>1, <2>2 DEF CountTypes
<1>2. TickTypes /\ LateTypes
  BY IdleShaped, NoLate DEF Init, TickTypes, LateTypes, WellShaped
<1>3. CallbackTypes /\ CallbackAims
  BY DEF Init, CallbackTypes, CallbackAims, IdleCallback, News
<1> QED BY <1>1, <1>2, <1>3, <1>4 DEF TypeInv

LEMMA TypesHold == Spec => []TypeInv
BY TypeInit, TypeStep, PTL DEF Spec

(* Rows, ticks, dispatches that go on late and callbacks keep their types;  *)
(* a tick that waits for a row, or is about to mark one, has taken it off   *)
(* its list.                                                                *)
THEOREM OutboxTypes == Spec => []TypeOK
<1>1. TypeInv => TypeOK
  BY DEF TypeInv, TypeOK, RowTypes, TickTypes, LateTypes, LateBag, CallbackTypes, CountTypes, TickRec, WellShaped
<1> QED BY <1>1, TypesHold, PTL

-----------------------------------------------------------------------------
(* A row at rest stays at rest.                                            *)

(* Nobody has the row in hand or on a list.                                 *)
LeftAlone(n) ==
    /\ \A t \in Ticks : tick[t].at # n /\ n \notin tick[t].batch
    /\ \A i \in Instances, pc \in CallPcs : ~BagIn(<<n, pc>>, late[i])

LEMMA StaysAlone ==
    ASSUME TypeInv, Next, NEW n \in Rows, LeftAlone(n), row[n].status # "queued"
    PROVE  LeftAlone(n)'
<1> USE DEF TypeInv
<1>3. ASSUME NEW t \in Ticks, TickStep(t) \/ QueryHangs(t) \/ TickMarkFails(t) \/ TickThrows(t)
      PROVE  LeftAlone(n)'
  <2>1. \A u \in Ticks \ {t} : tick'[u] = tick[u]
    BY <1>3, TickSteps DEF TickStep
  <2>2. tick'[t].at # n /\ n \notin tick'[t].batch
    <3>1. tick[t].at # n /\ n \notin tick[t].batch /\ n # None
      BY DEF LeftAlone
    <3>2. CASE TickStart(t) \/ TickForce(t) \/ TickEnd(t) \/ TickThrows(t)
      BY <3>1, <3>2 DEF TickStart, TickForce, TickEnd, TickThrows, Begins, IdleTick, TickTypes
    <3>3. CASE TickQuery(t)
      BY <3>1, <3>3 DEF TickQuery, TickTypes, TickRec, getQueuedNotifications
    <3>4. CASE Send(t)
      BY <3>1, <3>4 DEF Send, TickTypes, First, Left
    <3>5. CASE ~(TickStart(t) \/ TickForce(t) \/ TickEnd(t) \/ TickThrows(t) \/ TickQuery(t) \/ Send(t))
      BY <1>3, <3>1, <3>5 DEF TickStep, QueryHangs, SendEnds, SendTimesOut, TickMarksFailed,
         TickMarkFails, TickAgain, TickGoes, Loops, TickTypes, TickRec
    <3> QED BY <3>2, <3>3, <3>4, <3>5
  <2>3. \A i \in Instances, pc \in CallPcs : ~BagIn(<<n, pc>>, late'[i])
    <3>1. CASE SendTimesOut(t)
      <4>1. tick[t].at # n
        BY DEF LeftAlone
      <4>2. ASSUME NEW i \in Instances, NEW pc \in CallPcs PROVE ~BagIn(<<n, pc>>, late'[i])
        <5>1. IsABag(late[i]) /\ IsABag(late'[i]) /\ ~BagIn(<<n, pc>>, late[i])
          BY <3>1, GoesOnLate DEF LeftAlone, LateTypes, LateBag
        <5>2. Copies(<<n, pc>>, late'[i]) = Copies(<<n, pc>>, late[i])
          BY <3>1, <4>1, <5>1, GoesOnLate, Members
        <5> QED BY <5>1, <5>2, Members
      <4> QED BY <4>2
    <3>2. CASE UNCHANGED late
      BY <3>2 DEF LeftAlone
    <3> QED BY <1>3, <3>1, <3>2, TickLeaves
  <2> QED BY <2>1, <2>2, <2>3 DEF LeftAlone
<1>4. ASSUME NEW i \in Instances, NEW m \in Rows, CallStep(i, m) PROVE LeftAlone(n)'
  <2>1. PICK from \in CallPcs, to \in CallPcs \cup CallEnds : Moves(i, m, from, to)
    BY <1>4, CallMoves
  <2>2. m # n
    BY <2>1 DEF Moves, LeftAlone, TicksOf
  <2>3. LateTypes'
    BY <1>4, CallMoves
  <2>4. (\E t \in TicksOf(i) : AwaitedMove(t, m, from, to)) \/ LateMove(i, m, from, to)
    BY <2>1, MovesDo
  <2>5. CASE \E t \in TicksOf(i) : AwaitedMove(t, m, from, to)
    <3>1. \A t \in Ticks : tick'[t].at = tick[t].at /\ tick'[t].batch = tick[t].batch
      BY <2>5 DEF AwaitedMove, TickTypes, TickRec, TicksOf
    <3> QED BY <2>5, <3>1 DEF LeftAlone, AwaitedMove
  <2>6. CASE LateMove(i, m, from, to)
    <3>1. ASSUME NEW j \in Instances, NEW pc \in CallPcs PROVE ~BagIn(<<n, pc>>, late'[j])
      <4>1. IsABag(late[j]) /\ IsABag(late'[j]) /\ ~BagIn(<<n, pc>>, late[j])
        BY <2>3 DEF LeftAlone, LateTypes, LateBag
      <4>2. Copies(<<n, pc>>, late'[j]) = Copies(<<n, pc>>, late[j])
        BY <2>2, <2>6, <4>1, Members DEF LateMove
      <4> QED BY <4>1, <4>2, Members
    <3> QED BY <2>6, <3>1 DEF LeftAlone, LateMove
  <2> QED BY <2>4, <2>5, <2>6
<1>5. ASSUME NEW i \in Instances, Restart(i) PROVE LeftAlone(n)'
  <2>1. /\ tick' = [t \in Ticks |-> IF Host[t] = i THEN IdleTick ELSE tick[t]]
        /\ late' = [late EXCEPT ![i] = EmptyBag]
    BY <1>5 DEF Restart
  <2>2. \A t \in Ticks : tick'[t].at # n /\ n \notin tick'[t].batch
    BY <2>1 DEF IdleTick, LeftAlone
  <2>3. \A j \in Instances : late'[j] = EmptyBag \/ late'[j] = late[j]
    BY <2>1 DEF LateTypes
  <2>4. \A e : ~BagIn(e, EmptyBag)
    BY NoLate, Members
  <2> QED BY <2>2, <2>3, <2>4 DEF LeftAlone
<1>6. ASSUME \/ \E m \in Rows : enqueueNotification(m) \/ QuietHoursEnd(m)
             \/ \E i \in Instances : TickSkip(i) \/ GuardOverdue(i)
             \/ \E k \in Callbacks :
                   CallbackWrites(k) \/ \E m \in Rows, news \in News : CallbackReads(k, m, news)
      PROVE  LeftAlone(n)'
  BY <1>6 DEF enqueueNotification, QuietHoursEnd, TickSkip, GuardOverdue, CallbackWrites, CallbackReads,
              LeftAlone
<1> QED BY <1>3, <1>4, <1>5, <1>6 DEF Next

LEMMA RestStep == ASSUME TypeInv, Next, NEW n \in Rows, AtRest(n) PROVE AtRest(n)'
<1> USE DEF TypeInv
<1>1. row'[n].status = "delivered"
  <2>1. ~Writer(n)
    BY DEF AtRest, Writer
  <2> QED BY <2>1, RowSteps DEF AtRest, RowMoves
<1>2. LeftAlone(n)'
  BY StaysAlone DEF AtRest, LeftAlone
<1> DEFINE Kept == \A j \in Callbacks : callback'[j].pc = "write" => callback'[j].n # n
<1>3. UNCHANGED callback => Kept
  BY DEF AtRest
<1>4. ASSUME NEW k \in Callbacks, CallbackWrites(k) PROVE Kept
  BY <1>4 DEF CallbackWrites, IdleCallback, CallbackTypes, AtRest
<1>5. ASSUME NEW k \in Callbacks, NEW m \in Rows, NEW news \in News, CallbackReads(k, m, news)
      PROVE  Kept
  <2>1. m = n => ~TakesNews(m)
    BY DEF AtRest, TakesNews, Terminal
  <2> QED BY <1>5, <2>1 DEF CallbackReads, CallbackTypes, AtRest
<1>6. ASSUME NEW i \in Instances, Restart(i) PROVE Kept
  BY <1>6 DEF Restart, IdleCallback, AtRest
<1>7. ASSUME \/ \E m \in Rows : enqueueNotification(m) \/ QuietHoursEnd(m)
             \/ \E i \in Instances, m \in Rows : CallStep(i, m)
             \/ \E t \in Ticks : TickStep(t) \/ QueryHangs(t) \/ TickMarkFails(t) \/ TickThrows(t)
             \/ \E i \in Instances : TickSkip(i) \/ GuardOverdue(i)
      PROVE  UNCHANGED callback
  BY <1>7, CallMoves, TickLeaves DEF enqueueNotification, QuietHoursEnd, TickSkip, GuardOverdue
<1>8. Kept
  BY <1>3, <1>4, <1>5, <1>6, <1>7 DEF Next
<1> QED BY <1>1, <1>2, <1>8 DEF AtRest, LeftAlone

(* However late, doubled or out of order the callbacks come, and whatever   *)
(* restarts, nothing that begins after a row came to rest reopens it.       *)
THEOREM RestHolds == Spec => RestStays
<1> DEFINE Rests == \A n \in Rows : AtRest(n) => AtRest(n)'
<1>1. TypeInv /\ [Next]_vars => [Rests]_vars
  BY RestStep
<1> QED BY <1>1, TypesHold, PTL DEF Spec, RestStays

-----------------------------------------------------------------------------
(* No instance texts a row twice for nothing.                               *)

(* Nothing is under way for a row that is not enqueued yet.                 *)
AbsentAlone == \A n \in Rows : row[n].status = "absent" => LeftAlone(n)

LEMMA AbsentStep == ASSUME TypeInv, AbsentAlone, Next PROVE AbsentAlone'
BY StaysAlone, RowSteps DEF AbsentAlone, RowMoves

(* A tick may still text a settled row if it has it listed or at the gate;  *)
(* one that is not settled also if it comes back to the queue without       *)
(* having settled it, that is unless it is past the gate with it.           *)
AtGate(t, n) == tick[t].pc = "waiting" /\ tick[t].at = n /\ tick[t].call = "gate"
MayText(t, n) ==
    IF Settled(n)
    THEN n \in tick[t].batch \/ AtGate(t, n)
    ELSE /\ tick[t].pc # "idle"
         /\ tick[t].at = n => tick[t].pc = "waiting" /\ tick[t].call \in {"gate", "ended"}
Pending(i, n) == {t \in TicksOf(i) : MayText(t, n)}

(* One more tick of an instance may start, as long as the row is queued,    *)
(* when its guard is free, and none but ticks that hang hold it.            *)
NoneWorks(i) == \A t \in TicksOf(i) : ~Works(t)
Spare(i, n) == IF ~Settled(n) /\ (guard[i] = "free" \/ NoneWorks(i)) THEN 1 ELSE 0

Gates(i, n) == Copies(<<n, "gate">>, late[i])
Budget(i, n) == texts[i][n] + Gates(i, n) + Cardinality(Pending(i, n)) + Spare(i, n)

(* The watchdog of an instance takes the guard only when each of its ticks  *)
(* under way hangs, and the texts it made and those to come are paid for by *)
(* its faults.                                                              *)
BudgetInv ==
    slow = 0 => \A i \in Instances : /\ guard[i] = "overdue" => NoneWorks(i)
                                     /\ \A n \in Rows : Budget(i, n) <= 1 + faults[i]

LEMMA PendingCounts ==
    ASSUME NEW S \in SUBSET Ticks, NEW T \in SUBSET Ticks
    PROVE  /\ Cardinality(S) \in Nat /\ Cardinality(T) \in Nat
           /\ S \subseteq T => Cardinality(S) <= Cardinality(T)
           /\ \A t \in Ticks : S \subseteq T \cup {t} => Cardinality(S) <= Cardinality(T) + 1
           /\ \A t \in T : S \subseteq T \ {t} => Cardinality(S) + 1 <= Cardinality(T)
<1>1. \A U \in SUBSET Ticks : IsFiniteSet(U) /\ Cardinality(U) \in Nat
  BY FS_Subset, FS_CardinalityType
<1>2. \A U, V \in SUBSET Ticks : U \subseteq V => Cardinality(U) <= Cardinality(V)
  BY <1>1, FS_Subset
<1>3. ASSUME NEW t \in Ticks, S \subseteq T \cup {t} PROVE Cardinality(S) <= Cardinality(T) + 1
  <2>1. T \cup {t} \in SUBSET Ticks
    OBVIOUS
  <2>2. Cardinality(T \cup {t}) <= Cardinality(T) + 1
    BY <1>1, FS_AddElement
  <2> QED BY <1>1, <1>2, <1>3, <2>1, <2>2
<1>4. ASSUME NEW t \in T, S \subseteq T \ {t} PROVE Cardinality(S) + 1 <= Cardinality(T)
  <2>1. Cardinality(T \ {t}) = Cardinality(T) - 1
    BY <1>1, FS_RemoveElement
  <2>2. Cardinality(S) <= Cardinality(T \ {t})
    BY <1>2, <1>4
  <2> QED BY <1>1, <2>1, <2>2
<1> QED BY <1>1, <1>2, <1>3, <1>4

(* The parts of a budget are natural numbers.                               *)
LEMMA BudgetParts ==
    ASSUME TypeInv, NEW i \in Instances, NEW n \in Rows
    PROVE  /\ texts[i][n] \in Nat /\ Gates(i, n) \in Nat /\ Cardinality(Pending(i, n)) \in Nat
           /\ Spare(i, n) \in {0, 1} /\ faults[i] \in Nat /\ slow \in Nat
<1>1. Pending(i, n) \in SUBSET Ticks
  BY DEF Pending, TicksOf
<1>2. Gates(i, n) \in Nat
  BY Members DEF TypeInv, LateTypes, LateBag, Gates
<1>3. texts[i][n] \in Nat /\ faults[i] \in Nat /\ slow \in Nat
  BY DEF TypeInv, CountTypes
<1> QED BY <1>1, <1>2, <1>3, PendingCounts DEF Spare

(* A row once settled stays so.                                             *)
LEMMA SettledStays == ASSUME TypeInv, Next, NEW n \in Rows, Settled(n) PROVE Settled(n)'
BY RowSteps DEF RowMoves, Settled

(* A tick that did not move may text no row it might not text before.       *)
LEMMA NoMore ==
    ASSUME TypeInv, Next, NEW n \in Rows, NEW t \in Ticks, tick'[t] = tick[t], MayText(t, n)'
    PROVE  MayText(t, n)
<1>1. n # None /\ WellShaped(tick[t])
  BY DEF TypeInv, TickTypes
<1>2. CASE Settled(n)
  BY <1>2, SettledStays DEF MayText, AtGate
<1>3. CASE ~Settled(n) /\ ~Settled(n)'
  BY <1>3 DEF MayText
<1>4. CASE ~Settled(n) /\ Settled(n)'
  BY <1>1, <1>4 DEF MayText, AtGate, WellShaped
<1> QED BY <1>2, <1>3, <1>4

(* If one tick moves, the others are counted as before.                     *)
LEMMA OneMoves ==
    ASSUME TypeInv, TypeInv', Next, NEW i \in Instances, NEW n \in Rows, NEW t \in TicksOf(i),
           \A u \in Ticks \ {t} : tick'[u] = tick[u]
    PROVE  /\ Cardinality(Pending(i, n))' <= Cardinality(Pending(i, n)) + 1
           /\ MayText(t, n) \/ ~MayText(t, n)'
                 => Cardinality(Pending(i, n))' <= Cardinality(Pending(i, n))
           /\ MayText(t, n) /\ ~MayText(t, n)'
                 => Cardinality(Pending(i, n))' + 1 <= Cardinality(Pending(i, n))
<1>1. Pending(i, n) \in SUBSET Ticks /\ Pending(i, n)' \in SUBSET Ticks
  BY DEF Pending, TicksOf
<1>2. Pending(i, n)' \subseteq Pending(i, n) \cup {t}
  BY NoMore DEF Pending, TicksOf
<1>3. MayText(t, n) \/ ~MayText(t, n)' => Pending(i, n)' \subseteq Pending(i, n)
  BY <1>2 DEF Pending
<1>4. MayText(t, n) /\ ~MayText(t, n)'
         => t \in Pending(i, n) /\ Pending(i, n)' \subseteq Pending(i, n) \ {t}
  BY <1>2 DEF Pending
<1> QED BY <1>1, <1>2, <1>3, <1>4, PendingCounts DEF TicksOf

LEMMA NoneMoves ==
    ASSUME TypeInv, Next, NEW i \in Instances, NEW n \in Rows, \A t \in TicksOf(i) : tick'[t] = tick[t]
    PROVE  Cardinality(Pending(i, n))' <= Cardinality(Pending(i, n))
<1>1. Pending(i, n) \in SUBSET Ticks /\ Pending(i, n)' \in SUBSET Ticks
  BY DEF Pending, TicksOf
<1>2. Pending(i, n)' \subseteq Pending(i, n)
  BY NoMore DEF Pending, TicksOf
<1> QED BY <1>1, <1>2, PendingCounts

LEMMA BudgetPartsNext ==
    ASSUME TypeInv', NEW i \in Instances, NEW n \in Rows
    PROVE  /\ texts'[i][n] \in Nat /\ Gates(i, n)' \in Nat /\ Cardinality(Pending(i, n))' \in Nat
           /\ Spare(i, n)' \in {0, 1} /\ faults'[i] \in Nat
<1>1. Pending(i, n)' \in SUBSET Ticks
  BY DEF Pending, TicksOf
<1>2. Gates(i, n)' \in Nat
  BY Members DEF TypeInv, LateTypes, LateBag, Gates
<1>3. texts'[i][n] \in Nat /\ faults'[i] \in Nat
  BY DEF TypeInv, CountTypes
<1> QED BY <1>1, <1>2, <1>3, PendingCounts DEF Spare

LEMMA NoneSpared ==
    ASSUME TypeInv, Next, NEW i \in Instances, NEW n \in Rows, guard'[i] \in {guard[i], "held", "overdue"},
           \A u \in TicksOf(i) : Works(u) => Works(u)'
    PROVE  Spare(i, n)' <= Spare(i, n)
<1>1. Settled(n) => Settled(n)'
  BY SettledStays
<1>2. NoneWorks(i)' => NoneWorks(i)
  BY DEF NoneWorks
<1>3. guard'[i] = "free" => guard[i] = "free"
  OBVIOUS
<1> QED BY <1>1, <1>2, <1>3 DEF Spare

Paid(i, n) == Budget(i, n)' <= Budget(i, n) + (faults'[i] - faults[i])

(* What another instance does to a row never adds to what this one may      *)
(* text.                                                                    *)
StandsStill(i) ==
    /\ \A t \in TicksOf(i) : tick'[t] = tick[t]
    /\ late'[i] = late[i] /\ guard'[i] \in {guard[i], "overdue"}
    /\ texts'[i] = texts[i] /\ faults'[i] = faults[i]

LEMMA Elsewhere ==
    ASSUME TypeInv, TypeInv', Next, NEW i \in Instances, NEW n \in Rows, StandsStill(i)
    PROVE  Paid(i, n)
<1> DEFINE P == Cardinality(Pending(i, n))
<1>1. /\ texts[i][n] \in Nat /\ Gates(i, n) \in Nat /\ P \in Nat /\ Spare(i, n) \in {0, 1}
      /\ faults[i] \in Nat
      /\ texts'[i][n] \in Nat /\ Gates(i, n)' \in Nat /\ P' \in Nat /\ Spare(i, n)' \in {0, 1}
  BY BudgetParts, BudgetPartsNext
<1>2. P' <= P
  BY NoneMoves DEF StandsStill
<1>3. Spare(i, n)' <= Spare(i, n)
  BY NoneSpared DEF StandsStill, Works
<1>4. Gates(i, n)' = Gates(i, n) /\ texts'[i][n] = texts[i][n] /\ faults'[i] = faults[i]
  BY DEF StandsStill, Gates
<1>5. Paid(i, n) <=> texts'[i][n] + Gates(i, n)' + P' + Spare(i, n)'
                       <= texts[i][n] + Gates(i, n) + P + Spare(i, n) + (faults'[i] - faults[i])
  BY DEF Paid, Budget
<1> HIDE DEF P
<1> QED BY <1>1, <1>2, <1>3, <1>4, <1>5

(* The steps of an instance leave the others where they are.                *)
LEMMA TickIsLocal ==
    ASSUME TypeInv, NEW t \in Ticks, NEW j \in Instances, Host[t] # j,
           TickStep(t) \/ QueryHangs(t) \/ TickMarkFails(t) \/ TickThrows(t)
    PROVE  StandsStill(j)
<1>1. \A u \in TicksOf(j) : tick'[u] = tick[u]
  BY TickSteps DEF TickStep, TicksOf
<1>2. late'[j] = late[j]
  BY TickLeaves, GoesOnLate
<1>3. guard'[j] = guard[j] /\ faults'[j] = faults[j] /\ texts' = texts
  BY TickLeaves DEF TypeInv, CountTypes
<1> QED BY <1>1, <1>2, <1>3 DEF StandsStill

LEMMA CallIsLocal ==
    ASSUME TypeInv, NEW i \in Instances, NEW m \in Rows, CallStep(i, m), NEW j \in Instances \ {i}
    PROVE  StandsStill(j)
<1>1. PICK from \in CallPcs, to \in CallPcs \cup CallEnds : Moves(i, m, from, to)
  BY CallMoves
<1>2. (\E t \in TicksOf(i) : AwaitedMove(t, m, from, to)) \/ LateMove(i, m, from, to)
  BY <1>1, MovesDo DEF TypeInv
<1>3. (\A u \in TicksOf(j) : tick'[u] = tick[u]) /\ late'[j] = late[j]
  BY <1>2 DEF AwaitedMove, LateMove, TicksOf, TypeInv, TickTypes
<1>4. guard' = guard /\ faults'[j] = faults[j] /\ texts'[j] = texts[j]
  BY CallMoves, CallCounts DEF TypeInv, CountTypes
<1> QED BY <1>3, <1>4 DEF StandsStill

LEMMA RestartIsLocal ==
    ASSUME TypeInv, NEW i \in Instances, Restart(i), NEW j \in Instances \ {i}
    PROVE  StandsStill(j)
<1>1. /\ guard' = [guard EXCEPT ![i] = "free"]
      /\ tick' = [t \in Ticks |-> IF Host[t] = i THEN IdleTick ELSE tick[t]]
      /\ late' = [late EXCEPT ![i] = EmptyBag]
      /\ faults' = [faults EXCEPT ![i] = faults[i] + 1] /\ texts' = texts
  BY DEF Restart, Fault
<1>2. \A t \in TicksOf(j) : tick'[t] = tick[t]
  BY <1>1 DEF TicksOf
<1>3. late'[j] = late[j]
  BY <1>1 DEF TypeInv, LateTypes
<1> QED BY <1>1, <1>2, <1>3 DEF StandsStill, TypeInv, CountTypes

(* A step of a tick adds to what may be texted no more than it pays for: a  *)
(* tick that starts uses up the guard, one that comes back to the queue has *)
(* settled its row, postponed it or met a fault.                            *)
LEMMA TickPays ==
    ASSUME TypeInv, TypeInv', BudgetInv, slow = 0, Next, NEW i \in Instances, NEW n \in Rows,
           NEW t \in Ticks, Host[t] = i,
           TickStep(t) \/ QueryHangs(t) \/ TickMarkFails(t) \/ TickThrows(t)
    PROVE  Paid(i, n)
<1>0. t \in TicksOf(i)
  BY DEF TicksOf
<1> DEFINE P == Cardinality(Pending(i, n))
           F == faults'[i] - faults[i]
<1>1. /\ texts[i][n] \in Nat /\ Gates(i, n) \in Nat /\ P \in Nat
      /\ Spare(i, n) \in {0, 1} /\ faults[i] \in Nat
      /\ Gates(i, n)' \in Nat /\ P' \in Nat /\ Spare(i, n)' \in {0, 1} /\ faults'[i] \in Nat
      /\ texts' = texts
  BY BudgetParts, BudgetPartsNext, TickLeaves
<1>2. \A u \in Ticks \ {t} : tick'[u] = tick[u]
  BY TickSteps DEF TickStep
<1>3. /\ P' <= P + 1
      /\ MayText(t, n) \/ ~MayText(t, n)' => P' <= P
      /\ MayText(t, n) /\ ~MayText(t, n)' => P' + 1 <= P
  BY <1>0, <1>2, OneMoves
<1>4. n # None /\ WellShaped(tick[t]) /\ tick[t] \in TickRec
  BY DEF TypeInv, TickTypes
<1>5. UNCHANGED late => Gates(i, n)' = Gates(i, n)
  BY DEF Gates
<1>6. Settled(n) => Settled(n)'
  BY SettledStays
<1>7. faults'[i] = faults[i] \/ faults'[i] = faults[i] + 1
  BY TickLeaves DEF TypeInv, CountTypes
<1>8. Works(t) /\ Works(t)' /\ guard' = guard => Spare(i, n)' <= Spare(i, n)
  BY <1>0, <1>2, NoneSpared DEF Works, TicksOf
<1> DEFINE Total == texts[i][n] + Gates(i, n) + P + Spare(i, n)
           TotalNext == texts[i][n] + Gates(i, n)' + P' + Spare(i, n)'
<1>9. Paid(i, n) <=> TotalNext <= Total + F
  BY <1>1 DEF Paid, Budget
<1>10. ASSUME MayText(t, n)' => MayText(t, n), Gates(i, n)' = Gates(i, n), Spare(i, n)' <= Spare(i, n)
       PROVE  Paid(i, n)
  <2>1. P' <= P
    BY <1>3, <1>10
  <2> HIDE DEF P
  <2> QED BY <1>1, <1>7, <1>9, <1>10, <2>1
<1>11. CASE TickStart(t) \/ TickForce(t)
  <2>1. /\ tick'[t] = [IdleTick EXCEPT !.pc = "query"] /\ guard'[i] = "held"
        /\ UNCHANGED <<row, late, faults>>
    BY <1>11 DEF TickStart, TickForce, Begins, TypeInv, TickTypes, CountTypes, bounds
  <2>2. Works(t)' /\ Spare(i, n)' = 0
    BY <1>0, <2>1 DEF Works, Spare, NoneWorks, IdleTick
  <2>3. guard[i] = "free" \/ NoneWorks(i)
    BY <1>11 DEF TickStart, TickForce, MayEnter, BudgetInv
  <2>4. Settled(n) => ~MayText(t, n)'
    BY <2>1 DEF Settled, MayText, AtGate, IdleTick
  <2>5. ~Settled(n) => Spare(i, n) = 1
    BY <2>3 DEF Spare
  <2> HIDE DEF P
  <2> QED BY <1>1, <1>3, <1>5, <1>9, <2>1, <2>2, <2>4, <2>5
<1>12. CASE TickQuery(t)
  <2>1. /\ tick'[t] = [tick[t] EXCEPT !.pc = "loop", !.batch = getQueuedNotifications]
        /\ tick[t].pc = "query" /\ UNCHANGED <<row, late, guard>>
    BY <1>12 DEF TickQuery, TypeInv, TickTypes
  <2>2. MayText(t, n)' => MayText(t, n)
    BY <1>4, <2>1 DEF MayText, AtGate, Settled, getQueuedNotifications, WellShaped, TickRec
  <2>3. Works(t) /\ Works(t)'
    BY <1>4, <2>1 DEF Works, TickRec
  <2> QED BY <1>5, <1>8, <1>10, <2>1, <2>2, <2>3
<1>13. CASE QueryHangs(t)
  <2>1. /\ tick'[t] = [tick[t] EXCEPT !.pc = "hung"] /\ tick[t].pc = "query"
        /\ faults'[i] = faults[i] + 1 /\ UNCHANGED <<row, late, guard>>
    BY <1>13 DEF QueryHangs, TickGoes, TypeInv, TickTypes, CountTypes, Fault
  <2>2. MayText(t, n)' => MayText(t, n)
    BY <1>4, <2>1 DEF MayText, AtGate, Settled, WellShaped, TickRec
  <2>3. P' <= P
    BY <1>3, <2>2
  <2> HIDE DEF P
  <2> QED BY <1>1, <1>5, <1>9, <2>1, <2>3
<1>14. CASE Send(t)
  <2>1. PICK m \in First(tick[t].batch) :
            /\ tick'[t] = [pc |-> "waiting", batch |-> tick[t].batch \ {m}, at |-> m, call |-> "gate"]
            /\ tick[t].pc = "loop" /\ UNCHANGED <<row, late, guard>>
    BY <1>14 DEF Send, Left, TypeInv, TickTypes
  <2>2. MayText(t, n)' => MayText(t, n)
    BY <1>4, <2>1 DEF MayText, AtGate, Settled, WellShaped, TickRec, First
  <2>3. Works(t) /\ Works(t)'
    BY <2>1 DEF Works
  <2> QED BY <1>5, <1>8, <1>10, <2>1, <2>2, <2>3
<1>15. CASE SendEnds(t) \/ TickAgain(t)
  <2>1. /\ \/ /\ tick[t].pc = "waiting" /\ tick[t].call = "ended"
              /\ tick'[t] = [tick[t] EXCEPT !.pc = "loop", !.at = None, !.call = "gate"]
           \/ /\ tick[t].pc = "waiting" /\ tick[t].call = "rejected"
              /\ tick'[t] = [tick[t] EXCEPT !.pc = "failing"]
           \/ tick[t].pc = "loop" /\ tick'[t] = [tick[t] EXCEPT !.pc = "query"]
        /\ UNCHANGED <<row, late, guard>>
    BY <1>15 DEF SendEnds, TickAgain, Loops, TickGoes, TypeInv, TickTypes, CallEnds
  <2>2. MayText(t, n)' => MayText(t, n)
    BY <1>4, <2>1 DEF MayText, AtGate, Settled, WellShaped, TickRec
  <2>3. Works(t) /\ Works(t)'
    BY <1>4, <2>1 DEF Works, TickRec
  <2> QED BY <1>5, <1>8, <1>10, <2>1, <2>2, <2>3
<1>16. ASSUME tick[t].pc = "failing", tick'[t] = [tick[t] EXCEPT !.pc = "loop", !.at = None, !.call = "gate"],
              UNCHANGED <<late, guard>>
       PROVE  Spare(i, n)' <= Spare(i, n) /\ Gates(i, n)' = Gates(i, n)
  BY <1>4, <1>5, <1>8, <1>16 DEF Works, TickRec
<1>17. CASE TickMarksFailed(t)
  <2>1. /\ tick[t].pc = "failing" /\ UNCHANGED <<late, guard>>
        /\ tick'[t] = [tick[t] EXCEPT !.pc = "loop", !.at = None, !.call = "gate"]
        /\ row' = [row EXCEPT ![tick[t].at] = [row[tick[t].at] EXCEPT !.status = "failed"]]
    BY <1>17 DEF TickMarksFailed, markNotificationFailed, Loops, TypeInv, TickTypes
  <2>2. n = tick[t].at => Settled(n)'
    BY <2>1 DEF Settled, TypeInv, RowTypes
  <2>3. MayText(t, n)' => MayText(t, n)
    BY <1>4, <1>6, <2>1, <2>2 DEF MayText, AtGate, WellShaped, TickRec
  <2> QED BY <1>10, <1>16, <2>1, <2>3
<1>18. CASE TickMarkFails(t)
  <2>1. /\ tick[t].pc = "failing" /\ UNCHANGED <<late, guard>> /\ faults'[i] = faults[i] + 1
        /\ tick'[t] = [tick[t] EXCEPT !.pc = "loop", !.at = None, !.call = "gate"]
    BY <1>18 DEF TickMarkFails, Loops, TypeInv, TickTypes, CountTypes, Fault
  <2> HIDE DEF P
  <2> QED BY <1>1, <1>3, <1>9, <1>16, <2>1
<1>19. CASE SendTimesOut(t)
  <2>1. /\ tick'[t] = [tick[t] EXCEPT !.pc = "failing", !.call = "gate"]
        /\ tick[t].pc = "waiting" /\ UNCHANGED <<row, guard>>
    BY <1>19 DEF SendTimesOut, GivesUp, TypeInv, TickTypes
  <2>2. Spare(i, n)' <= Spare(i, n)
    BY <1>4, <1>8, <2>1 DEF Works, TickRec
  <2>3. CASE tick[t].at = n /\ tick[t].call = "gate"
    <3>1. MayText(t, n) /\ ~MayText(t, n)'
      BY <1>4, <2>1, <2>3 DEF MayText, AtGate, Settled, WellShaped, TickRec
    <3>2. Gates(i, n)' = Gates(i, n) + 1
      BY <1>19, <2>3, GoesOnLate DEF Gates, CallEnds
    <3>3. P' + 1 <= P
      BY <1>3, <3>1
    <3>4. Gates(i, n)' + P' <= Gates(i, n) + P
      BY <1>1, <3>2, <3>3
    <3>5. TotalNext <= Total
      BY <1>1, <2>2, <3>4
    <3> QED BY <1>1, <1>7, <1>9, <3>5
  <2>4. CASE ~(tick[t].at = n /\ tick[t].call = "gate")
    <3>1. MayText(t, n)' => MayText(t, n)
      BY <1>4, <2>1, <2>4 DEF MayText, AtGate, Settled, WellShaped, TickRec
    <3>2. Gates(i, n)' = Gates(i, n)
      <4>1. Gates(i, n)' = Gates(i, n) + 0
        BY <1>1, <1>19, <2>4, GoesOnLate DEF Gates
      <4> QED BY <1>1, <4>1
    <3> QED BY <1>10, <2>2, <3>1, <3>2
  <2> QED BY <2>3, <2>4
<1>20. CASE TickEnd(t) \/ TickThrows(t)
  <2>1. /\ tick'[t] = IdleTick /\ tick[t].pc \in {"loop", "query", "hung"}
        /\ UNCHANGED <<row, late>>
    BY <1>20 DEF TickEnd, TickThrows, TypeInv, TickTypes
  <2>2. ~MayText(t, n)'
    BY <1>4, <2>1 DEF MayText, AtGate, IdleTick
  <2>3. ~Settled(n) => MayText(t, n)
    BY <1>4, <2>1 DEF MayText, WellShaped
  <2>4. Settled(n) => Spare(i, n)' = 0
    BY <1>6 DEF Spare
  <2> HIDE DEF P
  <2> QED BY <1>1, <1>3, <1>5, <1>7, <1>9, <2>1, <2>2, <2>3, <2>4
<1> QED BY <1>11, <1>12, <1>13, <1>14, <1>15, <1>17, <1>18, <1>19, <1>20 DEF TickStep

(* So does a step of dispatchOne: a text is one that was still to come, and *)
(* a dispatch that ends with its row unsettled has postponed it.            *)
LEMMA CallPays ==
    ASSUME TypeInv, TypeInv', AbsentAlone, Next, NEW i \in Instances, NEW n \in Rows, NEW m \in Rows,
           CallStep(i, m)
    PROVE  Paid(i, n)
<1> DEFINE P == Cardinality(Pending(i, n))
           TotalNext == texts'[i][n] + Gates(i, n)' + P' + Spare(i, n)'
           Total == texts[i][n] + Gates(i, n) + P + Spare(i, n)
<1>1. /\ texts[i][n] \in Nat /\ Gates(i, n) \in Nat /\ P \in Nat
      /\ Spare(i, n) \in {0, 1} /\ faults[i] \in Nat
      /\ texts'[i][n] \in Nat /\ Gates(i, n)' \in Nat /\ P' \in Nat
      /\ Spare(i, n)' \in {0, 1} /\ faults'[i] \in Nat
  BY BudgetParts, BudgetPartsNext
<1>2. faults'[i] = faults[i] \/ faults'[i] = faults[i] + 1
  BY CallCounts DEF TypeInv, CountTypes
<1>3. TotalNext <= Total => Paid(i, n)
  <2> HIDE DEF P
  <2>1. TotalNext <= Total => TotalNext <= Total + (faults'[i] - faults[i])
    BY <1>1, <1>2
  <2> QED BY <2>1 DEF Paid, Budget, P
<1>4. UNCHANGED guard
  BY CallMoves
<1>5. \A from \in CallPcs, to \in CallPcs \cup CallEnds : Moves(i, m, from, to) => Spare(i, n)' <= Spare(i, n)
  <2> SUFFICES ASSUME NEW from \in CallPcs, NEW to \in CallPcs \cup CallEnds, Moves(i, m, from, to)
               PROVE  Spare(i, n)' <= Spare(i, n)
    OBVIOUS
  <2>1. (\E t \in TicksOf(i) : AwaitedMove(t, m, from, to)) \/ LateMove(i, m, from, to)
    BY MovesDo DEF TypeInv
  <2>2. \A u \in TicksOf(i) : Works(u) => Works(u)'
    BY <2>1 DEF AwaitedMove, LateMove, Works, TypeInv, TickTypes, TickRec, TicksOf
  <2> QED BY <1>4, <2>2, NoneSpared
<1>6. ASSUME NEW from \in CallPcs, NEW to \in CallPcs \cup CallEnds, Moves(i, m, from, to),
             m = n => \/ /\ from = "gate" /\ to = "ended" /\ texts'[i][n] = texts[i][n]
                      \/ /\ from = "gate" /\ to = "taken" /\ texts'[i][n] = texts[i][n] + 1
                      \/ /\ to \in {"failing", "rejected"} /\ texts'[i][n] = texts[i][n]
                      \/ /\ to = "ended" /\ Settled(n)' /\ texts'[i][n] = texts[i][n],
             m # n => texts'[i][n] = texts[i][n]
      PROVE  Paid(i, n)
  <2>1. (\E t \in TicksOf(i) : AwaitedMove(t, m, from, to)) \/ LateMove(i, m, from, to)
    BY <1>6, MovesDo DEF TypeInv
  <2>2. Spare(i, n)' <= Spare(i, n)
    BY <1>5, <1>6
  <2>3. ASSUME NEW t \in TicksOf(i), AwaitedMove(t, m, from, to) PROVE Paid(i, n)
    <3>1. /\ tick'[t] = [tick[t] EXCEPT !.call = to]
          /\ \A u \in Ticks \ {t} : tick'[u] = tick[u]
          /\ tick[t].pc = "waiting" /\ tick[t].at = m /\ tick[t].call = from
          /\ Gates(i, n)' = Gates(i, n)
      BY <2>3 DEF AwaitedMove, TypeInv, TickTypes, Gates, TicksOf
    <3>2. n # None /\ WellShaped(tick[t]) /\ tick[t] \in TickRec
      BY DEF TypeInv, TickTypes, TicksOf
    <3>3. /\ MayText(t, n) \/ ~MayText(t, n)' => P' <= P
          /\ MayText(t, n) /\ ~MayText(t, n)' => P' + 1 <= P
      BY <3>1, OneMoves
    <3>4. Settled(n) => Settled(n)'
      BY SettledStays
    <3>5. CASE m # n
      <4>1. MayText(t, n)' => MayText(t, n)
        BY <3>1, <3>2, <3>4, <3>5 DEF MayText, AtGate, WellShaped, TickRec
      <4>2. P' <= P
        BY <3>3, <4>1
      <4> HIDE DEF P
      <4> QED BY <1>1, <1>3, <1>6, <2>2, <3>1, <3>5, <4>2
    <3>6. CASE m = n /\ texts'[i][n] = texts[i][n] + 1 /\ from = "gate" /\ to = "taken"
      <4>1. MayText(t, n) /\ ~MayText(t, n)'
        BY <3>1, <3>2, <3>6 DEF MayText, AtGate, WellShaped, TickRec
      <4>2. P' + 1 <= P
        BY <3>3, <4>1
      <4> HIDE DEF P
      <4> QED BY <1>1, <1>3, <2>2, <3>1, <3>6, <4>2
    <3>7. CASE m = n /\ texts'[i][n] = texts[i][n]
      <4>1. MayText(t, n)' => MayText(t, n)
        BY <1>1, <1>6, <3>1, <3>2, <3>4, <3>7 DEF MayText, AtGate, WellShaped, TickRec
      <4>2. P' <= P
        BY <3>3, <4>1
      <4> HIDE DEF P
      <4> QED BY <1>1, <1>3, <2>2, <3>1, <3>7, <4>2
    <3> QED BY <1>6, <3>5, <3>6, <3>7
  <2>4. CASE LateMove(i, m, from, to)
    <3>1. P' <= P
      BY <2>4, NoneMoves DEF LateMove
    <3>2. Gates(i, n)' = Gates(i, n) - (IF m = n /\ from = "gate" THEN 1 ELSE 0)
                        + (IF m = n /\ to = "gate" THEN 1 ELSE 0)
      BY <1>1, <2>4 DEF LateMove, Gates, CallEnds
    <3>3. texts'[i][n] + Gates(i, n)' <= texts[i][n] + Gates(i, n)
      BY <1>1, <1>6, <3>2
    <3> HIDE DEF P
    <3> QED BY <1>1, <1>3, <2>2, <3>1, <3>3
  <2> QED BY <2>1, <2>3, <2>4
<1>7. CASE SkipRow(i, m) \/ deferNotificationUntil(i, m)
  <2>1. Moves(i, m, "gate", "ended") /\ texts' = texts
    BY <1>7 DEF SkipRow, deferNotificationUntil
  <2> QED BY <1>6, <2>1 DEF CallPcs, CallEnds
<1>8. CASE ProviderTakes(i, m)
  <2>1. Moves(i, m, "gate", "taken") /\ texts' = [texts EXCEPT ![i][m] = texts[i][m] + 1]
    BY <1>8 DEF ProviderTakes
  <2>2. texts'[i][n] = IF m = n THEN texts[i][n] + 1 ELSE texts[i][n]
    BY <2>1 DEF TypeInv, CountTypes
  <2> QED BY <1>6, <2>1, <2>2 DEF CallPcs, CallEnds
<1>9. CASE SendThrows(i, m) \/ MarkFails(i, m)
  <2>1. PICK from \in CallPcs, to \in {"failing", "rejected"} : Moves(i, m, from, to) /\ texts' = texts
    BY <1>9 DEF SendThrows, MarkFails, CallPcs
  <2> QED BY <1>6, <2>1 DEF CallPcs, CallEnds
<1>10. CASE MarkSent(i, m)
  <2>1. Moves(i, m, "taken", "ended") /\ texts' = texts
    BY <1>10 DEF MarkSent
  <2>2. row[m].status # "absent"
    BY <2>1 DEF AbsentAlone, LeftAlone, Moves, CallPcs, TicksOf
  <2>3. row'[m].status = IF row[m].status \in {"queued", "sent"} THEN "sent" ELSE row[m].status
    BY <1>10 DEF MarkSent, markNotificationSent, TypeInv, RowTypes
  <2>4. Settled(m)'
    BY <2>2, <2>3 DEF Settled
  <2> QED BY <1>6, <2>1, <2>4 DEF CallPcs, CallEnds
<1>11. CASE MarkFailed(i, m)
  <2>1. Moves(i, m, "failing", "ended") /\ texts' = texts
    BY <1>11 DEF MarkFailed
  <2>2. Settled(m)'
    BY <1>11 DEF MarkFailed, markNotificationFailed, TypeInv, RowTypes, Settled
  <2> QED BY <1>6, <2>1, <2>2 DEF CallPcs, CallEnds
<1> QED BY <1>7, <1>8, <1>9, <1>10, <1>11 DEF CallStep

LEMMA BudgetStep ==
    ASSUME TypeInv, TypeInv', AbsentAlone, BudgetInv, Next
    PROVE  BudgetInv'
<1>1. SUFFICES ASSUME slow' = 0, NEW i \in Instances
               PROVE  /\ (guard[i] = "overdue" => NoneWorks(i))'
                      /\ \A n \in Rows : (Budget(i, n) <= 1 + faults[i])'
  BY DEF BudgetInv
<1>2. slow = 0 /\ \A j \in Instances : GuardOverdue(j) => NoneWorks(j)
  <2>1. ASSUME NEW j \in Instances, GuardOverdue(j) PROVE slow = 0 /\ NoneWorks(j)
    BY <1>1, <2>1 DEF GuardOverdue, NoneWorks, TypeInv, CountTypes
  <2>2. CASE \A j \in Instances : ~GuardOverdue(j)
    <3>1. slow' = slow
      BY <2>2, TickLeaves, CallMoves
         DEF Next, enqueueNotification, QuietHoursEnd, TickSkip, CallbackWrites, CallbackReads, Restart,
             Fault, bounds
    <3> QED BY <1>1, <2>2, <3>1
  <2> QED BY <2>1, <2>2
<1>6. ASSUME \/ \E m \in Rows : enqueueNotification(m) \/ QuietHoursEnd(m)
             \/ \E j \in Instances : TickSkip(j)
             \/ \E k \in Callbacks :
                   CallbackWrites(k) \/ \E m \in Rows, news \in News : CallbackReads(k, m, news)
      PROVE  StandsStill(i) /\ guard'[i] = guard[i]
  BY <1>6 DEF enqueueNotification, QuietHoursEnd, TickSkip, CallbackWrites, CallbackReads, bounds,
              StandsStill
<1>7. ASSUME NEW j \in Instances, GuardOverdue(j) PROVE StandsStill(i) /\ (j # i => guard'[i] = guard[i])
  BY <1>7 DEF GuardOverdue, StandsStill, TypeInv, CountTypes
<1>3. ASSUME guard'[i] = "overdue" PROVE NoneWorks(i)'
  <2>9. StandsStill(i) /\ NoneWorks(i) => NoneWorks(i)'
    BY DEF StandsStill, NoneWorks, Works, TicksOf
  <2>10. StandsStill(i) /\ guard'[i] = guard[i] => NoneWorks(i)'
    BY <1>2, <1>3, <2>9 DEF BudgetInv
  <2>1. ASSUME NEW t \in Ticks, TickStep(t) \/ QueryHangs(t) \/ TickMarkFails(t) \/ TickThrows(t)
        PROVE  NoneWorks(i)'
    <3>1. guard'[i] = guard[i]
      BY <1>3, <2>1, TickLeaves DEF TypeInv, CountTypes
    <3>2. CASE Host[t] # i
      BY <2>1, <2>10, <3>1, <3>2, TickIsLocal
    <3>3. CASE Host[t] = i
      <4>1. Works(t)
        <5>1. guard'[Host[t]] = "overdue"
          BY <1>3, <3>3
        <5> QED BY <2>1, <5>1 DEF TickStep, TickStart, TickForce, Begins, TickQuery, QueryHangs, Send,
                   SendEnds, SendTimesOut, GivesUp, TickMarksFailed, TickMarkFails, TickAgain, TickEnd,
                   TickThrows, Works, TypeInv, CountTypes
      <4>2. NoneWorks(i)
        BY <1>2, <1>3, <3>1 DEF BudgetInv
      <4> QED BY <3>3, <4>1, <4>2 DEF NoneWorks, TicksOf
    <3> QED BY <3>2, <3>3
  <2>2. ASSUME NEW j \in Instances, NEW n \in Rows, CallStep(j, n) PROVE NoneWorks(i)'
    <3>1. guard[i] = "overdue" /\ NoneWorks(i)
      BY <1>2, <1>3, <2>2, CallMoves DEF BudgetInv
    <3>2. CASE j # i
      BY <2>2, <2>9, <3>1, <3>2, CallIsLocal
    <3>3. CASE j = i
      <4>1. PICK from \in CallPcs, to \in CallPcs \cup CallEnds : Moves(i, n, from, to)
        BY <2>2, <3>3, CallMoves
      <4>2. (\E t \in TicksOf(i) : AwaitedMove(t, n, from, to)) \/ LateMove(i, n, from, to)
        BY <4>1, MovesDo DEF TypeInv
      <4> QED BY <3>1, <4>2 DEF AwaitedMove, LateMove, NoneWorks, Works
    <3> QED BY <3>2, <3>3
  <2>3. ASSUME NEW j \in Instances, GuardOverdue(j) PROVE NoneWorks(i)'
    <3>1. CASE j = i
      BY <1>2, <1>7, <2>3, <2>9, <3>1
    <3>2. CASE j # i
      BY <1>7, <2>3, <2>10, <3>2
    <3> QED BY <3>1, <3>2
  <2>4. ASSUME NEW j \in Instances, Restart(j) PROVE NoneWorks(i)'
    <3>1. j # i
      BY <1>3, <2>4 DEF Restart, TypeInv, CountTypes
    <3>2. StandsStill(i) /\ guard'[i] = guard[i]
      BY <2>4, <3>1, RestartIsLocal DEF Restart, TypeInv, CountTypes
    <3> QED BY <2>10, <3>2
  <2> QED BY <1>6, <2>1, <2>2, <2>3, <2>4, <2>10 DEF Next
<1>4. ASSUME NEW n \in Rows PROVE Paid(i, n)
  <2> DEFINE P == Cardinality(Pending(i, n))
             Total == texts[i][n] + Gates(i, n) + P + Spare(i, n)
             TotalNext == texts'[i][n] + Gates(i, n)' + P' + Spare(i, n)'
  <2>1. /\ texts[i][n] \in Nat /\ Gates(i, n) \in Nat /\ P \in Nat
        /\ Spare(i, n) \in {0, 1} /\ faults[i] \in Nat
        /\ texts'[i][n] \in Nat /\ Gates(i, n)' \in Nat /\ P' \in Nat
        /\ Spare(i, n)' \in {0, 1} /\ faults'[i] \in Nat
    BY BudgetParts, BudgetPartsNext
  <2>2. Paid(i, n) <=> TotalNext <= Total + (faults'[i] - faults[i])
    BY DEF Paid, Budget
  <2>3. ASSUME Restart(i) PROVE Paid(i, n)
    <3>1. texts'[i][n] = texts[i][n] /\ faults'[i] = faults[i] + 1 /\ Gates(i, n)' = 0
      BY <2>3, NoLate DEF Restart, Fault, Gates, TypeInv, CountTypes, LateTypes
    <3>2. P' = 0
      <4>1. \A t \in TicksOf(i) : tick'[t] = IdleTick /\ n # None
        BY <2>3 DEF Restart, TicksOf
      <4>2. \A t \in TicksOf(i) : ~MayText(t, n)'
        BY <4>1 DEF MayText, AtGate, IdleTick
      <4>3. Pending(i, n)' = {}
        BY <4>2 DEF Pending, TicksOf
      <4> QED BY <4>3, FS_EmptySet
    <3> HIDE DEF P
    <3> QED BY <2>1, <2>2, <3>1, <3>2
  <2>4. ASSUME NEW j \in Instances, Restart(j) PROVE Paid(i, n)
    BY <2>3, <2>4, RestartIsLocal, Elsewhere
  <2>5. ASSUME NEW j \in Instances, NEW m \in Rows, CallStep(j, m) PROVE Paid(i, n)
    BY <2>5, CallIsLocal, Elsewhere, CallPays
  <2>6. ASSUME NEW t \in Ticks, TickStep(t) \/ QueryHangs(t) \/ TickMarkFails(t) \/ TickThrows(t)
        PROVE  Paid(i, n)
    <3>1. Host[t] # i => Paid(i, n)
      BY <2>6, TickIsLocal, Elsewhere
    <3>2. Host[t] = i => Paid(i, n)
      BY <1>2, <2>6, TickPays
    <3> QED BY <3>1, <3>2
  <2> QED BY <1>6, <1>7, <2>4, <2>5, <2>6, Elsewhere DEF Next
<1>5. ASSUME NEW n \in Rows PROVE (Budget(i, n) <= 1 + faults[i])'
  <2>1. Budget(i, n) \in Nat /\ Budget(i, n)' \in Nat /\ faults[i] \in Nat /\ faults'[i] \in Nat
    <3>1. Budget(i, n) \in Nat /\ faults[i] \in Nat
      BY BudgetParts DEF Budget
    <3>2. Budget(i, n)' \in Nat /\ faults'[i] \in Nat
      BY BudgetPartsNext DEF Budget
    <3> QED BY <3>1, <3>2
  <2>2. Budget(i, n)' <= Budget(i, n) + (faults'[i] - faults[i]) /\ Budget(i, n) <= 1 + faults[i]
    BY <1>2, <1>4 DEF Paid, BudgetInv
  <2>3. Budget(i, n)' <= 1 + faults'[i]
    BY <2>1, <2>2
  <2> QED BY <2>3
<1> QED BY <1>3, <1>5

(* The guard of each process, the statuses and the timeouts together: as    *)
(* long as the watchdog takes a guard only from ticks whose query hangs, an *)
(* instance texts a row again only for a failed statement, a hung query or  *)
(* a restart of its own, however many of its ticks run, dispatches go on    *)
(* late and callbacks come in, and whatever the other instances do to the   *)
(* row.  Two instances may well text it once each.                          *)
THEOREM NoTextForNothing == Spec => []ExtraTextsArePaidFor
<1> DEFINE Inv == TypeInv /\ AbsentAlone /\ BudgetInv
<1>1. Init => Inv
  <2> SUFFICES ASSUME Init PROVE AbsentAlone /\ BudgetInv
    BY TypeInit
  <2>1. TypeInv
    BY TypeInit
  <2>2. AbsentAlone
    BY NoLate DEF Init, AbsentAlone, LeftAlone, IdleTick, BagIn
  <2>3. ASSUME NEW i \in Instances, NEW n \in Rows PROVE Budget(i, n) <= 1 + faults[i]
    <3>1. texts[i][n] = 0 /\ Gates(i, n) = 0 /\ faults[i] = 0
      BY NoLate DEF Init, Gates
    <3>2. Pending(i, n) = {}
      BY DEF Init, Pending, MayText, AtGate, Settled, IdleTick, TicksOf
    <3>3. Cardinality(Pending(i, n)) = 0 /\ Spare(i, n) \in {0, 1}
      BY <3>2, FS_EmptySet DEF Spare
    <3> QED BY <3>1, <3>3 DEF Budget
  <2>4. \A i \in Instances : guard[i] = "free"
    BY DEF Init
  <2> QED BY <2>2, <2>3, <2>4 DEF BudgetInv
<1>2. Inv /\ [Next]_vars => Inv'
  <2>1. CASE Next
    BY <2>1, TypeStep, AbsentStep, BudgetStep
  <2>2. CASE UNCHANGED vars
    <3>1. TypeInv => TypeInv'
      BY <2>2, TypeStep
    <3>2. AbsentAlone => AbsentAlone'
      BY <2>2 DEF vars, AbsentAlone, LeftAlone
    <3>3. BudgetInv => BudgetInv'
      BY <2>2 DEF vars, bounds, BudgetInv, NoneWorks, Works, Budget, Gates, Pending, MayText, AtGate,
                  Settled, Spare, TicksOf
    <3> QED BY <3>1, <3>2, <3>3
  <2> QED BY <2>1, <2>2
<1>3. Inv => ExtraTextsArePaidFor
  <2> SUFFICES ASSUME Inv, slow = 0, NEW i \in Instances, NEW n \in Rows
               PROVE  texts[i][n] <= 1 + faults[i]
    BY DEF ExtraTextsArePaidFor
  <2>1. Budget(i, n) <= 1 + faults[i]
    BY DEF BudgetInv
  <2> QED BY <2>1, BudgetParts DEF Budget
<1> QED BY <1>1, <1>2, <1>3, PTL DEF Spec
=============================================================================
