-------------------------- MODULE VrmNotifications ---------------------------
(***************************************************************************)
(* The outbox of rental decisions (server/vrm/notification-dispatcher.ts):  *)
(* rows that wait for a text, the ticks that drain them, the guard that     *)
(* keeps two ticks of a process apart with the watchdog that takes it from  *)
(* a slow one, the dispatches that go on after their tick gave up on them,  *)
(* and the provider's delivery callbacks.                                   *)
(*                                                                         *)
(* The rows are in the database that all instances of the server share; the *)
(* guard and its companions are variables of each process.  A row is not    *)
(* claimed: a tick reads the queue once and goes through the list.  Every   *)
(* await of a tick, a dispatch or a callback ends a step.                   *)
(***************************************************************************)
EXTENDS Naturals, FiniteSets, Bags

CONSTANTS
    Rows,          \* notifications, numbered in the order of the queue
    Instances,     \* processes of the server
    Ticks,         \* drains under way at a time
    Callbacks,     \* delivery callbacks under way at a time
    Host,          \* the instance that each tick and each callback runs in
    None,
    MaxFaults,     \* bound, for each instance: failed statements, hung queries, restarts
    MaxSlow        \* bound: times a tick that is only slow holds the guard too long

ASSUME NotificationAssumption ==
    /\ Rows \subseteq Nat /\ None \notin Rows /\ IsFiniteSet(Ticks)
    /\ Host \in [Ticks \cup Callbacks -> Instances]
    /\ MaxFaults \in [Instances -> Nat] /\ MaxSlow \in Nat

VARIABLES
    row,       \* vrm_notifications
    guard,     \* dispatcherInFlight and inFlightSince of each instance
    rerun,     \* rerunRequested of each instance
    tick,      \* what each drain is at, with the dispatchOne it awaits
    late,      \* for each instance, the bag of dispatches that go on without a tick
    callback,  \* what each webhook request is at
    texts,     \* ghost: texts the provider took of each instance for each row
    faults, slow

vars == <<row, guard, rerun, tick, late, callback, texts, faults, slow>>
bounds == <<faults, slow>>

Terminal == {"delivered", "failed"}
Statuses == {"absent", "queued", "sent", "skipped"} \cup Terminal
News == {"sent"} \cup Terminal
GuardStates == {"free", "held", "overdue"}
TickPcs == {"idle", "query", "hung", "loop", "waiting", "failing"}
CallPcs == {"gate", "taken", "failing"}
CallEnds == {"ended", "rejected"}

IdleTick == [pc |-> "idle", batch |-> {}, at |-> None, call |-> "gate"]
IdleCallback == [pc |-> "idle", n |-> None, news |-> "sent"]

TypeOK ==
    /\ row \in [Rows -> [status : Statuses, due : BOOLEAN, sid : BOOLEAN, phone : BOOLEAN]]
    /\ guard \in [Instances -> GuardStates] /\ rerun \in [Instances -> BOOLEAN]
    /\ tick \in [Ticks -> [pc : TickPcs, batch : SUBSET Rows, at : Rows \cup {None},
                           call : CallPcs \cup CallEnds]]
    /\ \A i \in Instances : \A c \in BagToSet(late[i]) : c \in Rows \X CallPcs
    /\ callback \in [Callbacks -> [pc : {"idle", "write"}, n : Rows \cup {None}, news : News]]
    /\ texts \in [Instances -> [Rows -> Nat]]
    /\ faults \in [Instances -> Nat] /\ slow \in 0..MaxSlow
    /\ \A t \in Ticks : tick[t].pc \in {"waiting", "failing"} => tick[t].at \in Rows \ tick[t].batch

Init ==
    /\ row = [n \in Rows |-> [status |-> "absent", due |-> TRUE, sid |-> FALSE, phone |-> FALSE]]
    /\ guard = [i \in Instances |-> "free"] /\ rerun = [i \in Instances |-> FALSE]
    /\ tick = [t \in Ticks |-> IdleTick]
    /\ late = [i \in Instances |-> EmptyBag]
    /\ callback = [k \in Callbacks |-> IdleCallback]
    /\ texts = [i \in Instances |-> [n \in Rows |-> 0]]
    /\ faults = [i \in Instances |-> 0] /\ slow = 0

Fault(i) ==
    /\ faults[i] < MaxFaults[i]
    /\ faults' = [faults EXCEPT ![i] = @ + 1]
    /\ UNCHANGED slow

-----------------------------------------------------------------------------
(* The queue.  A row is enqueued once, with or without a recipient's number. *)

enqueueNotification(n) ==
    /\ row[n].status = "absent"
    /\ \E phone \in BOOLEAN : row' = [row EXCEPT ![n].status = "queued", ![n].phone = phone]
    /\ UNCHANGED <<guard, rerun, tick, late, callback, texts, bounds>>

getQueuedNotifications == {n \in Rows : row[n].status = "queued" /\ row[n].due}

(* The recipient's quiet hours are over.                                    *)
QuietHoursEnd(n) ==
    /\ ~row[n].due
    /\ row' = [row EXCEPT ![n].due = TRUE]
    /\ UNCHANGED <<guard, rerun, tick, late, callback, texts, bounds>>

markNotificationSent(n) ==
    row' = [row EXCEPT ![n].status = IF @ \in {"queued", "sent"} THEN "sent" ELSE @,
                       ![n].sid = TRUE]

markNotificationFailed(n) == row' = [row EXCEPT ![n].status = "failed"]

-----------------------------------------------------------------------------
(* A tick.  The timer of each instance calls it, and so does every new      *)
(* decision, in the instance that serves the request.                       *)

TickGoes(t, to) == tick' = [tick EXCEPT ![t].pc = to]

Begins(t) ==
    /\ tick' = [tick EXCEPT ![t] = [IdleTick EXCEPT !.pc = "query"]]
    /\ guard' = [guard EXCEPT ![Host[t]] = "held"]
    /\ rerun' = [rerun EXCEPT ![Host[t]] = FALSE]

(* mutant: the guard is not looked at.                                      *)
MayEnter_always(i) == TRUE

MayEnter(i) == guard[i] = "free"

TickStart(t) ==
    /\ tick[t].pc = "idle" /\ MayEnter(Host[t])
    /\ Begins(t)
    /\ UNCHANGED <<row, late, callback, texts, bounds>>

(* The watchdog: the guard is held too long, this tick takes it.            *)
TickForce(t) ==
    /\ tick[t].pc = "idle" /\ guard[Host[t]] = "overdue"
    /\ Begins(t)
    /\ UNCHANGED <<row, late, callback, texts, bounds>>

TickSkip(i) ==
    /\ guard[i] = "held" /\ ~rerun[i]
    /\ rerun' = [rerun EXCEPT ![i] = TRUE]
    /\ UNCHANGED <<row, guard, tick, late, callback, texts, bounds>>

TicksOf(i) == {t \in Ticks : Host[t] = i}
Works(t) == tick[t].pc \notin {"idle", "hung"}

(* The guard is held too long: by a tick that hangs, or by one that is only *)
(* slow, which the bound MaxSlow counts.                                    *)
GuardOverdue(i) ==
    /\ guard[i] = "held"
    /\ \/ slow < MaxSlow /\ slow' = slow + 1
       \/ (\A t \in TicksOf(i) : ~Works(t)) /\ UNCHANGED slow
    /\ guard' = [guard EXCEPT ![i] = "overdue"]
    /\ UNCHANGED <<row, rerun, tick, late, callback, texts, faults>>

TickQuery(t) ==
    /\ tick[t].pc = "query"
    /\ tick' = [tick EXCEPT ![t].pc = "loop", ![t].batch = getQueuedNotifications]
    /\ UNCHANGED <<row, guard, rerun, late, callback, texts, bounds>>

(* Nothing bounds the query itself.                                         *)
QueryHangs(t) ==
    /\ tick[t].pc = "query" /\ Fault(Host[t])
    /\ TickGoes(t, "hung")
    /\ UNCHANGED <<row, guard, rerun, late, callback, texts>>

First(S) == {n \in S : \A m \in S : n <= m}

(* mutant: a row stays in the list it is sent from.                         *)
Left_all(t, n) == tick[t].batch

Left(t, n) == tick[t].batch \ {n}

Send(t) ==
    /\ tick[t].pc = "loop"
    /\ \E n \in First(tick[t].batch) :
          tick' = [tick EXCEPT ![t] = [pc |-> "waiting", batch |-> Left(t, n),
                                       at |-> n, call |-> "gate"]]
    /\ UNCHANGED <<row, guard, rerun, late, callback, texts, bounds>>

Loops(t) == tick' = [tick EXCEPT ![t].pc = "loop", ![t].at = None, ![t].call = "gate"]

(* dispatchOne returned, or threw.                                          *)
SendEnds(t) ==
    /\ tick[t].pc = "waiting" /\ tick[t].call \in CallEnds
    /\ IF tick[t].call = "ended" THEN Loops(t) ELSE TickGoes(t, "failing")
    /\ UNCHANGED <<row, guard, rerun, late, callback, texts, bounds>>

(* mutant: dispatchOne is awaited for as long as it takes.                  *)
GivesUp_never(t) == FALSE

GivesUp(t) == tick[t].pc = "waiting"

(* The timeout: the tick goes on, and so does the dispatch, without it.     *)
SendTimesOut(t) ==
    /\ GivesUp(t)
    /\ late' = [late EXCEPT ![Host[t]] =
                   @ (+) SetToBag({<<tick[t].at, pc>> : pc \in {tick[t].call} \ CallEnds})]
    /\ tick' = [tick EXCEPT ![t].pc = "failing", ![t].call = "gate"]
    /\ UNCHANGED <<row, guard, rerun, callback, texts, bounds>>

TickMarksFailed(t) ==
    /\ tick[t].pc = "failing"
    /\ markNotificationFailed(tick[t].at)
    /\ Loops(t)
    /\ UNCHANGED <<guard, rerun, late, callback, texts, bounds>>

TickMarkFails(t) ==
    /\ tick[t].pc = "failing" /\ Fault(Host[t])
    /\ Loops(t)
    /\ UNCHANGED <<row, guard, rerun, late, callback, texts>>

TickAgain(t) ==
    /\ tick[t].pc = "loop" /\ tick[t].batch = {} /\ rerun[Host[t]]
    /\ rerun' = [rerun EXCEPT ![Host[t]] = FALSE]
    /\ TickGoes(t, "query")
    /\ UNCHANGED <<row, guard, late, callback, texts, bounds>>

(* The guard is let go, whoever holds it by now.                            *)
TickEnd(t) ==
    /\ tick[t].pc = "loop" /\ tick[t].batch = {} /\ ~rerun[Host[t]]
    /\ tick' = [tick EXCEPT ![t] = IdleTick]
    /\ guard' = [guard EXCEPT ![Host[t]] = "free"]
    /\ UNCHANGED <<row, rerun, late, callback, texts, bounds>>

(* The query throws, or answers with an error after it hung.                *)
TickThrows(t) ==
    /\ \/ tick[t].pc = "query" /\ Fault(Host[t])
       \/ tick[t].pc = "hung" /\ UNCHANGED bounds
    /\ tick' = [tick EXCEPT ![t] = IdleTick]
    /\ guard' = [guard EXCEPT ![Host[t]] = "free"]
    /\ UNCHANGED <<row, rerun, late, callback, texts>>

-----------------------------------------------------------------------------
(* dispatchOne of row n in instance i, awaited by a tick or gone on without *)
(* it.                                                                      *)

Moves(i, n, from, to) ==
    \/ \E t \in TicksOf(i) :
          /\ tick[t].pc = "waiting" /\ tick[t].at = n /\ tick[t].call = from
          /\ tick' = [tick EXCEPT ![t].call = to]
          /\ UNCHANGED late
    \/ /\ BagIn(<<n, from>>, late[i])
       /\ late' = [late EXCEPT ![i] = (@ (-) SetToBag({<<n, from>>}))
                                         (+) SetToBag({<<n, pc>> : pc \in {to} \ CallEnds})]
       /\ UNCHANGED tick

(* No recipient.                                                            *)
SkipRow(i, n) ==
    /\ ~row[n].phone /\ Moves(i, n, "gate", "ended")
    /\ row' = [row EXCEPT ![n].status = "skipped"]
    /\ UNCHANGED <<guard, rerun, callback, texts, bounds>>

deferNotificationUntil(i, n) ==
    /\ row[n].phone /\ Moves(i, n, "gate", "ended")
    /\ row' = [row EXCEPT ![n].due = IF row[n].status = "queued" THEN FALSE ELSE @]
    /\ UNCHANGED <<guard, rerun, callback, texts, bounds>>

ProviderTakes(i, n) ==
    /\ row[n].phone /\ Moves(i, n, "gate", "taken")
    /\ texts' = [texts EXCEPT ![i][n] = @ + 1]
    /\ UNCHANGED <<row, guard, rerun, callback, bounds>>

(* The provider refuses, or its answer does not come in time.               *)
SendThrows(i, n) ==
    /\ row[n].phone /\ (Moves(i, n, "gate", "failing") \/ Moves(i, n, "taken", "failing"))
    /\ UNCHANGED <<row, guard, rerun, callback, texts, bounds>>

MarkSent(i, n) ==
    /\ Moves(i, n, "taken", "ended")
    /\ markNotificationSent(n)
    /\ UNCHANGED <<guard, rerun, callback, texts, bounds>>

MarkFailed(i, n) ==
    /\ Moves(i, n, "failing", "ended")
    /\ markNotificationFailed(n)
    /\ UNCHANGED <<guard, rerun, callback, texts, bounds>>

MarkFails(i, n) ==
    /\ Moves(i, n, "taken", "failing") \/ Moves(i, n, "failing", "rejected")
    /\ Fault(i)
    /\ UNCHANGED <<row, guard, rerun, callback, texts>>

-----------------------------------------------------------------------------
(* Delivery callbacks: read by sid, then an unguarded write.                *)

(* mutant: a terminal state is not sticky.                                  *)
TakesNews_any(n) == row[n].sid

TakesNews(n) == row[n].sid /\ row[n].status \notin Terminal

CallbackReads(k, n, news) ==
    /\ callback[k].pc = "idle"
    /\ \E i \in Instances : texts[i][n] > 0
    /\ callback' = [callback EXCEPT ![k] =
                       IF TakesNews(n) THEN [pc |-> "write", n |-> n, news |-> news] ELSE @]
    /\ UNCHANGED <<row, guard, rerun, tick, late, texts, faults, slow>>

CallbackWrites(k) ==
    /\ callback[k].pc = "write"
    /\ row' = [row EXCEPT ![callback[k].n].status = callback[k].news]
    /\ callback' = [callback EXCEPT ![k] = IdleCallback]
    /\ UNCHANGED <<guard, rerun, tick, late, texts, bounds>>

-----------------------------------------------------------------------------
(* An instance restarts; the rows stay.                                     *)
Restart(i) ==
    /\ Fault(i)
    /\ guard' = [guard EXCEPT ![i] = "free"] /\ rerun' = [rerun EXCEPT ![i] = FALSE]
    /\ tick' = [t \in Ticks |-> IF Host[t] = i THEN IdleTick ELSE tick[t]]
    /\ late' = [late EXCEPT ![i] = EmptyBag]
    /\ callback' = [k \in Callbacks |-> IF Host[k] = i THEN IdleCallback ELSE callback[k]]
    /\ UNCHANGED <<row, texts>>

TickStep(t) ==
    \/ TickStart(t) \/ TickForce(t) \/ TickQuery(t)
    \/ Send(t) \/ SendEnds(t) \/ SendTimesOut(t)
    \/ TickMarksFailed(t) \/ TickAgain(t) \/ TickEnd(t)

CallStep(i, n) ==
    \/ SkipRow(i, n) \/ deferNotificationUntil(i, n) \/ ProviderTakes(i, n)
    \/ SendThrows(i, n) \/ MarkSent(i, n) \/ MarkFailed(i, n) \/ MarkFails(i, n)

Next ==
    \/ \E n \in Rows : enqueueNotification(n) \/ QuietHoursEnd(n)
    \/ \E i \in Instances, n \in Rows : CallStep(i, n)
    \/ \E t \in Ticks : TickStep(t) \/ QueryHangs(t) \/ TickMarkFails(t) \/ TickThrows(t)
    \/ \E i \in Instances : TickSkip(i) \/ GuardOverdue(i) \/ Restart(i)
    \/ \E k \in Callbacks : CallbackWrites(k) \/ \E n \in Rows, news \in News : CallbackReads(k, n, news)

(* The timer starts ticks and a tick goes on, its timeout included, but no  *)
(* dispatch is promised to: a send may never answer.                        *)
Fairness ==
    /\ \A t \in Ticks : WF_vars(TickStep(t))
    /\ \A i \in Instances : WF_vars(GuardOverdue(i))

Spec == Init /\ [][Next]_vars /\ Fairness

-----------------------------------------------------------------------------
(* What the guard of a process can do, it does: as long as the watchdog     *)
(* takes it only from ticks that hang, an instance texts a row once, and    *)
(* again only for a fault of its own.  No two of its ticks, no rerun, no    *)
(* dispatch that goes on late, no callback and nothing that another         *)
(* instance does to the row makes it send a second text.  Of all instances  *)
(* together this is not so, although notification-dispatcher.ts:984-987     *)
(* says a row can never be sent twice: two of them may both have read it as *)
(* queued, and a dispatch does not look at its row again.                   *)
ExtraTextsArePaidFor ==
    slow = 0 => \A i \in Instances, n \in Rows : texts[i][n] <= 1 + faults[i]

(* A row is at rest when it reads delivered and nobody who may write it is  *)
(* under way: no tick has it in its list, no dispatch of it goes on, no     *)
(* callback that read it earlier is about to write.                         *)
AtRest(n) ==
    /\ row[n].status = "delivered"
    /\ \A t \in Ticks : tick[t].at # n /\ n \notin tick[t].batch
    /\ \A i \in Instances, pc \in CallPcs : ~BagIn(<<n, pc>>, late[i])
    /\ \A k \in Callbacks : callback[k].pc = "write" => callback[k].n # n

(* Nothing that begins later reopens a row at rest, whatever the order of   *)
(* the callbacks that still come in, the ticks and the restarts.            *)
RestStays == [][\A n \in Rows : AtRest(n) => AtRest(n)']_vars

(* Every queued row settles or waits for the morning, although a send may   *)
(* never answer, a query may hang and ticks collide.                        *)
RowsSettle == \A n \in Rows : row[n].status = "queued" ~> (row[n].status # "queued" \/ ~row[n].due)
=============================================================================
