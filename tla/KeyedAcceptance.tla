--------------------------- MODULE KeyedAcceptance ---------------------------
(***************************************************************************)
(* What an idempotency key promises the callers of sendMessage, whatever    *)
(* the pipeline behind it does: a key stands for at most one message, and   *)
(* every caller that presents the key is told that same message.            *)
(***************************************************************************)
CONSTANTS Callers, Keys, Messages, KeyOf, None

VARIABLES
    acceptedAs,   \* key -> the message it was accepted as, or None
    answer        \* keyed caller -> the message it was told, or None

vars == <<acceptedAs, answer>>

Keyed == {c \in Callers : KeyOf[c] \in Keys}

Init ==
    /\ acceptedAs = [k \in Keys |-> None]
    /\ answer = [c \in Keyed |-> None]

(* The first caller of a key creates its message.                           *)
Accept(c, m) ==
    /\ acceptedAs[KeyOf[c]] = None
    /\ \A k \in Keys : acceptedAs[k] # m
    /\ acceptedAs' = [acceptedAs EXCEPT ![KeyOf[c]] = m]
    /\ answer' = [answer EXCEPT ![c] = m]

(* Any later one is told about it.                                          *)
Recall(c) ==
    /\ acceptedAs[KeyOf[c]] # None
    /\ answer[c] = None
    /\ answer' = [answer EXCEPT ![c] = acceptedAs[KeyOf[c]]]
    /\ UNCHANGED acceptedAs

Next == \E c \in Keyed : Recall(c) \/ \E m \in Messages : Accept(c, m)

Spec == Init /\ [][Next]_vars
=============================================================================
