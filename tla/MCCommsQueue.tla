---------------------------- MODULE MCCommsQueue -----------------------------
(* Small instances of CommsQueue: two requests with one key and a third of   *)
(* the same wording without; or one request, a bulk send and two drains.     *)
EXTENDS CommsQueue, TLC

CONSTANTS c1, c2, c3, k1, b1, b2, p1, p2

MCCallers == {c1, c2}
MCKeys == {k1}
MCSameKey == [c \in Callers |-> k1]
MCRetryAndPlain == (c1 :> k1) @@ (c2 :> k1) @@ (c3 :> NoKey)
MCOneCaller == {c1}
MCThreeCallers == {c1, c2, c3}
MCSameBody == [c \in Callers |-> b1]
MCAudience == {b2}
MCNobody == {}
MCFirst == {c1}
MCSecond == {c2}
MCThird == {c3}
MCRows2 == {1, 2}
MCRows3 == {1, 2, 3}
MCProcessors == {p1, p2}
MCOneProcessor == {p1}
=============================================================================
