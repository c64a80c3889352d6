------------------------- MODULE MCVrmNotifications --------------------------
(* A small instance of VrmNotifications: two server processes, the first    *)
(* with two ticks and the faults, the second with a tick and the callbacks. *)
EXTENDS VrmNotifications, TLC

CONSTANTS i1, i2, t1, t2, t3, k1

MCInstances == {i1, i2}
MCTicks == {t1, t2, t3}
MCCallbacks == {k1}
MCHost == (t1 :> i1) @@ (t2 :> i1) @@ (t3 :> i2) @@ (k1 :> i2)
MCMaxFaults == (i1 :> 1) @@ (i2 :> 0)
=============================================================================
