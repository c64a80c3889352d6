------------------------ MODULE CorrectionLifecycle -------------------------
(***************************************************************************)
(* What the nightly backstop promises of every correction it materializes,  *)
(* whoever works on it: the downstream system takes it at most once, only   *)
(* while somebody may be writing it, and its row never claims that nothing  *)
(* was written, or that something was, against the truth.                   *)
(***************************************************************************)
EXTENDS Naturals

CONSTANT Items

VARIABLES
    outcome,   \* what the row of each correction claims
    accepted   \* how often the downstream system took it

vars == <<outcome, accepted>>

(* "suspected": the write may have gone out; "landed": it has; "dropped":   *)
(* given up unwritten; "failed": given up, nothing is claimed either way.   *)
Outcomes ==
    {"absent", "open", "claimed", "awaiting", "suspected", "landed",
     "verified", "flagged", "dropped", "failed"}

Inserted == {"open", "awaiting", "flagged"}

Init ==
    /\ outcome \in [Items -> {"absent", "open", "awaiting"}]
    /\ accepted = [i \in Items |-> 0]

Become(S, from, to) ==
    /\ \A i \in S : outcome[i] \in from
    /\ outcome' = [i \in Items |-> IF i \in S THEN to ELSE outcome[i]]
    /\ UNCHANGED accepted

(* A run inserts some of its rows.                                          *)
Insert ==
    /\ outcome' \in [Items -> Outcomes]
    /\ \A i \in Items : \/ outcome'[i] = outcome[i]
                        \/ outcome[i] = "absent" /\ outcome'[i] \in Inserted
    /\ UNCHANGED accepted

Lease(S) == Become(S, {"open"}, "claimed")

(* The lease ran out in, or the row was lost after, the write window.       *)
Rescue(S) == Become(S, {"claimed"}, "suspected")

(* Downstream takes the write of the row's writer, who may be so late that  *)
(* the row was rescued, and judged, before.                                 *)
Take(i) ==
    /\ outcome[i] \in {"claimed", "suspected", "verified", "flagged"}
    /\ accepted[i] = 0
    /\ accepted' = [accepted EXCEPT ![i] = 1]
    /\ UNCHANGED outcome

(* Given back or given up: nothing has been written.                        *)
Release(i) == accepted[i] = 0 /\ Become({i}, {"claimed"}, "open")
Drop(i) == accepted[i] = 0 /\ Become({i}, {"claimed", "awaiting"}, "dropped")

(* Written.                                                                 *)
Land(i) == accepted[i] = 1 /\ Become({i}, {"claimed"}, "landed")

Fail(i) == Become({i}, {"claimed"}, "failed")

(* The verdict of a sweep, the last word on the row.                        *)
Judge(i, verdict) == Become({i}, {"suspected", "landed", "awaiting"}, verdict)

Next ==
    \/ Insert
    \/ \E S \in SUBSET Items : Lease(S) \/ Rescue(S)
    \/ \E i \in Items :
          \/ Take(i) \/ Release(i) \/ Drop(i) \/ Land(i) \/ Fail(i)
          \/ \E verdict \in {"verified", "flagged"} : Judge(i, verdict)

Spec == Init /\ [][Next]_vars
=============================================================================
