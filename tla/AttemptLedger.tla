--------------------------- MODULE AttemptLedger ----------------------------
(***************************************************************************)
(* What the ledger of booking attempts promises of one intent: attempts are *)
(* numbered in the order of the claims that opened them, one to a claim and *)
(* one open at a time; an attempt makes one reservation at most, while it   *)
(* is open or after a readback wrote over it; and a result is written over  *)
(* nothing but an open attempt, and says what happened.                     *)
(***************************************************************************)
EXTENDS Naturals

CONSTANT Numbers   \* of attempts, a set of naturals

VARIABLES
    rows,   \* number -> what the ledger says of the attempt
    made    \* the attempts that made a reservation

vars == <<rows, made>>

Absent == [outcome |-> "absent", token |-> 0, hash |-> 0]
Readings == {"booked_via_readback", "no_reservation_found", "readback_other"}

Used(n) == rows[n].outcome # "absent"
Says(n, outcomes) == rows[n].outcome \in outcomes

Init ==
    /\ rows = [n \in Numbers |-> Absent]
    /\ made = {}

(* A pass opens the next attempt, with the token of a later claim than any. *)
Open(n) ==
    LET row == rows'[n]
    IN  /\ ~Used(n)
        /\ \A m \in Numbers : m < n => Used(m)
        /\ \A m \in Numbers : Used(m) => rows[m].token < row.token /\ ~Says(m, {"open"})
        /\ row.outcome = "open"
        /\ rows' = [rows EXCEPT ![n] = row]
        /\ UNCHANGED made

(* Its commit makes the reservation, be it after a readback closed it.      *)
Make(n) ==
    /\ n \notin made
    /\ Says(n, {"open"} \cup Readings)
    /\ made' = made \cup {n}
    /\ UNCHANGED rows

Close(n, outcome) ==
    /\ rows' = [rows EXCEPT ![n].outcome = outcome]
    /\ UNCHANGED made

(* Its result: proven clean, booked, or not known.                          *)
Report(n, result) ==
    /\ Says(n, {"open"})
    /\ \/ result = "failed_clean" /\ n \notin made
       \/ result = "booked" /\ n \in made
       \/ result \in {"unparsed", "exception"}
    /\ Close(n, result)

(* What a readback saw, which may be late and incomplete.                   *)
Overrule(n, reading) == Used(n) /\ reading \in Readings /\ Close(n, reading)

Next ==
    \E n \in Numbers :
       \/ Open(n) \/ Make(n)
       \/ \E result \in {"failed_clean", "booked", "unparsed", "exception"} : Report(n, result)
       \/ \E reading \in Readings : Overrule(n, reading)

Spec == Init /\ [][Next]_vars
=============================================================================
