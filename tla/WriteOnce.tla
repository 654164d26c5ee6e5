----------------------------- MODULE WriteOnce ------------------------------
(***************************************************************************)
(* What targeted writes promise, stated without requests and responses: a  *)
(* write is carried out once or not at all, and never behind the back of a *)
(* host that takes it to be done or not done; what the host takes to be so *)
(* is true; and only a write that was not done is tried again.             *)
(***************************************************************************)
EXTENDS Integers

CONSTANT Keys   \* the writes

VARIABLES
  times,   \* key -> times the write was carried out
  known    \* key -> what the host knows of it: "doubt", "done" or "undone"

vars == <<times, known>>

Init == times = [k \in Keys |-> 0] /\ known = [k \in Keys |-> "doubt"]

\* While it is in doubt, a write is carried out unless it has been, or the
\* host learns what became of it, or both.
Proceed(k) ==
  /\ known[k] = "doubt"
  /\ \E n \in {times[k], 1} :
       /\ times' = [times EXCEPT ![k] = n]
       /\ \E w \in {"doubt", IF n = 0 THEN "undone" ELSE "done"} :
            known' = [known EXCEPT ![k] = w]

Retry(k) ==
  /\ known[k] = "undone"
  /\ known' = [known EXCEPT ![k] = "doubt"]
  /\ UNCHANGED times

Next == \E k \in Keys : Proceed(k) \/ Retry(k)

Spec == Init /\ [][Next]_vars

=============================================================================
