--------------------------- MODULE EvidenceLedger ---------------------------
(***************************************************************************)
(* What a chain of native reports about write attempts promises, stated    *)
(* without reports: for every effect of every attempt a set of possible    *)
(* final results, which later evidence may only narrow and never empties,  *)
(* and the set of attempts that may still execute, which only shrinks once *)
(* an attempt is dispatched.                                               *)
(***************************************************************************)
CONSTANTS
  Attempts,  \* identities of write attempts
  Scopes     \* the native fields one prepared operation touches

VARIABLES
  fresh,     \* attempts that were never dispatched
  open,      \* dispatched attempts that may still execute
  possible   \* possible[a][s]: the final results not yet excluded

vars == <<fresh, open, possible>>

\* How much of an effect the native system has carried out in the end.
Results == {"none", "part", "full"}

Init ==
  /\ fresh = Attempts
  /\ open = {}
  /\ possible = [a \in Attempts |-> [s \in Scopes |-> Results]]

\* An attempt is put at risk; nothing is known about it yet.
Open(a) ==
  /\ a \in fresh
  /\ fresh' = fresh \ {a}
  /\ open' = open \cup {a}
  /\ UNCHANGED possible

\* Evidence about one attempt: results are excluded, never readmitted, and
\* the attempt may be closed for good.
Learn(a) ==
  /\ a \notin fresh
  /\ UNCHANGED fresh
  /\ open' \in {open, open \ {a}}
  /\ \E narrowed \in [Scopes -> (SUBSET Results) \ {{}}] :
       /\ \A s \in Scopes : narrowed[s] \subseteq possible[a][s]
       /\ possible' = [possible EXCEPT ![a] = narrowed]

Next == \E a \in Attempts : Open(a) \/ Learn(a)

Spec == Init /\ [][Next]_vars

=============================================================================
