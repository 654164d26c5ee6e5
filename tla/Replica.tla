------------------------------ MODULE Replica -------------------------------
(***************************************************************************)
(* What reading a source promises, stated without streams: the host holds  *)
(* exactly the changes up to its cursor, and a read takes it forward to a  *)
(* state that the source has been in, all at once or not at all.           *)
(***************************************************************************)
EXTENDS Integers

VARIABLES
  changes,   \* number of changes the source has seen
  cursor,    \* the last change the host has, or -1 before the first read
  store      \* the changes the host holds

vars == <<changes, cursor, store>>

Init == changes = 0 /\ cursor = -1 /\ store = {}

Change == changes' = changes + 1 /\ UNCHANGED <<cursor, store>>

\* A completed read.  It may have ended before the latest changes.
CatchUp(n) ==
  /\ n \in 0 .. changes /\ cursor <= n
  /\ cursor' = n
  /\ store' = 1 .. n
  /\ UNCHANGED changes

Next == Change \/ \E n \in 0 .. changes : CatchUp(n)

Spec == Init /\ [][Next]_vars

=============================================================================
