----------------------------- MODULE ReadStream -----------------------------
(***************************************************************************)
(* Reading a source: ReadCatalog and ReadState stream batches of changes   *)
(* that end with one terminal event; the host checks every event with a    *)
(* stream validator and, when the stream completed, keeps the changes and  *)
(* the cursor from which its next, incremental read continues.             *)
(*                                                                         *)
(* CatalogStreamValidator and StateStreamValidator are the same machine    *)
(* over different batches, so one model stands for both.  Abstracted: the  *)
(* content of a batch is the changes it carries and whether its items pass *)
(* the item checks; cursors are positions in the source's change log;      *)
(* operation ids, keys, evidence revisions and errors are valid.           *)
(*                                                                         *)
(* Host, provider and transport are not part of the repository.  The       *)
(* transport is an ordered stream that may break (gRPC), or, to see what   *)
(* the validator alone guarantees, one that also loses, repeats and        *)
(* reorders events.                                                        *)
(***************************************************************************)
EXTENDS Integers, Sequences, SequencesExt

CONSTANTS
  MaxChanges,   \* bound: changes the source ever sees
  MaxBatch,     \* preferred_batch_size, as the provider honours it
  MaxInFlight   \* bound: events between provider and host

ASSUME BoundsAssumption ==
  MaxChanges \in Nat /\ MaxBatch \in Nat \ {0} /\ MaxInFlight \in Nat \ {0}

VARIABLES
  ordered,    \* whether the transport keeps the order and every event
  changes,    \* number of changes the source has seen
  request,    \* the read in progress, or Idle
  sent,       \* batches the provider has emitted for it
  position,   \* last change the provider has emitted
  ended,      \* the provider has emitted its terminal event
  channel,    \* events on their way
  validator,  \* the host's stream validator
  staged,     \* batches accepted in this read
  outcome,    \* the terminal event accepted in this read, or None
  store,      \* changes the host holds
  cursor,     \* the cursor the host holds
  refused     \* the validator has refused an event of this read

vars == <<ordered, changes, request, sent, position, ended, channel, validator, staged,
          outcome, store, cursor, refused>>

NoCursor == -1          \* the empty byte string
Idle == [mode |-> "Idle", prior_cursor |-> NoCursor]
Modes == {"Full", "Incremental"}

Heartbeat == [kind |-> "heartbeat"]
Batch(n, first, last, valid) ==
  [kind |-> "batch", sequence |-> n, first |-> first, last |-> last, valid |-> valid]
Completed(next) == [kind |-> "completed", next_cursor |-> next]
Failed == [kind |-> "failed"]
Cancelled == [kind |-> "cancelled"]
NoEvent == [kind |-> "missing"]
None == NoEvent

\* The changes a list of batches carries.
Carried(batches) == UNION {b.first .. b.last : b \in ToSet(batches)}

-----------------------------------------------------------------------------
(* Mutated forms of the validator. *)

ReadRequestAnyCursor(mode, prior) == mode \in Modes

BatchUnordered(b, expected) == b.valid

FreshFromOne == [next_sequence |-> 1, terminal |-> FALSE]

AcceptsAfterTerminal(v, e) ==
  \/ e.kind = "heartbeat"
  \/ e.kind = "batch" /\ e.sequence = v.next_sequence /\ e.valid
  \/ e.kind = "completed" /\ e.next_cursor # NoCursor
  \/ e.kind \in {"failed", "cancelled"}

-----------------------------------------------------------------------------
(* Validation *)

\* read_request
ReadRequest(mode, prior) ==
  \/ mode = "Full" /\ prior = NoCursor
  \/ mode = "Incremental" /\ prior # NoCursor

\* validate_catalog_batch, validate_state_batch
ValidBatch(b, expected) == b.sequence = expected /\ b.valid

\* validate_completed
ValidCompleted(e) == e.next_cursor # NoCursor

\* A default validator.
Fresh == [next_sequence |-> 0, terminal |-> FALSE]

\* accept: whether an event is accepted, and the validator after it.  A
\* refused event leaves the validator as it was.
Accepts(v, e) ==
  /\ ~v.terminal
  /\ \/ e.kind = "heartbeat"
     \/ e.kind = "batch" /\ ValidBatch(e, v.next_sequence)
     \/ e.kind = "completed" /\ ValidCompleted(e)
     \/ e.kind \in {"failed", "cancelled"}

After(v, e) ==
  CASE e.kind = "heartbeat" -> v
    [] e.kind = "batch"     -> [v EXCEPT !.next_sequence = @ + 1]
    [] OTHER                -> [v EXCEPT !.terminal = TRUE]

\* finish
Finished(v) == v.terminal

-----------------------------------------------------------------------------

Init ==
  /\ ordered \in BOOLEAN
  /\ changes = 0
  /\ request = Idle
  /\ sent = <<>> /\ position = 0 /\ ended = TRUE
  /\ channel = <<>>
  /\ validator = Fresh /\ staged = <<>> /\ outcome = None /\ refused = FALSE
  /\ store = {}
  /\ cursor = NoCursor

\* The source changes, also while it is being read.
Change ==
  /\ changes < MaxChanges
  /\ changes' = changes + 1
  /\ UNCHANGED <<ordered, request, sent, position, ended, channel, validator, staged,
                 outcome, store, cursor, refused>>

\* The host asks, with whatever it holds; the provider checks the request.  An
\* incremental read without a cursor has no defined start: it begins now.
StartRead(mode, prior) ==
  /\ request = Idle
  /\ prior \in {NoCursor, cursor}
  /\ ReadRequest(mode, prior)
  /\ request' = [mode |-> mode, prior_cursor |-> prior]
  /\ position' = IF mode = "Full" THEN 0 ELSE IF prior = NoCursor THEN changes ELSE prior
  /\ sent' = <<>> /\ ended' = FALSE /\ channel' = <<>>
  /\ validator' = Fresh /\ staged' = <<>> /\ outcome' = None /\ refused' = FALSE
  /\ UNCHANGED <<ordered, changes, store, cursor>>

Emit(e) ==
  /\ request # Idle /\ ~ended
  /\ Len(channel) < MaxInFlight
  /\ channel' = Append(channel, e)
  /\ UNCHANGED <<ordered, changes, request, validator, staged, outcome, store, cursor, refused>>

EmitHeartbeat == Emit(Heartbeat) /\ UNCHANGED <<sent, position, ended>>

\* A batch of the next changes; a provider may get an item wrong unless it is
\* the well-behaved one.
EmitBatch(last, valid) ==
  /\ last \in position + 1 .. changes /\ last - position <= MaxBatch
  /\ valid \/ ~ordered
  /\ LET b == Batch(Len(sent), position + 1, last, valid)
     IN  Emit(b) /\ sent' = Append(sent, b)
  /\ position' = last
  /\ UNCHANGED ended

\* Completed only when nothing is left to send; failure at any time.
EmitTerminal(e) ==
  /\ \/ e = Completed(position) /\ position = changes
     \/ e = Failed
     \/ ~ordered /\ e \in {Completed(NoCursor), NoEvent}
  /\ Emit(e)
  /\ ended' = (e # NoEvent)
  /\ UNCHANGED <<sent, position>>

\* The host cancels the operation; the provider confirms it.
EmitCancelled == Emit(Cancelled) /\ ended' = TRUE /\ UNCHANGED <<sent, position>>

\* The host takes an event from the stream.  When the validator refuses one it
\* may give up (EndRead), or skip it and go on; but it keeps no such read.
Deliver(i, again) ==
  /\ request # Idle
  /\ i \in DOMAIN channel
  /\ ordered => i = 1 /\ ~again
  /\ channel' = IF again THEN channel ELSE RemoveAt(channel, i)
  /\ LET e == channel[i]
     IN  IF Accepts(validator, e)
         THEN /\ validator' = After(validator, e)
              /\ staged' = IF e.kind = "batch" THEN Append(staged, e) ELSE staged
              /\ outcome' = IF e.kind \in {"batch", "heartbeat"} THEN outcome ELSE e
              /\ UNCHANGED refused
         ELSE refused' = TRUE /\ UNCHANGED <<validator, staged, outcome>>
  /\ UNCHANGED <<ordered, changes, request, sent, position, ended, store, cursor>>

Drop(i) ==
  /\ ~ordered
  /\ i \in DOMAIN channel
  /\ channel' = RemoveAt(channel, i)
  /\ UNCHANGED <<ordered, changes, request, sent, position, ended, validator, staged,
                 outcome, store, cursor, refused>>

\* The stream is over: closed after the terminal event, or broken at any
\* point.  finish decides; only a completed read is kept.
EndRead ==
  /\ request # Idle
  /\ request' = Idle
  /\ channel' = <<>>
  /\ IF ~refused /\ Finished(validator) /\ outcome.kind = "completed"
     THEN /\ store' = store \cup Carried(staged)
          /\ cursor' = outcome.next_cursor
     ELSE UNCHANGED <<store, cursor>>
  /\ sent' = <<>> /\ position' = 0 /\ ended' = TRUE
  /\ validator' = Fresh /\ staged' = <<>> /\ outcome' = None /\ refused' = FALSE
  /\ UNCHANGED <<ordered, changes>>

Next ==
  \/ Change
  \/ \E mode \in Modes, prior \in {NoCursor, cursor} : StartRead(mode, prior)
  \/ EmitHeartbeat
  \/ \E last \in 1 .. changes, valid \in BOOLEAN : EmitBatch(last, valid)
  \/ \E e \in {Completed(position), Completed(NoCursor), Failed, NoEvent} : EmitTerminal(e)
  \/ EmitCancelled
  \/ \E i \in 1 .. MaxInFlight, again \in BOOLEAN : Deliver(i, again)
  \/ \E i \in 1 .. MaxInFlight : Drop(i)
  \/ EndRead

Spec == Init /\ [][Next]_vars

-----------------------------------------------------------------------------

\* Whatever the transport does, what the host has staged is what the provider
\* sent first, without a hole, a repetition or a swap: the validators accept
\* batches in sequence only.
NoHole ==
  /\ IsPrefix(staged, sent)
  /\ validator.next_sequence = Len(staged)

\* The accepted terminal event of a read is the only one and nothing is staged
\* behind it (EventAfterTerminal).
OutcomeIsFinal ==
  [][outcome # None /\ request' = request => outcome' = outcome /\ staged' = staged]_vars

\* Over an ordered stream that may break anywhere, with failed, cancelled and
\* repeated reads of a source that keeps changing, the host holds every change
\* up to the cursor it will continue from.
CursorCovered == ordered /\ cursor # NoCursor => 1 .. cursor \subseteq store

\* ... and more than that: it implements a replica that never goes back and is
\* never caught between two states of the source.  Nothing is claimed of what
\* the other transport makes of it.
Replica == INSTANCE Replica WITH
  cursor <- IF ordered THEN cursor ELSE NoCursor,
  store  <- IF ordered THEN store ELSE {}

ImplementsReplica == Replica!Spec

\* The validator is not stricter than a provider that keeps the contract.
NothingRefused == ordered => ~refused

=============================================================================
