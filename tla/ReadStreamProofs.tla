-------------------------- MODULE ReadStreamProofs --------------------------
(***************************************************************************)
(* Reading keeps what it promises for any number of changes, batches and   *)
(* events in flight.                                                       *)
(*                                                                         *)
(* Over any transport the invariant ties batches in flight and batches     *)
(* staged to what was sent by their sequence (Numbered, InFlight, Staged). *)
(* Over an ordered one it says in addition that nothing is missing in      *)
(* flight (Queue), that a terminal event is the last one (Ending), and     *)
(* that what was sent covers the changes from where the read began         *)
(* (Covers).                                                               *)
(***************************************************************************)
EXTENDS ReadStream, SequenceTheorems, TLAPS

Batches == [kind : {"batch"}, sequence : Nat, first : Nat, last : Nat, valid : BOOLEAN]
Cursors == Nat \cup {NoCursor}
Events == Batches \cup [kind : {"completed"}, next_cursor : Cursors]
          \cup {Heartbeat, Failed, Cancelled, NoEvent}
Terminals == {"completed", "failed", "cancelled"}

Typed ==
  /\ ordered \in BOOLEAN /\ refused \in BOOLEAN /\ ended \in BOOLEAN
  /\ changes \in Nat /\ position \in 0 .. changes
  /\ cursor \in Cursors /\ cursor <= changes
  /\ request = Idle \/ request \in [mode : Modes, prior_cursor : Cursors]
  /\ sent \in Seq(Batches) /\ staged \in Seq(Batches) /\ channel \in Seq(Events)
  /\ validator \in [next_sequence : Nat, terminal : BOOLEAN]
  /\ outcome \in Events

-----------------------------------------------------------------------------
(* Over any transport *)

Numbered == \A i \in 1 .. Len(sent) : sent[i].sequence = i - 1

\* A batch in flight is the one that was sent under its number.
InFlight ==
  \A i \in 1 .. Len(channel) : channel[i].kind = "batch" =>
    /\ channel[i].sequence < Len(sent)
    /\ channel[i] = sent[channel[i].sequence + 1]

Staged ==
  /\ validator.next_sequence = Len(staged)
  /\ Len(staged) <= Len(sent)
  /\ \A i \in 1 .. Len(staged) : staged[i] = sent[i]

\* A cursor that is on its way or accepted is one the source has reached.
Reached ==
  /\ \A i \in 1 .. Len(channel) :
       channel[i].kind = "completed" => channel[i].next_cursor <= changes
  /\ outcome.kind = "completed" => outcome.next_cursor \in 0 .. changes

Final == outcome # None => validator.terminal

\* A request that passed read_request; between reads nothing is left over.
Requested ==
  /\ request # Idle => ReadRequest(request.mode, request.prior_cursor)
  /\ request # Idle => request.prior_cursor \in {NoCursor, cursor}
  /\ request = Idle => channel = <<>> /\ outcome = None

-----------------------------------------------------------------------------
(* Over an ordered one *)

\* The change after which the read began.
Begun == IF request.mode = "Full" THEN 0 ELSE request.prior_cursor

\* The batches between those staged and those sent are all in flight, in order.
Queue ==
  /\ \A i \in 1 .. Len(sent) : sent[i].valid
  /\ \A n \in Len(staged) .. Len(sent) - 1 :
       \E i \in 1 .. Len(channel) : channel[i].kind = "batch" /\ channel[i].sequence = n
  /\ \A i \in 1 .. Len(channel) :
       channel[i].kind = "batch" =>
         /\ channel[i].sequence >= Len(staged)
         /\ \A j \in 1 .. i - 1 :
              channel[j].kind = "batch" => channel[j].sequence < channel[i].sequence

\* A terminal event is the last of the stream, and Completed speaks of all that
\* was sent.
Ending ==
  /\ \A i \in 1 .. Len(channel) :
       /\ channel[i].kind # "missing"
       /\ channel[i].kind \in Terminals => ended /\ i = Len(channel)
       /\ channel[i].kind = "completed" =>
            channel[i].next_cursor = position /\ cursor <= position
  /\ validator.terminal => ended /\ channel = <<>>
  /\ outcome.kind = "completed" => outcome.next_cursor = position /\ cursor <= position

Covers == request # Idle => Begun <= position /\ Carried(sent) = Begun + 1 .. position

Always == Typed /\ Numbered /\ InFlight /\ Staged /\ Reached /\ Final /\ Requested

InOrder == ordered => Queue /\ Ending /\ Covers /\ store = 1 .. cursor /\ ~refused

Inv == Always /\ InOrder

-----------------------------------------------------------------------------
(* Sequences *)

\* RemoveAt drops one element and keeps the others in order.
LEMMA Removed ==
  ASSUME NEW S, NEW s \in Seq(S), NEW i \in 1 .. Len(s)
  PROVE  /\ RemoveAt(s, i) \in Seq(S)
         /\ Len(RemoveAt(s, i)) = Len(s) - 1
         /\ \A j \in 1 .. Len(s) - 1 :
              RemoveAt(s, i)[j] = IF j < i THEN s[j] ELSE s[j + 1]
<1> DEFINE front == SubSeq(s, 1, i - 1)
           back == SubSeq(s, i + 1, Len(s))
<1>0. Len(s) \in Nat
  BY LenProperties
<1>1. /\ front \in Seq(S) /\ Len(front) = i - 1
      /\ \A j \in 1 .. i - 1 : front[j] = s[j]
  BY <1>0, SubSeqProperties
<1>2. /\ back \in Seq(S) /\ Len(back) = Len(s) - i
      /\ \A j \in 1 .. Len(s) - i : back[j] = s[i + j]
  BY <1>0, SubSeqProperties
<1>3. RemoveAt(s, i) = front \o back
  BY DEF RemoveAt
<1> HIDE DEF front, back
<1>4. /\ front \o back \in Seq(S)
      /\ Len(front \o back) = Len(s) - 1
      /\ \A j \in 1 .. Len(s) - 1 :
           (front \o back)[j] = IF j < i THEN s[j] ELSE s[j + 1]
  <2>1. /\ front \o back \in Seq(S)
        /\ Len(front \o back) = (i - 1) + (Len(s) - i)
        /\ \A j \in 1 .. (i - 1) + (Len(s) - i) :
             (front \o back)[j] = IF j <= i - 1 THEN front[j] ELSE back[j - (i - 1)]
    <3>1. /\ front \o back \in Seq(S)
          /\ Len(front \o back) = Len(front) + Len(back)
          /\ \A j \in 1 .. Len(front) + Len(back) :
               (front \o back)[j] = IF j <= Len(front) THEN front[j] ELSE back[j - Len(front)]
      BY <1>1, <1>2, ConcatProperties
    <3>2. Len(front) = i - 1 /\ Len(back) = Len(s) - i
      BY <1>1, <1>2
    <3> QED
      BY ONLY <3>1, <3>2
  <2>2. (i - 1) + (Len(s) - i) = Len(s) - 1
    BY <1>0
  <2>3. ASSUME NEW j \in 1 .. Len(s) - 1
        PROVE  (front \o back)[j] = IF j < i THEN s[j] ELSE s[j + 1]
    <3>1. CASE j < i
      BY <1>0, <1>1, <2>1, <2>2, <3>1
    <3>2. CASE ~(j < i)
      <4>1. j - (i - 1) \in 1 .. Len(s) - i /\ i + (j - (i - 1)) = j + 1
        BY <1>0, <3>2
      <4>2. (front \o back)[j] = back[j - (i - 1)]
        BY <1>0, <2>1, <2>2, <3>2
      <4> QED
        BY <1>2, <3>2, <4>1, <4>2
    <3> QED
      BY <3>1, <3>2
  <2> QED
    BY <2>1, <2>2, <2>3
<1> QED
  BY <1>3, <1>4

LEMMA NothingCarried == Carried(<<>>) = {}
BY DEF Carried, ToSet

LEMMA CarriedAppend ==
  ASSUME NEW s \in Seq(Batches), NEW b \in Batches
  PROVE  Carried(Append(s, b)) = Carried(s) \cup (b.first .. b.last)
<1>1. ToSet(Append(s, b)) = ToSet(s) \cup {b}
  <2>1. /\ Len(s) \in Nat /\ Append(s, b) \in Seq(Batches)
        /\ Len(Append(s, b)) = Len(s) + 1
        /\ Append(s, b)[Len(s) + 1] = b
        /\ \A j \in 1 .. Len(s) : Append(s, b)[j] = s[j]
    BY AppendProperties, LenProperties
  <2> QED
    BY <2>1 DEF ToSet
<1> QED
  BY <1>1 DEF Carried

\* An event is one of its kinds.
LEMMA EventKinds ==
  /\ \A e \in Events :
       /\ e.kind \in {"batch", "heartbeat", "missing"} \cup Terminals
       /\ e.kind = "batch" => e \in Batches
       /\ e.kind = "missing" => e = None
       /\ e.kind = "completed" => e.next_cursor \in Cursors
  /\ None.kind = "missing" /\ None \in Events
<1>1. Heartbeat.kind = "heartbeat" /\ Failed.kind = "failed" /\ Cancelled.kind = "cancelled"
      /\ NoEvent.kind = "missing"
  BY DEF Heartbeat, Failed, Cancelled, NoEvent
<1>2. /\ \A e \in Batches : e.kind = "batch"
      /\ \A e \in [kind : {"completed"}, next_cursor : Cursors] :
           e.kind = "completed" /\ e.next_cursor \in Cursors
  BY DEF Batches
<1> QED
  BY <1>1, <1>2 DEF Events, Terminals, None

-----------------------------------------------------------------------------
(* The invariant *)

\* Between reads everything but the cursor, the store and the source is as new.
LEMMA InvQuiet ==
  ASSUME request' = Idle, sent' = <<>>, position' = 0, ended' = TRUE, channel' = <<>>,
         validator' = Fresh, staged' = <<>>, outcome' = None, refused' = FALSE,
         ordered' \in BOOLEAN, changes' \in Nat, cursor' \in Cursors, cursor' <= changes',
         ordered' => store' = 1 .. cursor'
  PROVE  Inv'
<1>1. /\ sent' \in Seq(Batches) /\ staged' \in Seq(Batches) /\ channel' \in Seq(Events)
      /\ Len(sent') = 0 /\ Len(staged') = 0 /\ Len(channel') = 0
  BY EmptySeq
<1>2. Fresh.terminal = FALSE /\ Fresh.next_sequence = 0
      /\ Fresh \in [next_sequence : Nat, terminal : BOOLEAN]
  BY DEF Fresh
<1>3. None.kind = "missing" /\ None \in Events
  BY EventKinds
<1>4. Typed'
  <2>1. position' \in 0 .. changes'
    OBVIOUS
  <2>2. /\ outcome' \in Events /\ refused' \in BOOLEAN /\ ended' \in BOOLEAN
        /\ validator' \in [next_sequence : Nat, terminal : BOOLEAN]
    BY <1>2, <1>3
  <2> QED
    BY <1>1, <2>1, <2>2, Zenon DEF Typed
<1>5. Numbered' /\ InFlight' /\ Staged'
  BY <1>1, <1>2 DEF Numbered, InFlight, Staged
<1>6. Reached' /\ Final' /\ Requested'
  BY <1>1, <1>2, <1>3 DEF Reached, Final, Requested
<1>7. Queue' /\ Ending' /\ Covers'
  BY <1>1, <1>2, <1>3 DEF Queue, Ending, Covers
<1> QED
  BY <1>4, <1>5, <1>6, <1>7 DEF Inv, Always, InOrder

LEMMA InvInit == Init => Inv
<1> SUFFICES ASSUME Init PROVE Inv
  OBVIOUS
<1>1. /\ sent \in Seq(Batches) /\ staged \in Seq(Batches) /\ channel \in Seq(Events)
      /\ Len(sent) = 0 /\ Len(staged) = 0 /\ Len(channel) = 0
  BY EmptySeq DEF Init
<1>2. Fresh.terminal = FALSE /\ Fresh.next_sequence = 0
      /\ Fresh \in [next_sequence : Nat, terminal : BOOLEAN]
  BY DEF Fresh
<1>3. None.kind = "missing" /\ None \in Events
  BY EventKinds
<1>4. Typed
  <2>1. position \in 0 .. changes /\ cursor \in Cursors /\ cursor <= changes /\ changes \in Nat
    BY DEF Init, Cursors, NoCursor
  <2>2. /\ outcome \in Events /\ refused \in BOOLEAN /\ ended \in BOOLEAN
        /\ ordered \in BOOLEAN
        /\ validator \in [next_sequence : Nat, terminal : BOOLEAN]
        /\ request = Idle
    BY <1>2, <1>3 DEF Init
  <2> QED
    BY <1>1, <2>1, <2>2, Zenon DEF Typed
<1>5. Numbered /\ InFlight /\ Staged
  BY <1>1, <1>2 DEF Init, Numbered, InFlight, Staged
<1>6. Reached /\ Final /\ Requested
  BY <1>1, <1>2, <1>3 DEF Init, Reached, Final, Requested
<1>7. Queue /\ Ending /\ Covers
  BY <1>1, <1>2, <1>3 DEF Init, Queue, Ending, Covers
<1>8. store = 1 .. cursor
  BY DEF Init, NoCursor
<1> QED
  BY <1>4, <1>5, <1>6, <1>7, <1>8 DEF Init, Inv, Always, InOrder

\* A change is behind everything the stream speaks of.
LEMMA InvChange ==
  ASSUME Inv, Change
  PROVE  Inv'
<1> USE DEF Inv, Always, InOrder, Change
<1>0. cursor \in Int /\ changes \in Nat /\ cursor <= changes
  BY DEF Typed, Cursors, NoCursor
<1>1. Typed'
  BY <1>0 DEF Typed
<1>2. Numbered' /\ InFlight' /\ Staged' /\ Final' /\ Requested'
  BY DEF Numbered, InFlight, Staged, Final, Requested
<1>3. Reached'
  <2>1. \A i \in 1 .. Len(channel) :
          channel[i].kind = "completed" => channel[i].next_cursor \in Cursors
    BY EventKinds, ElementOfSeq DEF Typed
  <2>2. \A n : n \in Cursors /\ n <= changes => n <= changes'
    BY <1>0 DEF Cursors, NoCursor
  <2>3. \A n : n \in 0 .. changes => n \in 0 .. changes'
    BY <1>0
  <2>4. UNCHANGED <<channel, outcome>>
    OBVIOUS
  <2> QED
    BY <2>1, <2>2, <2>3, <2>4 DEF Reached
<1>4. InOrder'
  BY DEF Queue, Ending, Covers, Begun
<1> QED
  BY <1>1, <1>2, <1>3, <1>4

LEMMA InvStartRead ==
  ASSUME Inv, NEW mode \in Modes, NEW prior \in {NoCursor, cursor}, StartRead(mode, prior)
  PROVE  Inv'
<1>1. /\ sent' \in Seq(Batches) /\ staged' \in Seq(Batches) /\ channel' \in Seq(Events)
      /\ Len(sent') = 0 /\ Len(staged') = 0 /\ Len(channel') = 0
  BY EmptySeq DEF StartRead
<1>2. Fresh.terminal = FALSE /\ Fresh.next_sequence = 0
      /\ Fresh \in [next_sequence : Nat, terminal : BOOLEAN]
  BY DEF Fresh
<1>3. None.kind = "missing" /\ None \in Events
  BY EventKinds
<1>4. /\ request' \in [mode : Modes, prior_cursor : Cursors]
      /\ request'.mode = mode /\ request'.prior_cursor = prior
  BY DEF StartRead, Inv, Always, Typed, Cursors
<1>5. position' = Begun' /\ position' \in 0 .. changes
  <2>1. mode = "Full" \/ prior # NoCursor
    BY DEF StartRead, ReadRequest
  <2> QED
    BY <1>4, <2>1 DEF StartRead, Begun, Inv, Always, Typed, Cursors, NoCursor
<1>6. Typed'
  BY <1>1, <1>2, <1>3, <1>4, <1>5 DEF StartRead, Inv, Always, Typed
<1>7. Numbered' /\ InFlight' /\ Staged'
  BY <1>1, <1>2 DEF StartRead, Numbered, InFlight, Staged
<1>8. Reached' /\ Final'
  BY <1>1, <1>2, <1>3 DEF StartRead, Reached, Final
<1>9. Requested'
  BY <1>4 DEF StartRead, Requested
<1>10. Queue' /\ Ending'
  BY <1>1, <1>2, <1>3 DEF StartRead, Queue, Ending
<1>11. Covers'
  <2>1. Carried(sent') = {}
    BY NothingCarried DEF StartRead
  <2>2. Begun' + 1 .. position' = {} /\ Begun' <= position'
    <3>1. \A p \in Int : p + 1 .. p = {} /\ p <= p
      OBVIOUS
    <3>2. position' \in Int
      BY <1>5 DEF Inv, Always, Typed
    <3> QED
      BY <1>5, <3>1, <3>2
  <2> QED
    BY <2>1, <2>2 DEF Covers
<1> QED
  BY <1>6, <1>7, <1>8, <1>9, <1>10, <1>11 DEF StartRead, Inv, Always, InOrder

\* What is in flight after an event was sent.
LEMMA Sending ==
  ASSUME Typed, NEW e \in Events, Emit(e)
  PROVE  /\ Len(channel) \in Nat
         /\ channel' \in Seq(Events) /\ Len(channel') = Len(channel) + 1
         /\ channel'[Len(channel) + 1] = e
         /\ \A i \in 1 .. Len(channel) : channel'[i] = channel[i]
         /\ \A i \in 1 .. Len(channel) : channel[i] \in Events
BY AppendProperties, LenProperties, ElementOfSeq DEF Typed, Emit

\* No terminal event was sent yet, so none is in flight or accepted.
LEMMA Unended ==
  ASSUME InOrder, ordered, ~ended
  PROVE  /\ \A i \in 1 .. Len(channel) : channel[i].kind \notin Terminals
         /\ ~validator.terminal
BY DEF InOrder, Ending

\* Any event but a batch.
LEMMA InvEmit ==
  ASSUME Inv, NEW e \in Events, Emit(e), e.kind # "batch",
         UNCHANGED <<sent, position>>, ended' \in BOOLEAN,
         e.kind = "completed" => e.next_cursor \in {position, NoCursor},
         ordered => /\ e.kind # "missing"
                    /\ e.kind \in Terminals => ended'
                    /\ e.kind = "completed" => e.next_cursor = position /\ position = changes
  PROVE  Inv'
<1>1. /\ Len(channel) \in Nat
      /\ channel' \in Seq(Events) /\ Len(channel') = Len(channel) + 1
      /\ channel'[Len(channel) + 1] = e
      /\ \A i \in 1 .. Len(channel) : channel'[i] = channel[i]
  BY Sending DEF Inv, Always
<1>2. /\ \A i \in 1 .. Len(channel') : i \in 1 .. Len(channel) \/ i = Len(channel) + 1
      /\ \A i \in 1 .. Len(channel) : i \in 1 .. Len(channel') /\ i # Len(channel')
  BY <1>1
<1>3. UNCHANGED <<ordered, changes, request, validator, staged, outcome, store, cursor, refused>>
      /\ request # Idle /\ ~ended
  BY DEF Emit
<1>4. Typed'
  BY <1>1, <1>3 DEF Inv, Always, Typed
<1>5. Numbered' /\ Staged' /\ Final' /\ Requested'
  BY <1>3 DEF Inv, Always, Numbered, Staged, Final, Requested
<1>6. InFlight'
  <2>1. InFlight
    BY DEF Inv, Always
  <2> QED
    BY <1>1, <1>2, <2>1 DEF InFlight
<1>7. Reached'
  <2>1. e.kind = "completed" => e.next_cursor <= changes
    BY DEF Inv, Always, Typed, NoCursor
  <2>2. Reached
    BY DEF Inv, Always
  <2> QED
    BY <1>1, <1>2, <1>3, <2>1, <2>2 DEF Reached
<1>8. ASSUME ordered PROVE Queue' /\ Ending' /\ Covers'
  <2>1. Queue /\ Ending /\ Covers
    BY <1>8 DEF Inv, InOrder
  <2>2. Queue'
    <3>1. \A i \in 1 .. Len(sent') : sent'[i].valid
      BY <2>1 DEF Queue
    <3>2. ASSUME NEW n \in Len(staged') .. Len(sent') - 1
          PROVE  \E i \in 1 .. Len(channel') :
                   channel'[i].kind = "batch" /\ channel'[i].sequence = n
      <4>1. PICK i \in 1 .. Len(channel) : channel[i].kind = "batch" /\ channel[i].sequence = n
        BY <1>3, <2>1, <3>2 DEF Queue
      <4> QED
        BY <1>1, <1>2, <4>1
    <3>3. ASSUME NEW i \in 1 .. Len(channel'), channel'[i].kind = "batch"
          PROVE  /\ channel'[i].sequence >= Len(staged')
                 /\ \A j \in 1 .. i - 1 :
                      channel'[j].kind = "batch" => channel'[j].sequence < channel'[i].sequence
      <4>1. i \in 1 .. Len(channel)
        BY <1>1, <1>2, <3>3
      <4>2. \A j \in 1 .. i - 1 : j \in 1 .. Len(channel)
        BY <1>1, <4>1
      <4> QED
        BY <1>1, <1>3, <2>1, <3>3, <4>1, <4>2 DEF Queue
    <3> QED
      BY <3>1, <3>2, <3>3 DEF Queue
  <2>3. Ending'
    <3>1. /\ \A i \in 1 .. Len(channel) : channel[i].kind \notin Terminals
          /\ ~validator.terminal
      BY <1>3, <1>8, Unended DEF Inv
    <3>2. e.kind = "completed" => cursor' <= position'
      BY <1>3, <1>8 DEF Inv, Always, Typed
    <3>3. \A i \in 1 .. Len(channel) :
            channel'[i].kind # "missing" /\ channel'[i].kind \notin Terminals
      BY <1>1, <2>1, <3>1 DEF Ending
    <3>4. "completed" \in Terminals
      BY DEF Terminals
    <3>5. \A i \in 1 .. Len(channel') :
            /\ channel'[i].kind # "missing"
            /\ channel'[i].kind \in Terminals => ended' /\ i = Len(channel')
            /\ channel'[i].kind = "completed" =>
                 channel'[i].next_cursor = position' /\ cursor' <= position'
      BY <1>1, <1>2, <1>8, <3>2, <3>3, <3>4
    <3>6. outcome'.kind = "completed" => outcome'.next_cursor = position' /\ cursor' <= position'
      BY <1>3, <2>1 DEF Ending
    <3> QED
      BY <1>3, <3>1, <3>5, <3>6 DEF Ending
  <2>4. Covers'
    BY <1>3, <2>1 DEF Covers, Begun
  <2> QED
    BY <2>2, <2>3, <2>4
<1> QED
  BY <1>3, <1>4, <1>5, <1>6, <1>7, <1>8 DEF Inv, Always, InOrder

LEMMA InvEmitBatch ==
  ASSUME Inv, NEW last \in 1 .. changes, NEW valid \in BOOLEAN, EmitBatch(last, valid)
  PROVE  Inv'
<1> DEFINE b == Batch(Len(sent), position + 1, last, valid)
<1>0. /\ Len(sent) \in Nat /\ Len(staged) \in Nat /\ Len(staged) <= Len(sent)
      /\ position \in Nat /\ changes \in Nat /\ position <= changes
      /\ last \in Nat /\ last >= position + 1 /\ last <= changes
  BY LenProperties DEF Inv, Always, Typed, Staged, EmitBatch
<1>1. /\ b \in Batches /\ b.kind = "batch" /\ b.sequence = Len(sent)
      /\ b.first = position + 1 /\ b.last = last /\ b.valid = valid
  BY <1>0 DEF Batch, Batches
<1>2. Emit(b) /\ sent' = Append(sent, b) /\ position' = last /\ ended' = ended
      /\ (ordered => valid)
  BY DEF EmitBatch
<1> HIDE DEF b
<1>3. UNCHANGED <<ordered, changes, request, validator, staged, outcome, store, cursor, refused>>
      /\ request # Idle /\ ~ended
  BY <1>2 DEF Emit
<1>4. b \in Events
  BY <1>1 DEF Events
<1>5. /\ Len(channel) \in Nat
      /\ channel' \in Seq(Events) /\ Len(channel') = Len(channel) + 1
      /\ channel'[Len(channel) + 1] = b
      /\ \A i \in 1 .. Len(channel) : channel'[i] = channel[i]
  BY <1>2, <1>4, Sending DEF Inv, Always
<1>6. /\ \A i \in 1 .. Len(channel') : i \in 1 .. Len(channel) \/ i = Len(channel) + 1
      /\ \A i \in 1 .. Len(channel) : i \in 1 .. Len(channel') /\ i # Len(channel')
  BY <1>5
<1>7. /\ sent' \in Seq(Batches) /\ Len(sent') = Len(sent) + 1
      /\ sent'[Len(sent) + 1] = b
      /\ \A i \in 1 .. Len(sent) : sent'[i] = sent[i]
      /\ \A i \in 1 .. Len(sent') : i \in 1 .. Len(sent) \/ i = Len(sent) + 1
  <2>1. /\ sent' \in Seq(Batches) /\ Len(sent') = Len(sent) + 1
        /\ sent'[Len(sent) + 1] = b
        /\ \A i \in 1 .. Len(sent) : sent'[i] = sent[i]
    BY <1>1, <1>2, AppendProperties DEF Inv, Always, Typed
  <2> QED
    BY <1>0, <2>1
<1>8. Typed'
  BY <1>0, <1>2, <1>3, <1>5, <1>7 DEF Inv, Always, Typed
<1>9. Numbered'
  <2>1. \A i \in 1 .. Len(sent) : sent'[i].sequence = i - 1
    BY <1>7 DEF Inv, Always, Numbered
  <2>2. sent'[Len(sent) + 1].sequence = (Len(sent) + 1) - 1
    BY <1>0, <1>1, <1>7
  <2> QED
    BY <1>7, <2>1, <2>2 DEF Numbered
<1>10. InFlight'
  <2>1. ASSUME NEW i \in 1 .. Len(channel'), channel'[i].kind = "batch"
        PROVE  /\ channel'[i].sequence < Len(sent')
               /\ channel'[i] = sent'[channel'[i].sequence + 1]
    <3>1. CASE i = Len(channel) + 1
      BY <1>0, <1>1, <1>5, <1>7, <3>1
    <3>2. CASE i \in 1 .. Len(channel)
      <4>1. channel[i].sequence < Len(sent) /\ channel[i] = sent[channel[i].sequence + 1]
        BY <1>5, <2>1, <3>2 DEF Inv, Always, InFlight
      <4>2. channel[i].sequence \in Nat
        BY <1>5, <2>1, <3>2, EventKinds, ElementOfSeq DEF Inv, Always, Typed, Batches
      <4> QED
        BY <1>0, <1>5, <1>7, <3>2, <4>1, <4>2
    <3> QED
      BY <1>6, <3>1, <3>2
  <2> QED
    BY <2>1 DEF InFlight
<1>11. Staged'
  BY <1>0, <1>3, <1>7 DEF Inv, Always, Staged
<1>12. Reached'
  BY <1>1, <1>3, <1>5, <1>6 DEF Inv, Always, Reached
<1>13. Final' /\ Requested'
  BY <1>3 DEF Inv, Always, Final, Requested
<1>14. ASSUME ordered PROVE Queue' /\ Ending' /\ Covers'
  <2>1. Queue /\ Ending /\ Covers
    BY <1>14 DEF Inv, InOrder
  <2>2. Queue'
    <3>1. \A i \in 1 .. Len(sent') : sent'[i].valid
      BY <1>0, <1>1, <1>2, <1>7, <1>14, <2>1 DEF Queue
    <3>2. ASSUME NEW n \in Len(staged') .. Len(sent') - 1
          PROVE  \E i \in 1 .. Len(channel') :
                   channel'[i].kind = "batch" /\ channel'[i].sequence = n
      <4>1. CASE n = Len(sent)
        BY <1>1, <1>5, <4>1
      <4>2. CASE n # Len(sent)
        <5>1. n \in Len(staged) .. Len(sent) - 1
          BY <1>0, <1>3, <1>7, <4>2
        <5>2. PICK i \in 1 .. Len(channel) : channel[i].kind = "batch" /\ channel[i].sequence = n
          BY <2>1, <5>1 DEF Queue
        <5> QED
          BY <1>5, <1>6, <5>2
      <4> QED
        BY <4>1, <4>2
    <3>3. ASSUME NEW i \in 1 .. Len(channel'), channel'[i].kind = "batch"
          PROVE  /\ channel'[i].sequence >= Len(staged')
                 /\ \A j \in 1 .. i - 1 :
                      channel'[j].kind = "batch" => channel'[j].sequence < channel'[i].sequence
      <4>0. \A j \in 1 .. i - 1 : j \in 1 .. Len(channel)
        BY <1>5
      <4>1. CASE i \in 1 .. Len(channel)
        BY <1>3, <1>5, <2>1, <3>3, <4>0, <4>1 DEF Queue
      <4>2. CASE i = Len(channel) + 1
        <5>1. \A j \in 1 .. i - 1 : channel[j].kind = "batch" => channel[j].sequence < Len(sent)
          BY <4>0 DEF Inv, Always, InFlight
        <5> QED
          BY <1>0, <1>1, <1>3, <1>5, <4>0, <4>2, <5>1
      <4> QED
        BY <1>6, <4>1, <4>2
    <3> QED
      BY <3>1, <3>2, <3>3 DEF Queue
  <2>3. Ending'
    <3>1. /\ \A i \in 1 .. Len(channel) : channel[i].kind \notin Terminals
          /\ ~validator.terminal
      BY <1>3, <1>14, Unended DEF Inv
    <3>2. "completed" \in Terminals /\ "batch" \notin Terminals
      BY DEF Terminals
    <3>3. \A i \in 1 .. Len(channel') :
            channel'[i].kind # "missing" /\ channel'[i].kind \notin Terminals
      BY <1>1, <1>5, <1>6, <2>1, <3>1, <3>2 DEF Ending
    <3>4. outcome.kind # "completed"
      <4>1. outcome = None
        BY <3>1 DEF Inv, Always, Final
      <4> QED
        BY <4>1, EventKinds
    <3> QED
      BY <1>3, <3>1, <3>2, <3>3, <3>4 DEF Ending
  <2>4. Covers'
    <3>1. Begun' = Begun /\ Begun <= position /\ Carried(sent) = Begun + 1 .. position
      BY <1>3, <2>1 DEF Covers, Begun
    <3>2. Begun \in Int
      BY <1>3 DEF Inv, Always, Typed, Begun, Cursors, NoCursor
    <3>3. Carried(sent') = Carried(sent) \cup (position + 1 .. last)
      BY <1>1, <1>2, CarriedAppend DEF Inv, Always, Typed
    <3>4. (Begun + 1 .. position) \cup (position + 1 .. last) = Begun + 1 .. last
      BY <1>0, <3>1, <3>2
    <3>5. Begun <= last
      BY <1>0, <3>1, <3>2
    <3> QED
      BY <1>2, <3>1, <3>3, <3>4, <3>5 DEF Covers
  <2> QED
    BY <2>2, <2>3, <2>4
<1> QED
  BY <1>3, <1>8, <1>9, <1>10, <1>11, <1>12, <1>13, <1>14 DEF Inv, Always, InOrder

LEMMA InvEmits ==
  ASSUME Inv,
         \/ EmitHeartbeat
         \/ EmitCancelled
         \/ \E e \in {Completed(position), Completed(NoCursor), Failed, NoEvent} : EmitTerminal(e)
  PROVE  Inv'
<1>0. /\ Heartbeat.kind = "heartbeat" /\ Failed.kind = "failed" /\ Cancelled.kind = "cancelled"
      /\ NoEvent.kind = "missing"
      /\ {Heartbeat, Failed, Cancelled, NoEvent} \subseteq Events
  BY DEF Heartbeat, Failed, Cancelled, NoEvent, Events
<1>1. ASSUME NEW n \in Cursors
      PROVE  /\ Completed(n) \in Events
             /\ Completed(n).kind = "completed" /\ Completed(n).next_cursor = n
  BY DEF Completed, Events
<1>2. position \in Cursors /\ NoCursor \in Cursors /\ position # NoCursor /\ ended \in BOOLEAN
  BY DEF Inv, Always, Typed, Cursors, NoCursor
<1>3. CASE EmitHeartbeat
  <2>1. "heartbeat" \notin Terminals
    BY DEF Terminals
  <2> QED
    BY <1>0, <1>2, <1>3, <2>1, InvEmit DEF EmitHeartbeat
<1>4. CASE EmitCancelled
  BY <1>0, <1>4, InvEmit DEF EmitCancelled
<1>5. ASSUME NEW e \in {Completed(position), Completed(NoCursor), Failed, NoEvent},
             EmitTerminal(e)
      PROVE  Inv'
  <2>1. e \in Events /\ e.kind # "batch"
    BY <1>0, <1>1, <1>2
  <2>2. e.kind = "completed" => e.next_cursor \in {position, NoCursor}
    BY <1>0, <1>1, <1>2
  <2>3. Emit(e) /\ UNCHANGED <<sent, position>> /\ ended' = (e # NoEvent)
    BY <1>5 DEF EmitTerminal
  <2>4. ordered => (e = Completed(position) /\ position = changes) \/ e = Failed
    BY <1>5 DEF EmitTerminal
  <2>5. ordered => /\ e.kind # "missing"
                   /\ e.kind \in Terminals => ended'
                   /\ e.kind = "completed" => e.next_cursor = position /\ position = changes
    BY <1>0, <1>1, <1>2, <2>3, <2>4
  <2> QED
    BY <2>1, <2>2, <2>3, <2>5, InvEmit
<1> QED
  BY <1>3, <1>4, <1>5

\* Steps that only take from the channel.
LEMMA InvTaken ==
  ASSUME Inv, ~ordered, channel' \in Seq(Events),
         \A j \in 1 .. Len(channel') : \E i \in 1 .. Len(channel) : channel'[j] = channel[i],
         request # Idle \/ channel = <<>>,
         UNCHANGED <<ordered, changes, request, sent, position, ended, validator, staged,
                     outcome, store, cursor, refused>>
  PROVE  Inv'
<1>1. Typed'
  BY DEF Inv, Always, Typed
<1>2. Numbered' /\ Staged' /\ Final'
  BY DEF Inv, Always, Numbered, Staged, Final
<1>3. InFlight'
  <2>1. InFlight
    BY DEF Inv, Always
  <2> QED
    BY <2>1 DEF InFlight
<1>4. Reached'
  <2>1. Reached
    BY DEF Inv, Always
  <2> QED
    BY <2>1 DEF Reached
<1>5. Requested'
  <2>1. CASE request # Idle
    BY <2>1 DEF Inv, Always, Requested
  <2>2. CASE channel = <<>>
    <3>1. Len(channel) = 0
      BY <2>2
    <3>2. Len(channel') = 0
      <4>1. Len(channel') \in Nat
        BY LenProperties
      <4>2. ~(1 \in 1 .. Len(channel'))
        BY <3>1
      <4> QED
        BY <4>1, <4>2
    <3>3. channel' = <<>>
      BY <3>2, EmptySeq
    <3> QED
      BY <3>3 DEF Inv, Always, Requested
  <2> QED
    BY <2>1, <2>2
<1> QED
  BY <1>1, <1>2, <1>3, <1>4, <1>5 DEF Inv, Always, InOrder

LEMMA InvDrop ==
  ASSUME Inv, NEW i \in 1 .. MaxInFlight, Drop(i)
  PROVE  Inv'
<1>1. channel \in Seq(Events) /\ i \in 1 .. Len(channel) /\ Len(channel) \in Nat
  BY LenProperties DEF Inv, Always, Typed, Drop
<1>2. /\ channel' \in Seq(Events) /\ Len(channel') = Len(channel) - 1
      /\ \A j \in 1 .. Len(channel) - 1 : channel'[j] = IF j < i THEN channel[j] ELSE channel[j + 1]
  BY <1>1, Removed DEF Drop
<1>3. \A j \in 1 .. Len(channel') : \E k \in 1 .. Len(channel) : channel'[j] = channel[k]
  <2> SUFFICES ASSUME NEW j \in 1 .. Len(channel')
               PROVE  \E k \in 1 .. Len(channel) : channel'[j] = channel[k]
    OBVIOUS
  <2>1. j \in 1 .. Len(channel) /\ j + 1 \in 1 .. Len(channel) /\ j \in 1 .. Len(channel) - 1
    BY <1>1, <1>2
  <2> QED
    BY <1>2, <2>1
<1>4. request # Idle \/ channel = <<>>
  BY DEF Inv, Always, Requested
<1> QED
  BY <1>2, <1>3, <1>4, InvTaken DEF Drop

\* What accept does to a validator.
LEMMA Accepted ==
  ASSUME NEW v \in [next_sequence : Nat, terminal : BOOLEAN], NEW e \in Events
  PROVE  /\ After(v, e) \in [next_sequence : Nat, terminal : BOOLEAN]
         /\ e.kind = "heartbeat" => After(v, e) = v
         /\ e.kind = "batch" =>
              After(v, e).next_sequence = v.next_sequence + 1 /\ After(v, e).terminal = v.terminal
         /\ e.kind \notin {"batch", "heartbeat"} =>
              After(v, e).next_sequence = v.next_sequence /\ After(v, e).terminal = TRUE
<1>1. CASE e.kind = "heartbeat"
  BY <1>1 DEF After
<1>2. CASE e.kind = "batch"
  <2>1. After(v, e) = [v EXCEPT !.next_sequence = @ + 1]
    BY <1>2 DEF After
  <2> QED
    BY <1>2, <2>1
<1>3. CASE e.kind \notin {"batch", "heartbeat"}
  <2>1. After(v, e) = [v EXCEPT !.terminal = TRUE]
    BY <1>3 DEF After
  <2> QED
    BY <1>3, <2>1
<1> QED
  BY <1>1, <1>2, <1>3

\* The channel after an event was taken from it, or copied.
LEMMA Taking ==
  ASSUME channel \in Seq(Events), NEW i, NEW again \in BOOLEAN, Deliver(i, again)
  PROVE  /\ Len(channel) \in Nat /\ i \in 1 .. Len(channel) /\ channel[i] \in Events
         /\ channel' \in Seq(Events)
         /\ \A j \in 1 .. Len(channel') : \E k \in 1 .. Len(channel) : channel'[j] = channel[k]
         /\ ordered => /\ i = 1 /\ Len(channel') = Len(channel) - 1
                       /\ \A j \in 1 .. Len(channel) - 1 : channel'[j] = channel[j + 1]
<1>1. Len(channel) \in Nat /\ i \in 1 .. Len(channel) /\ channel[i] \in Events
  BY LenProperties, ElementOfSeq DEF Deliver
<1>2. CASE again
  BY <1>1, <1>2 DEF Deliver
<1>3. CASE ~again
  <2>1. /\ channel' \in Seq(Events) /\ Len(channel') = Len(channel) - 1
        /\ \A j \in 1 .. Len(channel) - 1 :
             channel'[j] = IF j < i THEN channel[j] ELSE channel[j + 1]
    BY <1>1, <1>3, Removed DEF Deliver
  <2>2. ASSUME NEW j \in 1 .. Len(channel')
        PROVE  \E k \in 1 .. Len(channel) : channel'[j] = channel[k]
    <3>1. j \in 1 .. Len(channel) /\ j + 1 \in 1 .. Len(channel) /\ j \in 1 .. Len(channel) - 1
      BY <1>1, <2>1
    <3> QED
      BY <2>1, <3>1
  <2>3. ordered => i = 1
    BY DEF Deliver
  <2>4. \A j \in 1 .. Len(channel) - 1 : ~(j < 1)
    BY <1>1
  <2> QED
    BY <1>1, <2>1, <2>2, <2>3, <2>4
<1> QED
  BY <1>2, <1>3

\* What the validator makes of an event, and what that leaves of the read.
LEMMA DeliverAlways ==
  ASSUME Always, NEW i, NEW again \in BOOLEAN, Deliver(i, again)
  PROVE  Always'
<1> DEFINE e == channel[i]
<1>0. /\ Len(channel) \in Nat /\ i \in 1 .. Len(channel) /\ e \in Events
      /\ channel' \in Seq(Events)
      /\ \A j \in 1 .. Len(channel') : \E k \in 1 .. Len(channel) : channel'[j] = channel[k]
  BY Taking DEF Always, Typed
<1>1. UNCHANGED <<ordered, changes, request, sent, position, ended, store, cursor>>
      /\ request # Idle
  BY DEF Deliver
<1>2. \/ /\ Accepts(validator, e) /\ validator' = After(validator, e)
         /\ staged' = (IF e.kind = "batch" THEN Append(staged, e) ELSE staged)
         /\ outcome' = (IF e.kind \in {"batch", "heartbeat"} THEN outcome ELSE e)
         /\ refused' = refused
      \/ refused' = TRUE /\ UNCHANGED <<validator, staged, outcome>>
  BY DEF Deliver
<1>3. InFlight /\ Reached /\ Staged /\ Final /\ Typed /\ Numbered /\ Requested
  BY DEF Always
<1>4. e.kind = "batch" =>
        e \in Batches /\ e.sequence < Len(sent) /\ e = sent[e.sequence + 1]
  BY <1>0, <1>3, EventKinds DEF InFlight
<1>5. e.kind = "completed" => e.next_cursor <= changes
  BY <1>0, <1>3 DEF Reached
<1>6. validator \in [next_sequence : Nat, terminal : BOOLEAN]
      /\ staged \in Seq(Batches) /\ outcome \in Events /\ refused \in BOOLEAN
      /\ Len(staged) \in Nat /\ Len(sent) \in Nat
  BY <1>3, LenProperties DEF Typed
<1> HIDE DEF e
<1>7. /\ After(validator, e) \in [next_sequence : Nat, terminal : BOOLEAN]
      /\ e.kind = "heartbeat" => After(validator, e) = validator
      /\ e.kind = "batch" =>
           /\ After(validator, e).next_sequence = validator.next_sequence + 1
           /\ After(validator, e).terminal = validator.terminal
      /\ e.kind \notin {"batch", "heartbeat"} =>
           /\ After(validator, e).next_sequence = validator.next_sequence
           /\ After(validator, e).terminal = TRUE
  BY <1>0, <1>6, Accepted
<1>8. e.kind = "batch" =>
        /\ Append(staged, e) \in Seq(Batches)
        /\ Len(Append(staged, e)) = Len(staged) + 1
        /\ Append(staged, e)[Len(staged) + 1] = e
        /\ \A j \in 1 .. Len(staged) : Append(staged, e)[j] = staged[j]
        /\ \A j \in 1 .. Len(Append(staged, e)) : j \in 1 .. Len(staged) \/ j = Len(staged) + 1
  <2> SUFFICES ASSUME e.kind = "batch"
               PROVE  /\ Append(staged, e) \in Seq(Batches)
                      /\ Len(Append(staged, e)) = Len(staged) + 1
                      /\ Append(staged, e)[Len(staged) + 1] = e
                      /\ \A j \in 1 .. Len(staged) : Append(staged, e)[j] = staged[j]
    BY <1>6
  <2> QED
    BY <1>4, <1>6, AppendProperties
<1>9. Typed'
  <2>1. /\ validator' \in [next_sequence : Nat, terminal : BOOLEAN]
        /\ staged' \in Seq(Batches) /\ outcome' \in Events /\ refused' \in BOOLEAN
    BY <1>0, <1>2, <1>6, <1>7, <1>8
  <2> QED
    BY <1>0, <1>1, <1>3, <2>1 DEF Typed
<1>10. Numbered' /\ Requested'
  BY <1>1, <1>3 DEF Numbered, Requested
<1>11. InFlight'
  BY <1>0, <1>1, <1>3 DEF InFlight
<1>12. Reached'
  <2>1. e.kind = "completed" /\ Accepts(validator, e) => e.next_cursor \in 0 .. changes
    <3>1. e.kind = "completed" => e.next_cursor \in Cursors
      BY <1>0, EventKinds
    <3>2. e.kind = "completed" /\ Accepts(validator, e) => e.next_cursor # NoCursor
      BY DEF Accepts, ValidCompleted
    <3>3. changes \in Nat
      BY <1>3 DEF Typed
    <3> QED
      BY <1>5, <3>1, <3>2, <3>3 DEF Cursors, NoCursor
  <2>2. outcome'.kind = "completed" => outcome'.next_cursor \in 0 .. changes
    BY <1>2, <1>3, <2>1 DEF Reached
  <2> QED
    BY <1>0, <1>1, <1>3, <2>2 DEF Reached
<1>13. Final'
  <2>1. Accepts(validator, e) => ~validator.terminal
    BY DEF Accepts
  <2> QED
    BY <1>2, <1>3, <1>7, <2>1 DEF Final
<1>14. Staged'
  <2>1. CASE /\ e.kind = "batch" /\ Accepts(validator, e)
             /\ validator' = After(validator, e) /\ staged' = Append(staged, e)
    <3>1. e.sequence = Len(staged)
      BY <1>3, <2>1 DEF Accepts, ValidBatch, Staged
    <3>2. validator'.next_sequence = Len(staged') /\ Len(staged') <= Len(sent)
      BY <1>3, <1>4, <1>6, <1>7, <1>8, <2>1, <3>1 DEF Staged
    <3>3. \A j \in 1 .. Len(staged') : staged'[j] = sent[j]
      BY <1>3, <1>4, <1>8, <2>1, <3>1 DEF Staged
    <3> QED
      BY <1>1, <3>2, <3>3 DEF Staged
  <2>2. CASE staged' = staged /\ validator'.next_sequence = validator.next_sequence
    BY <1>1, <1>3, <2>2 DEF Staged
  <2> QED
    BY <1>2, <1>7, <2>1, <2>2
<1> QED
  BY <1>9, <1>10, <1>11, <1>12, <1>13, <1>14 DEF Always

\* Over an ordered transport the event that arrives is the one expected.
LEMMA Expected ==
  ASSUME Inv, ordered, NEW i, NEW again \in BOOLEAN, Deliver(i, again)
  PROVE  Accepts(validator, channel[i])
<1> DEFINE e == channel[1]
<1>1. i = 1 /\ 1 \in 1 .. Len(channel) /\ Len(channel) \in Nat /\ e \in Events
  BY Taking DEF Inv, Always, Typed
<1>2. Queue /\ Ending /\ InFlight /\ Staged
  BY DEF Inv, Always, InOrder
<1>3. ~validator.terminal
  <2>1. channel # <<>>
    BY <1>1
  <2> QED
    BY <1>2, <2>1 DEF Ending
<1>4. e.kind \in {"batch", "heartbeat"} \cup Terminals
  BY <1>1, <1>2, EventKinds DEF Ending
<1>5. CASE e.kind = "batch"
  <2>1. e \in Batches /\ e.sequence \in Nat
    BY <1>1, <1>5, EventKinds DEF Batches
  <2>2. e.sequence < Len(sent) /\ e = sent[e.sequence + 1] /\ e.sequence >= Len(staged)
    BY <1>1, <1>2, <1>5 DEF InFlight, Queue
  <2>3. Len(staged) \in Nat /\ Len(sent) \in Nat
    BY LenProperties DEF Inv, Always, Typed
  <2>4. e.sequence = Len(staged)
    <3>0. Len(staged) \in Len(staged) .. Len(sent) - 1
      BY <2>1, <2>2, <2>3
    <3>1. PICK k \in 1 .. Len(channel) :
            channel[k].kind = "batch" /\ channel[k].sequence = Len(staged)
      BY <1>2, <3>0 DEF Queue
    <3>2. CASE k = 1
      BY <3>1, <3>2
    <3>3. CASE k # 1
      <4>1. 1 \in 1 .. k - 1
        BY <1>1, <3>3
      <4>2. e.sequence < channel[k].sequence
        BY <1>2, <1>5, <3>1, <4>1 DEF Queue
      <4> QED
        BY <2>1, <2>2, <2>3, <3>1, <4>2
    <3> QED
      BY <3>2, <3>3
  <2>5. e.valid
    BY <1>2, <2>1, <2>2, <2>3 DEF Queue
  <2>6. validator.next_sequence = Len(staged)
    BY <1>2 DEF Staged
  <2> QED
    BY <1>1, <1>3, <1>5, <2>4, <2>5, <2>6 DEF Accepts, ValidBatch
<1>6. CASE e.kind = "completed"
  <2>1. e.next_cursor = position
    BY <1>1, <1>2, <1>6 DEF Ending
  <2>2. position # NoCursor
    BY DEF Inv, Always, Typed, NoCursor
  <2> QED
    BY <1>1, <1>3, <1>6, <2>1, <2>2 DEF Accepts, ValidCompleted
<1>7. CASE e.kind \in {"heartbeat", "failed", "cancelled"}
  BY <1>1, <1>3, <1>7 DEF Accepts
<1> QED
  BY <1>4, <1>5, <1>6, <1>7 DEF Terminals

LEMMA DeliverInOrder ==
  ASSUME Inv, ordered, NEW i, NEW again \in BOOLEAN, Deliver(i, again)
  PROVE  Queue' /\ Ending' /\ Covers' /\ store' = 1 .. cursor' /\ ~refused'
<1> DEFINE e == channel[1]
<1>1. /\ i = 1 /\ 1 \in 1 .. Len(channel) /\ Len(channel) \in Nat /\ e \in Events
      /\ channel' \in Seq(Events) /\ Len(channel') = Len(channel) - 1
      /\ \A j \in 1 .. Len(channel) - 1 : channel'[j] = channel[j + 1]
  BY Taking DEF Inv, Always, Typed
<1>2. /\ Queue /\ Ending /\ InFlight /\ Staged /\ Covers /\ store = 1 .. cursor /\ ~refused
      /\ validator \in [next_sequence : Nat, terminal : BOOLEAN]
      /\ Len(staged) \in Nat /\ Len(sent) \in Nat /\ staged \in Seq(Batches)
  BY LenProperties DEF Inv, Always, InOrder, Typed
<1>3. Accepts(validator, e)
  BY <1>1, Expected
<1>4. /\ validator' = After(validator, e)
      /\ staged' = (IF e.kind = "batch" THEN Append(staged, e) ELSE staged)
      /\ outcome' = (IF e.kind \in {"batch", "heartbeat"} THEN outcome ELSE e)
      /\ refused' = refused
      /\ UNCHANGED <<ordered, changes, request, sent, position, ended, store, cursor>>
  BY <1>1, <1>3 DEF Deliver
<1>5. \A j \in 1 .. Len(channel') : j + 1 \in 1 .. Len(channel) /\ channel'[j] = channel[j + 1]
  BY <1>1
<1>6. Len(staged') = IF e.kind = "batch" THEN Len(staged) + 1 ELSE Len(staged)
  <2>1. e.kind = "batch" => e \in Batches
    BY <1>1, EventKinds
  <2> QED
    BY <1>2, <1>4, <2>1, AppendProperties
<1>7. e.kind = "batch" => e.sequence = Len(staged)
  BY <1>2, <1>3 DEF Accepts, ValidBatch, Staged
<1> HIDE DEF e
<1>8. Queue'
  <2>1. \A j \in 1 .. Len(sent') : sent'[j].valid
    BY <1>2, <1>4 DEF Queue
  <2>2. ASSUME NEW n \in Len(staged') .. Len(sent') - 1
        PROVE  \E j \in 1 .. Len(channel') : channel'[j].kind = "batch" /\ channel'[j].sequence = n
    <3>1. n \in Len(staged) .. Len(sent) - 1 /\ (e.kind = "batch" => n # Len(staged))
      BY <1>2, <1>4, <1>6
    <3>2. PICK k \in 1 .. Len(channel) : channel[k].kind = "batch" /\ channel[k].sequence = n
      BY <1>2, <3>1 DEF Queue
    <3>3. k # 1
      BY <1>7, <3>1, <3>2 DEF e
    <3>4. k - 1 \in 1 .. Len(channel') /\ (k - 1) + 1 = k
      BY <1>1, <3>3
    <3>5. channel'[k - 1] = channel[k]
      BY <1>5, <3>4
    <3> QED
      BY <3>2, <3>4, <3>5
  <2>3. ASSUME NEW j \in 1 .. Len(channel'), channel'[j].kind = "batch"
        PROVE  /\ channel'[j].sequence >= Len(staged')
               /\ \A k \in 1 .. j - 1 :
                    channel'[k].kind = "batch" => channel'[k].sequence < channel'[j].sequence
    <3>1. j + 1 \in 1 .. Len(channel) /\ channel'[j] = channel[j + 1]
      BY <1>5
    <3>2. /\ channel[j + 1].sequence >= Len(staged)
          /\ \A k \in 1 .. (j + 1) - 1 :
               channel[k].kind = "batch" => channel[k].sequence < channel[j + 1].sequence
      BY <1>2, <2>3, <3>1 DEF Queue
    <3>3. channel[j + 1].sequence \in Nat
      BY <2>3, <3>1, EventKinds, ElementOfSeq DEF Inv, Always, Typed, Batches
    <3>4. e.kind = "batch" => Len(staged) < channel[j + 1].sequence
      <4>1. 1 \in 1 .. (j + 1) - 1
        BY <1>1
      <4> QED
        BY <1>7, <3>2, <4>1 DEF e
    <3>5. channel'[j].sequence >= Len(staged')
      BY <1>2, <1>6, <3>1, <3>2, <3>3, <3>4
    <3>6. \A k \in 1 .. j - 1 : k \in 1 .. Len(channel') /\ k + 1 \in 1 .. (j + 1) - 1
      BY <1>1
    <3> QED
      BY <1>5, <3>1, <3>2, <3>5, <3>6
  <2> QED
    BY <2>1, <2>2, <2>3 DEF Queue
<1>9. Ending'
  <2>1. ASSUME NEW j \in 1 .. Len(channel')
        PROVE  /\ channel'[j].kind # "missing"
               /\ channel'[j].kind \in Terminals => ended' /\ j = Len(channel')
               /\ channel'[j].kind = "completed" =>
                    channel'[j].next_cursor = position' /\ cursor' <= position'
    <3>1. j + 1 = Len(channel) => j = Len(channel')
      BY <1>1
    <3> QED
      BY <1>2, <1>4, <1>5, <3>1 DEF Ending
  <2>2. /\ (e.kind = "completed" => e.next_cursor = position /\ cursor <= position)
        /\ (e.kind \in Terminals => ended /\ 1 = Len(channel))
        /\ e.kind # "missing"
    BY <1>1, <1>2 DEF Ending, e
  <2>3. outcome'.kind = "completed" => outcome'.next_cursor = position' /\ cursor' <= position'
    BY <1>2, <1>4, <2>2 DEF Ending
  <2>4. validator'.terminal => ended' /\ channel' = <<>>
    <3>1. ~validator.terminal
      BY <1>3 DEF Accepts
    <3>2. validator'.terminal => e.kind \notin {"batch", "heartbeat"}
      BY <1>1, <1>2, <1>4, <3>1, Accepted
    <3>3. e.kind \in {"batch", "heartbeat"} \cup Terminals
      BY <1>1, <2>2, EventKinds
    <3>4. 1 = Len(channel) => channel' = <<>>
      <4>0. Len(channel') = Len(channel) - 1
        BY <1>1
      <4>1. ASSUME Len(channel) = 1 PROVE Len(channel') = 0
        <5>1. 1 - 1 = 0
          OBVIOUS
        <5> QED
          BY ONLY <4>0, <4>1, <5>1
      <4>2. channel' \in Seq(Events)
        BY <1>1
      <4> QED
        BY <4>1, <4>2, EmptySeq
    <3> QED
      BY <1>4, <2>2, <3>2, <3>3, <3>4
  <2> QED
    BY <2>1, <2>3, <2>4 DEF Ending
<1>10. Covers' /\ store' = 1 .. cursor' /\ ~refused'
  BY <1>2, <1>4 DEF Covers, Begun
<1> QED
  BY <1>8, <1>9, <1>10

LEMMA InvDeliver ==
  ASSUME Inv, NEW i \in 1 .. MaxInFlight, NEW again \in BOOLEAN, Deliver(i, again)
  PROVE  Inv'
<1>1. Always'
  BY DeliverAlways DEF Inv
<1>2. InOrder'
  <2>1. ordered' = ordered
    BY DEF Deliver
  <2> QED
    BY <2>1, DeliverInOrder DEF InOrder
<1> QED
  BY <1>1, <1>2 DEF Inv

\* A completed read over an ordered transport has staged all that was sent.
LEMMA ReadWhole ==
  ASSUME Inv, ordered, request # Idle, validator.terminal, outcome.kind = "completed"
  PROVE  /\ outcome.next_cursor = position /\ cursor <= position
         /\ store \cup Carried(staged) = 1 .. position
<1>1. /\ Queue /\ Ending /\ Staged /\ Covers /\ store = 1 .. cursor
      /\ sent \in Seq(Batches) /\ staged \in Seq(Batches)
      /\ Len(sent) \in Nat /\ Len(staged) \in Nat
  BY LenProperties DEF Inv, Always, InOrder, Typed
<1>2. outcome.next_cursor = position /\ cursor <= position
  BY <1>1 DEF Ending
<1>3. staged = sent
  <2>1. Len(channel) = 0
    BY <1>1 DEF Ending
  <2>2. Len(staged) = Len(sent)
    <3>1. Len(staged) <= Len(sent)
      BY <1>1 DEF Staged
    <3>2. ASSUME Len(staged) < Len(sent) PROVE FALSE
      <4>1. Len(staged) \in Len(staged) .. Len(sent) - 1
        BY <1>1, <3>2
      <4>2. PICK k \in 1 .. Len(channel) :
              channel[k].kind = "batch" /\ channel[k].sequence = Len(staged)
        BY <1>1, <4>1 DEF Queue
      <4> QED
        BY <2>1, <4>2
    <3> QED
      BY <1>1, <3>1, <3>2
  <2>3. \A j \in 1 .. Len(staged) : staged[j] = sent[j]
    BY <1>1 DEF Staged
  <2> QED
    BY <1>1, <2>2, <2>3, SeqEqual
<1>4. Begun \in {0, cursor} /\ Begun <= position /\ Carried(sent) = Begun + 1 .. position
  <2>1. request.mode = "Full" \/ request.prior_cursor = cursor
    BY DEF Inv, Always, Requested, ReadRequest
  <2> QED
    BY <1>1, <2>1 DEF Covers, Begun
<1>5. cursor \in Int /\ cursor >= -1 /\ position \in Nat
  BY DEF Inv, Always, Typed, Cursors, NoCursor
<1>6. CASE Begun = 0
  BY <1>1, <1>2, <1>3, <1>4, <1>5, <1>6
<1>7. CASE Begun = cursor /\ cursor # -1
  BY <1>1, <1>2, <1>3, <1>4, <1>5, <1>7
<1>8. CASE Begun = cursor /\ cursor = -1
  <2>1. request.mode # "Full" => request.prior_cursor # NoCursor
    BY DEF Inv, Always, Requested, ReadRequest
  <2> QED
    BY <1>8, <2>1 DEF Begun, NoCursor
<1> QED
  BY <1>2, <1>4, <1>6, <1>7, <1>8

LEMMA InvEndRead ==
  ASSUME Inv, EndRead
  PROVE  Inv'
<1>1. /\ request' = Idle /\ sent' = <<>> /\ position' = 0 /\ ended' = TRUE /\ channel' = <<>>
      /\ validator' = Fresh /\ staged' = <<>> /\ outcome' = None /\ refused' = FALSE
      /\ ordered' = ordered /\ changes' = changes
  BY DEF EndRead
<1>2. /\ ordered \in BOOLEAN /\ changes \in Nat /\ cursor \in Cursors /\ cursor <= changes
      /\ (ordered => store = 1 .. cursor)
  BY DEF Inv, Always, InOrder, Typed
<1>3. CASE ~refused /\ Finished(validator) /\ outcome.kind = "completed"
  <2>1. store' = store \cup Carried(staged) /\ cursor' = outcome.next_cursor
    BY <1>3 DEF EndRead
  <2>2. outcome.next_cursor \in 0 .. changes
    BY <1>3 DEF Inv, Always, Reached
  <2>3. cursor' \in Cursors /\ cursor' <= changes
    BY <1>2, <2>1, <2>2 DEF Cursors
  <2>4. ordered => store' = 1 .. cursor'
    BY <1>3, <2>1, ReadWhole DEF EndRead, Finished
  <2> QED
    BY <1>1, <1>2, <2>3, <2>4, InvQuiet
<1>4. CASE ~(~refused /\ Finished(validator) /\ outcome.kind = "completed")
  <2>1. UNCHANGED <<store, cursor>>
    BY <1>4 DEF EndRead
  <2> QED
    BY <1>1, <1>2, <2>1, InvQuiet
<1> QED
  BY <1>3, <1>4

LEMMA InvStep == Inv /\ [Next]_vars => Inv'
<1> SUFFICES ASSUME Inv, [Next]_vars PROVE Inv'
  OBVIOUS
<1>1. CASE Change
  BY <1>1, InvChange
<1>2. CASE \E mode \in Modes, prior \in {NoCursor, cursor} : StartRead(mode, prior)
  BY <1>2, InvStartRead
<1>3. CASE EmitHeartbeat
  BY <1>3, InvEmits
<1>4. CASE \E last \in 1 .. changes, valid \in BOOLEAN : EmitBatch(last, valid)
  BY <1>4, InvEmitBatch
<1>5. CASE \E e \in {Completed(position), Completed(NoCursor), Failed, NoEvent} : EmitTerminal(e)
  BY <1>5, InvEmits
<1>6. CASE EmitCancelled
  BY <1>6, InvEmits
<1>7. CASE \E i \in 1 .. MaxInFlight, again \in BOOLEAN : Deliver(i, again)
  BY <1>7, InvDeliver
<1>8. CASE \E i \in 1 .. MaxInFlight : Drop(i)
  BY <1>8, InvDrop
<1>9. CASE EndRead
  BY <1>9, InvEndRead
<1>10. CASE UNCHANGED vars
  BY <1>10 DEF vars, Inv, Always, InOrder, Typed, Numbered, InFlight, Staged, Reached, Final,
               Requested, Queue, Ending, Covers, Begun
<1> QED
  BY <1>1, <1>2, <1>3, <1>4, <1>5, <1>6, <1>7, <1>8, <1>9, <1>10 DEF Next

\* The invariant holds of every state of every read.
THEOREM Invariant == Spec => []Inv
<1>1. Init => Inv
  BY InvInit
<1>2. Inv /\ [Next]_vars => Inv'
  BY InvStep
<1> QED
  BY <1>1, <1>2, PTL DEF Spec

-----------------------------------------------------------------------------

\* Whatever the transport loses, repeats or swaps, what a host has staged is
\* what the provider sent first (validate_catalog_batch and
\* validate_state_batch take batches in sequence only).
THEOREM StagedWithoutHole == Spec => []NoHole
<1>1. Inv => NoHole
  <2> SUFFICES ASSUME Inv PROVE NoHole
    OBVIOUS
  <2>1. /\ sent \in Seq(Batches) /\ staged \in Seq(Batches) /\ Staged
        /\ Len(sent) \in Nat /\ Len(staged) \in Nat
    BY LenProperties DEF Inv, Always, Typed
  <2>2. /\ Len(staged) <= Len(sent) /\ validator.next_sequence = Len(staged)
        /\ \A j \in 1 .. Len(staged) : staged[j] = sent[j]
    BY <2>1 DEF Staged
  <2>3. /\ SubSeq(sent, 1, Len(staged)) \in Seq(Batches)
        /\ Len(SubSeq(sent, 1, Len(staged))) = Len(staged)
        /\ \A j \in 1 .. Len(staged) : SubSeq(sent, 1, Len(staged))[j] = sent[j]
    BY <2>1, <2>2, SubSeqProperties
  <2>4. /\ SubSeq(staged, 1, Len(staged)) \in Seq(Batches)
        /\ Len(SubSeq(staged, 1, Len(staged))) = Len(staged)
        /\ \A j \in 1 .. Len(staged) : SubSeq(staged, 1, Len(staged))[j] = staged[j]
    BY <2>1, SubSeqProperties
  <2>5. SubSeq(staged, 1, Len(staged)) = SubSeq(sent, 1, Len(staged))
    BY <2>2, <2>3, <2>4, SeqEqual
  <2> QED
    BY <2>2, <2>5 DEF NoHole, IsPrefix
<1> QED
  BY <1>1, Invariant, PTL

\* A provider that keeps the contract is never refused by accept over an
\* ordered stream.
THEOREM WellBehavedAccepted == Spec => []NothingRefused
<1>1. Inv => NothingRefused
  BY DEF Inv, InOrder, NothingRefused
<1> QED
  BY <1>1, Invariant, PTL

\* Every change up to the cursor from which the next read continues is held.
THEOREM CursorNeverAhead == Spec => []CursorCovered
<1>1. Inv => CursorCovered
  BY DEF Inv, InOrder, CursorCovered
<1> QED
  BY <1>1, Invariant, PTL

\* An accepted terminal event is the last accepted event of its read: accept
\* answers EventAfterTerminal from then on.
THEOREM TerminalIsLast == Spec => OutcomeIsFinal
<1>1. Inv /\ [Next]_vars =>
        [outcome # None /\ request' = request => outcome' = outcome /\ staged' = staged]_vars
  <2> SUFFICES ASSUME Inv, Next, outcome # None, request' = request
               PROVE  outcome' = outcome /\ staged' = staged
    OBVIOUS
  <2>1. request # Idle /\ validator.terminal
    BY DEF Inv, Always, Requested, Final
  <2>2. CASE \E i \in 1 .. MaxInFlight, again \in BOOLEAN : Deliver(i, again)
    <3>1. PICK i \in 1 .. MaxInFlight, again \in BOOLEAN : Deliver(i, again)
      BY <2>2
    <3>2. ~Accepts(validator, channel[i])
      BY <2>1 DEF Accepts
    <3> QED
      BY <3>1, <3>2 DEF Deliver
  <2>3. CASE \E mode \in Modes, prior \in {NoCursor, cursor} : StartRead(mode, prior)
    BY <2>1, <2>3 DEF StartRead
  <2>4. CASE EndRead
    BY <2>1, <2>4 DEF EndRead
  <2>5. CASE Change \/ \E i \in 1 .. MaxInFlight : Drop(i)
    BY <2>5 DEF Change, Drop
  <2>6. CASE \/ EmitHeartbeat \/ EmitCancelled
             \/ \E last \in 1 .. changes, valid \in BOOLEAN : EmitBatch(last, valid)
             \/ \E e \in {Completed(position), Completed(NoCursor), Failed, NoEvent} : EmitTerminal(e)
    BY <2>6 DEF EmitHeartbeat, EmitCancelled, EmitBatch, EmitTerminal, Emit
  <2> QED
    BY <2>2, <2>3, <2>4, <2>5, <2>6 DEF Next
<1> QED
  BY <1>1, Invariant, PTL DEF Spec, OutcomeIsFinal

\* A read is a step of the replica when it ends completed, and nothing that
\* happens on the stream before shows.
THEOREM StreamImplementsReplica == Spec => ImplementsReplica
<1>1. Init => Replica!Init
  BY DEF Init, Replica!Init, NoCursor
<1>2. Inv /\ [Next]_vars => [Replica!Next]_(Replica!vars)
  <2> SUFFICES ASSUME Inv, [Next]_vars PROVE [Replica!Next]_(Replica!vars)
    OBVIOUS
  <2> USE DEF Replica!vars, Replica!Next
  <2>1. CASE Change
    BY <2>1 DEF Change, Replica!Change
  <2>2. CASE EndRead
    <3>1. UNCHANGED <<changes, ordered>>
      BY <2>2 DEF EndRead
    <3>2. CASE ordered /\ ~refused /\ Finished(validator) /\ outcome.kind = "completed"
      <4>1. /\ outcome.next_cursor = position /\ cursor <= position
            /\ store \cup Carried(staged) = 1 .. position
        BY <2>2, <3>2, ReadWhole DEF EndRead, Finished
      <4>2. cursor' = position /\ store' = 1 .. position
        BY <2>2, <3>2, <4>1 DEF EndRead
      <4>3. position \in 0 .. changes
        BY DEF Inv, Always, Typed
      <4> QED
        BY <3>1, <3>2, <4>1, <4>2, <4>3 DEF Replica!CatchUp
    <3>3. CASE ordered /\ ~(~refused /\ Finished(validator) /\ outcome.kind = "completed")
      BY <2>2, <3>1, <3>3 DEF EndRead
    <3>4. CASE ~ordered
      BY <3>1, <3>4
    <3> QED
      BY <3>2, <3>3, <3>4
  <2>3. ASSUME UNCHANGED <<ordered, changes, cursor, store>>
        PROVE  UNCHANGED Replica!vars
    BY <2>3
  <2>4. CASE \E mode \in Modes, prior \in {NoCursor, cursor} : StartRead(mode, prior)
    BY <2>3, <2>4 DEF StartRead
  <2>5. CASE \/ EmitHeartbeat \/ EmitCancelled
             \/ \E last \in 1 .. changes, valid \in BOOLEAN : EmitBatch(last, valid)
             \/ \E e \in {Completed(position), Completed(NoCursor), Failed, NoEvent} : EmitTerminal(e)
    BY <2>3, <2>5 DEF EmitHeartbeat, EmitCancelled, EmitBatch, EmitTerminal, Emit
  <2>6. CASE \/ \E i \in 1 .. MaxInFlight, again \in BOOLEAN : Deliver(i, again)
             \/ \E i \in 1 .. MaxInFlight : Drop(i)
    BY <2>3, <2>6 DEF Deliver, Drop
  <2>7. CASE UNCHANGED vars
    BY <2>3, <2>7 DEF vars
  <2> QED
    BY <2>1, <2>2, <2>4, <2>5, <2>6, <2>7 DEF Next
<1> QED
  BY <1>1, <1>2, Invariant, PTL DEF Spec, ImplementsReplica, Replica!Spec

=============================================================================
