------------------------- MODULE CompletionWorkflow -------------------------
(***************************************************************************)
(* The completion workflow end to end: the host is described a behavior,   *)
(* reads an observation, asks for a change, keeps the operation that the   *)
(* provider prepares, has it executed, perhaps again after an answer was   *)
(* lost, and asks what became of it.  Every hand-over is a message: it is  *)
(* encoded, decoded and validated by the one who gets it, against what     *)
(* that one holds at the time.  The provider may be replaced by a version  *)
(* that behaves differently between any two steps, and an operation is     *)
(* decoded again, by the behavior of that moment, each time it comes back. *)
(*                                                                         *)
(* Host and provider are not part of the repository; both are taken to     *)
(* send valid values only, except that a provider may phrase an operation  *)
(* as no encoder of this crate would.                                      *)
(***************************************************************************)
EXTENDS CompletionWire

CONSTANTS
  Scope,          \* the field of a subject that is completed
  None,           \* nothing sent or received
  Histories,      \* sequences of behaviors a provider may go through
  Observations,   \* what it may observe
  Desires,        \* what a host may want
  Additions,      \* lists of effects a provider may add to the one asked for
  Commands,       \* commands it may prepare
  Phrasings(_),   \* other ways to put an operation
  MaxClock        \* bound: the clock

VARIABLES
  versions,   \* the behaviors of the provider, one after another
  version,    \* index of the one it has now
  clock,      \* milliseconds
  sent,       \* leg -> the value that was last encoded and accepted
  received,   \* leg -> the value that came of it
  refusal,    \* the last hand-over, if it was refused, or None
  attempt,    \* "none", "open" or "settled"
  calling,    \* an ExecuteCompletion is under way
  applied,    \* times the native system has carried the operation out
  late        \* history: a call took effect after its replay guarantee

vars == <<versions, version, clock, sent, received, refusal, attempt, calling, applied, late>>

Legs == {"behavior", "observation", "intention", "operation", "execution"}
Current == versions[version]

-----------------------------------------------------------------------------
(* Mutated forms. *)

ReconcilableUnexpired(op, behavior, now) ==
  AcceptsPrepared(EncodePrepared(op), behavior) /\ now < op.expires_at

-----------------------------------------------------------------------------

\* State::validate, an observation against the behavior described
ObservationFits(o, behavior) ==
  o.behavior_revision = behavior.revision /\ o.domain.unit \in behavior.units

\* ReconcileCompletion carries the operation, which is decoded like any other.
Reconcilable(op, behavior, now) == AcceptsPrepared(EncodePrepared(op), behavior)

\* A hand-over: value is what the sender encoded, decoded what came of it.
HandOver(leg, value, accepted, decoded, by) ==
  IF accepted
  THEN /\ sent' = [sent EXCEPT ![leg] = value]
       /\ received' = [received EXCEPT ![leg] = decoded]
       /\ refusal' = None
  ELSE /\ refusal' = [leg |-> leg, value |-> value, by |-> by]
       /\ UNCHANGED <<sent, received>>

\* A message has room for the protections, and for the groups of all effects.
ASSUME RoomAssumption ==
  MaximumItems >= Cardinality(Protections) /\ MaximumItems >= MaximumEffects

\* What the two send are valid values.  A provider that behaves differently
\* says so by its revision, and all effects are in the account of the request.
ASSUME ValuesAssumption ==
  /\ \A h \in Histories :
       /\ h # <<>> /\ List(h)
       /\ \A b \in ToSet(h) : BehaviorValue(b) /\ ValidBehavior(b)
       /\ \A b, c \in ToSet(h) : b.revision = c.revision => b = c
  /\ \A o \in Observations : ObservationValue(o) /\ ValidObservation(o)
  /\ \A d \in Desires : ProgressValue(d)
  /\ \A l \in Additions :
       List(l) /\ \A e \in ToSet(l) : EffectValue(e) /\ e.scope.account = Scope.account
  /\ \A c \in Commands : CommandValue(c)
  /\ ScopeValue(Scope)

Init ==
  /\ versions \in Histories /\ version = 1 /\ clock = 0
  /\ sent = [leg \in Legs |-> None] /\ received = [leg \in Legs |-> None]
  /\ refusal = None
  /\ attempt = "none" /\ calling = FALSE /\ applied = 0 /\ late = FALSE

\* Nothing before the preparation depends on the time.
Tick ==
  /\ received["operation"] # None /\ clock < MaxClock
  /\ clock' = clock + 1
  /\ UNCHANGED <<versions, version, sent, received, refusal, attempt, calling, applied, late>>

\* The provider is replaced by its next version.
Update ==
  /\ version < Len(versions)
  /\ version' = version + 1
  /\ UNCHANGED <<versions, clock, sent, received, refusal, attempt, calling, applied, late>>

Unprepared == received["operation"] = None

\* DescribeCompletionLibrary, or the library of a page of subjects
Describe ==
  /\ Unprepared
  /\ LET w == EncodeBehavior(Current)
     IN  HandOver("behavior", Current, AcceptsBehavior(w), DecodeBehavior(w), None)
  /\ UNCHANGED <<versions, version, clock, attempt, calling, applied, late>>

\* ReadCompletion, of a unit that the provider lists; decode_state
Read(found) ==
  /\ Unprepared /\ received["behavior"] # None
  /\ found.domain.unit \in Current.units
  /\ LET o == [found EXCEPT !.behavior_revision = Current.revision]
         w == EncodeObservation(o)
     IN  HandOver("observation", o,
                  AcceptsObservation(w)
                    /\ ObservationFits(DecodeObservation(w), received["behavior"]),
                  DecodeObservation(w), received["behavior"])
  /\ UNCHANGED <<versions, version, clock, attempt, calling, applied, late>>

\* PrepareCompletion, the request: a change of what was read
Ask(desired) ==
  /\ Unprepared /\ received["observation"] # None
  /\ LET o == received["observation"]
         i == [scope |-> Scope, domain |-> o.domain,
               baseline |-> IF o.presence.kind = "Present" THEN o.presence.progress
                            ELSE [kind |-> "Items", completed |-> {}],
               desired |-> desired]
         w == EncodeIntention(i)
     IN  /\ ValidIntention(i)
         /\ HandOver("intention", i, AcceptsIntention(w), DecodeIntention(w), None)
  /\ UNCHANGED <<versions, version, clock, attempt, calling, applied, late>>

\* The effects that carry out an intention.
EffectsOf(i) ==
  LET effect(change) == [scope |-> i.scope, group |-> "entry", change |-> change]
  IN  {effect([kind |-> "SetCompletion", domain |-> i.domain, before |-> i.baseline,
               after |-> i.desired])}
      \cup IF i.desired.kind = "Items"
           THEN {effect([kind |-> "MergeItems", domain |-> i.domain,
                         before |-> i.baseline.completed, additions |-> i.desired.completed])}
           ELSE {}

\* What a provider may make of an intention: valid by its own behavior.
Operations(i) ==
  {op \in
     [identity : {"op"}, class : {c.class : c \in Capabilities(Current)},
      behavior_revision : {Current.revision}, prepared_at : {clock}, expires_at : {clock + 2},
      effects : {<<e>> \o l : e \in EffectsOf(i), l \in Additions},
      protection : {[kind |-> "BestEffort"], [kind |-> "MonotoneMerge"]}
                   \cup {[kind |-> "Conditional", token |-> 1, groups |-> g] :
                           g \in {{Group(e)} \cup {Group(l[j]) : j \in DOMAIN l} :
                                    e \in EffectsOf(i), l \in Additions}},
      replay : {[kind |-> "Unsupported"],
                [kind |-> "Deduplicated", key |-> "k", scope |-> "s", valid_until |-> clock + 1]},
      reconciliation : {NoMethod}, command : Commands] :
   ValidPrepared(op, Current)}

\* Messages that are read as the encoder's without being it.
Phrased(op) ==
  {w \in Phrasings(op) :
     WellFormedPrepared(w) /\ DecodePrepared(w) = DecodePrepared(EncodePrepared(op))}

\* PrepareCompletion, the response
Prepare(op, w) ==
  /\ Unprepared /\ received["intention"] # None
  /\ LET behavior == received["behavior"]
         decoded == DecodePrepared(w)
     IN  HandOver("operation", op,
                  AcceptsPrepared(w, behavior)
                    /\ ValidPreparedFor(decoded, behavior, "op", Scope.account, <<Scope>>),
                  decoded, behavior)
  /\ UNCHANGED <<versions, version, clock, attempt, calling, applied, late>>

Kept == received["operation"]

\* ExecuteCompletion of the operation kept; again only as its replay allows.
Execute ==
  /\ Kept # None /\ ~calling /\ clock < Kept.expires_at
  /\ \/ attempt = "none"
     \/ attempt = "open" /\ Kept.replay.kind = "Deduplicated" /\ clock < Kept.replay.valid_until
  /\ attempt' = "open" /\ calling' = TRUE
  /\ UNCHANGED <<versions, version, clock, sent, received, refusal, applied, late>>

\* The native system keeps the keys of what it has done for as long as it
\* promised, if it keeps keys at all.
Deduplicates(op) ==
  /\ op.replay.kind = "Deduplicated" /\ clock < op.replay.valid_until
  /\ \E c \in Capabilities(Current) : c.class = op.class /\ c.deduplication

\* The call arrives and takes effect, and its answer reaches the host or not.
Arrive(answered) ==
  /\ calling /\ calling' = FALSE
  /\ LET w == EncodePrepared(Kept)
         op == DecodePrepared(w)
         accepted == AcceptsPrepared(w, Current)
     IN  /\ HandOver("execution", Kept, accepted, op, Current)
         /\ applied' = IF accepted /\ ~(applied > 0 /\ Deduplicates(op))
                       THEN applied + 1 ELSE applied
         /\ late' = (late \/ (accepted /\ op.replay.kind = "Deduplicated"
                                /\ clock >= op.replay.valid_until))
         /\ attempt' = IF accepted /\ answered THEN "settled" ELSE attempt
  /\ UNCHANGED <<versions, version, clock>>

\* The call never arrives.
Drop ==
  /\ calling /\ calling' = FALSE
  /\ UNCHANGED <<versions, version, clock, sent, received, refusal, attempt, applied, late>>

\* ReconcileCompletion, once no call is under way; a refusal says nothing.
Reconcile ==
  /\ attempt = "open" /\ ~calling
  /\ IF Reconcilable(Kept, Current, clock)
     THEN attempt' = "settled" /\ UNCHANGED refusal
     ELSE /\ refusal' = [leg |-> "operation", value |-> Kept, by |-> Current]
          /\ UNCHANGED attempt
  /\ UNCHANGED <<versions, version, clock, sent, received, calling, applied, late>>

Next ==
  \/ Tick \/ Update \/ Describe
  \/ \E o \in Observations : Read(o)
  \/ \E d \in Desires : Ask(d)
  \/ /\ received["intention"] # None /\ Unprepared
     /\ \E op \in Operations(received["intention"]) :
          \E w \in {EncodePrepared(op)} \cup Phrased(op) : Prepare(op, w)
  \/ Execute
  \/ \E answered \in BOOLEAN : Arrive(answered)
  \/ Drop
  \/ Reconcile

\* Calls do not stay under way for ever, and a host that has had chance after
\* chance to ask about what is open, between its calls, does ask.
Fairness == WF_vars(Drop \/ Arrive(FALSE) \/ Arrive(TRUE)) /\ SF_vars(Reconcile)

Spec == Init /\ [][Next]_vars /\ Fairness

-----------------------------------------------------------------------------

\* What a leg leaves of a value.
AsRead(leg, value) ==
  CASE leg = "observation" -> RereadObservation(value)
    [] leg \in {"operation", "execution"} -> RereadOperation(value)
    [] OTHER -> value

\* What a receiver works with is what the sender meant, on every leg, but for
\* the numbers that text does not carry over.  In particular the operation that
\* is executed, decoded a second time from what the host kept, has the effects,
\* the protection and the replay of the one prepared, and if its native JSON
\* reads as what it was, is the very same.
HandedOnUnchanged ==
  /\ \A leg \in Legs : received[leg] # None => received[leg] = AsRead(leg, sent[leg])
  /\ received["execution"] # None => sent["execution"] = Kept

\* Native JSON that will not be read: nested too deep, or, in a command, too
\* long once it was read.  Or too long to be read in the effects, whose native
\* JSON has no limit but that.
TooDeep(v) == JsonDepth(v) > MaximumDepth

ChangeJson(c) ==
  CASE c.kind = "Append" -> {c.value}
    [] c.kind = "SetValue" ->
         {c.after} \cup (IF c.before.kind = "Known" THEN {c.before.value} ELSE {})
    [] OTHER -> {}
EffectJson(op) == UNION {ChangeJson(op.effects[i].change) : i \in DOMAIN op.effects}

Unreadable(op) ==
  \/ \E v \in EffectJson(op) : JsonSize(v) > MaximumJson \/ TooDeep(v)
  \/ TooDeep(op.command.parameters)
  \/ ~ValidCommand([op.command EXCEPT !.parameters = Reread(@)])

UnreadableObservation(o) ==
  TooDeep(o.native_value) \/ JsonSize(Reread(o.native_value)) > MaximumJson

TooManyNames(b) ==
  \/ Cardinality(b.subject_roles) > MaximumItems \/ Cardinality(b.units) > MaximumItems
  \/ \E c \in Capabilities(b) :
       Cardinality(c.effect_fields) > MaximumItems \/ Cardinality(c.reconciliation) > MaximumItems

Explained(r) ==
  CASE r.leg = "behavior"    -> TooManyNames(r.value)
    [] r.leg = "observation" ->
         r.value.behavior_revision # r.by.revision \/ UnreadableObservation(r.value)
    [] r.leg = "intention"   -> FALSE
    [] OTHER -> r.value.behavior_revision # r.by.revision \/ Unreadable(r.value)

\* Nothing valid is refused, except what was made for another behavior or is
\* beyond a limit that only the message has: names to a set, bytes of JSON as
\* it is read, its nesting.
RefusalsExplained == refusal # None => Explained(refusal)

\* What the README of the crate says of its limit on native values: typed
\* validation enforces it "matching the wire decoder".  Then an observation
\* that passed typed validation, of the behavior described, is decoded; but the
\* decoder measures what it has read, which may be longer than what was
\* measured before, and does not read what is nested too deep.
TypedMatchesWire ==
  \A r \in {refusal} \ {None} :
    r.leg = "observation" => r.value.behavior_revision # r.by.revision

\* An operation that is executed again under its replay guarantee is carried
\* out once, however often answers are lost; unless a call that left while the
\* guarantee stood takes effect after it.
ReplayOnce == applied > 1 => late

\* An open attempt is settled in the end, also after the operation expired,
\* unless the provider no longer behaves as it did or the operation cannot be
\* read once more.
Settled ==
  attempt = "open" ~>
    (attempt = "settled" \/ \E op \in {Kept} \ {None} :
                              op.behavior_revision # Current.revision \/ Unreadable(op))

=============================================================================
