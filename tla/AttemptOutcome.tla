--------------------------- MODULE AttemptOutcome ---------------------------
(***************************************************************************)
(* The outcome of one attempt at a prepared operation and the rules that   *)
(* decide which outcomes a host or a provider may take over: shape and     *)
(* identity (validate_for), the transition from an earlier native report   *)
(* (validate_attempt_outcome) and the wire decoder in front of both.       *)
(*                                                                         *)
(* Abstracted: identities are model values; the evidence a terminal        *)
(* lifecycle carries and the satisfaction of the intention are left out,   *)
(* no rule of the code reads them.  Wire enums keep the value that no      *)
(* decoder accepts ("Unspecified") and the missing oneof ("Missing").      *)
(***************************************************************************)
EXTENDS Naturals, Sequences, FiniteSets, FiniteSetsExt

CONSTANTS
  Operation,       \* identity of the prepared operation
  Effects,         \* the scopes of its effects, in order and without duplicates
  Attempts,        \* identities of write attempts
  Operations,      \* operation identities that occur in messages
  EffectLists,     \* effect lists that occur in messages
  NoReport,        \* the absent previous report (None)
  MaximumEffects   \* MAXIMUM_EFFECTS

Scopes == {Effects[i] : i \in DOMAIN Effects}

Lifecycles == {"NotDispatched", "MayStillExecute", "Terminal"}
Knowledge  == {"Unknown", "NotApplied", "Applied", "PartiallyApplied"}
WireKnowledge == Knowledge \cup {"Unspecified"}
WireScopes == Scopes \cup UNION {{l[i].scope : i \in DOMAIN l} : l \in EffectLists}

ASSUME EffectsAssumption ==
  /\ Effects \in Seq(Scopes)
  /\ \A i, j \in DOMAIN Effects : Effects[i] = Effects[j] => i = j

ASSUME OperationAssumption == Operation \in Operations

ASSUME EffectListsAssumption ==
  EffectLists \subseteq Seq([scope : WireScopes, knowledge : WireKnowledge])

ASSUME MaximumEffectsAssumption ==
  MaximumEffects \in Nat /\ Len(Effects) <= MaximumEffects

\* The outcomes a process can hold, and the messages that can carry one.
Outcomes ==
  [operation : Operations, attempt : Attempts, lifecycle : Lifecycles,
   effects : Seq([scope : WireScopes, knowledge : Knowledge])]
WireOutcomes ==
  [operation : Operations, attempt : Attempts,
   lifecycle : Lifecycles \cup {"Missing"}, effects : EffectLists]

ASSUME NoReportAssumption == NoReport \notin Outcomes

EffectScopes(o) == {o.effects[i].scope : i \in DOMAIN o.effects}

\* An outcome of attempt a with the given lifecycle and knowledge, its effects
\* listed in the order of the operation's.
OutcomeOf(a, lifecycle, knowledge) ==
  [operation |-> Operation, attempt |-> a, lifecycle |-> lifecycle,
   effects |-> [i \in DOMAIN Effects |->
                 [scope |-> Effects[i], knowledge |-> knowledge[Effects[i]]]]]

\* The map collected from an effect list keeps the last entry of a scope.
KnowledgeOf(o, s) ==
  o.effects[Max({i \in DOMAIN o.effects : o.effects[i].scope = s})].knowledge

-----------------------------------------------------------------------------
(* Mutated forms of the rules below. *)

ValidForAnyAttempt(o, a) ==
  /\ o.operation = Operation
  /\ Len(o.effects) = Cardinality(Scopes)
  /\ EffectScopes(o) = Scopes
  /\ o.lifecycle = "NotDispatched" =>
       \A i \in DOMAIN o.effects : o.effects[i].knowledge = "NotApplied"

ValidForMissingEffects(o, a) ==
  /\ o.operation = Operation
  /\ o.attempt = a
  /\ EffectScopes(o) \subseteq Scopes

KeepsAppliedOnly(previous, current) ==
  \A i \in DOMAIN previous.effects :
    previous.effects[i].knowledge = "Applied" =>
      KnowledgeOf(current, previous.effects[i].scope) = "Applied"

KeepsPartialLoosely(previous, current) ==
  \A i \in DOMAIN previous.effects :
    LET before == previous.effects[i].knowledge
        after  == KnowledgeOf(current, previous.effects[i].scope)
    IN  /\ before = "Applied" => after = "Applied"
        /\ before = "PartiallyApplied" => after # "NotApplied"
        /\ before = "NotApplied" /\ previous.lifecycle = "Terminal"
             => after = "NotApplied"

KeepsPartialExactly(previous, current) ==
  \A i \in DOMAIN previous.effects :
    LET before == previous.effects[i].knowledge
        after  == KnowledgeOf(current, previous.effects[i].scope)
    IN  before \in {"Applied", "PartiallyApplied"} => after = before

KeepsNotAppliedAlways(previous, current) ==
  \A i \in DOMAIN previous.effects :
    LET before == previous.effects[i].knowledge
        after  == KnowledgeOf(current, previous.effects[i].scope)
    IN  before # "Unknown" => after = before

KeepsNoLifecycle(previous, current) == previous.lifecycle # "NotDispatched"

BarrierUntilReport(o) == o.lifecycle = "NotDispatched"

-----------------------------------------------------------------------------

\* AttemptOutcome::validate_for
ValidFor(o, a) ==
  /\ o.operation = Operation
  /\ o.attempt = a
  /\ Len(o.effects) = Cardinality(Scopes)
  /\ EffectScopes(o) = Scopes
  /\ o.lifecycle = "NotDispatched" =>
       \A i \in DOMAIN o.effects : o.effects[i].knowledge = "NotApplied"

\* AttemptOutcome::requires_barrier
RequiresBarrier(o) == o.lifecycle = "MayStillExecute"

\* The effect rules of validate_attempt_outcome.
KeepsEvidence(previous, current) ==
  \A i \in DOMAIN previous.effects :
    LET before == previous.effects[i].knowledge
        after  == KnowledgeOf(current, previous.effects[i].scope)
    IN  /\ before = "Applied" => after = "Applied"
        /\ before = "PartiallyApplied" => after \notin {"Unknown", "NotApplied"}
        /\ before = "NotApplied" /\ previous.lifecycle = "Terminal"
             => after = "NotApplied"

\* Its lifecycle rules.
KeepsLifecycle(previous, current) ==
  /\ previous.lifecycle # "NotDispatched"
  /\ previous.lifecycle = "Terminal" => current.lifecycle = "Terminal"

\* validate_attempt_outcome; previous is NoReport when there is none.
ValidReport(a, previous, current) ==
  /\ ValidFor(current, a)
  /\ current.lifecycle # "NotDispatched"
  /\ previous # NoReport =>
       /\ ValidFor(previous, a)
       /\ KeepsLifecycle(previous, current)
       /\ KeepsEvidence(previous, current)

\* decode_outcome: the message is rejected, or it becomes the same outcome.
Decodes(w, a) ==
  /\ Len(w.effects) <= MaximumEffects
  /\ \A i \in DOMAIN w.effects : w.effects[i].knowledge \in Knowledge
  /\ w.lifecycle \in Lifecycles
  /\ ValidFor(w, a)

=============================================================================
