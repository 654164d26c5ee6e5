-------------------------- MODULE CompletionModel ---------------------------
(***************************************************************************)
(* The values of the completion workflow and the rules they keep: domains, *)
(* progress and observations (completion.rs), intentions, behaviors and    *)
(* prepared operations (completion_operation.rs).  Pure definitions; the   *)
(* modules that extend this one say who builds, sends and checks them.     *)
(*                                                                         *)
(* Abstracted: names, identities and revisions are well-formed values;     *)
(* native JSON is a member of a set, of which only the size of its         *)
(* serialisation, how deep it nests and what a reader makes of that        *)
(* serialisation matter; limits are small numbers.  Units are numbers, for *)
(* their order; a unit's reference comes with its length.                  *)
(***************************************************************************)
EXTENDS Integers, Sequences, FiniteSets, SequencesExt

CONSTANTS
  MaximumItems,    \* MAXIMUM_DOMAIN_UNITS, and of any wire collection
  MaximumEffects,  \* MAXIMUM_EFFECTS, also of a behavior's capabilities
  MaximumJson,     \* 65,536 bytes: native and field values, a whole command
  MaximumBytes,    \* 4 MiB: all references, all field observations
  MaximumDepth,    \* nesting that a JSON reader follows
  JsonValues,      \* native JSON
  JsonSize(_), JsonDepth(_),  \* length of its serialisation, nesting
  Reread(_)        \* what a reader makes of its serialisation

\* The method name and the frame around the parameters of a command.
CommandFrame == 1

ASSUME LimitsAssumption ==
  /\ MaximumItems \in Nat /\ MaximumEffects \in Nat \ {0} /\ MaximumJson \in Nat
  /\ MaximumBytes \in Nat /\ MaximumDepth \in Nat /\ MaximumJson > CommandFrame

\* Reading changes no more than numbers: one that is no integer may come back
\* as its neighbour, with more digits or fewer.
ASSUME JsonAssumption ==
  /\ \A v \in JsonValues :
       /\ JsonSize(v) \in Nat /\ JsonDepth(v) \in Nat
       /\ Reread(v) \in JsonValues /\ JsonDepth(Reread(v)) = JsonDepth(v)
  /\ \E v \in JsonValues : JsonSize(v) = 1

\* The shortest JSON there is.
Digit == CHOOSE v \in JsonValues : JsonSize(v) = 1

-----------------------------------------------------------------------------
(* Mutated forms of the rules below. *)

CoversSome(op) == op.protection.groups # {}
MergesSome(op) == \E i \in DOMAIN op.effects : op.effects[i].change.kind = "MergeItems"
DeclaresAny(op, capability) == \E i \in DOMAIN op.effects :
                                 op.effects[i].scope.field \in capability.effect_fields
ReplayUnchecked(op, capability) ==
  op.replay.kind = "Deduplicated" => op.replay.valid_until > op.prepared_at
BehaviorUnprotected(b) ==
  /\ Len(b.operations) <= MaximumEffects
  /\ \A i \in DOMAIN b.operations : b.operations[i].effect_fields # {}

-----------------------------------------------------------------------------
(* Domains and progress *)

\* The members of a set of numbers in their order.
InOrder(S) ==
  CHOOSE l \in [1 .. Cardinality(S) -> S] : \A i, j \in DOMAIN l : i < j => l[i] < l[j]

\* Domain::new sorts the units of an unordered domain
NewDomain(d) ==
  IF d.ordering = "Unordered" THEN [d EXCEPT !.units = InOrder(ToSet(@))] ELSE d

\* and, before it does, refuses repeated units.
ValidDomain(d) == Len(d.units) <= MaximumItems /\ IsInjective(d.units)

\* Domain::validate_units
KnownUnits(d, units) == units \subseteq ToSet(d.units)

\* Progress::validate
ValidProgress(p, d) ==
  CASE p.kind = "Items"       -> KnownUnits(d, p.completed)
    [] p.kind = "Prefix"      -> d.ordering = "Ordered" /\ p.completed <= Len(d.units)
    [] p.kind = "Cardinality" -> d.closed /\ p.completed <= Len(d.units)

\* The bytes of the units of a binding and of their references.
UnitBytes(u) == u.bytes
BindingBytes(b) == MapThenSumSet(UnitBytes, ToSet(b.units))

\* DomainReferences::new: each unit of the domain has one reference of its own
ValidBinding(b) ==
  /\ BindingBytes(b) <= MaximumBytes
  /\ Len(b.units) = Len(b.domain.units)
  /\ {b.units[i].unit : i \in DOMAIN b.units} = ToSet(b.domain.units)
  /\ Cardinality({b.units[i].reference : i \in DOMAIN b.units}) = Len(b.units)

\* and then sorts them by their unit.
ByUnit(bindings) ==
  LET ids == InOrder({b.unit : b \in ToSet(bindings)})
  IN  [i \in DOMAIN ids |-> CHOOSE b \in ToSet(bindings) : b.unit = ids[i]]

\* Observation::validate
ValidObservation(o) ==
  /\ o.presence.kind = "Present" => ValidProgress(o.presence.progress, o.domain)
  /\ o.presence.kind = "MeaningfulAbsence" => o.quality = "Complete"
  /\ JsonSize(o.native_value) <= MaximumJson

\* Intention::validate
ValidIntention(i) ==
  /\ ValidProgress(i.baseline, i.domain) /\ ValidProgress(i.desired, i.domain)
  /\ i.baseline.kind = i.desired.kind

-----------------------------------------------------------------------------
(* Behaviors and access *)

Capabilities(behavior) == ToSet(behavior.operations)

\* Behavior::validate
ValidBehavior(b) ==
  /\ Len(b.operations) <= MaximumEffects
  /\ \A i, j \in DOMAIN b.operations : b.operations[i].class = b.operations[j].class => i = j
  /\ \A c \in Capabilities(b) : c.effect_fields # {} /\ c.protection # {}

WritableFields(behavior) == UNION {c.effect_fields : c \in Capabilities(behavior)}

\* ResourceAccess::validate
ValidAccess(a, behavior) ==
  ValidBehavior(behavior) /\ (a.writable => a.scope.field \in WritableFields(behavior))

\* FieldObservation::validate
ValidFieldObservation(f) ==
  /\ f.acquired_at >= 0
  /\ f.value.kind = "Known" => JsonSize(f.value.value) <= MaximumJson

-----------------------------------------------------------------------------
(* Prepared operations *)

\* Effect::group
Group(effect) == [account |-> effect.scope.account, subject |-> effect.scope.subject,
                  group |-> effect.group]

EffectGroups(op) == {Group(op.effects[i]) : i \in DOMAIN op.effects}

ScopesOf(op) == {op.effects[i].scope : i \in DOMAIN op.effects}

\* Effect::validate
ValidChange(c) ==
  CASE c.kind = "SetCompletion" ->
         /\ ValidProgress(c.before, c.domain) /\ ValidProgress(c.after, c.domain)
         /\ c.before.kind = c.after.kind
    [] c.kind = "MergeItems" -> KnownUnits(c.domain, c.before \cup c.additions)
    [] OTHER -> TRUE

\* The unit of a completion change is one the behavior lists.
SupportedUnit(c, behavior) ==
  c.kind \in {"SetCompletion", "MergeItems"} => c.domain.unit \in behavior.units

\* Every effect is on a field the capability declares.
Declares(op, capability) == \A i \in DOMAIN op.effects :
                              op.effects[i].scope.field \in capability.effect_fields

\* Protection::Conditional names exactly the groups of its effects.
CoversGroups(op) == op.protection.groups = EffectGroups(op)

\* Protection::MonotoneMerge has additive effects only.
MergesOnly(op) == \A i \in DOMAIN op.effects : op.effects[i].change.kind = "MergeItems"

\* Replay::Deduplicated
ReplayValid(op, capability) ==
  op.replay.kind = "Deduplicated" =>
    capability.deduplication /\ op.replay.valid_until > op.prepared_at

\* the command's serialised size
ValidCommand(command) == JsonSize(command.parameters) + CommandFrame <= MaximumJson

NoMethod == "none"

\* PreparedOperation::validate
ValidPrepared(op, behavior) ==
  /\ ValidBehavior(behavior)
  /\ op.behavior_revision = behavior.revision
  /\ op.expires_at > op.prepared_at
  /\ op.effects # <<>> /\ Len(op.effects) <= MaximumEffects
  /\ ValidCommand(op.command)
  /\ Cardinality(ScopesOf(op)) = Len(op.effects)
  /\ \A i \in DOMAIN op.effects :
       ValidChange(op.effects[i].change) /\ SupportedUnit(op.effects[i].change, behavior)
  /\ \E capability \in Capabilities(behavior) :
       /\ capability.class = op.class
       /\ Declares(op, capability)
       /\ op.protection.kind \in capability.protection
       /\ op.protection.kind = "Conditional" => CoversGroups(op)
       /\ op.protection.kind = "MonotoneMerge" => MergesOnly(op)
       /\ ReplayValid(op, capability)
       /\ op.reconciliation \in capability.reconciliation \cup {NoMethod}

\* The part of validate_for that ties an operation to the request, whose
\* scopes are a list.
Correlates(op, identity, account, scopes) ==
  /\ op.identity = identity
  /\ \A s \in ScopesOf(op) \cup ToSet(scopes) : s.account = account
  /\ scopes # <<>> /\ IsInjective(scopes) /\ ToSet(scopes) \subseteq ScopesOf(op)

\* PreparedOperation::validate_for
ValidPreparedFor(op, behavior, identity, account, scopes) ==
  ValidPrepared(op, behavior) /\ Correlates(op, identity, account, scopes)

-----------------------------------------------------------------------------
(* What a value of each type is, as far as its conversions look at it: sets *)
(* are finite, lists are lists, JSON is JSON, every part is there and       *)
(* domains came out of their constructor.                                   *)

Struct(r, names) == r = [f \in DOMAIN r |-> r[f]] /\ names \subseteq DOMAIN r
List(l) == l \in Seq(ToSet(l))

Qualities == {"Complete", "Partial", "Unreadable", "Stale"}
Protections == {"Conditional", "MonotoneMerge", "BestEffort"}

DomainValue(d) ==
  /\ Struct(d, {"identity", "ordering", "units"}) /\ d.ordering \in {"Ordered", "Unordered"}
  /\ List(d.units) /\ ValidDomain(d) /\ NewDomain(d) = d

ReferencesValue(b) ==
  /\ Struct(b, {"subject", "domain", "units"}) /\ DomainValue(b.domain)
  /\ List(b.units) /\ (\A u \in ToSet(b.units) : "unit" \in DOMAIN u)
  /\ ByUnit(b.units) = b.units

SubjectValue(s) ==
  Struct(s, {"identity", "classifications"}) /\ IsFiniteSet(s.classifications)

ProgressValue(p) ==
  /\ Struct(p, {"kind", "completed"}) /\ p.kind \in {"Items", "Prefix", "Cardinality"}
  /\ p.kind = "Items" => IsFiniteSet(p.completed)

PresenceValue(p) ==
  /\ Struct(p, {"kind"})
  /\ p.kind = "Present" => "progress" \in DOMAIN p /\ ProgressValue(p.progress)

ObservationValue(o) ==
  /\ Struct(o, {"origin", "account", "subject", "behavior_revision", "domain", "quality",
                "presence", "native_value"})
  /\ DomainValue(o.domain) /\ o.quality \in Qualities /\ PresenceValue(o.presence)
  /\ o.native_value \in JsonValues

CapabilityValue(c) ==
  /\ Struct(c, {"effect_fields", "protection", "reconciliation"})
  /\ IsFiniteSet(c.effect_fields) /\ IsFiniteSet(c.reconciliation)
  /\ c.protection \subseteq Protections

BehaviorValue(b) ==
  /\ Struct(b, {"subject_roles", "units", "operations"})
  /\ IsFiniteSet(b.subject_roles) /\ IsFiniteSet(b.units)
  /\ List(b.operations) /\ \A c \in Capabilities(b) : CapabilityValue(c)

ScopeParts == {"account", "subject", "field"}
ScopeValue(s) == Struct(s, ScopeParts) /\ DOMAIN s = ScopeParts

IntentionValue(i) ==
  /\ Struct(i, {"scope", "domain", "baseline", "desired"})
  /\ ScopeValue(i.scope)
  /\ DomainValue(i.domain) /\ ProgressValue(i.baseline) /\ ProgressValue(i.desired)

BeforeValue(b) ==
  Struct(b, {"kind"}) /\ (b.kind = "Known" => "value" \in DOMAIN b /\ b.value \in JsonValues)

FieldObservationValue(f) ==
  /\ Struct(f, {"scope", "acquired_at", "quality", "value"})
  /\ ScopeValue(f.scope) /\ f.quality \in Qualities /\ BeforeValue(f.value)

ChangeValue(c) ==
  \/ /\ Struct(c, {"kind", "domain", "before", "after"}) /\ c.kind = "SetCompletion"
     /\ DomainValue(c.domain) /\ ProgressValue(c.before) /\ ProgressValue(c.after)
  \/ /\ Struct(c, {"kind", "domain", "before", "additions"}) /\ c.kind = "MergeItems"
     /\ DomainValue(c.domain) /\ IsFiniteSet(c.before) /\ IsFiniteSet(c.additions)
  \/ /\ Struct(c, {"kind", "before", "after"}) /\ c.kind = "SetValue"
     /\ BeforeValue(c.before) /\ c.after \in JsonValues
  \/ Struct(c, {"kind", "value"}) /\ c.kind = "Append" /\ c.value \in JsonValues

EffectValue(e) ==
  Struct(e, {"scope", "group", "change"}) /\ ScopeValue(e.scope) /\ ChangeValue(e.change)

ProtectionValue(p) ==
  /\ Struct(p, {"kind"})
  /\ p.kind = "Conditional" =>
       /\ "groups" \in DOMAIN p /\ IsFiniteSet(p.groups)
       /\ \A g \in p.groups : {"account", "subject"} \subseteq DOMAIN g

ReplayValue(r) ==
  /\ Struct(r, {"kind"})
  /\ r.kind = "Deduplicated" =>
       {"key", "scope", "valid_until"} \subseteq DOMAIN r /\ r.valid_until \in Nat

CommandValue(c) == Struct(c, {"parameters"}) /\ c.parameters \in JsonValues

OperationValue(op) ==
  /\ Struct(op, {"identity", "class", "behavior_revision", "prepared_at", "expires_at",
                 "effects", "protection", "replay", "reconciliation", "command"})
  /\ List(op.effects) /\ \A e \in ToSet(op.effects) : EffectValue(e)
  /\ ProtectionValue(op.protection) /\ ReplayValue(op.replay) /\ CommandValue(op.command)

=============================================================================
