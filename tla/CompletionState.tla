-------------------------- MODULE CompletionState ---------------------------
(***************************************************************************)
(* The evidence of a ReadCompletion response: subjects, observations of    *)
(* their completion, access to their fields, references of domains to the  *)
(* native units, and observations of other fields.  State::validate passes *)
(* over each list once and keeps maps of what it has seen; the properties  *)
(* say what a list it accepts means, whatever the order of its items.      *)
(*                                                                         *)
(* The state is a response as its reader decodes it, item by item; a       *)
(* provider may send anything the wire can carry, and one item that does   *)
(* not decode is the end of the response.  Abstracted: the well-formedness *)
(* of names, identities, revisions and references.                         *)
(***************************************************************************)
EXTENDS CompletionWire

CONSTANTS
  Account,            \* the opened account
  Behavior,           \* the behavior described
  MaximumStateItems,  \* MAXIMUM_STATE_ITEMS
  Requests,           \* sets of subjects a host may ask for; {} asks for all
  SubjectLists,       \* lists of subjects of a response
  ObservationMessages, AccessMessages, ReferenceMessages, FieldMessages,
  MaxObservations, MaxAccess, MaxBindings, MaxFields,    \* bounds: list lengths
  MaxItems                                               \* bound: all lists

ASSUME MessagesAssumption ==
  /\ MaximumStateItems \in Nat
  /\ \A l \in SubjectLists : List(l) /\ \A w \in ToSet(l) : SubjectMessage(w)
  /\ \A w \in ObservationMessages : ObservationMessage(w)
  /\ \A w \in ReferenceMessages : ReferencesMessage(w)
  /\ \A w \in FieldMessages : FieldObservationMessage(w)

VARIABLES subjects, observations, access, references, field_observations

response == <<subjects, observations, access, references, field_observations>>

-----------------------------------------------------------------------------
(* The maps of State::validate *)

Ambiguous == [ordering |-> "Ambiguous"]

DomainKey(subject, domain) == <<subject, domain.identity>>

\* BTreeMap::insert
Put(map, k, v) == [x \in DOMAIN map \cup {k} |-> IF x = k THEN v ELSE map[x]]

(* Mutated forms. *)
SeeLast(seen, o) == Put(seen, DomainKey(o.subject, o.domain), o.domain)
GroupOfScope(a) == <<a.scope.account, a.scope.subject, a.scope.field>>
OriginKeyByDomain(o) == <<o.origin, o.subject, o.field, o.domain>>
CoversAny(list, ids) == {o.subject : o \in ToSet(list)} \subseteq ids
AnyDomainSeen(seen, b) == DomainKey(b.subject, b.domain) \in DOMAIN seen

\* or_insert, then None for good once two domains differ
See(seen, o) ==
  LET k == DomainKey(o.subject, o.domain)
  IN  IF k \notin DOMAIN seen THEN Put(seen, k, o.domain)
      ELSE IF seen[k] = o.domain THEN seen ELSE Put(seen, k, Ambiguous)

\* the map after each observation; before any it is empty
SeenUpTo(list) ==
  LET seen[n \in 0 .. Len(list)] == IF n = 0 THEN <<>> ELSE See(seen[n - 1], list[n])
  IN  seen
SeenDomains(list) == SeenUpTo(list)[Len(list)]

NativeGroup(a) == <<a.scope.account, a.scope.subject, a.group>>

\* groups.insert returns the entry it replaces, which must be the same; the
\* first that is not ends the pass.
Enter(state, a) ==
  LET k == NativeGroup(a)
      clash == k \in DOMAIN state.groups /\ state.groups[k] # a.canonical_group
  IN  IF ~state.agree \/ clash THEN [state EXCEPT !.agree = FALSE]
      ELSE [state EXCEPT !.groups = Put(@, k, a.canonical_group)]

EnteredUpTo(list) ==
  LET entered[n \in 0 .. Len(list)] ==
        IF n = 0 THEN [groups |-> <<>>, agree |-> TRUE] ELSE Enter(entered[n - 1], list[n])
  IN  entered
GroupsAgree(list) == EnteredUpTo(list)[Len(list)].agree

Distinct(list, Key(_)) == \A i, j \in DOMAIN list : Key(list[i]) = Key(list[j]) => i = j

-----------------------------------------------------------------------------
(* State::validate *)

\* The domain of a reference is the one that was observed.
DomainObserved(seen, b) ==
  /\ DomainKey(b.subject, b.domain) \in DOMAIN seen
  /\ seen[DomainKey(b.subject, b.domain)] = b.domain

OriginKey(o) == <<o.origin, o.subject, o.field, o.domain.identity>>

\* Every subject has been observed.
Covers(list, ids) == {o.subject : o \in ToSet(list)} = ids

\* A field is not read as completion as well.
NotCompletion(f, list) ==
  \A o \in ToSet(list) :
    f.scope # [account |-> o.account, subject |-> o.subject, field |-> o.field]

SubjectsValid(requested) ==
  LET ids == {s.identity : s \in ToSet(subjects)}
  IN  /\ Cardinality(ids) = Len(subjects)
      /\ requested = {} \/ requested = ids
      /\ \A s \in ToSet(subjects) : s.role \in Behavior.subject_roles

ObservationsValid(list, ids) ==
  /\ \A o \in ToSet(list) :
       /\ ValidObservation(o)
       /\ o.account = Account /\ o.subject \in ids
       /\ o.behavior_revision = Behavior.revision
       /\ o.domain.unit \in Behavior.units
  /\ Distinct(list, OriginKey)
  /\ Covers(list, ids)

BoundUnits(b) == Len(b.units)

\* Bindings are all different, so that their sum is that of the set.
ReferencesValid(list, observed) ==
  LET KeyOf(b) == DomainKey(b.subject, b.domain)
  IN  /\ Distinct(list, KeyOf)
      /\ MapThenSumSet(BoundUnits, ToSet(list)) <= MaximumStateItems
      /\ MapThenSumSet(BindingBytes, ToSet(list)) <= MaximumBytes
      /\ \A b \in ToSet(list) : DomainObserved(SeenDomains(observed), b)

AccessValid(list, ids) ==
  LET ScopeOf(a) == a.scope
  IN  /\ \A a \in ToSet(list) :
           ValidAccess(a, Behavior) /\ a.scope.account = Account /\ a.scope.subject \in ids
      /\ Distinct(list, ScopeOf)
      /\ GroupsAgree(list)

\* The size of a field observation as JSON, all but its value being constant.
FieldFrame == 1
FieldBytes(f) == FieldFrame + IF f.value.kind = "Known" THEN JsonSize(f.value.value) ELSE 0

\* Their fields are all different, and so are they.
FieldsValid(list, ids, accesses, observed) ==
  LET ScopeOf(f) == f.scope
  IN  /\ MapThenSumSet(FieldBytes, ToSet(list)) <= MaximumBytes
      /\ \A f \in ToSet(list) :
           /\ ValidFieldObservation(f)
           /\ \E a \in ToSet(accesses) :
                a.scope = f.scope /\ (f.quality = "Complete" => a.readable)
           /\ f.scope.account = Account /\ f.scope.subject \in ids
           /\ f.behavior_revision = Behavior.revision
           /\ NotCompletion(f, observed)
      /\ Distinct(list, ScopeOf)

Ids == {s.identity : s \in ToSet(subjects)}

ValidParts(obs, acc, refs, fields) ==
  /\ ObservationsValid(obs, Ids)
  /\ ReferencesValid(refs, obs)
  /\ AccessValid(acc, Ids)
  /\ FieldsValid(fields, Ids, acc, obs)

ListsFit ==
  \A list \in {subjects, observations, access, references, field_observations} :
    Len(list) <= MaximumStateItems

\* State::validate
Valid(requested) ==
  /\ ValidBehavior(Behavior) /\ ListsFit
  /\ SubjectsValid(requested)
  /\ ValidParts(observations, access, references, field_observations)

Accepted == \E requested \in Requests : Valid(requested)

-----------------------------------------------------------------------------

ResponseInit ==
  /\ subjects \in {[i \in DOMAIN l |-> DecodeSubject(l[i])] :
                     l \in {k \in SubjectLists : \A i \in DOMAIN k : AcceptsSubject(k[i])}}
  /\ observations = <<>> /\ access = <<>> /\ references = <<>> /\ field_observations = <<>>

Room == Len(observations) + Len(access) + Len(references) + Len(field_observations) < MaxItems

Observe(w) ==
  /\ Room /\ Len(observations) < MaxObservations
  /\ AcceptsObservation(w)
  /\ observations' = Append(observations, DecodeObservation(w))
  /\ UNCHANGED <<subjects, access, references, field_observations>>

Grant(w) ==
  /\ Room /\ Len(access) < MaxAccess
  /\ AcceptsAccess(w, Behavior)
  /\ access' = Append(access, w)
  /\ UNCHANGED <<subjects, observations, references, field_observations>>

Bind(w) ==
  /\ Room /\ Len(references) < MaxBindings
  /\ AcceptsReferences(w)
  /\ references' = Append(references, DecodeReferences(w))
  /\ UNCHANGED <<subjects, observations, access, field_observations>>

ObserveField(w) ==
  /\ Room /\ Len(field_observations) < MaxFields
  /\ AcceptsFieldObservation(w)
  /\ field_observations' = Append(field_observations, DecodeFieldObservation(w))
  /\ UNCHANGED <<subjects, observations, access, references>>

ResponseNext ==
  \/ \E w \in ObservationMessages : Observe(w)
  \/ \E w \in AccessMessages : Grant(w)
  \/ \E w \in ReferenceMessages : Bind(w)
  \/ \E w \in FieldMessages : ObserveField(w)

ResponseSpec == ResponseInit /\ [][ResponseNext]_response

-----------------------------------------------------------------------------

OrdersOf(list) ==
  {[i \in DOMAIN list |-> list[p[i]]] : p \in {q \in [DOMAIN list -> DOMAIN list] : IsInjective(q)}}

\* Whether evidence is accepted does not depend on the order in which a
\* provider lists it.
OrderFree ==
  LET valid == ValidParts(observations, access, references, field_observations)
  IN  \A obs \in OrdersOf(observations), acc \in OrdersOf(access),
         refs \in OrdersOf(references), fields \in OrdersOf(field_observations) :
        ValidParts(obs, acc, refs, fields) <=> valid

\* Accepted references bind a domain on which all observations of the subject
\* agree, and give each of its units a reference of its own.
ReferencesUnambiguous ==
  Accepted =>
    \A b \in ToSet(references) :
      LET same == {o \in ToSet(observations) :
                     o.subject = b.subject /\ o.domain.identity = b.domain.identity}
      IN  same # {} /\ \A o \in same : o.domain = b.domain

\* Evidence that was taken in can be handed on, whatever notation it came in:
\* encoded again it is accepted again and says the same, but for what reading
\* makes of its native JSON, and unless that is then over its limit.  What was
\* read once is never nested too deep to be read again.
Encodable ==
  /\ \A o \in ToSet(observations) :
       LET w == EncodeObservation(o)
       IN  JsonSize(Reread(o.native_value)) <= MaximumJson =>
             AcceptsObservation(w) /\ DecodeObservation(w) = RereadObservation(o)
  /\ \A r \in ToSet(references) : AcceptsReferences(r) /\ DecodeReferences(r) = r
  /\ \A f \in ToSet(field_observations) :
       LET w == EncodeFieldObservation(f)
       IN  (f.value.kind = "Known" => JsonSize(Reread(f.value.value)) <= MaximumJson) =>
             AcceptsFieldObservation(w) /\ DecodeFieldObservation(w) = RereadFieldObservation(f)
  /\ \A s \in ToSet(subjects) :
       LET w == EncodeSubject(s) IN AcceptsSubject(w) /\ DecodeSubject(w) = s

\* In accepted evidence fields of one native group are one canonical group.
GroupsCanonical ==
  Accepted =>
    \A a, b \in ToSet(access) :
      a.scope.subject = b.scope.subject /\ a.group = b.group =>
        a.canonical_group = b.canonical_group

\* Accepted evidence says something of every subject that was asked for, and
\* reads no field of one in two ways: as completion and as a field, or twice
\* from one origin for one domain.
OneReading ==
  \A requested \in Requests :
    Valid(requested) =>
      /\ \A s \in requested \cup Ids : \E o \in ToSet(observations) : o.subject = s
      /\ \A f \in ToSet(field_observations), o \in ToSet(observations) :
           f.scope.subject = o.subject => f.scope.field # o.field
      /\ \A i, j \in DOMAIN observations :
           i # j /\ observations[i].subject = observations[j].subject
                 /\ observations[i].origin = observations[j].origin
                 /\ observations[i].domain.identity = observations[j].domain.identity =>
             observations[i].field # observations[j].field

=============================================================================
