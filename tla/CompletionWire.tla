--------------------------- MODULE CompletionWire ---------------------------
(***************************************************************************)
(* The protobuf form of the completion values and the conversions between  *)
(* the two (completion_wire.rs).  A message can say what no value can: a   *)
(* submessage or a oneof may be missing (the record has no such field), an *)
(* enum unspecified, a set listed with a member twice, JSON be malformed,  *)
(* padded with blanks or nested deeper than it will be read.               *)
(*                                                                         *)
(* For each type, EncodeT is the From<T> of its message, AcceptsT whether  *)
(* the TryFrom of a message succeeds, and DecodeT what it then returns.    *)
(* Where a message has the shape of its value, EncodeT and DecodeT only    *)
(* convert the parts that differ.  DecodeT is inverse to EncodeT but for   *)
(* the native JSON within, which serde_json writes and reads as text: of a *)
(* number that is no integer its reader may make a neighbouring one.       *)
(***************************************************************************)
EXTENDS CompletionModel

\* required: the submessages and oneofs of a message that are there
Present(w, names) == names \subseteq DOMAIN w

-----------------------------------------------------------------------------
(* Mutated forms. *)

AcceptsJsonBelow(bytes) ==
  bytes.raw < MaximumJson /\ bytes.json \in JsonValues /\ JsonDepth(bytes.json) <= MaximumDepth
EncodeJsonPretty(v) == [raw |-> JsonSize(v) + 1, json |-> Reread(v)]
QualityUnlessStale(q) == IF q = "Stale" THEN "Partial" ELSE q

-----------------------------------------------------------------------------
(* What a message is, whoever wrote it: parts may be missing, but scalars,  *)
(* lists and the contents of a oneof that is there are not.                 *)

Malformed == "malformed"
ASSUME MalformedAssumption == Malformed \notin JsonValues

JsonMessage(bytes) == bytes.json \in JsonValues \cup {Malformed}

DomainMessage(w) ==
  Struct(w, {"ordering", "units"}) /\ List(w.units) /\ ToSet(w.units) \subseteq Int

ProgressMessage(w) ==
  /\ Struct(w, {})
  /\ "kind" \in DOMAIN w =>
       /\ w.kind \in {"Items", "Prefix", "Cardinality"} /\ "completed" \in DOMAIN w
       /\ w.kind = "Items" => List(w.completed)

PresenceMessage(w) ==
  /\ Struct(w, {})
  /\ "kind" \in DOMAIN w /\ w.kind = "Present" =>
       "progress" \in DOMAIN w /\ ProgressMessage(w.progress)

ObservationMessage(w) ==
  /\ Struct(w, {"behavior_revision", "quality", "native_value"}) /\ JsonMessage(w.native_value)
  /\ "domain" \in DOMAIN w => DomainMessage(w.domain)
  /\ "presence" \in DOMAIN w => PresenceMessage(w.presence)

ReferencesMessage(w) ==
  /\ Struct(w, {"units"}) /\ List(w.units)
  /\ "domain" \in DOMAIN w => DomainMessage(w.domain)

BeforeMessage(w) ==
  /\ Struct(w, {})
  /\ "kind" \in DOMAIN w /\ w.kind = "Known" => "value" \in DOMAIN w /\ JsonMessage(w.value)

FieldObservationMessage(w) ==
  /\ Struct(w, {"quality", "acquired_at"})
  /\ "scope" \in DOMAIN w =>
       Struct(w.scope, {"field"}) /\ DOMAIN w.scope \subseteq ScopeParts
  /\ "value" \in DOMAIN w => BeforeMessage(w.value)

SubjectMessage(w) == Struct(w, {"classifications"}) /\ List(w.classifications)

-----------------------------------------------------------------------------
(* Sets, JSON, enums *)

EncodeSet(S) == SetToSeq(S)

\* decode_set, decode_names
AcceptsSet(list) == Len(list) <= MaximumItems /\ IsInjective(list)

\* Text: its length and what serde_json reads in it, whatever the nesting.
Bytes(raw, json) == [raw |-> raw, json |-> json]

\* encode_json: no blanks, each number in its shortest notation
EncodeJson(v) == Bytes(JsonSize(v), Reread(v))

\* decode_json bounds the bytes as they came; what they mean may be shorter,
\* and longer where a number has a shorter notation than the serialiser's.
\* The reader gives up on deep nesting.
AcceptsJson(bytes) ==
  /\ bytes.raw <= MaximumJson
  /\ bytes.json # Malformed /\ JsonDepth(bytes.json) <= MaximumDepth
DecodeJson(bytes) == bytes.json

\* encode_quality, decode_quality: of one of Qualities
DecodeQuality(q) == q

-----------------------------------------------------------------------------
(* Domains, references, progress, evidence *)

AcceptsDomain(w) ==
  /\ Present(w, {"identity"})
  /\ w.ordering \in {"Ordered", "Unordered"}
  /\ ValidDomain(w)
DecodeDomain(w) == NewDomain(w)

DecodeReferences(w) == [w EXCEPT !.domain = DecodeDomain(@), !.units = ByUnit(@)]
AcceptsReferences(w) ==
  /\ Len(w.units) <= MaximumItems
  /\ Present(w, {"subject", "domain"}) /\ AcceptsDomain(w.domain)
  /\ \A i \in DOMAIN w.units : Present(w.units[i], {"unit"})
  /\ ValidBinding([w EXCEPT !.domain = DecodeDomain(@)])

EncodeProgress(p) ==
  IF p.kind = "Items" THEN [p EXCEPT !.completed = EncodeSet(@)] ELSE p
AcceptsProgress(w) ==
  /\ Present(w, {"kind"})
  /\ w.kind = "Items" => AcceptsSet(w.completed)
DecodeProgress(w) ==
  IF w.kind = "Items" THEN [w EXCEPT !.completed = ToSet(@)] ELSE w

EncodePresence(p) ==
  IF p.kind = "Present" THEN [p EXCEPT !.progress = EncodeProgress(@)] ELSE p
AcceptsPresence(w) ==
  /\ Present(w, {"kind"})
  /\ w.kind = "Present" => AcceptsProgress(w.progress)
DecodePresence(w) ==
  IF w.kind = "Present" THEN [w EXCEPT !.progress = DecodeProgress(@)] ELSE w

EncodeObservation(o) ==
  [o EXCEPT !.presence = EncodePresence(@), !.native_value = EncodeJson(@)]
DecodeObservation(w) ==
  [w EXCEPT !.domain = DecodeDomain(@), !.quality = DecodeQuality(@),
            !.presence = DecodePresence(@), !.native_value = DecodeJson(@)]
AcceptsObservation(w) ==
  /\ w.quality \in Qualities
  /\ Present(w, {"origin", "account", "subject", "domain", "presence"})
  /\ AcceptsDomain(w.domain) /\ AcceptsPresence(w.presence) /\ AcceptsJson(w.native_value)
  /\ ValidObservation(DecodeObservation(w))

AcceptsScope(w) == Present(w, {"account", "subject"})

EncodeBefore(b) == IF b.kind = "Known" THEN [b EXCEPT !.value = EncodeJson(@)] ELSE b
AcceptsBefore(w) == Present(w, {"kind"}) /\ (w.kind = "Known" => AcceptsJson(w.value))
DecodeBefore(w) == IF w.kind = "Known" THEN [w EXCEPT !.value = DecodeJson(@)] ELSE w

EncodeFieldObservation(f) == [f EXCEPT !.value = EncodeBefore(@)]
DecodeFieldObservation(w) ==
  [w EXCEPT !.quality = DecodeQuality(@), !.value = DecodeBefore(@)]
AcceptsFieldObservation(w) ==
  /\ Present(w, {"scope", "value"}) /\ w.quality \in Qualities
  /\ AcceptsScope(w.scope) /\ AcceptsBefore(w.value)
  /\ ValidFieldObservation(DecodeFieldObservation(w))

\* TryFrom<CompletionEffectGroup>
AcceptsGroup(w) == Present(w, {"account", "subject"})

\* decode_access
AcceptsAccess(w, behavior) ==
  /\ Present(w, {"scope", "canonical_group"})
  /\ AcceptsScope(w.scope) /\ AcceptsGroup(w.canonical_group) /\ ValidAccess(w, behavior)

-----------------------------------------------------------------------------
(* Behaviors *)

EncodeCapability(c) ==
  [c EXCEPT !.effect_fields = EncodeSet(@), !.protection = EncodeSet(@),
            !.reconciliation = EncodeSet(@)]
AcceptsCapability(w) ==
  /\ AcceptsSet(w.effect_fields) /\ AcceptsSet(w.protection) /\ AcceptsSet(w.reconciliation)
  /\ \A i \in DOMAIN w.protection :
       w.protection[i] \in Protections
DecodeCapability(w) ==
  [w EXCEPT !.effect_fields = ToSet(@), !.protection = ToSet(@), !.reconciliation = ToSet(@)]

EncodeBehavior(b) ==
  [b EXCEPT !.subject_roles = EncodeSet(@), !.units = EncodeSet(@),
            !.operations = [i \in DOMAIN @ |-> EncodeCapability(@[i])]]
DecodeBehavior(w) ==
  [w EXCEPT !.subject_roles = ToSet(@), !.units = ToSet(@),
            !.operations = [i \in DOMAIN @ |-> DecodeCapability(@[i])]]
AcceptsBehavior(w) ==
  /\ Len(w.operations) <= MaximumEffects
  /\ \A i \in DOMAIN w.operations : AcceptsCapability(w.operations[i])
  /\ AcceptsSet(w.subject_roles) /\ AcceptsSet(w.units)
  /\ ValidBehavior(DecodeBehavior(w))

-----------------------------------------------------------------------------
(* Intentions and prepared operations *)

EncodeIntention(i) ==
  [i EXCEPT !.baseline = EncodeProgress(@), !.desired = EncodeProgress(@)]
DecodeIntention(w) ==
  [w EXCEPT !.domain = DecodeDomain(@), !.baseline = DecodeProgress(@),
            !.desired = DecodeProgress(@)]
AcceptsIntention(w) ==
  /\ Present(w, {"scope", "domain", "baseline", "desired"})
  /\ AcceptsScope(w.scope) /\ AcceptsDomain(w.domain)
  /\ AcceptsProgress(w.baseline) /\ AcceptsProgress(w.desired)
  /\ ValidIntention(DecodeIntention(w))

EncodeChange(c) ==
  CASE c.kind = "SetCompletion" ->
         [c EXCEPT !.before = EncodeProgress(@), !.after = EncodeProgress(@)]
    [] c.kind = "MergeItems" ->
         [c EXCEPT !.before = EncodeSet(@), !.additions = EncodeSet(@)]
    [] c.kind = "SetValue" -> [c EXCEPT !.before = EncodeBefore(@), !.after = EncodeJson(@)]
    [] c.kind = "Append" -> [c EXCEPT !.value = EncodeJson(@)]
AcceptsChange(w) ==
  /\ Present(w, {"kind"})
  /\ CASE w.kind = "SetCompletion" ->
            /\ Present(w, {"domain", "before", "after"}) /\ AcceptsDomain(w.domain)
            /\ AcceptsProgress(w.before) /\ AcceptsProgress(w.after)
       [] w.kind = "MergeItems" ->
            /\ Present(w, {"domain", "before", "additions"}) /\ AcceptsDomain(w.domain)
            /\ AcceptsSet(w.before) /\ AcceptsSet(w.additions)
       [] w.kind = "SetValue" ->
            Present(w, {"before"}) /\ AcceptsBefore(w.before) /\ AcceptsJson(w.after)
       [] w.kind = "Append" -> AcceptsJson(w.value)
DecodeChange(w) ==
  CASE w.kind = "SetCompletion" ->
         [w EXCEPT !.domain = DecodeDomain(@), !.before = DecodeProgress(@),
                   !.after = DecodeProgress(@)]
    [] w.kind = "MergeItems" ->
         [w EXCEPT !.domain = DecodeDomain(@), !.before = ToSet(@), !.additions = ToSet(@)]
    [] w.kind = "SetValue" -> [w EXCEPT !.before = DecodeBefore(@), !.after = DecodeJson(@)]
    [] w.kind = "Append" -> [w EXCEPT !.value = DecodeJson(@)]

EncodeEffect(e) == [e EXCEPT !.change = EncodeChange(@)]
AcceptsEffect(w) ==
  Present(w, {"scope", "change"}) /\ AcceptsScope(w.scope) /\ AcceptsChange(w.change)
DecodeEffect(w) == [w EXCEPT !.change = DecodeChange(@)]

EncodeProtection(p) ==
  IF p.kind = "Conditional" THEN [p EXCEPT !.groups = EncodeSet(@)] ELSE p
AcceptsProtection(w) ==
  /\ Present(w, {"kind"})
  /\ w.kind = "Conditional" =>
       AcceptsSet(w.groups) /\ \A i \in DOMAIN w.groups : AcceptsGroup(w.groups[i])
DecodeProtection(w) ==
  IF w.kind = "Conditional" THEN [w EXCEPT !.groups = ToSet(@)] ELSE w

\* decode_replay
AcceptsReplay(w) ==
  Present(w, {"kind"}) /\ (w.kind = "Deduplicated" => Present(w, {"key", "scope"}))

EncodePrepared(op) ==
  [op EXCEPT !.effects = [i \in DOMAIN @ |-> EncodeEffect(@[i])],
             !.protection = EncodeProtection(@),
             !.command.parameters = EncodeJson(@)]
DecodePrepared(w) ==
  [w EXCEPT !.effects = [i \in DOMAIN @ |-> DecodeEffect(@[i])],
            !.protection = DecodeProtection(@),
            !.command.parameters = DecodeJson(@)]

\* decode_prepared, up to the validation
WellFormedPrepared(w) ==
  /\ Len(w.effects) <= MaximumEffects
  /\ Present(w, {"command", "identity", "protection", "replay"})
  /\ \A i \in DOMAIN w.effects : AcceptsEffect(w.effects[i])
  /\ AcceptsProtection(w.protection) /\ AcceptsReplay(w.replay)
  /\ AcceptsJson(w.command.parameters)

\* decode_prepared: also by whoever is handed a stored operation again, and
\* then against the behavior of that moment.
AcceptsPrepared(w, behavior) ==
  WellFormedPrepared(w) /\ ValidPrepared(DecodePrepared(w), behavior)

-----------------------------------------------------------------------------
(* Subjects and libraries *)

EncodeSubject(s) == [s EXCEPT !.classifications = EncodeSet(@)]
AcceptsSubject(w) == Present(w, {"identity"}) /\ AcceptsSet(w.classifications)
DecodeSubject(w) == [w EXCEPT !.classifications = ToSet(@)]

-----------------------------------------------------------------------------
(* What a hand-over leaves of a value: all of it, but for native JSON, of   *)
(* which it leaves what is read in its serialisation.  For the properties.  *)

RereadObservation(o) == [o EXCEPT !.native_value = Reread(@)]

RereadBefore(b) == IF b.kind = "Known" THEN [b EXCEPT !.value = Reread(@)] ELSE b
RereadFieldObservation(f) == [f EXCEPT !.value = RereadBefore(@)]

RereadChange(c) ==
  CASE c.kind = "SetValue" -> [c EXCEPT !.before = RereadBefore(@), !.after = Reread(@)]
    [] c.kind = "Append" -> [c EXCEPT !.value = Reread(@)]
    [] OTHER -> c
RereadEffect(e) == [e EXCEPT !.change = RereadChange(@)]
RereadOperation(op) ==
  [op EXCEPT !.effects = [i \in DOMAIN @ |-> RereadEffect(@[i])],
             !.command.parameters = Reread(@)]

=============================================================================
