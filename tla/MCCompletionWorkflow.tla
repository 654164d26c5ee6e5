----------------------- MODULE MCCompletionWorkflow -------------------------
(***************************************************************************)
(* A provider that gives up deduplication and a field, one that never had  *)
(* it, and one that lists more units than a message may; domains in either *)
(* order; native JSON below, at and above its limit, read as it was, as    *)
(* another number, as a longer one or not at all.                          *)
(***************************************************************************)
EXTENDS CompletionWorkflow, MCJson

MCScope == [account |-> "account", subject |-> "show", field |-> "progress"]

Save(fields, protection, deduplication) ==
  [class |-> "save", effect_fields |-> fields, protection |-> protection,
   deduplication |-> deduplication, reconciliation |-> {}]

Behavior(r, units, operations) ==
  [revision |-> r, subject_roles |-> {"show"}, units |-> units, operations |-> operations]

All == {"Conditional", "MonotoneMerge", "BestEffort"}
Full == Behavior(1, {"episode"}, <<Save({"progress", "notes"}, All, TRUE)>>)
Plain == Behavior(2, {"episode"}, <<Save({"progress", "notes"}, {"BestEffort"}, FALSE)>>)
Broad == Behavior(3, {"episode", "chapter", "page", "part"}, <<Save({"progress"}, {"BestEffort"}, FALSE)>>)

MCHistories == {<<Full, Plain>>, <<Plain>>, <<Broad>>}

Domain(ordering, units, closed) ==
  [identity |-> "d", revision |-> 1, unit |-> "episode", ordering |-> ordering,
   units |-> units, closed |-> closed]

Observation(domain, quality, presence, value) ==
  [origin |-> "o", account |-> "account", subject |-> "show", field |-> "progress",
   behavior_revision |-> 0, domain |-> domain, quality |-> quality, presence |-> presence,
   native_value |-> value]

Items(units) == [kind |-> "Items", completed |-> units]
Prefix(n) == [kind |-> "Prefix", completed |-> n]
Cardinal(n) == [kind |-> "Cardinality", completed |-> n]
Has(p) == [kind |-> "Present", progress |-> p]

MCObservations ==
  {Observation(Domain("Ordered", <<2, 1>>, TRUE), "Complete", Has(Items({1})), "limit"),
   Observation(Domain("Ordered", <<2, 1>>, FALSE), "Partial", Has(Prefix(1)), "grows"),
   Observation(Domain("Unordered", <<1, 2>>, TRUE), "Stale", Has(Cardinal(2)), "number"),
   Observation(Domain("Ordered", <<1>>, TRUE), "Complete", Has(Cardinal(1)), "deep"),
   Observation(Domain("Unordered", <<1, 2>>, FALSE), "Complete",
               [kind |-> "MeaningfulAbsence"], "digit")}

MCDesires == {Items({1, 2}), Prefix(2), Cardinal(1)}

Extra(change) ==
  [scope |-> [MCScope EXCEPT !.field = "notes"], group |-> "notes", change |-> change]
Known(v) == [kind |-> "Known", value |-> v]

MCAdditions ==
  {<<>>, <<Extra([kind |-> "Append", value |-> "limit"])>>,
   <<Extra([kind |-> "Append", value |-> "grows"])>>,
   <<Extra([kind |-> "SetValue", before |-> Known("over"), after |-> "digit"])>>,
   <<Extra([kind |-> "SetValue", before |-> Known("number"), after |-> "deep"])>>}

MCCommands == {[method |-> "m", parameters |-> p] : p \in {"number", "room", "widens"}}

\* The command with blanks, up to the limit or beyond; what is appended in a
\* notation shorter than the serialiser's.
MCPhrasings(op) ==
  LET w == EncodePrepared(op)
      n == Len(w.effects)
  IN  {[w EXCEPT !.command.parameters = Bytes(MaximumJson, @.json)]}
      \cup IF w.effects[n].change.kind = "Append"
           THEN {[w EXCEPT !.effects[n].change.value = Bytes(MaximumJson, @.json)]} ELSE {}

=============================================================================
