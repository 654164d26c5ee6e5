--------------------------- MODULE MCPreparation ----------------------------
(***************************************************************************)
(* Two groups: the progress of a subject with its notes, and its reading   *)
(* history.  The second behavior gives up history and merging.             *)
(***************************************************************************)
EXTENDS Preparation, MCJson

MCProgressFields == {"progress"}
MCLogFields == {"notes", "history"}
MCGroupOf == [f \in {"progress", "notes", "history"} |->
                IF f = "history" THEN "log" ELSE "entry"]

Save(fields, protection, deduplication, reconciliation) ==
  [class |-> "save", effect_fields |-> fields, protection |-> protection,
   deduplication |-> deduplication, reconciliation |-> reconciliation]

MCBehaviors ==
  << [revision |-> 1, subject_roles |-> {"show"}, units |-> {"episode"},
      operations |-> <<Save({"progress", "history"}, {"Conditional", "MonotoneMerge", "BestEffort"},
                            TRUE, {"history"})>>],
     [revision |-> 2, subject_roles |-> {"show"}, units |-> {"episode"},
      operations |-> <<Save({"progress", "notes"}, {"Conditional", "BestEffort"}, FALSE, {})>>] >>

Domain(unit) == [identity |-> "d", revision |-> 1, unit |-> unit, ordering |-> "Ordered",
                 units |-> <<1, 2>>, closed |-> FALSE]

Items(units) == [kind |-> "Items", completed |-> units]
Set(unit, before, after) ==
  [kind |-> "SetCompletion", domain |-> Domain(unit), before |-> before, after |-> after]
Merge(before, additions) ==
  [kind |-> "MergeItems", domain |-> Domain("episode"), before |-> before,
   additions |-> additions]

Scope(a, f) == [account |-> a, subject |-> Subject, field |-> f]
Effect(s, change) == [scope |-> s, group |-> MCGroupOf[s.field], change |-> change]

ProgressEffects ==
  {Effect(Scope(a, "progress"), c) :
     a \in {Account, OtherAccount}, c \in {Set("episode", Items({}), Items({1})), Merge({}, {1})}}

LogEffects ==
  {Effect(Scope(Account, f), [kind |-> "Append", value |-> "digit"]) : f \in {"notes", "history"}}

SetHistory ==
  Effect(Scope(Account, "history"),
         [kind |-> "SetValue", before |-> [kind |-> "Unknown"], after |-> "digit"])

MCEffects == ProgressEffects \cup LogEffects \cup {SetHistory}

MCGroups == [account : {Account}, subject : {Subject}, group : {"entry", "log"}]

MCProtections ==
  [kind : {"Conditional"}, token : {1}, groups : SUBSET MCGroups]
  \cup [kind : {"MonotoneMerge", "BestEffort"}]

Operation(r, effects, protection) ==
  [identity |-> "op", class |-> "save", behavior_revision |-> r, prepared_at |-> 1,
   expires_at |-> 2, effects |-> effects, protection |-> protection,
   replay |-> [kind |-> "Unsupported"], reconciliation |-> NoMethod,
   command |-> [method |-> "save", parameters |-> "digit"]]

Deduplicated(until) ==
  [kind |-> "Deduplicated", key |-> "k", scope |-> "s", valid_until |-> until]

\* Every protection with every choice of effects, and one operation with each
\* way of being wrong elsewhere.
MCOffered ==
  {Operation(r, es, p) :
     r \in 1 .. 2, p \in MCProtections,
     es \in {<<e>> : e \in MCEffects} \cup {<<e, f>> : e \in MCEffects \ {SetHistory}, f \in MCEffects}}
  \cup
  LET here == Scope(Account, "progress")
      good == Operation(1, <<Effect(here, Merge({}, {1}))>>, [kind |-> "BestEffort"])
  IN  {[good EXCEPT !.effects = <<Effect(here, c)>>] :
         c \in {Merge({}, {3}), Set("chapter", Items({}), Items({1})),
                Set("episode", Items({}), Items({3})),
                Set("episode", Items({}), [kind |-> "Prefix", completed |-> 1])}}
      \cup
      {[good EXCEPT !.identity = "another"], [good EXCEPT !.class = "other"],
       [good EXCEPT !.effects = <<>>], [good EXCEPT !.expires_at = 1],
       [good EXCEPT !.command.parameters = "limit"],
       [good EXCEPT !.replay = Deduplicated(2)], [good EXCEPT !.replay = Deduplicated(1)],
       [good EXCEPT !.reconciliation = "history"], [good EXCEPT !.reconciliation = "search"]}

MCRequests ==
  LET at(a, f) == Scope(a, f)
  IN  {<<>>, <<at(Account, "progress")>>, <<at(Account, "history")>>,
       <<at(Account, "progress"), at(Account, "history")>>,
       <<at(Account, "progress"), at(Account, "progress")>>, <<at(OtherAccount, "progress")>>}

=============================================================================
