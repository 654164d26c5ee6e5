------------------------- MODULE MCCompletionState --------------------------
(***************************************************************************)
(* Two subjects with one domain of two units, which observations order or  *)
(* do not, listing its units either way; two origins; a completion field   *)
(* and one other field.  Every item is a message; among them is one with   *)
(* each way of being malformed or wrong by itself.                         *)
(***************************************************************************)
EXTENDS CompletionState, MCJson

MCBehavior ==
  [revision |-> 1, subject_roles |-> {"show"}, units |-> {"episode"},
   operations |-> <<[class |-> "save", effect_fields |-> {"progress"},
                     protection |-> {"BestEffort"}, deduplication |-> FALSE,
                     reconciliation |-> {}]>>]

MCRequests == {{}, {"s1"}, {"s1", "s2"}}

\* A message that lacks a part.
Without(w, part) == [f \in DOMAIN w \ {part} |-> w[f]]

Subject(s, r, classes) == [identity |-> s, role |-> r, classifications |-> classes]

MCSubjectLists ==
  {<<Subject("s1", "show", <<>>)>>,
   <<Subject("s1", "show", <<"a", "b">>), Subject("s2", "show", <<>>)>>,
   <<Subject("s1", "film", <<>>)>>, <<Subject("s1", "show", <<"a", "a">>)>>,
   <<Without(Subject("s1", "show", <<>>), "identity")>>}

RawDomain(ordering, units) ==
  [identity |-> "d", unit |-> "episode", ordering |-> ordering, units |-> units, closed |-> FALSE]

MCDomains == {RawDomain("Ordered", <<1, 2>>), RawDomain("Unordered", <<2, 1>>),
              RawDomain("Unordered", <<1, 2>>)}

Observation(origin, s, f, d, p) ==
  [origin |-> origin, account |-> Account, subject |-> s, field |-> f, behavior_revision |-> 1,
   domain |-> d, quality |-> "Stale", presence |-> [kind |-> "Present", progress |-> p],
   native_value |-> Bytes(1, "digit")]

Prefix(n) == [kind |-> "Prefix", completed |-> n]
Items(list) == [kind |-> "Items", completed |-> list]

Ordinary == Observation("o1", "s1", "progress", RawDomain("Ordered", <<1, 2>>), Items(<<1>>))

\* Observations that only differ in what the lists tell apart, and others.
MCObservationMessages ==
  {Observation(o, s, "progress", d, Items(<<1>>)) : o \in {"o1", "o2"}, s \in {"s1", "s2"},
                                                    d \in MCDomains}
  \cup {[Ordinary EXCEPT !.account = "other"], [Ordinary EXCEPT !.behavior_revision = 2],
        [Ordinary EXCEPT !.presence.progress = Prefix(3)],
        [Ordinary EXCEPT !.presence.progress = Items(<<3>>)],
        [Ordinary EXCEPT !.presence.progress = Items(<<2, 1>>)],
        [Ordinary EXCEPT !.presence.progress = Items(<<1, 1>>)],
        [Ordinary EXCEPT !.presence.progress = [kind |-> "Cardinality", completed |-> 1]],
        [Ordinary EXCEPT !.presence = [kind |-> "MeaningfulAbsence"]],
        [Ordinary EXCEPT !.presence = Without([kind |-> "Unknown"], "kind")],
        [Ordinary EXCEPT !.quality = "Unspecified"], Without(Ordinary, "domain"),
        [Ordinary EXCEPT !.native_value = Bytes(2, "number")],
        [Ordinary EXCEPT !.native_value = Bytes(2, "limit")],
        [Ordinary EXCEPT !.native_value = Bytes(2, "grows")],
        [Ordinary EXCEPT !.native_value = Bytes(2, "over")],
        [Ordinary EXCEPT !.native_value = Bytes(3, "digit")],
        [Ordinary EXCEPT !.native_value = Bytes(1, "deep")],
        [Ordinary EXCEPT !.native_value = Bytes(1, Malformed)],
        [Ordinary EXCEPT !.field = "notes"],
        [Ordinary EXCEPT !.presence.progress = Prefix(1),
                         !.domain = RawDomain("Unordered", <<1, 2>>)]}

Scope(s, f) == [account |-> Account, subject |-> s, field |-> f]

Canonical(g) == [account |-> Account, subject |-> "s1", group |-> g]

MCAccessMessages ==
  {[scope |-> Scope("s1", f), group |-> "entry", canonical_group |-> Canonical(g), readable |-> r,
    writable |-> f = "progress"] : f \in {"progress", "notes"}, g \in {"c1", "c2"}, r \in BOOLEAN}
  \cup {[scope |-> Scope("s1", "notes"), group |-> "entry", canonical_group |-> Canonical("c1"),
         readable |-> TRUE, writable |-> TRUE]}

Ref(u, r) == [unit |-> u, reference |-> r, bytes |-> IF r = "long" THEN 4 ELSE 1]

MCReferenceMessages ==
  {[subject |-> s, domain |-> d, units |-> us] :
     s \in {"s1", "s2"}, d \in MCDomains,
     us \in {<<Ref(2, "a"), Ref(1, "b")>>}}
  \cup {[subject |-> "s1", domain |-> RawDomain("Ordered", <<1, 2>>), units |-> us] :
          us \in {<<Ref(1, "a"), Ref(2, "a")>>, <<Ref(1, "long"), Ref(2, "b")>>}}

Known(bytes) == [kind |-> "Known", value |-> bytes]

MCFieldMessages ==
  {[scope |-> Scope("s1", f), behavior_revision |-> v, acquired_at |-> 0, quality |-> q,
    value |-> Known(Bytes(1, "digit"))] :
     f \in {"progress", "notes"}, v \in {1, 2}, q \in {"Complete", "Stale"}}
  \cup {[scope |-> Scope("s1", "notes"), behavior_revision |-> 1, acquired_at |-> t,
         quality |-> "Stale", value |-> v] :
           t \in {-1, 0},
           v \in {Known(Bytes(2, "over")), Known(Bytes(2, "grows")), Known(Bytes(1, "deep")),
                  [kind |-> "Unknown"], Without([kind |-> "Unknown"], "kind")}}

=============================================================================
