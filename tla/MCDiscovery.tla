---------------------------- MODULE MCDiscovery -----------------------------
(***************************************************************************)
(* A library with one field of progress, and pages that differ from its    *)
(* own in the library they carry or in what they say of a subject.  Labels *)
(* make some entries of the honest library too long for one page.          *)
(***************************************************************************)
EXTENDS Discovery, MCJson

Field(f, group, kinds, readable, writable) ==
  [field |-> f, group |-> group, unit_kinds |-> kinds, readable |-> readable,
   writable |-> writable]

Save(fields, protection) ==
  [class |-> "save", effect_fields |-> fields, protection |-> protection,
   deduplication |-> FALSE, reconciliation |-> <<>>]

Behavior(operations) ==
  [revision |-> 1, units |-> <<"episode">>, subject_roles |-> <<"show">>,
   operations |-> operations]

Library(account, operations, fields) ==
  [account |-> account, behavior |-> Behavior(operations), fields |-> fields]

Progress(writable) == Field("progress", "entry", <<"episode">>, TRUE, writable)

Saves == <<Save(<<"progress">>, <<"Conditional">>)>>

\* A message that lacks a part.
Without(w, part) == [f \in DOMAIN w \ {part} |-> w[f]]

MCHonestLibrary == Library(Account, Saves, <<Progress(TRUE)>>)

Label(n) == [bytes |-> n, control |-> FALSE]
Subject(n, role) ==
  [identity |-> n, label |-> Label(1), role |-> role, classifications |-> <<>>]
MCHonestSubject(n) ==
  [subject |-> [Subject(n, "show") EXCEPT !.label = Label(IF n \in {2, 3} THEN MaximumLabel ELSE 1)],
   fields |-> <<Progress(TRUE)>>]

\* A library has a byte for each field, a descriptor one for each of its label.
MCLibraryBytes(w) == 1 + Len(w.fields)
MCDescriptorBytes(w) == IF Present(w, {"subject"}) THEN w.subject.label.bytes ELSE 0

Libraries ==
  {MCHonestLibrary,
   Library("other", Saves, <<Progress(TRUE)>>),
   Without(MCHonestLibrary, "account"), Without(MCHonestLibrary, "behavior"),
   Library(Account, <<>>, <<Progress(TRUE)>>),
   Library(Account, <<Save(<<"progress">>, <<>>)>>, <<Progress(TRUE)>>),
   Library(Account, Saves, <<Progress(FALSE)>>),
   Library(Account, Saves, <<Field("progress", "entry", <<"chapter">>, TRUE, TRUE)>>),
   Library(Account, Saves, <<Progress(TRUE), Progress(FALSE)>>),
   Library(Account, Saves, <<Progress(TRUE), Field("notes", "entry", <<"episode">>, TRUE, FALSE)>>)}

FieldLists ==
  {<<>>, <<Progress(TRUE)>>, <<Progress(FALSE)>>,
   <<Field("progress", "other", <<"episode">>, TRUE, TRUE)>>,
   <<Field("progress", "entry", <<"chapter">>, TRUE, TRUE)>>,
   <<Field("progress", "entry", <<"episode", "episode">>, TRUE, TRUE)>>,
   <<Field("notes", "entry", <<"episode">>, TRUE, FALSE)>>}

Descriptors ==
  {[subject |-> Subject(1, "show"), fields |-> fs] : fs \in FieldLists}
  \cup {[subject |-> Subject(n, r), fields |-> <<Progress(TRUE)>>] :
          n \in {1, 2}, r \in {"show", "other"}}
  \cup {[subject |-> s, fields |-> <<Progress(TRUE)>>] :
          s \in {Without(Subject(1, "show"), "identity"),
                 [Subject(1, "show") EXCEPT !.label = Label(MaximumLabel + 1)],
                 [Subject(1, "show") EXCEPT !.label.control = TRUE]}}
  \cup {[fields |-> <<Progress(TRUE)>>]}

MCAnyPages ==
  [library : Libraries, subjects : UNION {[1 .. n -> Descriptors] : n \in 0 .. 2},
   next_cursor : 0 .. 2]
  \cup {[subjects |-> <<>>, next_cursor |-> 0]}

=============================================================================
