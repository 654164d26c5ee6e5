----------------------------- MODULE Discovery ------------------------------
(***************************************************************************)
(* Discovering completion subjects: the host walks the pages of a library  *)
(* by cursor, decodes each page and validates it against its account, its  *)
(* page size, the cursor it asked with and the library the page carries.   *)
(*                                                                         *)
(* The provider is one that keeps the contract while the user adds and     *)
(* removes entries, or one that answers with any page.  A label is its     *)
(* length and whether it has control characters; the encoded size of a     *)
(* page is the sum of those of its parts, which are constants.             *)
(* Abstracted: the well-formedness of names and cursors.                   *)
(***************************************************************************)
EXTENDS CompletionWire

CONSTANTS
  Account,
  MaxSubjects,    \* bound: native entries are numbered 1 .. MaxSubjects
  MaximumPageSize,\* MAXIMUM_PAGE_SIZE
  MaximumFields,  \* MAXIMUM_FIELDS
  MaximumLabel,   \* 4096 bytes
  MaximumLibraryBytes, MaximumPageBytes,  \* 256 KiB and 1 MiB, encoded
  LibraryBytes(_), DescriptorBytes(_),    \* encoded sizes of the parts
  MaxPages,       \* bound: pages of a walk with a provider that keeps the
  MaxAnyPages,    \*   contract, and with one that does not
  MaxEdits,       \* bound: changes of the library by its user
  HonestLibrary,  \* what a provider that keeps the contract describes
  HonestSubject(_),
  AnyPages        \* page messages of one that does not

ASSUME DiscoveryAssumption ==
  /\ MaxSubjects \in Nat /\ MaximumPageSize \in Nat \ {0} /\ MaximumFields \in Nat
  /\ MaximumLabel \in Nat /\ MaximumLibraryBytes \in Nat /\ MaximumPageBytes \in Nat
  /\ MaxPages \in Nat /\ MaxAnyPages \in Nat /\ MaxEdits \in Nat

NoCursor == 0
Cursors == 0 .. MaxSubjects

VARIABLES
  honest,     \* whether the provider keeps the contract
  native,     \* entries of the native library
  edits,      \* changes so far
  walking,    \* a walk is under way
  page_size,  \* its page size
  cursor,     \* cursor of the next request
  pages,      \* pages accepted in this walk
  refused     \* of a page that was refused, which is the end of the walk,
              \*   whether a message may be as long and how many entries it
              \*   has: a set of one or none

vars == <<honest, native, edits, walking, page_size, cursor, pages, refused>>

-----------------------------------------------------------------------------
(* Mutated forms of the validators. *)

NextCursorAlwaysSubjects(page, c) == page.subjects # <<>> /\ page.next_cursor # c
NarrowsPermissions(field, declared) ==
  (field.readable => declared.readable) /\ (field.writable => declared.writable)

-----------------------------------------------------------------------------
(* Validation *)

\* validate_fields
ValidFields(fields, behavior) ==
  /\ Len(fields) <= MaximumFields
  /\ \A i, j \in DOMAIN fields : fields[i].field = fields[j].field => i = j
  /\ \A i \in DOMAIN fields :
       /\ fields[i].unit_kinds # {} /\ fields[i].unit_kinds \subseteq behavior.units
       /\ fields[i].readable \/ fields[i].writable
       /\ fields[i].writable => fields[i].field \in WritableFields(behavior)

\* Library::validate
ValidLibrary(library, account) ==
  /\ library.account = account
  /\ ValidBehavior(library.behavior)
  /\ ValidFields(library.fields, library.behavior)

\* validate_request
ValidRequest(size, c) == size \in 1 .. MaximumPageSize /\ c \in Cursors

\* Page::validate, the page's length
Fits(page, size) == Len(page.subjects) <= size

\* Page::validate, next_cursor
NextCursorValid(page, c) ==
  page.next_cursor # NoCursor => page.next_cursor # c /\ page.subjects # <<>>

\* Page::validate, a field of a subject against the library's
Narrows(field, declared) ==
  /\ field.group = declared.group
  /\ field.readable => declared.readable
  /\ field.writable => declared.writable
  /\ field.unit_kinds \subseteq declared.unit_kinds

\* Page::validate, a descriptor
ValidDescriptor(d, library) ==
  /\ d.subject.label.bytes <= MaximumLabel /\ ~d.subject.label.control
  /\ d.subject.role \in library.behavior.subject_roles
  /\ d.fields # <<>> /\ ValidFields(d.fields, library.behavior)
  /\ \A i \in DOMAIN d.fields : \E j \in DOMAIN library.fields :
       library.fields[j].field = d.fields[i].field /\ Narrows(d.fields[i], library.fields[j])

\* Page::validate
ValidPage(page, account, size, c) ==
  /\ ValidRequest(size, c)
  /\ Fits(page, size)
  /\ NextCursorValid(page, c)
  /\ ValidLibrary(page.library, account)
  /\ \A i, j \in DOMAIN page.subjects :
       page.subjects[i].subject.identity = page.subjects[j].subject.identity => i = j
  /\ \A i \in DOMAIN page.subjects : ValidDescriptor(page.subjects[i], page.library)

-----------------------------------------------------------------------------
(* Messages *)

\* TryFrom<CompletionSubjectField>
AcceptsFields(list) ==
  Len(list) <= MaximumFields /\ \A i \in DOMAIN list : AcceptsSet(list[i].unit_kinds)
DecodeFields(list) ==
  [i \in DOMAIN list |-> [list[i] EXCEPT !.unit_kinds = ToSet(@)]]

\* TryFrom<CompletionLibrary>
DecodeLibrary(w) ==
  [w EXCEPT !.behavior = DecodeBehavior(@), !.fields = DecodeFields(@)]
AcceptsLibrary(w) ==
  /\ LibraryBytes(w) <= MaximumLibraryBytes
  /\ Present(w, {"account", "behavior"})
  /\ AcceptsBehavior(w.behavior) /\ AcceptsFields(w.fields)
  /\ ValidLibrary(DecodeLibrary(w), w.account)

\* encoded_len of a page
CursorBytes(c) == IF c = NoCursor THEN 0 ELSE 1
PageBytes(w) ==
  (IF Present(w, {"library"}) THEN LibraryBytes(w.library) ELSE 0)
    + CursorBytes(w.next_cursor)
    + SumFunction([i \in DOMAIN w.subjects |-> DescriptorBytes(w.subjects[i])])

FitsMessage(w) == PageBytes(w) <= MaximumPageBytes

\* TryFrom<CompletionSubjectPage>
AcceptsPage(w) ==
  /\ FitsMessage(w) /\ Len(w.subjects) <= MaximumPageSize
  /\ Present(w, {"library"}) /\ AcceptsLibrary(w.library)
  /\ \A i \in DOMAIN w.subjects :
       /\ Present(w.subjects[i], {"subject"})
       /\ AcceptsSubject(w.subjects[i].subject) /\ AcceptsFields(w.subjects[i].fields)
DecodePage(w) ==
  [w EXCEPT !.library = DecodeLibrary(@),
            !.subjects = [i \in DOMAIN @ |->
               [subject |-> DecodeSubject(@[i].subject), fields |-> DecodeFields(@[i].fields)]]]

-----------------------------------------------------------------------------
(* The provider *)

\* What it says of the library and of each entry is valid by itself, and a
\* page has room for any one entry.
ASSUME HonestAssumption ==
  LET said(n) == HonestSubject(n)
      page(list, c) == [library |-> HonestLibrary, subjects |-> list, next_cursor |-> c]
      meant(n) == [subject |-> DecodeSubject(said(n).subject),
                   fields |-> DecodeFields(said(n).fields)]
  IN  /\ AcceptsLibrary(HonestLibrary) /\ HonestLibrary.account = Account
      /\ \A n \in 1 .. MaxSubjects :
           /\ Present(said(n), {"subject"})
           /\ AcceptsSubject(said(n).subject) /\ AcceptsFields(said(n).fields)
           /\ ValidDescriptor(meant(n), DecodeLibrary(HonestLibrary))
      /\ \A c \in Cursors : /\ FitsMessage(page(<<>>, c))
                           /\ \A n \in 1 .. MaxSubjects : FitsMessage(page(<<said(n)>>, c))
      /\ \A m, n \in 1 .. MaxSubjects :
           meant(m).subject.identity = meant(n).subject.identity => m = n

Upcoming(c) == {n \in native : n > c}

\* Lists of the next n entries after a cursor, in the order of the identities.
NextEntries(c, n) ==
  {list \in [1 .. n -> Upcoming(c)] :
     /\ \A i, j \in 1 .. n : i < j => list[i] < list[j]
     /\ \A m \in Upcoming(c) \ ToSet(list) : \A i \in 1 .. n : list[i] < m}

\* Honest answers: the next entries, and a cursor when entries are left.  A
\* provider may send fewer than it is asked for, but not none.
HonestPages(c, size) ==
  {[library |-> HonestLibrary,
    subjects |-> [i \in DOMAIN list |-> HonestSubject(list[i])],
    next_cursor |-> IF ToSet(list) = Upcoming(c) THEN NoCursor ELSE list[Len(list)]] :
     list \in UNION {NextEntries(c, n) : n \in IF Upcoming(c) = {} THEN {0} ELSE 1 .. size}}

-----------------------------------------------------------------------------

Init ==
  /\ honest \in BOOLEAN
  /\ native \in IF honest THEN SUBSET (1 .. MaxSubjects) ELSE {{}}
  /\ edits = 0
  /\ walking = FALSE /\ page_size = 0 /\ cursor = NoCursor
  /\ pages = <<>> /\ refused = {}

\* The user adds or removes an entry.
Edit(n) ==
  /\ honest /\ edits < MaxEdits
  /\ edits' = edits + 1
  /\ native' = IF n \in native THEN native \ {n} ELSE native \cup {n}
  /\ UNCHANGED <<honest, walking, page_size, cursor, pages, refused>>

StartWalk(size) ==
  /\ ~walking /\ pages = <<>>
  /\ ValidRequest(size, NoCursor)
  /\ walking' = TRUE /\ page_size' = size
  /\ cursor' = NoCursor
  /\ UNCHANGED <<honest, native, edits, pages, refused>>

\* DiscoverCompletionSubjects; validate_completion_subject_page
Turn(w) ==
  /\ walking /\ Len(pages) < IF honest THEN MaxPages ELSE MaxAnyPages
  /\ IF AcceptsPage(w) /\ ValidPage(DecodePage(w), Account, page_size, cursor)
     THEN /\ pages' = Append(pages, DecodePage(w))
          /\ cursor' = w.next_cursor
          /\ walking' = (w.next_cursor # NoCursor)
          /\ UNCHANGED refused
     ELSE /\ refused' = {[fits |-> FitsMessage(w), subjects |-> Len(w.subjects)]}
          /\ walking' = FALSE /\ UNCHANGED <<cursor, pages>>
  /\ UNCHANGED <<honest, native, edits, page_size>>

Next ==
  \/ \E n \in 1 .. MaxSubjects : Edit(n)
  \/ \E size \in 1 .. MaximumPageSize : StartWalk(size)
  \/ \E w \in IF honest THEN HonestPages(cursor, page_size) ELSE AnyPages : Turn(w)

Spec == Init /\ [][Next]_vars

-----------------------------------------------------------------------------

\* An honest provider's pages are accepted: an empty library, a last page that
\* is full, pages cut short by the provider, entries that come and go.  The one
\* that is not is longer than a message may be, although it has no more entries
\* than it was asked for, each fit to be sent; a shorter page would have passed.
RefusedOnlyForSize ==
  honest => \A r \in refused : ~r.fits /\ r.subjects > 1

\* An operation that marks one unit of a kind on a field, under a protection.
Marking(library, subject, field, kind, class, protection) ==
  LET scope == [account |-> library.account, subject |-> subject, field |-> field.field]
      effect == [scope |-> scope, group |-> field.group,
                 change |-> [kind |-> "MergeItems",
                             domain |-> [identity |-> "d", revision |-> 1, unit |-> kind,
                                         ordering |-> "Ordered", units |-> <<1>>,
                                         closed |-> FALSE],
                             before |-> {}, additions |-> {1}]]
  IN  [identity |-> "op", class |-> class, behavior_revision |-> library.behavior.revision,
       prepared_at |-> 0, expires_at |-> 1, effects |-> <<effect>>,
       protection |-> [kind |-> protection, token |-> 1, groups |-> {Group(effect)}],
       replay |-> [kind |-> "Unsupported"], reconciliation |-> NoMethod,
       command |-> [method |-> "m", parameters |-> Digit]]

\* What discovery calls writable can be prepared: whatever page was accepted,
\* for each unit kind of a subject's writable field the library it came with
\* has an operation that writes just that, and that the rules of preparation
\* let through; and the library has declared the field so, in that group.
WritableIsPreparable ==
  \A i \in DOMAIN pages : \A d \in ToSet(pages[i].subjects) : \A f \in ToSet(d.fields) :
    LET library == pages[i].library
    IN  f.writable =>
          /\ \E g \in ToSet(library.fields) :
               /\ g.field = f.field /\ g.group = f.group /\ g.writable
               /\ f.unit_kinds \subseteq g.unit_kinds
          /\ \A kind \in f.unit_kinds :
               \E c \in Capabilities(library.behavior) : \E protection \in c.protection :
                 ValidPreparedFor(
                   Marking(library, d.subject.identity, f, kind, c.class, protection),
                   library.behavior, "op", Account,
                   <<[account |-> Account, subject |-> d.subject.identity, field |-> f.field]>>)

=============================================================================
