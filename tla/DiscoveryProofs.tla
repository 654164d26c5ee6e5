-------------------------- MODULE DiscoveryProofs ---------------------------
(***************************************************************************)
(* For every library and every limit: an honest provider is refused for    *)
(* nothing but a page of several entries that together are too long,       *)
(* whatever its user changes between the pages, and what any provider's    *)
(* accepted page calls writable can be prepared.                           *)
(*                                                                         *)
(* The second is a fact about one accepted page (WritableOfPage): it is    *)
(* enough that the walk keeps nothing else (Walked).  For the first, a     *)
(* page that fits a message is accepted when its cursor was one of the     *)
(* provider's own and the walk's page size is within the limit (Asking).   *)
(***************************************************************************)
EXTENDS Discovery, FiniteSetTheorems, SequenceTheorems, TLAPS

\* What the host asks with.
Asking ==
  /\ walking => page_size \in 1 .. MaximumPageSize
  /\ honest => native \subseteq 1 .. MaxSubjects /\ cursor \in Cursors
  /\ RefusedOnlyForSize

Accepted(page) == \E size \in 1 .. MaximumPageSize, c \in Cursors : ValidPage(page, Account, size, c)

\* Every page of the walk was accepted.
Walked == pages \in Seq(ToSet(pages)) /\ \A page \in ToSet(pages) : Accepted(page)

Inv == Asking /\ Walked

-----------------------------------------------------------------------------
(* What is writable can be prepared. *)

LEMMA Members ==
  ASSUME NEW list, NEW x \in ToSet(list)
  PROVE  \E i \in DOMAIN list : x = list[i]
BY DEF ToSet

\* The operation that marks a unit passes preparation, under a capability
\* that writes the field and any protection it has: BestEffort asks nothing,
\* Conditional that its one group is named, MonotoneMerge that it only merges.
LEMMA MarkingPrepared ==
  ASSUME NEW library, ValidLibrary(library, Account), NEW subject, NEW field,
         NEW kind \in library.behavior.units,
         NEW c \in Capabilities(library.behavior), field.field \in c.effect_fields,
         NEW protection \in c.protection
  PROVE  ValidPreparedFor(Marking(library, subject, field, kind, c.class, protection),
                          library.behavior, "op", Account,
                          <<[account |-> Account, subject |-> subject, field |-> field.field]>>)
<1> DEFINE scope == [account |-> Account, subject |-> subject, field |-> field.field]
           change == [kind |-> "MergeItems",
                      domain |-> [identity |-> "d", revision |-> 1, unit |-> kind,
                                  ordering |-> "Ordered", units |-> <<1>>, closed |-> FALSE],
                      before |-> {}, additions |-> {1}]
           effect == [scope |-> scope, group |-> field.group, change |-> change]
           op == Marking(library, subject, field, kind, c.class, protection)
<1>1. library.account = Account /\ ValidBehavior(library.behavior)
  BY DEF ValidLibrary
<1>2. /\ op.effects = <<effect>> /\ op.identity = "op" /\ op.class = c.class
      /\ op.behavior_revision = library.behavior.revision
      /\ op.prepared_at = 0 /\ op.expires_at = 1
      /\ op.protection = [kind |-> protection, token |-> 1, groups |-> {Group(effect)}]
      /\ op.replay.kind = "Unsupported" /\ op.reconciliation = NoMethod
      /\ JsonSize(op.command.parameters) = 1
  BY <1>1, JsonAssumption DEF Marking, Digit
<1> HIDE DEF op
<1>3. /\ effect.scope = scope /\ effect.change = change /\ scope.account = Account
      /\ scope.field = field.field
  OBVIOUS
<1>4. /\ change.kind = "MergeItems" /\ change.domain.unit = kind
      /\ change.domain.units = <<1>> /\ change.before \cup change.additions = {1}
  OBVIOUS
<1> HIDE DEF effect, scope, change
<1>5. /\ DOMAIN op.effects = {1} /\ Len(op.effects) = 1 /\ op.effects[1] = effect
      /\ op.effects # <<>>
  BY <1>2
<1>6. ScopesOf(op) = {scope} /\ EffectGroups(op) = {Group(effect)}
  BY <1>3, <1>5 DEF ScopesOf, EffectGroups
<1>7. ValidChange(change) /\ SupportedUnit(change, library.behavior)
  BY <1>4 DEF ValidChange, KnownUnits, SupportedUnit, ToSet
<1>8. Cardinality(ScopesOf(op)) = 1
  BY <1>6, FS_Singleton
<1>9. /\ Declares(op, c) /\ CoversGroups(op) /\ MergesOnly(op) /\ ReplayValid(op, c)
      /\ op.protection.kind \in c.protection
  BY <1>2, <1>3, <1>4, <1>5, <1>6 DEF Declares, CoversGroups, MergesOnly, ReplayValid
<1>10. ValidPrepared(op, library.behavior)
  BY <1>1, <1>2, <1>3, <1>5, <1>7, <1>8, <1>9, LimitsAssumption
  DEF ValidPrepared, ValidCommand, CommandFrame
<1>11. Correlates(op, "op", Account, <<scope>>)
  BY <1>2, <1>3, <1>6 DEF Correlates, IsInjective, ToSet
<1> QED
  BY <1>10, <1>11 DEF ValidPreparedFor, op, scope

\* What WritableIsPreparable says of a page.
Preparable(library, d, f) ==
  /\ \E g \in ToSet(library.fields) :
       /\ g.field = f.field /\ g.group = f.group /\ g.writable
       /\ f.unit_kinds \subseteq g.unit_kinds
  /\ \A kind \in f.unit_kinds :
       \E c \in Capabilities(library.behavior) : \E protection \in c.protection :
         ValidPreparedFor(
           Marking(library, d.subject.identity, f, kind, c.class, protection),
           library.behavior, "op", Account,
           <<[account |-> Account, subject |-> d.subject.identity, field |-> f.field]>>)

LEMMA WritableOfPage ==
  ASSUME NEW page, Accepted(page), NEW d \in ToSet(page.subjects),
         NEW f \in ToSet(d.fields), f.writable
  PROVE  Preparable(page.library, d, f)
<1> DEFINE library == page.library
<1>1. ValidLibrary(library, Account) /\ ValidDescriptor(d, library)
  BY DEF Accepted, ValidPage, ToSet
<1> HIDE DEF library
<1>2. PICK i \in DOMAIN d.fields : f = d.fields[i]
  BY Members
<1>3. PICK j \in DOMAIN library.fields :
        library.fields[j].field = f.field /\ Narrows(f, library.fields[j])
  BY <1>1, <1>2 DEF ValidDescriptor
<1>4. \E g \in ToSet(library.fields) :
        /\ g.field = f.field /\ g.group = f.group /\ g.writable
        /\ f.unit_kinds \subseteq g.unit_kinds
  BY <1>3 DEF Narrows, ToSet
<1>5. f.unit_kinds \subseteq library.behavior.units /\ f.field \in WritableFields(library.behavior)
  BY <1>1, <1>2 DEF ValidDescriptor, ValidFields
<1>6. PICK c \in Capabilities(library.behavior) : f.field \in c.effect_fields
  BY <1>5 DEF WritableFields
<1>7. PICK protection \in c.protection : TRUE
  BY <1>1 DEF ValidLibrary, ValidBehavior
<1> QED
  BY <1>1, <1>4, <1>5, <1>6, <1>7, MarkingPrepared DEF Preparable, library

-----------------------------------------------------------------------------
(* An honest page is accepted, unless its entries are too long together. *)

LEMMA HonestPageAccepted ==
  ASSUME Asking, walking, honest, NEW w \in HonestPages(cursor, page_size)
  PROVE  /\ FitsMessage(w) =>
              AcceptsPage(w) /\ ValidPage(DecodePage(w), Account, page_size, cursor)
         /\ ~FitsMessage(w) => Len(w.subjects) > 1
         /\ w.next_cursor \in Cursors
<1> DEFINE library == DecodeLibrary(HonestLibrary)
<1>1. page_size \in 1 .. MaximumPageSize /\ native \subseteq 1 .. MaxSubjects /\ cursor \in Cursors
  BY DEF Asking
<1> DEFINE pageOf(list) ==
             [library |-> HonestLibrary,
              subjects |-> [i \in DOMAIN list |-> HonestSubject(list[i])],
              next_cursor |-> IF ToSet(list) = Upcoming(cursor) THEN NoCursor
                              ELSE list[Len(list)]]
<1>0. PICK n \in IF Upcoming(cursor) = {} THEN {0} ELSE 1 .. page_size :
        \E list \in NextEntries(cursor, n) : w = pageOf(list)
  BY DEF HonestPages
<1>2. PICK list \in NextEntries(cursor, n) : w = pageOf(list)
  BY <1>0
<1>3. /\ n \in Nat /\ page_size \in Nat /\ MaximumPageSize \in Nat
      /\ n <= page_size /\ page_size <= MaximumPageSize
  BY <1>1, <1>0, DiscoveryAssumption
<1>4. /\ list \in [1 .. n -> Upcoming(cursor)]
      /\ \A i, j \in 1 .. n : i < j => list[i] < list[j]
  BY DEF NextEntries
<1>5. \A i \in 1 .. n : list[i] \in 1 .. MaxSubjects /\ list[i] > cursor
  BY <1>1, <1>4 DEF Upcoming
<1>6. Len(list) = n
  BY <1>3, <1>4, IsASeq, LenProperties
<1> DEFINE subjects == [i \in 1 .. n |-> HonestSubject(list[i])]
<1>7. w.library = HonestLibrary /\ w.subjects = subjects
  BY <1>2, <1>4
<1>8. Len(subjects) = n
  <2>1. subjects \in Seq({subjects[i] : i \in 1 .. n})
    BY <1>3, IsASeq
  <2> QED
    BY <1>3, <2>1, LenProperties
<1>9. \A i \in 1 .. n : subjects[i] = HonestSubject(list[i])
  OBVIOUS
<1>10. FitsMessage(w) => AcceptsPage(w)
  <2>1. \A m \in 1 .. MaxSubjects :
          /\ Present(HonestSubject(m), {"subject"})
          /\ AcceptsSubject(HonestSubject(m).subject) /\ AcceptsFields(HonestSubject(m).fields)
    BY HonestAssumption
  <2>2. DOMAIN subjects = 1 .. n
    OBVIOUS
  <2> HIDE DEF subjects
  <2>3. \A i \in 1 .. n :
          /\ Present(subjects[i], {"subject"})
          /\ AcceptsSubject(subjects[i].subject) /\ AcceptsFields(subjects[i].fields)
    BY <1>5, <1>9, <2>1
  <2>4. Present(w, {"library"}) /\ AcceptsLibrary(w.library)
    BY <1>2, <1>7, HonestAssumption DEF Present
  <2> QED
    BY <1>3, <1>7, <1>8, <2>2, <2>3, <2>4 DEF AcceptsPage
<1> DEFINE page == DecodePage(w)
           decoded(x) == [subject |-> DecodeSubject(x.subject), fields |-> DecodeFields(x.fields)]
<1>11. /\ page.library = library
       /\ page.subjects = [i \in 1 .. n |-> decoded(subjects[i])]
       /\ page.next_cursor = w.next_cursor
  BY <1>2, <1>7 DEF DecodePage
<1> HIDE DEF page
<1>12. DOMAIN page.subjects = 1 .. n /\ \A i \in 1 .. n : page.subjects[i] = decoded(HonestSubject(list[i]))
  BY <1>9, <1>11
<1>13. Len(page.subjects) = n
  <2>1. page.subjects \in Seq({page.subjects[i] : i \in 1 .. n})
    BY <1>3, <1>11, <1>12, IsASeq
  <2> QED
    BY <1>3, <1>12, <2>1, LenProperties
<1>14. Fits(page, page_size)
  BY <1>3, <1>13 DEF Fits
<1>15. w.next_cursor \in Cursors /\ NextCursorValid(page, cursor)
  <2>1. CASE w.next_cursor = NoCursor
    BY <1>11, <2>1, DiscoveryAssumption DEF NextCursorValid, Cursors, NoCursor
  <2>2. CASE w.next_cursor # NoCursor
    <3>1. ToSet(list) # Upcoming(cursor) /\ w.next_cursor = list[n]
      BY <1>2, <1>6, <2>2
    <3>2. n # 0
      <4> SUFFICES ASSUME n = 0 PROVE FALSE
        OBVIOUS
      <4>1. Upcoming(cursor) = {} /\ ToSet(list) = {}
        BY <1>0, <1>4 DEF ToSet
      <4> QED
        BY <3>1, <4>1
    <3>3. list[n] \in 1 .. MaxSubjects /\ list[n] > cursor /\ page.subjects # <<>>
      BY <1>3, <1>5, <1>13, <3>2
    <3> QED
      BY <1>1, <1>11, <3>1, <3>3, DiscoveryAssumption DEF NextCursorValid, Cursors
  <2> QED BY <2>1, <2>2
<1>16. ValidLibrary(page.library, Account)
  BY <1>11, HonestAssumption DEF AcceptsLibrary
<1>17. \A i \in 1 .. n : ValidDescriptor(page.subjects[i], page.library)
  BY <1>5, <1>11, <1>12, HonestAssumption
<1>18. ASSUME NEW i \in 1 .. n, NEW j \in 1 .. n,
              page.subjects[i].subject.identity = page.subjects[j].subject.identity
       PROVE  i = j
  <2>1. list[i] \in 1 .. MaxSubjects /\ list[j] \in 1 .. MaxSubjects
    BY <1>5
  <2>2. decoded(HonestSubject(list[i])).subject.identity
          = decoded(HonestSubject(list[j])).subject.identity
    BY <1>12, <1>18
  <2>3. list[i] = list[j]
    BY <2>1, <2>2, HonestAssumption
  <2> QED
    BY <1>3, <1>4, <1>5, <2>3
<1>19. ValidRequest(page_size, cursor)
  BY <1>1 DEF ValidRequest
<1>20. ValidPage(page, Account, page_size, cursor)
  BY <1>12, <1>14, <1>15, <1>16, <1>17, <1>18, <1>19 DEF ValidPage
<1>21. ~FitsMessage(w) => Len(w.subjects) > 1
  <2> SUFFICES ASSUME n \in {0, 1} PROVE FitsMessage(w)
    BY <1>3, <1>7, <1>8
  <2> DEFINE c == w.next_cursor
  <2>1. w = [library |-> HonestLibrary, subjects |-> subjects, next_cursor |-> c]
    BY <1>2, <1>4
  <2>2. c \in Cursors
    BY <1>15
  <2> HIDE DEF c
  <2>3. CASE n = 0
    <3>1. subjects = <<>>
      BY <2>3
    <3> HIDE DEF subjects
    <3> QED
      BY <2>1, <2>2, <3>1, HonestAssumption
  <2>4. CASE n = 1
    <3>1. subjects = <<HonestSubject(list[1])>> /\ list[1] \in 1 .. MaxSubjects
      BY <1>5, <2>4
    <3> HIDE DEF subjects
    <3> QED
      BY <2>1, <2>2, <3>1, HonestAssumption
  <2> QED
    BY <2>3, <2>4
<1> QED
  BY <1>10, <1>15, <1>20, <1>21 DEF page

-----------------------------------------------------------------------------

LEMMA InvInit == Init => Inv
BY DiscoveryAssumption
DEF Init, Inv, Asking, RefusedOnlyForSize, Walked, ToSet, Cursors, NoCursor

LEMMA InvTurn ==
  ASSUME Inv, NEW w \in IF honest THEN HonestPages(cursor, page_size) ELSE AnyPages, Turn(w)
  PROVE  Inv'
<1> DEFINE page == DecodePage(w)
<1>1. Asking'
  <2>1. CASE honest
    BY <2>1, HonestPageAccepted DEF Inv, Asking, RefusedOnlyForSize, Turn
  <2>2. CASE ~honest
    BY <2>2 DEF Inv, Asking, RefusedOnlyForSize, Turn
  <2> QED BY <2>1, <2>2
<1>2. Walked'
  <2>1. CASE AcceptsPage(w) /\ ValidPage(page, Account, page_size, cursor)
    <3>1. pages' = Append(pages, page)
      BY <2>1 DEF Turn
    <3>2. Accepted(page)
      BY <2>1 DEF ValidPage, ValidRequest, Accepted
    <3> HIDE DEF page
    <3> DEFINE S == ToSet(pages) \cup {page}
    <3>3. pages \in Seq(S)
      BY SeqMonotonic DEF Inv, Walked
    <3>4. pages' \in Seq(S) /\ ToSet(pages') = S
      <4>1. /\ pages' \in Seq(S) /\ Len(pages') = Len(pages) + 1 /\ Len(pages) \in Nat
            /\ \A i \in 1 .. Len(pages) : pages'[i] = pages[i]
            /\ pages'[Len(pages) + 1] = page
        BY <3>1, <3>3, AppendProperties, LenProperties
      <4>2. DOMAIN pages = 1 .. Len(pages) /\ DOMAIN pages' = 1 .. Len(pages) + 1
        BY <3>3, <4>1, LenProperties
      <4> QED
        BY <4>1, <4>2 DEF ToSet
    <3> QED
      BY <3>2, <3>4 DEF Inv, Walked, Accepted
  <2>2. CASE ~(AcceptsPage(w) /\ ValidPage(page, Account, page_size, cursor))
    BY <2>2 DEF Turn, Inv, Walked, Accepted
  <2> QED BY <2>1, <2>2
<1> QED
  BY <1>1, <1>2 DEF Inv

LEMMA InvNext == Inv /\ [Next]_vars => Inv'
<1> SUFFICES ASSUME Inv, [Next]_vars PROVE Inv'
  OBVIOUS
<1>1. CASE \E n \in 1 .. MaxSubjects : Edit(n)
  BY <1>1 DEF Edit, Inv, Asking, RefusedOnlyForSize, Walked, Accepted
<1>2. CASE \E size \in 1 .. MaximumPageSize : StartWalk(size)
  BY <1>2, DiscoveryAssumption
  DEF StartWalk, ValidRequest, Inv, Asking, RefusedOnlyForSize, Walked, Accepted
<1>3. CASE \E w \in IF honest THEN HonestPages(cursor, page_size) ELSE AnyPages : Turn(w)
  BY <1>3, InvTurn
<1>4. CASE UNCHANGED vars
  BY <1>4 DEF vars, Inv, Asking, RefusedOnlyForSize, Walked, Accepted
<1> QED
  BY <1>1, <1>2, <1>3, <1>4 DEF Next

THEOREM Invariant == Spec => []Inv
BY InvInit, InvNext, PTL DEF Spec

\* No page of an honest provider is refused, however the library changes
\* between the pages, but one of several entries that a message has no room for
\* together.
THEOREM HonestRefusedForSize == Spec => []RefusedOnlyForSize
<1>1. Inv => RefusedOnlyForSize
  BY DEF Inv, Asking
<1> QED
  BY <1>1, Invariant, PTL

\* Whatever page was accepted, from any provider: what it calls writable can
\* be prepared.
THEOREM AcceptedIsPreparable == Spec => []WritableIsPreparable
<1>1. Inv => WritableIsPreparable
  <2> SUFFICES ASSUME Inv, NEW i \in DOMAIN pages, NEW d \in ToSet(pages[i].subjects),
                      NEW f \in ToSet(d.fields), f.writable
               PROVE  Preparable(pages[i].library, d, f)
    BY DEF WritableIsPreparable, Preparable
  <2>1. Accepted(pages[i])
    BY DEF Inv, Walked, ToSet
  <2> QED
    BY <2>1, WritableOfPage
<1> QED
  BY <1>1, Invariant, PTL

=============================================================================
