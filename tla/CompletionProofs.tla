-------------------------- MODULE CompletionProofs --------------------------
(***************************************************************************)
(* For every behavior a provider may go through, every observation, every  *)
(* wish and every operation made of them: what a receiver works with is    *)
(* what the sender meant, what is refused had a reason a message can have, *)
(* and an operation executed again under its replay guarantee is carried   *)
(* out once.  For every response: what its reader took in can be handed    *)
(* on, and what State::validate accepts says one thing of each subject, in *)
(* whatever order it came.                                                 *)
(*                                                                         *)
(* First the conversions: DecodeT is inverse to EncodeT for each type T,   *)
(* but for what reading makes of native JSON, which rests on SetRoundTrip  *)
(* and Sorted, the listings of a finite set; what was encoded of a valid   *)
(* value is accepted, if its JSON can be read; what was decoded is a       *)
(* value.  They say of all values what a run can only say of a few.        *)
(***************************************************************************)
EXTENDS CompletionWorkflow, CompletionState, FiniteSetTheorems, FunctionTheorems,
        SequenceTheorems, WellFoundedInduction, TLAPS

(* Induction: the library's theorems on it take a predicate as an operator; *)
(* here a predicate is the set of the numbers that satisfy it.             *)

LEMMA NatMin ==
  ASSUME NEW T, T \subseteq Nat, T # {}
  PROVE  \E x \in T : \A y \in T : x <= y
<1>1. \E R : IsWellFoundedOn(R, Nat) /\ \A a, b \in Nat : a < b => <<a, b>> \in R
  <2> DEFINE R == {ss \in Nat \X Nat : ss[1] < ss[2]}
  <2>1. IsWellFoundedOn(R, Nat)
    BY NatLessThanWellFounded, Zenon DEF OpToRel
  <2>2. \A a, b \in Nat : a < b => <<a, b>> \in R
    OBVIOUS
  <2> HIDE DEF R
  <2> QED BY <2>1, <2>2
<1>2. PICK R : IsWellFoundedOn(R, Nat) /\ \A a, b \in Nat : a < b => <<a, b>> \in R
  BY <1>1
<1>3. IsWellFoundedOn(R, Nat)
  BY <1>2
<1>4. PICK x \in T : \A y \in T : ~(<<y, x>> \in R)
  BY <1>3, WFMin, Zenon
<1>5. \A y \in T : ~(y < x)
  BY <1>2, <1>4
<1> QED
  BY <1>5

LEMMA NatSet ==
  ASSUME NEW S, S \subseteq Nat, 0 \in S, \A n \in S : n + 1 \in S
  PROVE  S = Nat
<1> SUFFICES ASSUME Nat \ S # {} PROVE FALSE
  OBVIOUS
<1> DEFINE T == Nat \ S
<1>1. T # {} /\ T \subseteq Nat /\ (\A x \in T : x \in Nat /\ x \notin S)
      /\ (\A x \in Nat : x \notin S => x \in T)
  OBVIOUS
<1> HIDE DEF T
<1>2. PICK x \in T : \A y \in T : x <= y
  BY <1>1, NatMin, Zenon
<1>3. x # 0 /\ x - 1 \in Nat /\ x - 1 \in S
  BY <1>1, <1>2
<1> QED
  BY <1>1, <1>2, <1>3

-----------------------------------------------------------------------------
(* Lists of sets *)

\* A list of as many members as there are, none twice, has them all.
LEMMA ListedOnce ==
  ASSUME NEW S, IsFiniteSet(S), NEW f \in [1 .. Cardinality(S) -> S], IsInjective(f)
  PROVE  f \in Seq(S) /\ Len(f) = Cardinality(S) /\ ToSet(f) = S
<1> DEFINE n == Cardinality(S)
<1>1. n \in Nat
  BY FS_CardinalityType
<1>2. f \in Seq(S)
  BY <1>1, IsASeq
<1>3. Len(f) = n
  BY <1>1, <1>2, LenProperties
<1>4. ToSet(f) = S
  <2>1. f \in Injection(1 .. n, S)
    BY DEF IsInjective, Injection
  <2>2. IsFiniteSet(1 .. n) /\ Cardinality(1 .. n) = n
    BY <1>1, FS_Interval
  <2>3. f \in Surjection(1 .. n, S)
    BY <2>1, <2>2, FS_Injection
  <2> QED
    BY <2>3 DEF Surjection, ToSet
<1> QED
  BY <1>2, <1>3, <1>4

\* A finite set is listed without repetition, and the list has its members.
LEMMA SetRoundTrip ==
  ASSUME NEW S, IsFiniteSet(S)
  PROVE  /\ ToSet(EncodeSet(S)) = S
         /\ Len(EncodeSet(S)) = Cardinality(S)
         /\ EncodeSet(S) \in Seq(S)
         /\ IsInjective(EncodeSet(S))
<1> DEFINE n == Cardinality(S)
           f == EncodeSet(S)
<1>1. PICK g \in [1 .. n -> S] : g \in Bijection(1 .. n, S)
  BY FS_CardinalityType DEF ExistsBijection, Bijection, Injection, Surjection
<1>2. IsInjective(g)
  BY <1>1 DEF Bijection, Injection, IsInjective
<1>3. f \in [1 .. n -> S] /\ IsInjective(f)
  BY <1>1, <1>2 DEF EncodeSet, SetToSeq
<1> HIDE DEF f
<1> QED
  BY <1>3, ListedOnce DEF f

\* A finite list has no more members than entries.
LEMMA ListedMembers ==
  ASSUME NEW l, List(l)
  PROVE  /\ Len(l) \in Nat /\ DOMAIN l = 1 .. Len(l)
         /\ IsFiniteSet(ToSet(l)) /\ Cardinality(ToSet(l)) <= Len(l)
<1>1. Len(l) \in Nat /\ DOMAIN l = 1 .. Len(l) /\ l = [i \in 1 .. Len(l) |-> l[i]]
  BY DEF List
<1>2. IsFiniteSet(1 .. Len(l)) /\ Cardinality(1 .. Len(l)) = Len(l)
  <2> DEFINE n == Len(l)
  <2>1. n \in Nat
    BY <1>1
  <2> HIDE DEF n
  <2>2. IsFiniteSet(1 .. n) /\ Cardinality(1 .. n) = n
    BY <2>1, FS_Interval
  <2> QED
    BY <2>2 DEF n
<1>3. l \in Surjection(1 .. Len(l), ToSet(l))
  BY <1>1 DEF Surjection, ToSet
<1> QED
  BY <1>1, <1>2, <1>3, FS_Surjection

LEMMA HasGreatest ==
  \A S \in SUBSET Int :
    IsFiniteSet(S) /\ S # {} => \E m \in S : \A x \in S : x <= m
<1> DEFINE P(n) == \A S \in SUBSET Int :
                    IsFiniteSet(S) /\ Cardinality(S) = n /\ S # {} =>
                      \E m \in S : \A x \in S : x <= m
           N == {n \in Nat : P(n)}
<1>1. P(0)
  BY FS_EmptySet
<1>2. ASSUME NEW n \in Nat, P(n) PROVE P(n + 1)
  <2> SUFFICES ASSUME NEW S \in SUBSET Int, IsFiniteSet(S), Cardinality(S) = n + 1, S # {}
               PROVE  \E m \in S : \A x \in S : x <= m
    OBVIOUS
  <2>1. PICK a \in S : TRUE
    OBVIOUS
  <2>2. IsFiniteSet(S \ {a}) /\ Cardinality(S \ {a}) = n
    BY FS_RemoveElement
  <2>3. CASE S \ {a} = {}
    BY <2>3
  <2>4. CASE S \ {a} # {}
    <3>1. PICK m \in S \ {a} : \A x \in S \ {a} : x <= m
      BY <1>2, <2>2, <2>4
    <3>2. CASE a <= m
      BY <3>1, <3>2
    <3>3. CASE m <= a
      BY <3>1, <3>3
    <3> QED BY <3>2, <3>3
  <2> QED BY <2>3, <2>4
<1> HIDE DEF P
<1>3. N = Nat
  <2>1. N \subseteq Nat /\ 0 \in N /\ \A n \in N : n + 1 \in N
    BY <1>1, <1>2
  <2> HIDE DEF N
  <2> QED BY <2>1, NatSet, Zenon
<1> QED
  BY <1>3, FS_CardinalityType DEF P

LEMMA CanBeOrdered ==
  \A S \in SUBSET Int :
    IsFiniteSet(S) =>
      \E l \in [1 .. Cardinality(S) -> S] : \A i, j \in DOMAIN l : i < j => l[i] < l[j]
<1> DEFINE Ordered(l) == \A i, j \in DOMAIN l : i < j => l[i] < l[j]
           P(n) == \A S \in SUBSET Int :
                    IsFiniteSet(S) /\ Cardinality(S) = n => \E l \in [1 .. n -> S] : Ordered(l)
           N == {n \in Nat : P(n)}
<1>1. P(0)
  <2>1. \A S : [i \in 1 .. 0 |-> 0] \in [1 .. 0 -> S] /\ Ordered([i \in 1 .. 0 |-> 0])
    OBVIOUS
  <2> HIDE DEF Ordered
  <2> QED BY <2>1
<1>2. ASSUME NEW n \in Nat, P(n) PROVE P(n + 1)
  <2> SUFFICES ASSUME NEW S \in SUBSET Int, IsFiniteSet(S), Cardinality(S) = n + 1
               PROVE  \E l \in [1 .. n + 1 -> S] : Ordered(l)
    OBVIOUS
  <2>1. S # {}
    BY FS_EmptySet
  <2>2. PICK m \in S : \A x \in S : x <= m
    BY <2>1, HasGreatest
  <2>3. IsFiniteSet(S \ {m}) /\ Cardinality(S \ {m}) = n /\ S \ {m} \in SUBSET Int
    BY FS_RemoveElement
  <2>4. PICK k \in [1 .. n -> S \ {m}] : Ordered(k)
    BY <1>2, <2>3
  <2> DEFINE l == [i \in 1 .. n + 1 |-> IF i <= n THEN k[i] ELSE m]
  <2>5. \A x \in S \ {m} : x \in S /\ x \in Int /\ x < m
    BY <2>2
  <2>6. \A i \in 1 .. n : k[i] \in S \ {m}
    BY <2>4
  <2>7. \A i \in 1 .. n : k[i] \in S /\ k[i] \in Int /\ k[i] < m
    BY <2>5, <2>6
  <2>8. l \in [1 .. n + 1 -> S]
    BY <2>7
  <2>9. Ordered(l)
    BY <2>4, <2>7
  <2> HIDE DEF l, Ordered
  <2> QED BY <2>8, <2>9
<1> HIDE DEF P
<1>3. N = Nat
  <2>1. N \subseteq Nat /\ 0 \in N /\ \A n \in N : n + 1 \in N
    BY <1>1, <1>2
  <2> HIDE DEF N
  <2> QED BY <2>1, NatSet, Zenon
<1> QED
  BY <1>3, FS_CardinalityType DEF P

\* Sorting lists each number once.
LEMMA Sorted ==
  ASSUME NEW S, S \subseteq Int, IsFiniteSet(S)
  PROVE  /\ InOrder(S) \in Seq(S) /\ Len(InOrder(S)) = Cardinality(S)
         /\ DOMAIN InOrder(S) = 1 .. Cardinality(S)
         /\ ToSet(InOrder(S)) = S /\ IsInjective(InOrder(S))
<1> DEFINE l == InOrder(S)
<1>1. l \in [1 .. Cardinality(S) -> S] /\ \A i, j \in DOMAIN l : i < j => l[i] < l[j]
  BY CanBeOrdered DEF InOrder
<1>2. Cardinality(S) \in Nat
  BY FS_CardinalityType
<1> HIDE DEF l
<1>3. \A i \in 1 .. Cardinality(S) : l[i] \in Int
  BY <1>1
<1>4. IsInjective(l)
  BY <1>1, <1>2, <1>3 DEF IsInjective
<1> QED
  BY <1>1, <1>4, ListedOnce DEF l

-----------------------------------------------------------------------------
(* Decoding what was encoded: it is the value again, its JSON read.         *)

LEMMA JsonReread ==
  ASSUME NEW v \in JsonValues
  PROVE  /\ JsonSize(v) \in Nat /\ JsonDepth(v) \in Nat
         /\ Reread(v) \in JsonValues /\ JsonSize(Reread(v)) \in Nat
         /\ JsonDepth(Reread(v)) = JsonDepth(v)
BY JsonAssumption

LEMMA ProgressRoundTrip ==
  ASSUME NEW p, ProgressValue(p)
  PROVE  DecodeProgress(EncodeProgress(p)) = p
BY SetRoundTrip DEF ProgressValue, Struct, EncodeProgress, DecodeProgress

LEMMA PresenceRoundTrip ==
  ASSUME NEW p, PresenceValue(p)
  PROVE  DecodePresence(EncodePresence(p)) = p
BY ProgressRoundTrip DEF PresenceValue, Struct, EncodePresence, DecodePresence

LEMMA ObservationRoundTrip ==
  ASSUME NEW o, ObservationValue(o)
  PROVE  DecodeObservation(EncodeObservation(o)) = RereadObservation(o)
<1>1. DecodePresence(EncodePresence(o.presence)) = o.presence
  BY PresenceRoundTrip DEF ObservationValue
<1>2. NewDomain(o.domain) = o.domain
  BY DEF ObservationValue, DomainValue
<1> QED
  BY <1>1, <1>2
  DEF ObservationValue, Struct, EncodeObservation, DecodeObservation, DecodeDomain,
      DecodeQuality, EncodeJson, DecodeJson, Bytes, RereadObservation

\* All of an observation but its native value is as it was.
LEMMA ObservationReread ==
  ASSUME NEW o, ObservationValue(o)
  PROVE  LET r == RereadObservation(o)
         IN  /\ ObservationValue(r) /\ DOMAIN r = DOMAIN o
             /\ r.native_value = Reread(o.native_value)
             /\ \A x \in DOMAIN o \ {"native_value"} : r[x] = o[x]
<1> DEFINE r == RereadObservation(o)
<1>1. /\ r = [x \in DOMAIN r |-> r[x]] /\ DOMAIN r = DOMAIN o
      /\ r.native_value = Reread(o.native_value)
      /\ \A x \in DOMAIN o \ {"native_value"} : r[x] = o[x]
  BY DEF ObservationValue, Struct, RereadObservation
<1> HIDE DEF r
<1>2. Reread(o.native_value) \in JsonValues
  BY JsonReread DEF ObservationValue
<1>3. ObservationValue(r)
  BY <1>1, <1>2 DEF ObservationValue, Struct
<1> QED
  BY <1>1, <1>3 DEF r

LEMMA IntentionRoundTrip ==
  ASSUME NEW i, IntentionValue(i)
  PROVE  DecodeIntention(EncodeIntention(i)) = i
<1>1. /\ DecodeProgress(EncodeProgress(i.baseline)) = i.baseline
      /\ DecodeProgress(EncodeProgress(i.desired)) = i.desired
  BY ProgressRoundTrip DEF IntentionValue
<1>2. NewDomain(i.domain) = i.domain
  BY DEF IntentionValue, DomainValue
<1> QED
  BY <1>1, <1>2 DEF IntentionValue, Struct, EncodeIntention, DecodeIntention, DecodeDomain

LEMMA ProtectionsFinite ==
  /\ IsFiniteSet(Protections) /\ Cardinality(Protections) = 3
  /\ \A P \in SUBSET Protections : IsFiniteSet(P) /\ Cardinality(P) <= 3
<1>1. IsFiniteSet({}) /\ Cardinality({}) = 0
  BY FS_EmptySet
<1>2. IsFiniteSet({"Conditional"}) /\ Cardinality({"Conditional"}) = 1
  BY FS_Singleton
<1>3. /\ IsFiniteSet({"Conditional"} \cup {"MonotoneMerge"})
      /\ Cardinality({"Conditional"} \cup {"MonotoneMerge"}) = 2
  BY <1>2, FS_AddElement
<1>4. {"Conditional"} \cup {"MonotoneMerge"} = {"Conditional", "MonotoneMerge"}
  OBVIOUS
<1>5. /\ IsFiniteSet({"Conditional", "MonotoneMerge"} \cup {"BestEffort"})
      /\ Cardinality({"Conditional", "MonotoneMerge"} \cup {"BestEffort"}) = 3
  BY <1>3, <1>4, FS_AddElement
<1>6. IsFiniteSet(Protections) /\ Cardinality(Protections) = 3
  <2>1. {"Conditional", "MonotoneMerge"} \cup {"BestEffort"} = Protections
    BY DEF Protections
  <2> QED
    BY <1>5, <2>1
<1> QED
  BY <1>6, FS_Subset

LEMMA CapabilityRoundTrip ==
  ASSUME NEW c, CapabilityValue(c)
  PROVE  DecodeCapability(EncodeCapability(c)) = c
<1>1. /\ ToSet(EncodeSet(c.effect_fields)) = c.effect_fields
      /\ ToSet(EncodeSet(c.protection)) = c.protection
      /\ ToSet(EncodeSet(c.reconciliation)) = c.reconciliation
  BY ProtectionsFinite, SetRoundTrip DEF CapabilityValue
<1> QED
  BY <1>1 DEF CapabilityValue, Struct, EncodeCapability, DecodeCapability

LEMMA BehaviorRoundTrip ==
  ASSUME NEW b, BehaviorValue(b)
  PROVE  DecodeBehavior(EncodeBehavior(b)) = b
<1>1. ToSet(EncodeSet(b.subject_roles)) = b.subject_roles /\ ToSet(EncodeSet(b.units)) = b.units
  BY SetRoundTrip DEF BehaviorValue
<1>2. \A i \in DOMAIN b.operations :
        DecodeCapability(EncodeCapability(b.operations[i])) = b.operations[i]
  BY CapabilityRoundTrip DEF BehaviorValue, Capabilities, ToSet
<1>3. [i \in DOMAIN b.operations |-> b.operations[i]] = b.operations
  BY DEF BehaviorValue, List
<1> DEFINE w == EncodeBehavior(b)
           v == DecodeBehavior(w)
<1>4. /\ DOMAIN w = DOMAIN b /\ w = [x \in DOMAIN b |-> w[x]]
      /\ w.subject_roles = EncodeSet(b.subject_roles) /\ w.units = EncodeSet(b.units)
      /\ w.operations = [i \in DOMAIN b.operations |-> EncodeCapability(b.operations[i])]
      /\ \A x \in DOMAIN b \ {"subject_roles", "units", "operations"} : w[x] = b[x]
  BY DEF BehaviorValue, Struct, EncodeBehavior
<1> HIDE DEF w
<1>5. /\ DOMAIN v = DOMAIN w /\ v = [x \in DOMAIN w |-> v[x]]
      /\ v.subject_roles = ToSet(w.subject_roles) /\ v.units = ToSet(w.units)
      /\ v.operations = [i \in DOMAIN w.operations |-> DecodeCapability(w.operations[i])]
      /\ \A x \in DOMAIN w \ {"subject_roles", "units", "operations"} : v[x] = w[x]
  BY <1>4 DEF BehaviorValue, Struct, DecodeBehavior
<1> HIDE DEF v
<1>6. v.operations = b.operations
  BY <1>2, <1>3, <1>4, <1>5
<1>7. \A x \in DOMAIN b : v[x] = b[x]
  BY <1>1, <1>4, <1>5, <1>6
<1>8. v = b
  BY <1>4, <1>5, <1>7 DEF BehaviorValue, Struct
<1> QED
  BY <1>8 DEF v, w

LEMMA BeforeRoundTrip ==
  ASSUME NEW b, BeforeValue(b)
  PROVE  DecodeBefore(EncodeBefore(b)) = RereadBefore(b) /\ BeforeValue(RereadBefore(b))
<1>1. b.kind = "Known" => Reread(b.value) \in JsonValues
  BY JsonReread DEF BeforeValue
<1> QED
  BY <1>1 DEF BeforeValue, Struct, EncodeBefore, DecodeBefore, EncodeJson, DecodeJson, Bytes,
             RereadBefore

LEMMA ChangeRoundTrip ==
  ASSUME NEW c, ChangeValue(c)
  PROVE  DecodeChange(EncodeChange(c)) = RereadChange(c)
<1>1. CASE c.kind = "SetCompletion"
  <2>1. /\ Struct(c, {"kind", "domain", "before", "after"}) /\ NewDomain(c.domain) = c.domain
        /\ DecodeProgress(EncodeProgress(c.before)) = c.before
        /\ DecodeProgress(EncodeProgress(c.after)) = c.after
    BY <1>1, ProgressRoundTrip DEF ChangeValue, DomainValue
  <2> QED
    BY <1>1, <2>1 DEF Struct, EncodeChange, DecodeChange, DecodeDomain, RereadChange
<1>2. CASE c.kind = "MergeItems"
  <2>1. /\ Struct(c, {"kind", "domain", "before", "additions"}) /\ NewDomain(c.domain) = c.domain
        /\ ToSet(EncodeSet(c.before)) = c.before
        /\ ToSet(EncodeSet(c.additions)) = c.additions
    BY <1>2, SetRoundTrip DEF ChangeValue, DomainValue
  <2> QED
    BY <1>2, <2>1 DEF Struct, EncodeChange, DecodeChange, DecodeDomain, RereadChange
<1>3. CASE c.kind = "SetValue"
  <2>1. /\ Struct(c, {"kind", "before", "after"})
        /\ DecodeBefore(EncodeBefore(c.before)) = RereadBefore(c.before)
    BY <1>3, BeforeRoundTrip DEF ChangeValue
  <2> QED
    BY <1>3, <2>1 DEF Struct, EncodeChange, DecodeChange, EncodeJson, DecodeJson, Bytes,
                      RereadChange
<1>4. CASE c.kind = "Append"
  BY <1>4 DEF ChangeValue, Struct, EncodeChange, DecodeChange, EncodeJson, DecodeJson, Bytes,
              RereadChange
<1> QED
  BY <1>1, <1>2, <1>3, <1>4 DEF ChangeValue

LEMMA ChangeReread ==
  ASSUME NEW c, ChangeValue(c)
  PROVE  LET r == RereadChange(c)
         IN  /\ ChangeValue(r) /\ r.kind = c.kind
             /\ c.kind \in {"SetCompletion", "MergeItems"} => r = c
<1> DEFINE r == RereadChange(c)
<1>1. CASE c.kind \in {"SetCompletion", "MergeItems"}
  BY <1>1 DEF RereadChange
<1>2. CASE c.kind = "SetValue"
  <2>1. /\ Struct(c, {"kind", "before", "after"}) /\ Reread(c.after) \in JsonValues
        /\ BeforeValue(RereadBefore(c.before))
    BY <1>2, JsonReread, BeforeRoundTrip DEF ChangeValue
  <2>2. r = [c EXCEPT !.before = RereadBefore(c.before), !.after = Reread(c.after)]
    BY <1>2 DEF RereadChange
  <2> HIDE DEF r
  <2>3. /\ Struct(r, {"kind", "before", "after"}) /\ r.kind = "SetValue"
        /\ r.before = RereadBefore(c.before) /\ r.after = Reread(c.after)
    BY <1>2, <2>1, <2>2 DEF Struct
  <2>4. ChangeValue(r) /\ r.kind = c.kind
    BY <1>2, <2>1, <2>3 DEF ChangeValue
  <2> QED
    BY <1>2, <2>4 DEF r
<1>3. CASE c.kind = "Append"
  <2>1. Struct(c, {"kind", "value"}) /\ Reread(c.value) \in JsonValues
    BY <1>3, JsonReread DEF ChangeValue
  <2>2. r = [c EXCEPT !.value = Reread(c.value)]
    BY <1>3 DEF RereadChange
  <2> HIDE DEF r
  <2>3. Struct(r, {"kind", "value"}) /\ r.kind = "Append" /\ r.value = Reread(c.value)
    BY <1>3, <2>1, <2>2 DEF Struct
  <2>4. ChangeValue(r) /\ r.kind = c.kind
    BY <1>3, <2>1, <2>3 DEF ChangeValue
  <2> QED
    BY <1>3, <2>4 DEF r
<1> QED
  BY <1>1, <1>2, <1>3 DEF ChangeValue

LEMMA EffectRoundTrip ==
  ASSUME NEW e, EffectValue(e)
  PROVE  DecodeEffect(EncodeEffect(e)) = RereadEffect(e)
BY ChangeRoundTrip DEF EffectValue, Struct, EncodeEffect, DecodeEffect, RereadEffect

LEMMA EffectReread ==
  ASSUME NEW e, EffectValue(e)
  PROVE  LET r == RereadEffect(e)
         IN  /\ EffectValue(r) /\ r.change = RereadChange(e.change) /\ DOMAIN r = DOMAIN e
             /\ \A x \in DOMAIN e \ {"change"} : r[x] = e[x]
BY ChangeReread DEF EffectValue, Struct, RereadEffect

LEMMA ProtectionRoundTrip ==
  ASSUME NEW p, ProtectionValue(p)
  PROVE  DecodeProtection(EncodeProtection(p)) = p
BY SetRoundTrip DEF ProtectionValue, Struct, EncodeProtection, DecodeProtection

LEMMA OperationRoundTrip ==
  ASSUME NEW op, OperationValue(op)
  PROVE  DecodePrepared(EncodePrepared(op)) = RereadOperation(op)
<1>1. DecodeProtection(EncodeProtection(op.protection)) = op.protection
  BY ProtectionRoundTrip DEF OperationValue
<1>2. \A i \in DOMAIN op.effects :
        DecodeEffect(EncodeEffect(op.effects[i])) = RereadEffect(op.effects[i])
  BY EffectRoundTrip DEF OperationValue, ToSet
<1> DEFINE w == EncodePrepared(op)
           v == DecodePrepared(w)
           r == RereadOperation(op)
<1>3. /\ DOMAIN r = DOMAIN op /\ r = [x \in DOMAIN op |-> r[x]]
      /\ r.effects = [i \in DOMAIN op.effects |-> RereadEffect(op.effects[i])]
      /\ r.command = [op.command EXCEPT !.parameters = Reread(@)]
      /\ \A x \in DOMAIN op \ {"effects", "command"} : r[x] = op[x]
  BY DEF OperationValue, Struct, RereadOperation
<1> HIDE DEF r
<1>4. /\ DOMAIN w = DOMAIN op /\ w = [x \in DOMAIN op |-> w[x]]
      /\ w.protection = EncodeProtection(op.protection)
      /\ w.effects = [i \in DOMAIN op.effects |-> EncodeEffect(op.effects[i])]
      /\ w.command = [op.command EXCEPT !.parameters = EncodeJson(@)]
      /\ \A x \in DOMAIN op \ {"effects", "protection", "command"} : w[x] = op[x]
  BY DEF OperationValue, Struct, EncodePrepared
<1> HIDE DEF w
<1>5. /\ DOMAIN v = DOMAIN w /\ v = [x \in DOMAIN w |-> v[x]]
      /\ v.protection = DecodeProtection(w.protection)
      /\ v.effects = [i \in DOMAIN w.effects |-> DecodeEffect(w.effects[i])]
      /\ v.command = [w.command EXCEPT !.parameters = DecodeJson(@)]
      /\ \A x \in DOMAIN w \ {"effects", "protection", "command"} : v[x] = w[x]
  BY <1>4 DEF OperationValue, Struct, DecodePrepared
<1> HIDE DEF v
<1>6. v.effects = r.effects
  BY <1>2, <1>3, <1>4, <1>5
<1>7. v.command = r.command
  BY <1>3, <1>4, <1>5 DEF OperationValue, CommandValue, Struct, EncodeJson, DecodeJson, Bytes
<1>8. \A x \in DOMAIN op : v[x] = r[x]
  BY <1>1, <1>3, <1>4, <1>5, <1>6, <1>7 DEF OperationValue, Struct
<1>9. v = r
  BY <1>3, <1>4, <1>5, <1>8
<1> QED
  BY <1>9 DEF v, w, r

\* An operation that was read has the effects it had, on the same scopes and
\* groups, and only native JSON in them and in its command may differ.
LEMMA OperationReread ==
  ASSUME NEW op, OperationValue(op)
  PROVE  LET r == RereadOperation(op)
         IN  /\ OperationValue(r) /\ DOMAIN r = DOMAIN op
             /\ DOMAIN r.effects = DOMAIN op.effects /\ Len(r.effects) = Len(op.effects)
             /\ \A i \in DOMAIN op.effects : r.effects[i] = RereadEffect(op.effects[i])
             /\ r.command = [op.command EXCEPT !.parameters = Reread(@)]
             /\ \A x \in DOMAIN op \ {"effects", "command"} : r[x] = op[x]
<1> DEFINE r == RereadOperation(op)
           n == Len(op.effects)
<1>1. /\ DOMAIN r = DOMAIN op /\ r = [x \in DOMAIN op |-> r[x]]
      /\ r.effects = [i \in DOMAIN op.effects |-> RereadEffect(op.effects[i])]
      /\ r.command = [op.command EXCEPT !.parameters = Reread(@)]
      /\ \A x \in DOMAIN op \ {"effects", "command"} : r[x] = op[x]
  BY DEF OperationValue, Struct, RereadOperation
<1> HIDE DEF r
<1>2. n \in Nat /\ DOMAIN op.effects = 1 .. n /\ \A i \in 1 .. n : EffectValue(op.effects[i])
  BY ListedMembers DEF OperationValue, ToSet
<1>3. \A i \in 1 .. n : EffectValue(RereadEffect(op.effects[i]))
  BY <1>2, EffectReread
<1>4. /\ DOMAIN r.effects = 1 .. n /\ (\A i \in 1 .. n : r.effects[i] \in ToSet(r.effects))
      /\ r.effects = [i \in 1 .. n |-> r.effects[i]]
  BY <1>1, <1>2 DEF ToSet
<1>5. List(r.effects) /\ Len(r.effects) = n
  BY <1>2, <1>4, IsASeq, LenProperties DEF List
<1>6. \A e \in ToSet(r.effects) : EffectValue(e)
  BY <1>1, <1>2, <1>3 DEF ToSet
<1>7. CommandValue(r.command)
  BY <1>1, JsonReread DEF OperationValue, CommandValue, Struct
<1>8. OperationValue(r)
  BY <1>1, <1>5, <1>6, <1>7 DEF OperationValue, Struct
<1> QED
  BY <1>1, <1>2, <1>4, <1>5, <1>8 DEF r

-----------------------------------------------------------------------------
(* Accepting what was encoded: of a valid value, unless a part is beyond a  *)
(* limit that only the wire has                                             *)

LEMMA SetAccepted ==
  ASSUME NEW S, IsFiniteSet(S), Cardinality(S) <= MaximumItems
  PROVE  AcceptsSet(EncodeSet(S))
BY SetRoundTrip DEF AcceptsSet

\* Units of a domain fit into a message.
LEMMA UnitsFit ==
  ASSUME NEW d, DomainValue(d), NEW U, U \subseteq ToSet(d.units)
  PROVE  IsFiniteSet(U) /\ Cardinality(U) <= MaximumItems
<1>1. /\ Len(d.units) \in Nat /\ Len(d.units) <= MaximumItems
      /\ IsFiniteSet(ToSet(d.units)) /\ Cardinality(ToSet(d.units)) <= Len(d.units)
  BY ListedMembers DEF DomainValue, ValidDomain
<1>2. IsFiniteSet(U) /\ Cardinality(U) <= Cardinality(ToSet(d.units))
  BY <1>1, FS_Subset
<1>3. Cardinality(U) \in Nat /\ Cardinality(ToSet(d.units)) \in Nat
  BY <1>1, <1>2, FS_CardinalityType
<1> QED
  BY <1>1, <1>2, <1>3, LimitsAssumption

LEMMA DomainAccepted ==
  ASSUME NEW d, DomainValue(d)
  PROVE  AcceptsDomain(d) /\ DecodeDomain(d) = d
BY DEF DomainValue, Struct, AcceptsDomain, Present, DecodeDomain

LEMMA ProgressAccepted ==
  ASSUME NEW d, DomainValue(d), NEW p, ProgressValue(p), ValidProgress(p, d)
  PROVE  AcceptsProgress(EncodeProgress(p))
<1>1. CASE p.kind = "Items"
  <2>1. AcceptsSet(EncodeSet(p.completed))
    BY <1>1, UnitsFit, SetAccepted DEF ValidProgress, KnownUnits
  <2> QED
    BY <1>1, <2>1 DEF ProgressValue, Struct, EncodeProgress, AcceptsProgress, Present
<1>2. CASE p.kind # "Items"
  BY <1>2 DEF ProgressValue, Struct, EncodeProgress, AcceptsProgress, Present
<1> QED
  BY <1>1, <1>2

LEMMA JsonAccepted ==
  ASSUME NEW v \in JsonValues, JsonSize(v) <= MaximumJson, ~TooDeep(v)
  PROVE  AcceptsJson(EncodeJson(v))
<1>1. Reread(v) # Malformed /\ JsonDepth(Reread(v)) <= MaximumDepth
  BY JsonReread, MalformedAssumption, LimitsAssumption DEF TooDeep
<1> QED
  BY <1>1 DEF AcceptsJson, EncodeJson, Bytes

LEMMA ObservationAccepted ==
  ASSUME NEW o, ObservationValue(o), ValidObservation(o), ~UnreadableObservation(o)
  PROVE  AcceptsObservation(EncodeObservation(o))
<1> DEFINE w == EncodeObservation(o)
<1>1. /\ DOMAIN w = DOMAIN o /\ w.presence = EncodePresence(o.presence)
      /\ w.native_value = EncodeJson(o.native_value)
      /\ w.quality = o.quality /\ w.domain = o.domain
  BY DEF ObservationValue, Struct, EncodeObservation
<1>2. AcceptsDomain(w.domain)
  BY <1>1, DomainAccepted DEF ObservationValue
<1>3. AcceptsPresence(w.presence)
  <2>1. CASE o.presence.kind = "Present"
    <3>1. AcceptsProgress(EncodeProgress(o.presence.progress))
      BY <2>1, ProgressAccepted DEF ObservationValue, PresenceValue, ValidObservation
    <3> QED
      BY <1>1, <2>1, <3>1
      DEF ObservationValue, PresenceValue, Struct, EncodePresence, AcceptsPresence, Present
  <2>2. CASE o.presence.kind # "Present"
    BY <1>1, <2>2
    DEF ObservationValue, PresenceValue, Struct, EncodePresence, AcceptsPresence, Present
  <2> QED
    BY <2>1, <2>2
<1>4. AcceptsJson(w.native_value)
  BY <1>1, JsonAccepted DEF ObservationValue, ValidObservation, UnreadableObservation
<1>5. DecodeObservation(w) = RereadObservation(o)
  BY ObservationRoundTrip
<1>6. ValidObservation(RereadObservation(o))
  <2>1. JsonSize(Reread(o.native_value)) <= MaximumJson
    BY JsonReread, LimitsAssumption DEF ObservationValue, UnreadableObservation
  <2> QED
    BY <2>1, ObservationReread DEF ObservationValue, Struct, ValidObservation
<1> HIDE DEF w
<1> QED
  BY <1>1, <1>2, <1>3, <1>4, <1>5, <1>6
  DEF w, ObservationValue, Struct, AcceptsObservation, Present

LEMMA BeforeAccepted ==
  ASSUME NEW b, BeforeValue(b),
         b.kind = "Known" => JsonSize(b.value) <= MaximumJson /\ ~TooDeep(b.value)
  PROVE  AcceptsBefore(EncodeBefore(b))
<1>1. b.kind = "Known" => AcceptsJson(EncodeJson(b.value))
  BY JsonAccepted DEF BeforeValue
<1> QED
  BY <1>1 DEF BeforeValue, Struct, EncodeBefore, AcceptsBefore, Present

LEMMA FieldObservationRoundTrip ==
  ASSUME NEW f, FieldObservationValue(f)
  PROVE  DecodeFieldObservation(EncodeFieldObservation(f)) = RereadFieldObservation(f)
<1>1. DecodeBefore(EncodeBefore(f.value)) = RereadBefore(f.value)
  BY BeforeRoundTrip DEF FieldObservationValue
<1> QED
  BY <1>1 DEF FieldObservationValue, Struct, EncodeFieldObservation, DecodeFieldObservation,
             DecodeQuality, RereadFieldObservation

LEMMA FieldObservationAccepted ==
  ASSUME NEW f, FieldObservationValue(f), ValidFieldObservation(f),
         f.value.kind = "Known" =>
           JsonSize(Reread(f.value.value)) <= MaximumJson /\ ~TooDeep(f.value.value)
  PROVE  AcceptsFieldObservation(EncodeFieldObservation(f))
<1> DEFINE w == EncodeFieldObservation(f)
<1>1. /\ DOMAIN w = DOMAIN f /\ w.value = EncodeBefore(f.value)
      /\ w.quality = f.quality /\ w.scope = f.scope
  BY DEF FieldObservationValue, Struct, EncodeFieldObservation
<1>2. AcceptsBefore(w.value)
  BY <1>1, BeforeAccepted DEF FieldObservationValue, ValidFieldObservation
<1>3. DecodeFieldObservation(w) = RereadFieldObservation(f)
  BY FieldObservationRoundTrip
<1>4. ValidFieldObservation(RereadFieldObservation(f))
  BY DEF FieldObservationValue, BeforeValue, Struct, ValidFieldObservation,
         RereadFieldObservation, RereadBefore
<1> HIDE DEF w
<1> QED
  BY <1>1, <1>2, <1>3, <1>4
  DEF w, FieldObservationValue, ScopeValue, ScopeParts, Struct, AcceptsFieldObservation,
      AcceptsScope, Present

LEMMA SubjectAccepted ==
  ASSUME NEW s, SubjectValue(s), Cardinality(s.classifications) <= MaximumItems
  PROVE  AcceptsSubject(EncodeSubject(s)) /\ DecodeSubject(EncodeSubject(s)) = s
<1>1. ToSet(EncodeSet(s.classifications)) = s.classifications
  BY SetRoundTrip DEF SubjectValue
<1>2. AcceptsSet(EncodeSet(s.classifications))
  BY SetAccepted DEF SubjectValue
<1> QED
  BY <1>1, <1>2
  DEF SubjectValue, Struct, EncodeSubject, AcceptsSubject, DecodeSubject, Present

LEMMA IntentionAccepted ==
  ASSUME NEW i, IntentionValue(i), ValidIntention(i)
  PROVE  AcceptsIntention(EncodeIntention(i))
<1> DEFINE w == EncodeIntention(i)
<1>1. /\ DOMAIN w = DOMAIN i /\ w.scope = i.scope /\ w.domain = i.domain
      /\ w.baseline = EncodeProgress(i.baseline) /\ w.desired = EncodeProgress(i.desired)
  BY DEF IntentionValue, Struct, EncodeIntention
<1>2. AcceptsDomain(w.domain)
  BY <1>1, DomainAccepted DEF IntentionValue
<1>3. AcceptsProgress(w.baseline) /\ AcceptsProgress(w.desired)
  BY <1>1, ProgressAccepted DEF IntentionValue, ValidIntention
<1>4. DecodeIntention(w) = i
  BY IntentionRoundTrip
<1> HIDE DEF w
<1> QED
  BY <1>1, <1>2, <1>3, <1>4
  DEF w, IntentionValue, ScopeValue, ScopeParts, Struct, AcceptsIntention, AcceptsScope, Present

LEMMA BehaviorAccepted ==
  ASSUME NEW b, BehaviorValue(b), ValidBehavior(b), ~TooManyNames(b)
  PROVE  AcceptsBehavior(EncodeBehavior(b))
<1> DEFINE w == EncodeBehavior(b)
<1>1. /\ w.subject_roles = EncodeSet(b.subject_roles) /\ w.units = EncodeSet(b.units)
      /\ w.operations = [i \in DOMAIN b.operations |-> EncodeCapability(b.operations[i])]
  BY DEF BehaviorValue, Struct, EncodeBehavior
<1>2. AcceptsSet(w.subject_roles) /\ AcceptsSet(w.units)
  <2>1. Cardinality(b.subject_roles) <= MaximumItems /\ Cardinality(b.units) <= MaximumItems
    BY FS_CardinalityType, LimitsAssumption DEF TooManyNames, BehaviorValue
  <2> QED
    BY <1>1, <2>1, SetAccepted DEF BehaviorValue
<1>3. ASSUME NEW c \in Capabilities(b) PROVE AcceptsCapability(EncodeCapability(c))
  <2>1. CapabilityValue(c)
    BY DEF BehaviorValue
  <2>2. /\ IsFiniteSet(c.effect_fields) /\ Cardinality(c.effect_fields) <= MaximumItems
        /\ IsFiniteSet(c.reconciliation) /\ Cardinality(c.reconciliation) <= MaximumItems
    BY <2>1, FS_CardinalityType, LimitsAssumption DEF TooManyNames, CapabilityValue
  <2>3. IsFiniteSet(c.protection) /\ Cardinality(c.protection) <= MaximumItems
    <3>1. IsFiniteSet(c.protection) /\ Cardinality(c.protection) <= 3
      BY <2>1, ProtectionsFinite DEF CapabilityValue
    <3> QED
      BY <3>1, ProtectionsFinite, FS_CardinalityType, LimitsAssumption, RoomAssumption
  <2>4. /\ AcceptsSet(EncodeSet(c.effect_fields)) /\ AcceptsSet(EncodeSet(c.protection))
        /\ AcceptsSet(EncodeSet(c.reconciliation))
    BY <2>2, <2>3, SetAccepted
  <2>5. ToSet(EncodeSet(c.protection)) \subseteq Protections
    BY <2>1, <2>3, SetRoundTrip DEF CapabilityValue
  <2>6. \A i \in DOMAIN EncodeSet(c.protection) : EncodeSet(c.protection)[i] \in Protections
    BY <2>5 DEF ToSet
  <2> QED
    BY <2>1, <2>4, <2>6 DEF CapabilityValue, Struct, EncodeCapability, AcceptsCapability
<1>4. \A i \in DOMAIN w.operations : AcceptsCapability(w.operations[i])
  BY <1>1, <1>3 DEF Capabilities, ToSet
<1>5. Len(w.operations) = Len(b.operations)
  <2>1. Len(b.operations) \in Nat /\ DOMAIN b.operations = 1 .. Len(b.operations)
    BY ListedMembers DEF BehaviorValue
  <2> QED
    BY <1>1, <2>1
<1>6. DecodeBehavior(w) = b
  BY BehaviorRoundTrip
<1> HIDE DEF w
<1> QED
  BY <1>2, <1>4, <1>5, <1>6 DEF w, AcceptsBehavior, ValidBehavior

LEMMA ChangeAccepted ==
  ASSUME NEW c, ChangeValue(c), ValidChange(c),
         \A v \in ChangeJson(c) : JsonSize(v) <= MaximumJson /\ ~TooDeep(v)
  PROVE  AcceptsChange(EncodeChange(c))
<1> DEFINE w == EncodeChange(c)
<1>1. CASE c.kind = "SetCompletion"
  <2>1. /\ Struct(c, {"kind", "domain", "before", "after"})
        /\ AcceptsDomain(c.domain)
        /\ AcceptsProgress(EncodeProgress(c.before)) /\ AcceptsProgress(EncodeProgress(c.after))
    BY <1>1, DomainAccepted, ProgressAccepted DEF ChangeValue, ValidChange
  <2> QED
    BY <1>1, <2>1 DEF Struct, EncodeChange, AcceptsChange, Present
<1>2. CASE c.kind = "MergeItems"
  <2>1. /\ Struct(c, {"kind", "domain", "before", "additions"}) /\ DomainValue(c.domain)
        /\ c.before \subseteq ToSet(c.domain.units) /\ c.additions \subseteq ToSet(c.domain.units)
    BY <1>2 DEF ChangeValue, ValidChange, KnownUnits
  <2>2. AcceptsSet(EncodeSet(c.before)) /\ AcceptsSet(EncodeSet(c.additions))
    BY <2>1, UnitsFit, SetAccepted
  <2>3. AcceptsDomain(c.domain)
    BY <2>1, DomainAccepted
  <2> QED
    BY <1>2, <2>1, <2>2, <2>3 DEF Struct, EncodeChange, AcceptsChange, Present
<1>3. CASE c.kind = "SetValue"
  <2>1. /\ Struct(c, {"kind", "before", "after"})
        /\ AcceptsBefore(EncodeBefore(c.before)) /\ AcceptsJson(EncodeJson(c.after))
    BY <1>3, BeforeAccepted, JsonAccepted DEF ChangeValue, ChangeJson
  <2>2. w = [c EXCEPT !.before = EncodeBefore(c.before), !.after = EncodeJson(c.after)]
    BY <1>3 DEF EncodeChange
  <2> HIDE DEF w
  <2>3. /\ DOMAIN w = DOMAIN c /\ w.kind = "SetValue"
        /\ w.before = EncodeBefore(c.before) /\ w.after = EncodeJson(c.after)
    BY <1>3, <2>1, <2>2 DEF Struct
  <2>4. AcceptsChange(w)
    BY <2>1, <2>3 DEF Struct, AcceptsChange, Present
  <2> QED
    BY <2>4 DEF w
<1>4. CASE c.kind = "Append"
  <2>1. Struct(c, {"kind", "value"}) /\ AcceptsJson(EncodeJson(c.value))
    BY <1>4, JsonAccepted DEF ChangeValue, ChangeJson
  <2>2. w = [c EXCEPT !.value = EncodeJson(c.value)]
    BY <1>4 DEF EncodeChange
  <2> HIDE DEF w
  <2>3. DOMAIN w = DOMAIN c /\ w.kind = "Append" /\ w.value = EncodeJson(c.value)
    BY <1>4, <2>1, <2>2 DEF Struct
  <2>4. AcceptsChange(w)
    BY <2>1, <2>3 DEF Struct, AcceptsChange, Present
  <2> QED
    BY <2>4 DEF w
<1> QED
  BY <1>1, <1>2, <1>3, <1>4 DEF ChangeValue

\* Group is a function of the effect, so there are no more groups than effects.
LEMMA FewGroups ==
  ASSUME NEW op, List(op.effects)
  PROVE  IsFiniteSet(EffectGroups(op)) /\ Cardinality(EffectGroups(op)) <= Len(op.effects)
<1> DEFINE n == Len(op.effects)
           f == [i \in 1 .. n |-> Group(op.effects[i])]
<1>1. n \in Nat /\ DOMAIN op.effects = 1 .. n
  BY ListedMembers
<1>2. EffectGroups(op) = {Group(op.effects[i]) : i \in 1 .. n}
  BY <1>1 DEF EffectGroups
<1>3. f \in Surjection(1 .. n, EffectGroups(op))
  BY <1>2 DEF Surjection
<1> HIDE DEF n, f
<1>4. IsFiniteSet(1 .. n) /\ Cardinality(1 .. n) = n
  BY <1>1, FS_Interval
<1> QED
  BY <1>3, <1>4, FS_Surjection DEF n

\* What is valid by any behavior is a message like any other.
LEMMA PreparedWellFormed ==
  ASSUME NEW op, OperationValue(op), NEW behavior, ValidPrepared(op, behavior), ~Unreadable(op)
  PROVE  WellFormedPrepared(EncodePrepared(op))
<1> DEFINE w == EncodePrepared(op)
<1>1. /\ DOMAIN w = DOMAIN op /\ w.protection = EncodeProtection(op.protection)
      /\ w.effects = [i \in DOMAIN op.effects |-> EncodeEffect(op.effects[i])]
      /\ w.command = [op.command EXCEPT !.parameters = EncodeJson(@)]
      /\ w.replay = op.replay
  BY DEF OperationValue, Struct, EncodePrepared
<1>2. Len(op.effects) \in Nat /\ DOMAIN op.effects = 1 .. Len(op.effects)
  BY ListedMembers DEF OperationValue
<1>3. Len(op.effects) <= MaximumEffects /\ Len(w.effects) = Len(op.effects)
  BY <1>1, <1>2 DEF ValidPrepared
<1>4. ASSUME NEW i \in DOMAIN op.effects PROVE AcceptsEffect(EncodeEffect(op.effects[i]))
  <2> DEFINE e == op.effects[i]
  <2>1. EffectValue(e) /\ ValidChange(e.change)
    BY DEF OperationValue, ToSet, ValidPrepared
  <2>2. \A v \in ChangeJson(e.change) : ~(JsonSize(v) > MaximumJson) /\ ~TooDeep(v)
    BY DEF Unreadable, EffectJson
  <2> HIDE DEF e
  <2>3. \A v \in ChangeJson(e.change) : JsonSize(v) <= MaximumJson /\ ~TooDeep(v)
    <3>1. ChangeJson(e.change) \subseteq JsonValues
      BY <2>1 DEF EffectValue, ChangeValue, BeforeValue, ChangeJson
    <3> QED
      BY <2>2, <3>1, JsonReread, LimitsAssumption
  <2>4. AcceptsChange(EncodeChange(e.change))
    BY <2>1, <2>3, ChangeAccepted DEF EffectValue
  <2>5. AcceptsEffect(EncodeEffect(e))
    BY <2>1, <2>4 DEF EffectValue, ScopeValue, ScopeParts, Struct, EncodeEffect, AcceptsEffect,
                      AcceptsScope, Present
  <2> QED
    BY <2>5 DEF e
<1>5. AcceptsProtection(w.protection)
  <2>1. CASE op.protection.kind = "Conditional"
    <3> DEFINE G == op.protection.groups
    <3>1. G = EffectGroups(op)
      BY <2>1 DEF ValidPrepared, CoversGroups
    <3>2. IsFiniteSet(G) /\ Cardinality(G) <= MaximumItems
      <4>1. IsFiniteSet(G) /\ Cardinality(G) <= Len(op.effects)
        BY <3>1, FewGroups DEF OperationValue
      <4> QED
        BY <1>2, <1>3, <4>1, FS_CardinalityType, LimitsAssumption, RoomAssumption
    <3>3. AcceptsSet(EncodeSet(G))
      BY <3>2, SetAccepted
    <3>4. \A i \in DOMAIN EncodeSet(G) : EncodeSet(G)[i] \in G
      BY <3>2, SetRoundTrip DEF ToSet
    <3>5. \A i \in DOMAIN EncodeSet(G) : AcceptsGroup(EncodeSet(G)[i])
      BY <2>1, <3>4 DEF OperationValue, ProtectionValue, AcceptsGroup, Present
    <3> QED
      BY <1>1, <2>1, <3>3, <3>5
      DEF OperationValue, ProtectionValue, Struct, EncodeProtection, AcceptsProtection, Present
  <2>2. CASE op.protection.kind # "Conditional"
    BY <1>1, <2>2
    DEF OperationValue, ProtectionValue, Struct, EncodeProtection, AcceptsProtection, Present
  <2> QED
    BY <2>1, <2>2
<1>6. AcceptsReplay(w.replay)
  BY <1>1 DEF OperationValue, ReplayValue, Struct, AcceptsReplay, Present
<1>7. AcceptsJson(w.command.parameters)
  <2> DEFINE v == op.command.parameters
  <2>1. v \in JsonValues /\ ~TooDeep(v) /\ JsonSize(v) + 1 <= MaximumJson
    BY DEF OperationValue, CommandValue, ValidPrepared, ValidCommand, CommandFrame, Unreadable
  <2>2. w.command.parameters = EncodeJson(v)
    BY <1>1 DEF OperationValue, CommandValue, Struct
  <2> HIDE DEF v, w
  <2>3. JsonSize(v) <= MaximumJson
    BY <2>1, JsonReread, LimitsAssumption
  <2> QED
    BY <2>1, <2>2, <2>3, JsonAccepted
<1> HIDE DEF w
<1>8. \A i \in DOMAIN w.effects : AcceptsEffect(w.effects[i])
  BY <1>1, <1>4
<1> QED
  BY <1>1, <1>3, <1>5, <1>6, <1>7, <1>8
  DEF w, OperationValue, Struct, WellFormedPrepared, Present

LEMMA PreparedReread ==
  ASSUME NEW op, OperationValue(op), NEW behavior, ValidPrepared(op, behavior), ~Unreadable(op)
  PROVE  LET r == RereadOperation(op)
         IN  /\ ValidPrepared(r, behavior) /\ r.identity = op.identity
             /\ r.behavior_revision = op.behavior_revision /\ ScopesOf(r) = ScopesOf(op)
<1> DEFINE r == RereadOperation(op)
<1>1. /\ DOMAIN r.effects = DOMAIN op.effects /\ Len(r.effects) = Len(op.effects)
      /\ \A i \in DOMAIN op.effects : r.effects[i] = RereadEffect(op.effects[i])
      /\ r.command = [op.command EXCEPT !.parameters = Reread(@)]
      /\ \A x \in DOMAIN op \ {"effects", "command"} : r[x] = op[x]
  BY OperationReread
<1> HIDE DEF r
<1>2. /\ r.identity = op.identity /\ r.class = op.class /\ r.replay = op.replay
      /\ r.behavior_revision = op.behavior_revision /\ r.protection = op.protection
      /\ r.prepared_at = op.prepared_at /\ r.expires_at = op.expires_at
      /\ r.reconciliation = op.reconciliation
  BY <1>1 DEF OperationValue, Struct
<1>3. ASSUME NEW i \in DOMAIN op.effects
      PROVE  LET e == op.effects[i]
                 f == r.effects[i]
             IN  /\ f.scope = e.scope /\ Group(f) = Group(e) /\ f.change.kind = e.change.kind
                 /\ ValidChange(f.change) /\ SupportedUnit(f.change, behavior)
  <2> DEFINE e == op.effects[i]
             f == r.effects[i]
  <2>1. EffectValue(e) /\ ValidChange(e.change) /\ SupportedUnit(e.change, behavior)
    BY DEF OperationValue, ToSet, ValidPrepared
  <2>2. f = RereadEffect(e)
    BY <1>1
  <2> HIDE DEF e, f
  <2>3. /\ f.change = RereadChange(e.change) /\ f.scope = e.scope /\ f.group = e.group
    BY <2>1, <2>2, EffectReread DEF EffectValue, Struct
  <2>4. /\ f.change.kind = e.change.kind
        /\ e.change.kind \in {"SetCompletion", "MergeItems"} => f.change = e.change
    BY <2>1, <2>3, ChangeReread DEF EffectValue
  <2>5. ValidChange(f.change) /\ SupportedUnit(f.change, behavior)
    BY <2>1, <2>4 DEF ValidChange, SupportedUnit
  <2> QED
    BY <2>3, <2>4, <2>5 DEF Group, e, f
<1>4. ScopesOf(r) = ScopesOf(op) /\ EffectGroups(r) = EffectGroups(op)
  BY <1>1, <1>3 DEF ScopesOf, EffectGroups
<1>5. r.effects # <<>> /\ Len(r.effects) <= MaximumEffects
  <2>1. 1 \in DOMAIN op.effects
    BY DEF OperationValue, List, ValidPrepared
  <2> QED
    BY <1>1, <2>1 DEF ValidPrepared
<1>6. ValidCommand(r.command)
  BY <1>1 DEF Unreadable
<1>7. PICK c \in Capabilities(behavior) :
        /\ c.class = op.class /\ Declares(op, c) /\ op.protection.kind \in c.protection
        /\ op.protection.kind = "Conditional" => CoversGroups(op)
        /\ op.protection.kind = "MonotoneMerge" => MergesOnly(op)
        /\ ReplayValid(op, c) /\ op.reconciliation \in c.reconciliation \cup {NoMethod}
  BY DEF ValidPrepared
<1>8. /\ Declares(r, c) /\ ReplayValid(r, c)
      /\ CoversGroups(op) => CoversGroups(r)
      /\ MergesOnly(op) => MergesOnly(r)
  BY <1>1, <1>2, <1>3, <1>4, <1>7 DEF Declares, ReplayValid, CoversGroups, MergesOnly
<1>9. ValidPrepared(r, behavior)
  BY <1>1, <1>2, <1>3, <1>4, <1>5, <1>6, <1>7, <1>8 DEF ValidPrepared
<1> QED
  BY <1>2, <1>4, <1>9 DEF r

\* A stored operation is accepted again by every behavior it is valid for.
LEMMA PreparedAccepted ==
  ASSUME NEW op, OperationValue(op), NEW behavior, ValidPrepared(op, behavior), ~Unreadable(op)
  PROVE  AcceptsPrepared(EncodePrepared(op), behavior)
BY PreparedWellFormed, PreparedReread, OperationRoundTrip DEF AcceptsPrepared

-----------------------------------------------------------------------------
(* What a provider prepares is a value. *)

LEMMA EffectsAreValues ==
  ASSUME NEW i, IntentionValue(i), ValidIntention(i), NEW e \in EffectsOf(i)
  PROVE  EffectValue(e)
<1> DEFINE effect(change) == [scope |-> i.scope, group |-> "entry", change |-> change]
           set == [kind |-> "SetCompletion", domain |-> i.domain, before |-> i.baseline,
                   after |-> i.desired]
           merge == [kind |-> "MergeItems", domain |-> i.domain,
                     before |-> i.baseline.completed, additions |-> i.desired.completed]
<1>1. e = effect(set) \/ (e = effect(merge) /\ i.desired.kind = "Items")
  BY DEF EffectsOf
<1>2. ChangeValue(set)
  BY DEF IntentionValue, ChangeValue, Struct
<1>3. ASSUME i.desired.kind = "Items" PROVE ChangeValue(merge)
  BY <1>3 DEF IntentionValue, ValidIntention, ProgressValue, ChangeValue, Struct
<1> HIDE DEF set, merge
<1>4. ScopeValue(i.scope)
  BY DEF IntentionValue
<1> QED
  BY <1>1, <1>2, <1>3, <1>4 DEF EffectValue, Struct

LEMMA AddedEffects ==
  ASSUME NEW e, NEW l, List(l)
  PROVE  /\ List(<<e>> \o l)
         /\ \A x \in ToSet(<<e>> \o l) : x = e \/ x \in ToSet(l)
         /\ IsFiniteSet({Group(e)} \cup {Group(l[j]) : j \in DOMAIN l})
<1> DEFINE S == {e} \cup ToSet(l)
           q == <<e>> \o l
<1>1. <<e>> \in Seq(S) /\ l \in Seq(S) /\ Len(<<e>>) = 1
  BY SeqMonotonic DEF List
<1>2. /\ q \in Seq(S) /\ Len(q) = 1 + Len(l) /\ Len(l) \in Nat /\ DOMAIN l = 1 .. Len(l)
      /\ \A j \in 1 .. 1 + Len(l) : q[j] = IF j <= 1 THEN e ELSE l[j - 1]
  BY <1>1, ConcatProperties, LenProperties
<1>3. DOMAIN q = 1 .. Len(q) /\ q = [j \in 1 .. Len(q) |-> q[j]]
  BY <1>2
<1> HIDE DEF q
<1>4. \A j \in DOMAIN q : q[j] \in ToSet(q)
  BY DEF ToSet
<1>5. q \in Seq(ToSet(q))
  BY <1>2, <1>3, <1>4, IsASeq
<1>6. ASSUME NEW x \in ToSet(q) PROVE x = e \/ x \in ToSet(l)
  <2>1. PICK j \in 1 .. 1 + Len(l) : x = q[j]
    BY <1>2, <1>3 DEF ToSet
  <2>2. CASE j <= 1
    BY <1>2, <2>1, <2>2
  <2>3. CASE ~(j <= 1)
    <3>1. x = l[j - 1] /\ j - 1 \in DOMAIN l
      BY <1>2, <2>1, <2>3
    <3> QED BY <3>1 DEF ToSet
  <2> QED BY <2>2, <2>3
<1>7. IsFiniteSet({Group(e)} \cup {Group(l[j]) : j \in DOMAIN l})
  <2> DEFINE T == {Group(l[j]) : j \in DOMAIN l}
             f == [j \in DOMAIN l |-> Group(l[j])]
  <2>1. f \in Surjection(DOMAIN l, T)
    BY DEF Surjection
  <2>2. IsFiniteSet(DOMAIN l)
    BY <1>2, FS_Interval
  <2>3. IsFiniteSet(T)
    BY <2>1, <2>2, FS_Surjection
  <2> HIDE DEF T
  <2> QED
    BY <2>3, FS_Singleton, FS_Union DEF T
<1> QED
  BY <1>5, <1>6, <1>7 DEF q, List

LEMMA FirstEffect ==
  ASSUME NEW e, NEW l, List(l)
  PROVE  1 \in DOMAIN (<<e>> \o l) /\ (<<e>> \o l)[1] = e
<1> DEFINE S == {e} \cup ToSet(l)
<1>1. <<e>> \in Seq(S) /\ l \in Seq(S) /\ Len(<<e>>) = 1 /\ Len(l) \in Nat
  BY SeqMonotonic DEF List
<1> QED
  BY <1>1, ConcatProperties

LEMMA OperationEffects ==
  ASSUME clock \in Nat, NEW i, NEW op \in Operations(i)
  PROVE  \E e \in EffectsOf(i), l \in Additions : op.effects = <<e>> \o l
BY DEF Operations

LEMMA OperationsAreValues ==
  ASSUME clock \in Nat, NEW i, IntentionValue(i), ValidIntention(i),
         NEW op \in Operations(i)
  PROVE  OperationValue(op)
<1>1. PICK e \in EffectsOf(i), l \in Additions : op.effects = <<e>> \o l
  BY OperationEffects
<1>2. List(l) /\ (\A x \in ToSet(l) : EffectValue(x)) /\ EffectValue(e)
  BY ValuesAssumption, EffectsAreValues
<1>3. List(op.effects) /\ \A x \in ToSet(op.effects) : EffectValue(x)
  BY <1>1, <1>2, AddedEffects
<1>4. ProtectionValue(op.protection)
  <2>1. CASE op.protection = [kind |-> "BestEffort"]
    BY <2>1 DEF ProtectionValue, Struct
  <2>2. CASE op.protection = [kind |-> "MonotoneMerge"]
    BY <2>2 DEF ProtectionValue, Struct
  <2>3. ASSUME NEW f \in EffectsOf(i), NEW k \in Additions,
               NEW g, g = {Group(f)} \cup {Group(k[j]) : j \in DOMAIN k},
               op.protection = [kind |-> "Conditional", token |-> 1, groups |-> g]
        PROVE  ProtectionValue(op.protection)
    <3>1. List(k)
      BY <2>3, ValuesAssumption
    <3>2. IsFiniteSet(g)
      BY <2>3, <3>1, AddedEffects
    <3>3. \A h \in g : {"account", "subject"} \subseteq DOMAIN h
      BY <2>3 DEF Group
    <3> QED
      BY <2>3, <3>2, <3>3 DEF ProtectionValue, Struct
  <2> QED
    BY <2>1, <2>2, <2>3 DEF Operations
<1>5. ReplayValue(op.replay)
  BY DEF Operations, ReplayValue, Struct
<1>6. CommandValue(op.command)
  BY ValuesAssumption DEF Operations
<1>7. Struct(op, {"identity", "class", "behavior_revision", "prepared_at", "expires_at",
                  "effects", "protection", "replay", "reconciliation", "command"})
  BY DEF Operations, Struct
<1> QED
  BY <1>3, <1>4, <1>5, <1>6, <1>7 DEF OperationValue

-----------------------------------------------------------------------------
(* What the two parties hold. *)

Providing == versions \in Histories /\ version \in DOMAIN versions /\ clock \in Nat

\* What came of a value that was sent is that value as it was read, and valid.
Holdings ==
  /\ DOMAIN sent = Legs /\ DOMAIN received = Legs /\ HandedOnUnchanged
  /\ LET o == received["observation"] IN o # None => ObservationValue(o)
  /\ LET i == received["intention"] IN i # None => IntentionValue(i) /\ ValidIntention(i)
  /\ Kept # None => OperationValue(Kept)
  /\ received["execution"] # None => Kept # None

\* Only what is kept is executed; a first call finds nothing carried out.
Calls ==
  /\ applied \in Nat
  /\ attempt # "none" => Kept # None
  /\ calling => attempt = "open"
  /\ attempt = "none" => applied = 0

\* What may not be repeated is called once and so carried out at most once.
\* What may be is carried out twice only late.
Repeats ==
  /\ attempt # "none" /\ Kept.replay.kind # "Deduplicated" =>
       applied <= 1 /\ (calling => applied = 0)
  /\ applied > 1 => late

Inv == Providing /\ Holdings /\ Calls /\ Repeats

-----------------------------------------------------------------------------

LEMMA InvInit == Init => Inv
BY ValuesAssumption
DEF Init, Inv, Providing, Holdings, HandedOnUnchanged, Calls, Repeats, Legs, Kept, List

LEMMA CurrentIsBehavior ==
  ASSUME Providing
  PROVE  BehaviorValue(Current)
BY ValuesAssumption DEF Providing, Current, ToSet

\* A hand-over changes one leg at most, to the value and what was read of it.
LEMMA FaithfulHandOver ==
  ASSUME Holdings, NEW leg \in Legs, NEW value, NEW accepted, NEW by,
         HandOver(leg, value, accepted, AsRead(leg, value), by)
  PROVE  /\ DOMAIN sent' = Legs /\ DOMAIN received' = Legs
         /\ \A k \in Legs : received'[k] # None => received'[k] = AsRead(k, sent'[k])
         /\ \A k \in Legs : k # leg => received'[k] = received[k] /\ sent'[k] = sent[k]
         /\ received'[leg] # received[leg] =>
              accepted /\ received'[leg] = AsRead(leg, value) /\ sent'[leg] = value
BY DEF Holdings, HandedOnUnchanged, HandOver

\* The steps before the preparation and the preparation itself happen while
\* there is nothing to execute.
LEMMA NothingKept ==
  ASSUME Inv, Unprepared
  PROVE  /\ Kept = None /\ received["execution"] = None
         /\ attempt = "none" /\ ~calling /\ applied = 0
BY DEF Inv, Holdings, Calls, Unprepared, Kept

LEMMA InvDescribe ==
  ASSUME Inv, Describe
  PROVE  Inv'
<1>1. DecodeBehavior(EncodeBehavior(Current)) = AsRead("behavior", Current)
  BY CurrentIsBehavior, BehaviorRoundTrip DEF Inv, AsRead
<1>2. PICK accepted :
        HandOver("behavior", Current, accepted, AsRead("behavior", Current), None)
  BY <1>1 DEF Describe
<1>3. /\ DOMAIN sent' = Legs /\ DOMAIN received' = Legs
      /\ \A k \in Legs : received'[k] # None => received'[k] = AsRead(k, sent'[k])
      /\ \A k \in Legs : k # "behavior" => received'[k] = received[k] /\ sent'[k] = sent[k]
  BY <1>2, FaithfulHandOver DEF Inv, Legs
<1>4. Holdings'
  BY <1>3 DEF Inv, Holdings, HandedOnUnchanged, Kept, Legs
<1> QED
  BY <1>3, <1>4 DEF Inv, Providing, Calls, Repeats, Kept, Describe, Legs

LEMMA InvRead ==
  ASSUME Inv, NEW found \in Observations, Read(found)
  PROVE  Inv'
<1> DEFINE o == [found EXCEPT !.behavior_revision = Current.revision]
<1>1. ObservationValue(o)
  BY ValuesAssumption DEF ObservationValue, Struct
<1>2. /\ DecodeObservation(EncodeObservation(o)) = AsRead("observation", o)
      /\ ObservationValue(AsRead("observation", o))
  BY <1>1, ObservationRoundTrip, ObservationReread DEF AsRead
<1>3. PICK accepted :
        HandOver("observation", o, accepted, AsRead("observation", o), received["behavior"])
  BY <1>2 DEF Read
<1> HIDE DEF o
<1>4. /\ DOMAIN sent' = Legs /\ DOMAIN received' = Legs
      /\ \A k \in Legs : received'[k] # None => received'[k] = AsRead(k, sent'[k])
      /\ \A k \in Legs : k # "observation" => received'[k] = received[k] /\ sent'[k] = sent[k]
      /\ received'["observation"] \in {received["observation"], AsRead("observation", o)}
  BY <1>3, FaithfulHandOver DEF Inv, Legs
<1>5. Holdings'
  BY <1>2, <1>4 DEF Inv, Holdings, HandedOnUnchanged, Kept, Legs
<1> QED
  BY <1>4, <1>5 DEF Inv, Providing, Calls, Repeats, Kept, Read, Legs

LEMMA InvAsk ==
  ASSUME Inv, NEW desired \in Desires, Ask(desired)
  PROVE  Inv'
<1> DEFINE o == received["observation"]
           i == [scope |-> Scope, domain |-> o.domain,
                 baseline |-> IF o.presence.kind = "Present" THEN o.presence.progress
                              ELSE [kind |-> "Items", completed |-> {}],
                 desired |-> desired]
<1>1. ObservationValue(o)
  BY DEF Ask, Inv, Holdings
<1>2. ProgressValue([kind |-> "Items", completed |-> {}])
  BY FS_EmptySet DEF ProgressValue, Struct
<1>3. IntentionValue(i)
  BY <1>1, <1>2, ValuesAssumption DEF IntentionValue, ObservationValue, PresenceValue, Struct
<1>4. /\ ValidIntention(i) /\ AsRead("intention", i) = i
      /\ DecodeIntention(EncodeIntention(i)) = i
  BY <1>3, IntentionRoundTrip DEF Ask, AsRead
<1>5. PICK accepted : HandOver("intention", i, accepted, AsRead("intention", i), None)
  BY <1>4 DEF Ask
<1> HIDE DEF i
<1>6. /\ DOMAIN sent' = Legs /\ DOMAIN received' = Legs
      /\ \A k \in Legs : received'[k] # None => received'[k] = AsRead(k, sent'[k])
      /\ \A k \in Legs : k # "intention" => received'[k] = received[k] /\ sent'[k] = sent[k]
      /\ received'["intention"] \in {received["intention"], i}
  BY <1>4, <1>5, FaithfulHandOver DEF Inv, Legs
<1>7. Holdings'
  BY <1>3, <1>4, <1>6 DEF Inv, Holdings, HandedOnUnchanged, Kept, Legs
<1> QED
  BY <1>6, <1>7 DEF Inv, Providing, Calls, Repeats, Kept, Ask, Legs

LEMMA InvPrepare ==
  ASSUME Inv, NEW op \in Operations(received["intention"]),
         NEW w \in {EncodePrepared(op)} \cup Phrased(op), Prepare(op, w)
  PROVE  Inv'
<1>1. OperationValue(op)
  BY OperationsAreValues DEF Inv, Providing, Holdings, Prepare
<1>2. DecodePrepared(w) = AsRead("operation", op) /\ OperationValue(AsRead("operation", op))
  BY <1>1, OperationRoundTrip, OperationReread DEF Phrased, AsRead
<1>3. PICK accepted :
        HandOver("operation", op, accepted, AsRead("operation", op), received["behavior"])
  BY <1>2 DEF Prepare
<1>4. /\ DOMAIN sent' = Legs /\ DOMAIN received' = Legs
      /\ \A k \in Legs : received'[k] # None => received'[k] = AsRead(k, sent'[k])
      /\ \A k \in Legs : k # "operation" => received'[k] = received[k] /\ sent'[k] = sent[k]
      /\ received'["operation"] \in {received["operation"], AsRead("operation", op)}
  BY <1>3, FaithfulHandOver DEF Inv, Legs
<1>5. received["execution"] = None /\ attempt = "none" /\ ~calling /\ applied = 0
  BY NothingKept DEF Prepare
<1>6. Holdings'
  BY <1>2, <1>4, <1>5 DEF Inv, Holdings, HandedOnUnchanged, Kept, Legs
<1> QED
  BY <1>4, <1>5, <1>6 DEF Inv, Providing, Calls, Repeats, Kept, Prepare, Legs

\* What is executed is what was prepared.  It is carried out once more only
\* if it may be and the call comes late: an accepted operation with a replay
\* guarantee is of a class that the provider of the moment deduplicates.
LEMMA InvArrive ==
  ASSUME Inv, NEW answered \in BOOLEAN, Arrive(answered)
  PROVE  Inv'
<1> DEFINE accepted == AcceptsPrepared(EncodePrepared(Kept), Current)
<1>1. Kept # None /\ OperationValue(Kept) /\ calling /\ attempt = "open"
  BY DEF Arrive, Inv, Calls, Holdings
<1> DEFINE op == AsRead("execution", Kept)
<1>2. /\ DecodePrepared(EncodePrepared(Kept)) = op
      /\ op.replay = Kept.replay /\ op.class = Kept.class
  <2>1. op = RereadOperation(Kept)
    BY DEF AsRead
  <2> HIDE DEF op
  <2>2. \A x \in DOMAIN Kept \ {"effects", "command"} : op[x] = Kept[x]
    BY <1>1, <2>1, OperationReread
  <2>3. op.replay = Kept.replay /\ op.class = Kept.class
    BY <1>1, <2>2 DEF OperationValue, Struct
  <2> QED
    BY <1>1, <2>1, <2>3, OperationRoundTrip
<1> HIDE DEF op
<1>3. /\ HandOver("execution", Kept, accepted, op, Current)
      /\ applied' = IF accepted /\ ~(applied > 0 /\ Deduplicates(op))
                    THEN applied + 1 ELSE applied
      /\ late' = (late \/ (accepted /\ op.replay.kind = "Deduplicated"
                             /\ clock >= op.replay.valid_until))
      /\ attempt' = IF accepted /\ answered THEN "settled" ELSE attempt
      /\ calling' = FALSE /\ UNCHANGED <<versions, version, clock>>
  BY <1>2 DEF Arrive
<1>4. /\ DOMAIN sent' = Legs /\ DOMAIN received' = Legs
      /\ \A k \in Legs : received'[k] # None => received'[k] = AsRead(k, sent'[k])
      /\ \A k \in Legs : k # "execution" => received'[k] = received[k] /\ sent'[k] = sent[k]
      /\ sent'["execution"] = Kept \/ UNCHANGED <<sent, received>>
  <2>1. HandOver("execution", Kept, accepted, AsRead("execution", Kept), Current)
    BY <1>3 DEF op
  <2>2. /\ DOMAIN sent' = Legs /\ DOMAIN received' = Legs
        /\ \A k \in Legs : received'[k] # None => received'[k] = AsRead(k, sent'[k])
        /\ \A k \in Legs : k # "execution" => received'[k] = received[k] /\ sent'[k] = sent[k]
    BY <2>1, FaithfulHandOver DEF Inv, Legs
  <2>3. sent'["execution"] = Kept \/ UNCHANGED <<sent, received>>
    BY <2>1 DEF HandOver, Inv, Holdings, Legs
  <2> QED
    BY <2>2, <2>3
<1>5. Kept' = Kept
  BY <1>4 DEF Kept, Legs
<1>6. Holdings' /\ Providing'
  BY <1>1, <1>3, <1>4, <1>5 DEF Inv, Providing, Holdings, HandedOnUnchanged, Kept, Legs
<1>7. applied \in Nat /\ applied' \in Nat /\ applied' \in {applied, applied + 1}
  BY <1>3 DEF Inv, Calls
<1>8. Calls'
  BY <1>1, <1>3, <1>5, <1>7 DEF Calls
<1>9. ASSUME accepted, Kept.replay.kind = "Deduplicated", clock < Kept.replay.valid_until
      PROVE  Deduplicates(op)
  BY <1>2, <1>9 DEF AcceptsPrepared, ValidPrepared, ReplayValid, Deduplicates
<1>10. Repeats'
  <2>1. CASE Kept.replay.kind # "Deduplicated"
    BY <1>1, <1>2, <1>3, <1>5, <1>7, <2>1 DEF Inv, Repeats
  <2>2. CASE Kept.replay.kind = "Deduplicated"
    <3>1. Kept.replay.valid_until \in Nat /\ clock \in Nat
      BY <1>1, <2>2 DEF OperationValue, ReplayValue, Inv, Providing
    <3>2. applied' > 1 => late'
      <4>1. CASE applied' = applied
        BY <1>3, <4>1 DEF Inv, Repeats
      <4>2. CASE applied' # applied /\ applied = 0
        BY <1>3, <4>2
      <4>3. CASE applied' # applied /\ applied > 0
        <5>1. accepted /\ ~Deduplicates(op)
          BY <1>3, <4>3
        <5>2. ~(clock < Kept.replay.valid_until)
          BY <1>9, <2>2, <5>1
        <5>3. clock >= Kept.replay.valid_until
          BY <3>1, <5>2
        <5> QED
          BY <1>2, <1>3, <2>2, <5>1, <5>3
      <4> QED BY <1>7, <4>1, <4>2, <4>3
    <3> QED BY <1>5, <2>2, <3>2 DEF Repeats
  <2> QED BY <2>1, <2>2
<1> QED
  BY <1>6, <1>8, <1>10 DEF Inv

LEMMA InvExecute ==
  ASSUME Inv, Execute
  PROVE  Inv'
BY DEF Inv, Providing, Holdings, HandedOnUnchanged, Calls, Repeats, Kept, Execute

LEMMA InvNext == Inv /\ [Next]_vars => Inv'
<1> SUFFICES ASSUME Inv, [Next]_vars PROVE Inv'
  OBVIOUS
<1>1. CASE Tick
  BY <1>1 DEF Tick, Inv, Providing, Holdings, HandedOnUnchanged, Calls, Repeats, Kept
<1>2. CASE Update
  <2>1. version + 1 \in DOMAIN versions
    BY <1>2, ValuesAssumption DEF Update, Inv, Providing, List
  <2> QED
    BY <1>2, <2>1 DEF Update, Inv, Providing, Holdings, HandedOnUnchanged, Calls, Repeats, Kept
<1>3. CASE Describe
  BY <1>3, InvDescribe
<1>4. CASE \E o \in Observations : Read(o)
  BY <1>4, InvRead
<1>5. CASE \E d \in Desires : Ask(d)
  BY <1>5, InvAsk
<1>6. CASE \E op \in Operations(received["intention"]) :
             \E w \in {EncodePrepared(op)} \cup Phrased(op) : Prepare(op, w)
  BY <1>6, InvPrepare
<1>7. CASE Execute
  BY <1>7, InvExecute
<1>8. CASE \E answered \in BOOLEAN : Arrive(answered)
  BY <1>8, InvArrive
<1>9. CASE Drop
  BY <1>9 DEF Drop, Inv, Providing, Holdings, HandedOnUnchanged, Calls, Repeats, Kept
<1>10. CASE Reconcile
  BY <1>10 DEF Reconcile, Inv, Providing, Holdings, HandedOnUnchanged, Calls, Repeats, Kept
<1>11. CASE UNCHANGED vars
  BY <1>11 DEF vars, Inv, Providing, Holdings, HandedOnUnchanged, Calls, Repeats, Kept
<1> QED
  BY <1>1, <1>2, <1>3, <1>4, <1>5, <1>6, <1>7, <1>8, <1>9, <1>10, <1>11 DEF Next

\* What the two parties hold, and what has been called and carried out, stays
\* in order.
THEOREM Invariant == Spec => []Inv
BY InvInit, InvNext, PTL DEF Spec

\* What a receiver works with is what the sender meant, on every leg, but for
\* what reading makes of native JSON, and the operation executed is the one
\* that was kept, with its effects, protection and replay.
THEOREM HandedOn == Spec => []HandedOnUnchanged
<1>1. Inv => HandedOnUnchanged
  BY DEF Inv, Holdings
<1> QED
  BY <1>1, Invariant, PTL

\* An operation executed again under its replay guarantee is carried out once,
\* unless a call takes effect after the guarantee.
THEOREM ReplayedOnce == Spec => []ReplayOnce
<1>1. Inv => ReplayOnce
  BY DEF Inv, Repeats, ReplayOnce
<1> QED
  BY <1>1, Invariant, PTL

-----------------------------------------------------------------------------
(* What is refused.  A refusal is explained by what the receiver holds and   *)
(* by where the value came from, so both are followed: the behaviors are     *)
(* versions of the provider, told apart by their revisions, the intention is *)
(* of the field, and what is kept was valid by the version it was made for.  *)

Agreed ==
  /\ (\E leg \in {"behavior", "observation", "intention"} : received[leg] # None) =>
       received["behavior"] \in ToSet(versions)
  /\ LET i == received["intention"] IN i # None => i.scope = Scope
  /\ Kept # None => \E b \in ToSet(versions) : ValidPrepared(Kept, b)

LEMMA SameRevision ==
  ASSUME Providing
  PROVE  /\ Current \in ToSet(versions) /\ ValidBehavior(Current)
         /\ \A b \in ToSet(versions) : b.revision = Current.revision => b = Current
<1>1. versions \in Histories /\ Current \in ToSet(versions)
  BY DEF Providing, Current, ToSet
<1> QED
  BY <1>1, ValuesAssumption

\* If a hand-over is refused, that is the refusal.
LEMMA HandOverRefusal ==
  ASSUME Holdings, NEW leg \in Legs, NEW value, NEW accepted, NEW decoded, NEW by,
         HandOver(leg, value, accepted, decoded, by)
  PROVE  refusal' = None \/ (~accepted /\ refusal' = [leg |-> leg, value |-> value, by |-> by])
BY DEF HandOver

LEMMA KeptStillAccepted ==
  ASSUME Inv, Agreed, Kept # None, Kept.behavior_revision = Current.revision, ~Unreadable(Kept)
  PROVE  AcceptsPrepared(EncodePrepared(Kept), Current)
<1>1. PICK b \in ToSet(versions) : ValidPrepared(Kept, b)
  BY DEF Agreed
<1>2. b = Current
  BY <1>1, SameRevision DEF Inv, ValidPrepared
<1> QED
  BY <1>1, <1>2, PreparedAccepted DEF Inv, Holdings

LEMMA DescribeExplained ==
  ASSUME Inv, Agreed, Describe
  PROVE  Agreed' /\ RefusalsExplained'
<1>1. BehaviorValue(Current) /\ ValidBehavior(Current) /\ Current \in ToSet(versions)
  BY CurrentIsBehavior, SameRevision DEF Inv
<1> DEFINE accepted == AcceptsBehavior(EncodeBehavior(Current))
<1>2. HandOver("behavior", Current, accepted, AsRead("behavior", Current), None)
  BY <1>1, BehaviorRoundTrip DEF Describe, AsRead
<1>3. ~accepted => TooManyNames(Current)
  BY <1>1, BehaviorAccepted
<1> HIDE DEF accepted
<1>4. /\ \A k \in Legs : k # "behavior" => received'[k] = received[k]
      /\ received'["behavior"] \in {received["behavior"], Current}
  BY <1>2, FaithfulHandOver DEF Inv, Legs, AsRead
<1>5. \/ refusal' = None
      \/ ~accepted /\ refusal' = [leg |-> "behavior", value |-> Current, by |-> None]
  BY <1>2, HandOverRefusal DEF Inv, Legs
<1>6. Agreed'
  BY <1>1, <1>4 DEF Agreed, Kept, Describe, Legs
<1> QED
  BY <1>3, <1>5, <1>6 DEF RefusalsExplained, Explained

LEMMA ReadExplained ==
  ASSUME Inv, Agreed, NEW found \in Observations, Read(found)
  PROVE  Agreed' /\ RefusalsExplained'
<1> DEFINE o == [found EXCEPT !.behavior_revision = Current.revision]
           b == received["behavior"]
           r == RereadObservation(o)
           accepted == AcceptsObservation(EncodeObservation(o)) /\ ObservationFits(r, b)
<1>1. ObservationValue(o) /\ ValidObservation(o) /\ o.domain.unit \in Current.units
      /\ o.behavior_revision = Current.revision
  BY ValuesAssumption DEF ObservationValue, ValidObservation, Struct, Read
<1>2. DecodeObservation(EncodeObservation(o)) = r
  BY <1>1, ObservationRoundTrip
<1>3. HandOver("observation", o, accepted, r, b)
  BY <1>2 DEF Read
<1>4. ~accepted => o.behavior_revision # b.revision \/ UnreadableObservation(o)
  <2> SUFFICES ASSUME o.behavior_revision = b.revision, ~UnreadableObservation(o)
               PROVE  accepted
    OBVIOUS
  <2> HIDE DEF o
  <2>1. b \in ToSet(versions)
    BY DEF Agreed, Read
  <2>2. b = Current
    BY <1>1, <2>1, SameRevision DEF Inv
  <2>3. r.behavior_revision = o.behavior_revision /\ r.domain = o.domain
    BY <1>1, ObservationReread DEF ObservationValue, Struct
  <2> QED
    BY <1>1, <2>2, <2>3, ObservationAccepted DEF ObservationFits
<1> HIDE DEF accepted, o
<1>5. \A k \in Legs : k # "observation" => received'[k] = received[k]
  BY <1>3, FaithfulHandOver DEF Inv, Legs, AsRead
<1>6. refusal' = None \/ (~accepted /\ refusal' = [leg |-> "observation", value |-> o, by |-> b])
  BY <1>3, HandOverRefusal DEF Inv, Legs
<1>7. Agreed'
  BY <1>5 DEF Agreed, Kept, Read, Legs
<1> QED
  BY <1>4, <1>6, <1>7 DEF RefusalsExplained, Explained

LEMMA AskExplained ==
  ASSUME Inv, Agreed, NEW desired \in Desires, Ask(desired)
  PROVE  Agreed' /\ RefusalsExplained'
<1> DEFINE o == received["observation"]
           i == [scope |-> Scope, domain |-> o.domain,
                 baseline |-> IF o.presence.kind = "Present" THEN o.presence.progress
                              ELSE [kind |-> "Items", completed |-> {}],
                 desired |-> desired]
           accepted == AcceptsIntention(EncodeIntention(i))
<1>1. ObservationValue(o)
  BY DEF Ask, Inv, Holdings
<1>2. ProgressValue([kind |-> "Items", completed |-> {}])
  BY FS_EmptySet DEF ProgressValue, Struct
<1>3. IntentionValue(i)
  BY <1>1, <1>2, ValuesAssumption DEF IntentionValue, ObservationValue, PresenceValue, Struct
<1>4. ValidIntention(i) /\ DecodeIntention(EncodeIntention(i)) = i
  BY <1>3, IntentionRoundTrip DEF Ask
<1>5. HandOver("intention", i, accepted, AsRead("intention", i), None)
  BY <1>4 DEF Ask, AsRead
<1>6. accepted /\ i.scope = Scope
  BY <1>3, <1>4, IntentionAccepted
<1> HIDE DEF accepted, i
<1>7. /\ \A k \in Legs : k # "intention" => received'[k] = received[k]
      /\ received'["intention"] \in {received["intention"], i}
  BY <1>5, FaithfulHandOver DEF Inv, Legs, AsRead
<1>8. refusal' = None
  BY <1>5, <1>6, HandOverRefusal DEF Inv, Legs
<1>9. Agreed'
  BY <1>6, <1>7 DEF Agreed, Kept, Ask, Legs
<1> QED
  BY <1>8, <1>9 DEF RefusalsExplained

\* What a provider makes of an intention answers the request.
LEMMA OperationsCorrelate ==
  ASSUME clock \in Nat, NEW i, IntentionValue(i), ValidIntention(i), i.scope = Scope,
         NEW op \in Operations(i)
  PROVE  /\ ValidPrepared(op, Current) /\ op.behavior_revision = Current.revision
         /\ Correlates(op, "op", Scope.account, <<Scope>>)
<1>1. ValidPrepared(op, Current)
  BY DEF Operations
<1>2. op.identity = "op"
  BY DEF Operations
<1>3. PICK e \in EffectsOf(i), l \in Additions : op.effects = <<e>> \o l
  BY OperationEffects
<1>4. e.scope = Scope /\ List(l) /\ \A x \in ToSet(l) : x.scope.account = Scope.account
  BY ValuesAssumption DEF EffectsOf
<1>5. /\ \A x \in ToSet(op.effects) : x = e \/ x \in ToSet(l)
      /\ 1 \in DOMAIN op.effects /\ op.effects[1] = e
  BY <1>3, <1>4, AddedEffects, FirstEffect
<1>6. Scope \in ScopesOf(op) /\ \A s \in ScopesOf(op) : s.account = Scope.account
  BY <1>4, <1>5 DEF ScopesOf, ToSet
<1>7. <<Scope>> # <<>> /\ IsInjective(<<Scope>>) /\ ToSet(<<Scope>>) = {Scope}
  BY DEF IsInjective, ToSet
<1> QED
  BY <1>1, <1>6, <1>7, <1>2 DEF Correlates, ValidPrepared

LEMMA PrepareExplained ==
  ASSUME Inv, Agreed, NEW op \in Operations(received["intention"]),
         NEW w \in {EncodePrepared(op)} \cup Phrased(op), Prepare(op, w)
  PROVE  Agreed' /\ RefusalsExplained'
<1> DEFINE i == received["intention"]
           b == received["behavior"]
           r == RereadOperation(op)
           accepted == /\ AcceptsPrepared(w, b)
                       /\ ValidPreparedFor(r, b, "op", Scope.account, <<Scope>>)
<1>1. IntentionValue(i) /\ ValidIntention(i) /\ i.scope = Scope /\ clock \in Nat
  BY DEF Inv, Providing, Holdings, Agreed, Prepare
<1> HIDE DEF i
<1>2. OperationValue(op)
  BY <1>1, OperationsAreValues DEF i
<1>3. /\ ValidPrepared(op, Current) /\ op.behavior_revision = Current.revision
      /\ Correlates(op, "op", Scope.account, <<Scope>>)
  BY <1>1, OperationsCorrelate DEF i
<1>4. DecodePrepared(w) = r
  BY <1>2, OperationRoundTrip DEF Phrased
<1>5. HandOver("operation", op, accepted, r, b)
  BY <1>4 DEF Prepare
<1>6. b \in ToSet(versions)
  BY DEF Prepare, Agreed
<1>7. ~accepted => op.behavior_revision # b.revision \/ Unreadable(op)
  <2> SUFFICES ASSUME op.behavior_revision = b.revision, ~Unreadable(op) PROVE accepted
    OBVIOUS
  <2>2. b = Current
    BY <1>3, <1>6, SameRevision DEF Inv
  <2>3. WellFormedPrepared(w)
    BY <1>2, <1>3, PreparedWellFormed DEF Phrased
  <2>4. ValidPrepared(r, Current) /\ r.identity = op.identity /\ ScopesOf(r) = ScopesOf(op)
    BY <1>2, <1>3, PreparedReread
  <2> QED
    BY <1>3, <1>4, <2>2, <2>3, <2>4 DEF AcceptsPrepared, ValidPreparedFor, Correlates
<1>8. accepted => ValidPrepared(r, b)
  BY DEF ValidPreparedFor
<1> HIDE DEF accepted
<1>9. /\ \A k \in Legs : k # "operation" => received'[k] = received[k]
      /\ received'["operation"] = received["operation"]
         \/ (accepted /\ received'["operation"] = r)
  BY <1>5, FaithfulHandOver DEF Inv, Legs, AsRead
<1>10. refusal' = None \/ (~accepted /\ refusal' = [leg |-> "operation", value |-> op, by |-> b])
  BY <1>5, HandOverRefusal DEF Inv, Legs
<1>11. Agreed'
  BY <1>6, <1>8, <1>9 DEF Agreed, Kept, Prepare, Legs
<1> QED
  BY <1>7, <1>10, <1>11 DEF RefusalsExplained, Explained

LEMMA ArriveExplained ==
  ASSUME Inv, Agreed, NEW answered \in BOOLEAN, Arrive(answered)
  PROVE  Agreed' /\ RefusalsExplained'
<1> DEFINE accepted == AcceptsPrepared(EncodePrepared(Kept), Current)
<1>1. Kept # None /\ OperationValue(Kept)
  BY DEF Arrive, Inv, Calls, Holdings
<1>2. HandOver("execution", Kept, accepted, AsRead("execution", Kept), Current)
      /\ UNCHANGED versions
  BY <1>1, OperationRoundTrip DEF Arrive, AsRead
<1>3. ~accepted => Kept.behavior_revision # Current.revision \/ Unreadable(Kept)
  BY <1>1, KeptStillAccepted
<1> HIDE DEF accepted
<1>4. \A k \in Legs : k # "execution" => received'[k] = received[k]
  BY <1>2, FaithfulHandOver DEF Inv, Legs
<1>5. \/ refusal' = None
      \/ ~accepted /\ refusal' = [leg |-> "execution", value |-> Kept, by |-> Current]
  BY <1>2, HandOverRefusal DEF Inv, Legs
<1>6. Agreed'
  BY <1>2, <1>4 DEF Agreed, Kept, Legs
<1> QED
  BY <1>3, <1>5, <1>6 DEF RefusalsExplained, Explained

LEMMA ReconcileExplained ==
  ASSUME Inv, Agreed, RefusalsExplained, Reconcile
  PROVE  Agreed' /\ RefusalsExplained'
<1>1. Agreed'
  BY DEF Reconcile, Agreed, Kept
<1>2. CASE Reconcilable(Kept, Current, clock)
  BY <1>1, <1>2 DEF Reconcile, RefusalsExplained
<1>3. CASE ~Reconcilable(Kept, Current, clock)
  <2>1. Kept # None
    BY DEF Reconcile, Inv, Calls
  <2>2. Kept.behavior_revision # Current.revision \/ Unreadable(Kept)
    BY <1>3, <2>1, KeptStillAccepted DEF Reconcilable
  <2>3. refusal' = [leg |-> "operation", value |-> Kept, by |-> Current]
    BY <1>3 DEF Reconcile
  <2> QED
    BY <1>1, <2>2, <2>3 DEF RefusalsExplained, Explained
<1> QED
  BY <1>2, <1>3

LEMMA ExplainedNext ==
  Inv /\ Agreed /\ RefusalsExplained /\ [Next]_vars => Agreed' /\ RefusalsExplained'
<1> SUFFICES ASSUME Inv, Agreed, RefusalsExplained, [Next]_vars
             PROVE  Agreed' /\ RefusalsExplained'
  OBVIOUS
<1>1. CASE Tick \/ Update \/ Execute \/ Drop
  BY <1>1 DEF Tick, Update, Execute, Drop, Agreed, RefusalsExplained, Kept
<1>2. CASE Describe
  BY <1>2, DescribeExplained
<1>3. CASE \E o \in Observations : Read(o)
  BY <1>3, ReadExplained
<1>4. CASE \E d \in Desires : Ask(d)
  BY <1>4, AskExplained
<1>5. CASE \E op \in Operations(received["intention"]) :
             \E w \in {EncodePrepared(op)} \cup Phrased(op) : Prepare(op, w)
  BY <1>5, PrepareExplained
<1>6. CASE \E answered \in BOOLEAN : Arrive(answered)
  BY <1>6, ArriveExplained
<1>7. CASE Reconcile
  BY <1>7, ReconcileExplained
<1>8. CASE UNCHANGED vars
  BY <1>8 DEF vars, Agreed, RefusalsExplained, Kept
<1> QED
  BY <1>1, <1>2, <1>3, <1>4, <1>5, <1>6, <1>7, <1>8 DEF Next

\* Nothing valid is refused on any leg, except what was made for another
\* behavior or is beyond a limit that only the wire has: on names, on what JSON
\* is once it was read, on its nesting.
THEOREM NothingValidRefused == Spec => []RefusalsExplained
<1>1. Init => Agreed /\ RefusalsExplained
  BY DEF Init, Agreed, RefusalsExplained, Legs, Kept
<1> QED
  BY <1>1, Invariant, ExplainedNext, PTL DEF Spec

-----------------------------------------------------------------------------
(* The evidence of a response: what was decoded is a value. *)

\* A list without repetition has as many members as entries, and the other way
\* around.
LEMMA ListedApart ==
  ASSUME NEW l, List(l)
  PROVE  IsInjective(l) <=> Cardinality(ToSet(l)) = Len(l)
<1> DEFINE n == Len(l)
<1>1. n \in Nat /\ DOMAIN l = 1 .. n /\ IsFiniteSet(ToSet(l))
  BY ListedMembers
<1>2. l \in Surjection(1 .. n, ToSet(l))
  BY <1>1 DEF List, Surjection, ToSet
<1> HIDE DEF n
<1>3. IsFiniteSet(1 .. n) /\ Cardinality(1 .. n) = n
  BY <1>1, FS_Interval
<1>4. Cardinality(ToSet(l)) = n <=> l \in Injection(1 .. n, ToSet(l))
  BY <1>2, <1>3, FS_Surjection
<1>5. l \in Injection(1 .. n, ToSet(l)) <=> IsInjective(l)
  BY <1>1, <1>2 DEF Injection, Surjection, IsInjective
<1> QED
  BY <1>4, <1>5 DEF n

LEMMA DomainDecoded ==
  ASSUME NEW w, DomainMessage(w), AcceptsDomain(w)
  PROVE  /\ DomainValue(DecodeDomain(w)) /\ Len(DecodeDomain(w).units) = Len(w.units)
         /\ ToSet(DecodeDomain(w).units) = ToSet(w.units)
<1> DEFINE S == ToSet(w.units)
<1>1. CASE w.ordering = "Ordered"
  BY <1>1 DEF DomainMessage, AcceptsDomain, Present, DecodeDomain, NewDomain, DomainValue, Struct
<1>2. CASE w.ordering = "Unordered"
  <2>1. S \subseteq Int /\ IsFiniteSet(S) /\ Cardinality(S) = Len(w.units)
    BY ListedMembers, ListedApart DEF DomainMessage, AcceptsDomain, ValidDomain
  <2> HIDE DEF S
  <2> DEFINE o == InOrder(S)
             d == [w EXCEPT !.units = o]
  <2>2. List(o) /\ Len(o) = Len(w.units) /\ ToSet(o) = S /\ IsInjective(o)
    BY <2>1, Sorted DEF List
  <2>3. DecodeDomain(w) = d
    BY <1>2 DEF DecodeDomain, NewDomain, S
  <2> HIDE DEF o
  <2>4. /\ Struct(d, {"identity", "ordering", "units"}) /\ d.units = o /\ d.ordering = "Unordered"
    BY <1>2 DEF DomainMessage, AcceptsDomain, Present, Struct
  <2>5. NewDomain(d) = d
    BY <2>2, <2>4 DEF NewDomain, Struct, o
  <2>6. ValidDomain(d)
    BY <2>2, <2>4 DEF ValidDomain, AcceptsDomain
  <2> HIDE DEF d
  <2>7. DomainValue(d)
    BY <2>2, <2>4, <2>5, <2>6 DEF DomainValue
  <2> QED
    BY <2>2, <2>3, <2>4, <2>7 DEF S
<1> QED
  BY <1>1, <1>2 DEF AcceptsDomain

LEMMA ProgressDecoded ==
  ASSUME NEW w, ProgressMessage(w), AcceptsProgress(w)
  PROVE  ProgressValue(DecodeProgress(w))
<1>1. w.kind = "Items" => IsFiniteSet(ToSet(w.completed))
  BY ListedMembers DEF ProgressMessage, AcceptsProgress, Present
<1> QED
  BY <1>1 DEF ProgressMessage, AcceptsProgress, Present, DecodeProgress, ProgressValue, Struct

LEMMA PresenceDecoded ==
  ASSUME NEW w, PresenceMessage(w), AcceptsPresence(w)
  PROVE  PresenceValue(DecodePresence(w))
<1>1. w.kind = "Present" => ProgressValue(DecodeProgress(w.progress))
  BY ProgressDecoded DEF PresenceMessage, AcceptsPresence, Present
<1> QED
  BY <1>1 DEF PresenceMessage, AcceptsPresence, Present, DecodePresence, PresenceValue, Struct

LEMMA ObservationDecoded ==
  ASSUME NEW w, ObservationMessage(w), AcceptsObservation(w)
  PROVE  LET o == DecodeObservation(w)
         IN  ObservationValue(o) /\ ValidObservation(o) /\ ~TooDeep(o.native_value)
<1>1. DomainValue(DecodeDomain(w.domain)) /\ PresenceValue(DecodePresence(w.presence))
  BY DomainDecoded, PresenceDecoded DEF ObservationMessage, AcceptsObservation, Present
<1>2. DecodeJson(w.native_value) \in JsonValues /\ ~TooDeep(DecodeJson(w.native_value))
  BY JsonReread, LimitsAssumption
  DEF ObservationMessage, AcceptsObservation, JsonMessage, AcceptsJson, DecodeJson, TooDeep
<1> QED
  BY <1>1, <1>2
  DEF ObservationMessage, AcceptsObservation, Present, DecodeObservation, DecodeQuality,
      ObservationValue, Struct

LEMMA FieldObservationDecoded ==
  ASSUME NEW w, FieldObservationMessage(w), AcceptsFieldObservation(w)
  PROVE  LET f == DecodeFieldObservation(w)
         IN  /\ FieldObservationValue(f) /\ ValidFieldObservation(f)
             /\ f.value.kind = "Known" => ~TooDeep(f.value.value)
<1>1. LET b == DecodeBefore(w.value)
      IN  BeforeValue(b) /\ (b.kind = "Known" => ~TooDeep(b.value))
  BY JsonReread, LimitsAssumption
  DEF FieldObservationMessage, AcceptsFieldObservation, Present, BeforeMessage, AcceptsBefore,
      JsonMessage, AcceptsJson, DecodeJson, DecodeBefore, BeforeValue, Struct, TooDeep
<1>2. ScopeValue(w.scope)
  BY DEF FieldObservationMessage, AcceptsFieldObservation, AcceptsScope, Present, ScopeValue,
         ScopeParts, Struct
<1> QED
  BY <1>1, <1>2
  DEF FieldObservationMessage, AcceptsFieldObservation, Present, DecodeFieldObservation,
      DecodeQuality, FieldObservationValue, Struct

LEMMA SubjectDecoded ==
  ASSUME NEW w, SubjectMessage(w), AcceptsSubject(w)
  PROVE  /\ SubjectValue(DecodeSubject(w))
         /\ Cardinality(DecodeSubject(w).classifications) <= MaximumItems
<1>1. /\ IsFiniteSet(ToSet(w.classifications))
      /\ Cardinality(ToSet(w.classifications)) <= MaximumItems
  BY ListedMembers, ListedApart DEF SubjectMessage, AcceptsSubject, AcceptsSet
<1> QED
  BY <1>1 DEF SubjectMessage, AcceptsSubject, Present, DecodeSubject, SubjectValue, Struct

\* The constructor of references lists them by their unit; if each has a unit
\* of its own none is lost, and listed again they stay as they are.
LEMMA BindingSorted ==
  ASSUME NEW b, List(b), {b[i].unit : i \in DOMAIN b} \subseteq Int,
         Cardinality({b[i].unit : i \in DOMAIN b}) = Len(b)
  PROVE  /\ List(ByUnit(b)) /\ Len(ByUnit(b)) = Len(b) /\ ByUnit(ByUnit(b)) = ByUnit(b)
         /\ ToSet(ByUnit(b)) = ToSet(b)
<1> DEFINE n == Len(b)
           ids == {x.unit : x \in ToSet(b)}
           o == InOrder(ids)
           u == ByUnit(b)
           units == [i \in 1 .. n |-> b[i].unit]
<1>1. n \in Nat /\ DOMAIN b = 1 .. n /\ \A i \in 1 .. n : b[i] \in ToSet(b)
  BY ListedMembers DEF ToSet
<1>2. ids = {b[i].unit : i \in DOMAIN b} /\ \A i \in 1 .. n : b[i].unit \in ids
  BY <1>1 DEF ToSet
<1>3. units \in Surjection(1 .. n, ids)
  BY <1>1, <1>2 DEF Surjection
<1>4. ids \subseteq Int /\ Cardinality(ids) = n
  BY <1>2
<1>5. \A x \in ToSet(b) : x.unit \in ids /\ \E i \in 1 .. n : x = b[i]
  BY <1>1 DEF ToSet
<1>6. u = [i \in DOMAIN o |-> CHOOSE x \in ToSet(b) : x.unit = o[i]]
  BY DEF ByUnit
<1> HIDE DEF n, units
<1>7. n \in Nat
  BY <1>1
<1>8. IsFiniteSet(1 .. n) /\ Cardinality(1 .. n) = n
  BY <1>7, FS_Interval
<1>9. units \in Injection(1 .. n, ids) /\ IsFiniteSet(ids)
  BY <1>3, <1>4, <1>8, FS_Surjection
<1>10. \A i, j \in 1 .. n : b[i].unit = b[j].unit => i = j
  <2>1. \A i, j \in 1 .. n : units[i] = units[j] => i = j
    BY <1>9 DEF Injection, IsInjective
  <2> QED
    BY <2>1 DEF units
<1>11. \A x, y \in ToSet(b) : x.unit = y.unit => x = y
  BY <1>5, <1>10
<1>12. DOMAIN o = 1 .. n /\ ToSet(o) = ids /\ IsInjective(o)
  BY <1>4, <1>9, Sorted
<1>13. \A i \in 1 .. n : \E x \in ToSet(b) : x.unit = o[i]
  <2>1. \A i \in 1 .. n : o[i] \in ids
    BY <1>12 DEF ToSet
  <2> HIDE DEF o
  <2> QED
    BY <2>1 DEF ids
<1> HIDE DEF o, u, ids
<1>14. DOMAIN u = 1 .. n /\ \A i \in 1 .. n : u[i] \in ToSet(b) /\ u[i].unit = o[i]
  BY <1>6, <1>12, <1>13
<1>15. ToSet(u) = ToSet(b)
  <2>1. ASSUME NEW x \in ToSet(b) PROVE \E i \in 1 .. n : u[i] = x
    <3>1. PICK i \in 1 .. n : o[i] = x.unit
      BY <1>5, <1>12 DEF ToSet
    <3> QED
      BY <1>11, <1>14, <3>1
  <2> QED
    BY <1>14, <2>1 DEF ToSet
<1>16. u \in Seq(ToSet(u)) /\ Len(u) = n
  <2>1. u \in [1 .. n -> ToSet(u)]
    BY <1>6, <1>14, <1>15
  <2> QED
    BY <1>7, <2>1, IsASeq, LenProperties
<1>17. ByUnit(u) = u
  <2>1. ByUnit(u) = [i \in DOMAIN o |-> CHOOSE x \in ToSet(b) : x.unit = o[i]]
    BY <1>15 DEF ByUnit, o, ids
  <2> QED
    BY <1>6, <2>1
<1> QED
  BY <1>15, <1>16, <1>17 DEF u, n, List

LEMMA ReferencesDecoded ==
  ASSUME NEW w, ReferencesMessage(w), AcceptsReferences(w)
  PROVE  /\ ReferencesValue(DecodeReferences(w)) /\ AcceptsReferences(DecodeReferences(w))
         /\ DecodeReferences(DecodeReferences(w)) = DecodeReferences(w)
<1> DEFINE d == DecodeDomain(w.domain)
           u == ByUnit(w.units)
           v == [w EXCEPT !.domain = d]
           r == [w EXCEPT !.domain = d, !.units = u]
<1>1. DomainValue(d) /\ AcceptsDomain(d) /\ DecodeDomain(d) = d
  BY DomainDecoded, DomainAccepted DEF ReferencesMessage, AcceptsReferences, Present
<1>2. /\ Struct(w, {"subject", "domain", "units"}) /\ List(w.units)
      /\ Len(w.units) <= MaximumItems /\ ValidBinding(v)
      /\ \A i \in DOMAIN w.units : "unit" \in DOMAIN w.units[i]
  BY DEF ReferencesMessage, AcceptsReferences, Present, Struct
<1>3. DecodeReferences(w) = r
  BY DEF DecodeReferences
<1> HIDE DEF d, u
<1>4. /\ Struct(r, {"subject", "domain", "units"}) /\ DOMAIN r = DOMAIN w
      /\ r.domain = d /\ r.units = u /\ v.domain = d /\ v.units = w.units
  BY <1>2 DEF Struct
<1> HIDE DEF r, v
<1>5. /\ BindingBytes(v) <= MaximumBytes
      /\ Len(w.units) = Len(d.units) /\ {w.units[i].unit : i \in DOMAIN w.units} = ToSet(d.units)
      /\ Cardinality({w.units[i].reference : i \in DOMAIN w.units}) = Len(w.units)
  BY <1>2, <1>4 DEF ValidBinding
<1>6. Cardinality(ToSet(d.units)) = Len(d.units)
  BY <1>1, ListedApart DEF DomainValue, ValidDomain
<1>7. ToSet(d.units) \subseteq Int
  BY DomainDecoded DEF ReferencesMessage, AcceptsReferences, Present, DomainMessage, d
<1>8. List(u) /\ Len(u) = Len(w.units) /\ ByUnit(u) = u /\ ToSet(u) = ToSet(w.units)
  BY <1>2, <1>5, <1>6, <1>7, BindingSorted DEF u
<1>9. /\ {u[i].unit : i \in DOMAIN u} = {w.units[i].unit : i \in DOMAIN w.units}
      /\ {u[i].reference : i \in DOMAIN u} = {w.units[i].reference : i \in DOMAIN w.units}
  <2> DEFINE U == ToSet(u)
  <2>1. /\ {u[i].unit : i \in DOMAIN u} = {x.unit : x \in U}
        /\ {u[i].reference : i \in DOMAIN u} = {x.reference : x \in U}
    BY DEF ToSet
  <2>2. /\ {w.units[i].unit : i \in DOMAIN w.units} = {x.unit : x \in ToSet(w.units)}
        /\ {w.units[i].reference : i \in DOMAIN w.units} = {x.reference : x \in ToSet(w.units)}
    BY DEF ToSet
  <2> QED
    BY <1>8, <2>1, <2>2
<1>10. \A x \in ToSet(u) : "unit" \in DOMAIN x
  BY <1>2, <1>8 DEF ToSet
<1>11. ReferencesValue(r)
  BY <1>1, <1>4, <1>8, <1>10 DEF ReferencesValue
<1>12. [r EXCEPT !.domain = d] = r /\ [r EXCEPT !.domain = d, !.units = u] = r
  BY <1>4 DEF Struct
<1>13. ValidBinding(r)
  <2>1. BindingBytes(r) = BindingBytes(v)
    BY <1>4, <1>8, Zenon DEF BindingBytes
  <2> QED
    BY <1>4, <1>5, <1>8, <1>9, <2>1 DEF ValidBinding
<1>14. AcceptsReferences(r)
  BY <1>1, <1>2, <1>4, <1>8, <1>10, <1>12, <1>13 DEF AcceptsReferences, Present, Struct, ToSet
<1>15. DecodeReferences(r) = r
  BY <1>1, <1>4, <1>8, <1>12 DEF DecodeReferences
<1> QED
  BY <1>3, <1>11, <1>14, <1>15

-----------------------------------------------------------------------------
(* The maps of State::validate in closed form: they are functions of what   *)
(* is in a list, whatever its order.                                        *)

\* The recursion over a list defines a function: there is one for each prefix.
LEMMA SeenSteps ==
  ASSUME NEW list, Len(list) \in Nat
  PROVE  LET seen == SeenUpTo(list)
         IN  seen = [n \in 0 .. Len(list) |->
                       IF n = 0 THEN <<>> ELSE See(seen[n - 1], list[n])]
<1> DEFINE Def(f, k) == f = [n \in 0 .. k |-> IF n = 0 THEN <<>> ELSE See(f[n - 1], list[n])]
           N == {k \in Nat : \E f : Def(f, k)}
<1>1. 0 \in N
  <2>1. Def([n \in 0 .. 0 |-> <<>>], 0)
    OBVIOUS
  <2> HIDE DEF Def
  <2> QED
    BY <2>1
<1>2. ASSUME NEW k \in Nat, NEW f, Def(f, k) PROVE \E g : Def(g, k + 1)
  <2> DEFINE g == [n \in 0 .. k + 1 |-> IF n = k + 1 THEN See(f[k], list[k + 1]) ELSE f[n]]
  <2>1. \A n \in 0 .. k + 1 : g[n] = IF n = 0 THEN <<>> ELSE See(g[n - 1], list[n])
    BY <1>2
  <2>2. DOMAIN g = 0 .. k + 1 /\ g = [n \in 0 .. k + 1 |-> g[n]]
    OBVIOUS
  <2> HIDE DEF g
  <2>3. Def(g, k + 1)
    BY <2>1, <2>2
  <2> QED
    BY <2>3
<1> HIDE DEF Def
<1>3. N = Nat
  <2>1. N \subseteq Nat /\ \A k \in N : k + 1 \in N
    BY <1>2
  <2> HIDE DEF N
  <2> QED
    BY <1>1, <2>1, NatSet, Zenon
<1>4. \E f : Def(f, Len(list))
  BY <1>3
<1> QED
  BY <1>4 DEF SeenUpTo, Def

LEMMA EnteredSteps ==
  ASSUME NEW list, Len(list) \in Nat
  PROVE  LET entered == EnteredUpTo(list)
         IN  entered = [n \in 0 .. Len(list) |->
                          IF n = 0 THEN [groups |-> <<>>, agree |-> TRUE]
                          ELSE Enter(entered[n - 1], list[n])]
<1> DEFINE none == [groups |-> <<>>, agree |-> TRUE]
           Def(f, k) == f = [n \in 0 .. k |-> IF n = 0 THEN none ELSE Enter(f[n - 1], list[n])]
           N == {k \in Nat : \E f : Def(f, k)}
<1> HIDE DEF none
<1>1. 0 \in N
  <2>1. Def([n \in 0 .. 0 |-> none], 0)
    OBVIOUS
  <2> HIDE DEF Def
  <2> QED
    BY <2>1
<1>2. ASSUME NEW k \in Nat, NEW f, Def(f, k) PROVE \E g : Def(g, k + 1)
  <2> DEFINE g == [n \in 0 .. k + 1 |-> IF n = k + 1 THEN Enter(f[k], list[k + 1]) ELSE f[n]]
  <2>1. \A n \in 0 .. k + 1 : g[n] = IF n = 0 THEN none ELSE Enter(g[n - 1], list[n])
    BY <1>2
  <2>2. DOMAIN g = 0 .. k + 1 /\ g = [n \in 0 .. k + 1 |-> g[n]]
    OBVIOUS
  <2> HIDE DEF g
  <2>3. Def(g, k + 1)
    BY <2>1, <2>2
  <2> QED
    BY <2>3
<1> HIDE DEF Def
<1>3. N = Nat
  <2>1. N \subseteq Nat /\ \A k \in N : k + 1 \in N
    BY <1>2
  <2> HIDE DEF N
  <2> QED
    BY <1>1, <2>1, NatSet, Zenon
<1>4. \E f : Def(f, Len(list))
  BY <1>3
<1> QED
  BY <1>4 DEF EnteredUpTo, Def, none

\* A domain is the one observed if one observation has its key and none of that
\* key has another.
LEMMA ObservedByAll ==
  ASSUME NEW list, List(list), \A x \in ToSet(list) : x.domain # Ambiguous,
         NEW b, b.domain # Ambiguous
  PROVE  DomainObserved(SeenDomains(list), b) <=>
           LET same == {x \in ToSet(list) :
                          DomainKey(x.subject, x.domain) = DomainKey(b.subject, b.domain)}
           IN  same # {} /\ \A x \in same : x.domain = b.domain
<1> DEFINE L == Len(list)
           key(i) == DomainKey(list[i].subject, list[i].domain)
           seen == SeenUpTo(list)
           Known(m, n) == \A i \in 1 .. n : key(i) \in DOMAIN m
           One(m, n) == \A i \in 1 .. n : m[key(i)] \in {list[i].domain, Ambiguous}
           Reason(m, n) ==
             \A k \in DOMAIN m :
               \E i \in 1 .. n :
                 /\ key(i) = k
                 /\ \/ m[k] = list[i].domain
                    \/ \E j \in 1 .. n : key(j) = k /\ list[j].domain # list[i].domain
           Closed(m, n) == Known(m, n) /\ One(m, n) /\ Reason(m, n)
           N == {n \in Nat : n <= L => Closed(seen[n], n)}
<1>1. L \in Nat /\ DOMAIN list = 1 .. L
  BY ListedMembers
<1>2. \A i \in 1 .. L : list[i] \in ToSet(list) /\ list[i].domain # Ambiguous
  BY <1>1 DEF ToSet
<1>3. seen = [n \in 0 .. L |-> IF n = 0 THEN <<>> ELSE See(seen[n - 1], list[n])]
  BY <1>1, SeenSteps
<1> HIDE DEF L, seen
<1>4. seen[0] = <<>> /\ \A n \in Nat : n + 1 <= L => seen[n + 1] = See(seen[n], list[n + 1])
  BY <1>1, <1>3
<1>5. 0 \in N
  BY <1>4
<1>6. ASSUME NEW n \in Nat, n + 1 <= L, NEW m, Closed(m, n)
      PROVE  Closed(See(m, list[n + 1]), n + 1)
  <2> DEFINE o == list[n + 1]
             k0 == key(n + 1)
             q == See(m, o)
  <2> HIDE DEF key
  <2> SUFFICES Closed(q, n + 1)
    OBVIOUS
  <2>1. o.domain # Ambiguous /\ n + 1 \in 1 .. L /\ 1 .. n \subseteq 1 .. L
    BY <1>1, <1>2, <1>6
  <2>2. q = IF k0 \notin DOMAIN m THEN Put(m, k0, o.domain)
            ELSE IF m[k0] = o.domain THEN m ELSE Put(m, k0, Ambiguous)
    BY DEF See, key
  <2> HIDE DEF o, q, k0
  <2>3. key(n + 1) = k0 /\ list[n + 1] = o /\ \A i \in 1 .. n + 1 : i \in 1 .. n \/ i = n + 1
    BY <1>6 DEF k0, o
  <2>4. CASE k0 \notin DOMAIN m
    <3>0. q = Put(m, k0, o.domain)
      BY <2>2, <2>4
    <3>1. DOMAIN q = DOMAIN m \cup {k0} /\ q[k0] = o.domain /\ \A k \in DOMAIN m : q[k] = m[k]
      BY <2>4, <3>0 DEF Put
    <3>2. Known(q, n + 1) /\ One(q, n + 1)
      BY <1>6, <2>3, <3>1
    <3>3. Reason(q, n + 1)
      <4>1. ASSUME NEW k \in DOMAIN m
            PROVE  \E i \in 1 .. n + 1 :
                     /\ key(i) = k
                     /\ \/ q[k] = list[i].domain
                        \/ \E j \in 1 .. n + 1 : key(j) = k /\ list[j].domain # list[i].domain
        BY <1>6, <3>1
      <4>2. n + 1 \in 1 .. n + 1 /\ key(n + 1) = k0 /\ q[k0] = list[n + 1].domain
        BY <1>6, <2>3, <3>1
      <4> QED
        BY <3>1, <4>1, <4>2
    <3> QED
      BY <3>2, <3>3
  <2>5. CASE k0 \in DOMAIN m /\ m[k0] = o.domain
    <3>1. q = m
      BY <2>2, <2>5
    <3>2. Known(q, n + 1) /\ One(q, n + 1)
      BY <1>6, <2>3, <2>5, <3>1
    <3>3. Reason(q, n + 1)
      BY <1>6, <3>1
    <3> QED
      BY <3>2, <3>3
  <2>6. CASE k0 \in DOMAIN m /\ m[k0] # o.domain
    <3>0. q = Put(m, k0, Ambiguous)
      BY <2>2, <2>6
    <3>1. DOMAIN q = DOMAIN m /\ q[k0] = Ambiguous /\ \A k \in DOMAIN m : k # k0 => q[k] = m[k]
      BY <2>6, <3>0 DEF Put
    <3>2. Known(q, n + 1)
      BY <1>6, <2>3, <2>6, <3>1
    <3>3. One(q, n + 1)
      BY <1>6, <2>3, <2>6, <3>1
    <3>4. Reason(q, n + 1)
      <4>1. PICK i \in 1 .. n :
              /\ key(i) = k0
              /\ \/ m[k0] = list[i].domain
                 \/ \E j \in 1 .. n : key(j) = k0 /\ list[j].domain # list[i].domain
        BY <1>6, <2>6
      <4>2. \E j \in 1 .. n + 1 : key(j) = k0 /\ list[j].domain # list[i].domain
        BY <1>6, <2>3, <2>6, <4>1
      <4>3. i \in 1 .. n + 1 /\ key(i) = k0
        BY <1>6, <4>1
      <4>4. ASSUME NEW k \in DOMAIN m, k # k0
            PROVE  \E h \in 1 .. n + 1 :
                     /\ key(h) = k
                     /\ \/ q[k] = list[h].domain
                        \/ \E j \in 1 .. n + 1 : key(j) = k /\ list[j].domain # list[h].domain
        BY <1>6, <3>1, <4>4
      <4> QED
        BY <3>1, <4>2, <4>3, <4>4
    <3> QED
      BY <3>2, <3>3, <3>4
  <2> QED
    BY <2>4, <2>5, <2>6
<1> HIDE DEF Closed, key
<1>7. N = Nat
  <2>1. N \subseteq Nat /\ \A n \in N : n + 1 \in N
    BY <1>1, <1>4, <1>6
  <2> HIDE DEF N
  <2> QED
    BY <1>5, <2>1, NatSet, Zenon
<1> DEFINE m == SeenDomains(list)
           kb == DomainKey(b.subject, b.domain)
<1>8. Closed(m, L)
  BY <1>1, <1>7 DEF SeenDomains, seen, L
<1>9. DomainObserved(m, b) <=> kb \in DOMAIN m /\ m[kb] = b.domain
  BY DEF DomainObserved
<1> HIDE DEF m, kb
<1>10. ASSUME kb \in DOMAIN m, m[kb] = b.domain
       PROVE  /\ \E i \in 1 .. L : key(i) = kb
              /\ \A i \in 1 .. L : key(i) = kb => list[i].domain = b.domain
  BY <1>8, <1>10 DEF Closed
<1>11. ASSUME \E i \in 1 .. L : key(i) = kb,
              \A i \in 1 .. L : key(i) = kb => list[i].domain = b.domain
       PROVE  kb \in DOMAIN m /\ m[kb] = b.domain
  BY <1>8, <1>11 DEF Closed
<1>12. /\ \A x \in ToSet(list) : \E i \in 1 .. L : x = list[i]
       /\ \A i \in 1 .. L : list[i] \in ToSet(list)
  BY <1>1 DEF ToSet
<1> DEFINE same == {x \in ToSet(list) : DomainKey(x.subject, x.domain) = kb}
<1>13. (\E i \in 1 .. L : key(i) = kb) <=> same # {}
  BY <1>12 DEF key
<1>14. (\A i \in 1 .. L : key(i) = kb => list[i].domain = b.domain)
          <=> \A x \in same : x.domain = b.domain
  BY <1>12 DEF key
<1>15. DomainObserved(m, b) <=> same # {} /\ \A x \in same : x.domain = b.domain
  BY <1>9, <1>10, <1>11, <1>13, <1>14
<1> QED
  BY <1>15 DEF m, kb

\* The native groups agree if no two entries of one have other canonical groups.
LEMMA AgreeingGroups ==
  ASSUME NEW list, List(list)
  PROVE  GroupsAgree(list) <=>
           \A x, y \in ToSet(list) :
             NativeGroup(x) = NativeGroup(y) => x.canonical_group = y.canonical_group
<1> DEFINE L == Len(list)
           key(i) == NativeGroup(list[i])
           to(i) == list[i].canonical_group
           entered == EnteredUpTo(list)
           Agree(n) == \A i, j \in 1 .. n : key(i) = key(j) => to(i) = to(j)
           Entered(s, n) == /\ DOMAIN s.groups = {key(i) : i \in 1 .. n}
                            /\ \A i \in 1 .. n : s.groups[key(i)] = to(i)
           Closed(s, n) == /\ s = [groups |-> s.groups, agree |-> s.agree]
                           /\ s.agree \in BOOLEAN /\ (s.agree <=> Agree(n))
                           /\ s.agree => Entered(s, n)
           N == {n \in Nat : n <= L => Closed(entered[n], n)}
           none == [groups |-> <<>>, agree |-> TRUE]
<1>1. L \in Nat /\ DOMAIN list = 1 .. L
  BY ListedMembers
<1>2. entered = [n \in 0 .. L |-> IF n = 0 THEN none ELSE Enter(entered[n - 1], list[n])]
  BY <1>1, EnteredSteps
<1> HIDE DEF L, entered
<1>3. /\ entered[0] = none
      /\ \A n \in Nat : n + 1 <= L => entered[n + 1] = Enter(entered[n], list[n + 1])
  <2> HIDE DEF none
  <2> QED
    BY <1>1, <1>2
<1>4. Closed(none, 0)
  OBVIOUS
<1>5. ASSUME NEW n \in Nat, n + 1 <= L, NEW s, Closed(s, n)
      PROVE  Closed(Enter(s, list[n + 1]), n + 1)
  <2> DEFINE a == list[n + 1]
             k == key(n + 1)
             g == to(n + 1)
             clash == k \in DOMAIN s.groups /\ s.groups[k] # g
             q == Enter(s, a)
  <2> SUFFICES Closed(q, n + 1)
    OBVIOUS
  <2>1. q = IF ~s.agree \/ clash THEN [s EXCEPT !.agree = FALSE]
            ELSE [s EXCEPT !.groups = Put(s.groups, k, g)]
    BY DEF Enter
  <2> HIDE DEF q, key, to
  <2>2. n \in Nat /\ n + 1 \in 1 .. n + 1 /\ 1 .. n \subseteq 1 .. n + 1
        /\ \A i \in 1 .. n + 1 : i \in 1 .. n \/ i = n + 1
    BY <1>5
  <2>3. Agree(n + 1) <=> Agree(n) /\ \A i \in 1 .. n : key(i) = k => to(i) = g
    BY <2>2
  <2>4. CASE ~s.agree
    <3>1. q = [s EXCEPT !.agree = FALSE]
      BY <2>1, <2>4
    <3>2. q.agree = FALSE /\ q = [groups |-> q.groups, agree |-> q.agree]
      BY <1>5, <3>1
    <3> QED
      BY <1>5, <2>3, <2>4, <3>2
  <2>5. CASE s.agree /\ clash
    <3>1. q = [s EXCEPT !.agree = FALSE]
      BY <2>1, <2>5
    <3>2. q.agree = FALSE /\ q = [groups |-> q.groups, agree |-> q.agree]
      BY <1>5, <3>1
    <3>3. \E i \in 1 .. n : key(i) = k /\ to(i) # g
      BY <1>5, <2>5
    <3> QED
      BY <2>3, <3>2, <3>3
  <2>6. CASE s.agree /\ ~clash
    <3>1. q = [s EXCEPT !.groups = Put(s.groups, k, g)]
      BY <2>1, <2>6
    <3>2. /\ q = [groups |-> q.groups, agree |-> q.agree] /\ q.agree = s.agree
          /\ q.groups = Put(s.groups, k, g)
      BY <1>5, <3>1
    <3>3. Agree(n + 1)
      BY <1>5, <2>3, <2>6
    <3>4. DOMAIN q.groups = DOMAIN s.groups \cup {k} /\ q.groups[k] = g
          /\ \A x \in DOMAIN s.groups : x # k => q.groups[x] = s.groups[x]
      BY <3>2 DEF Put
    <3>5. DOMAIN q.groups = {key(i) : i \in 1 .. n + 1}
      BY <1>5, <2>2, <2>6, <3>4
    <3>6. \A i \in 1 .. n + 1 : q.groups[key(i)] = to(i)
      <4>1. ASSUME NEW i \in 1 .. n PROVE q.groups[key(i)] = to(i)
        <5>1. key(i) \in DOMAIN s.groups /\ s.groups[key(i)] = to(i)
          BY <1>5, <2>6
        <5> QED
          BY <2>6, <3>4, <5>1
      <4> QED
        BY <2>2, <3>4, <4>1
    <3> QED
      BY <2>6, <3>2, <3>3, <3>5, <3>6
  <2> QED
    BY <1>5, <2>4, <2>5, <2>6
<1> HIDE DEF Closed, none
<1>6. N = Nat
  <2>1. N \subseteq Nat /\ 0 \in N /\ \A n \in N : n + 1 \in N
    BY <1>1, <1>3, <1>4, <1>5
  <2> HIDE DEF N
  <2> QED
    BY <2>1, NatSet, Zenon
<1>7. Closed(entered[L], L)
  BY <1>1, <1>6
<1>8. GroupsAgree(list) <=> Agree(L)
  BY <1>7 DEF Closed, GroupsAgree, entered, L
<1>9. /\ \A x \in ToSet(list) : \E i \in 1 .. L : x = list[i]
      /\ \A i \in 1 .. L : list[i] \in ToSet(list)
  BY <1>1 DEF ToSet
<1> HIDE DEF Agree
<1>10. Agree(L) <=>
         \A x, y \in ToSet(list) :
           NativeGroup(x) = NativeGroup(y) => x.canonical_group = y.canonical_group
  BY <1>9 DEF Agree
<1> QED
  BY <1>8, <1>10

-----------------------------------------------------------------------------
(* The evidence of a response, in every state *)

LEMMA Appended ==
  ASSUME NEW l, List(l), NEW x
  PROVE  List(Append(l, x)) /\ ToSet(Append(l, x)) = ToSet(l) \cup {x}
<1> DEFINE S == ToSet(l) \cup {x}
           q == Append(l, x)
<1>1. l \in Seq(S) /\ Len(l) \in Nat /\ DOMAIN l = 1 .. Len(l)
  BY ListedMembers, SeqMonotonic DEF List
<1>2. /\ q \in Seq(S) /\ DOMAIN q = 1 .. Len(l) + 1 /\ q[Len(l) + 1] = x
      /\ \A i \in 1 .. Len(l) : q[i] = l[i]
  BY <1>1, AppendProperties
<1> HIDE DEF q
<1>3. ToSet(q) = S
  BY <1>1, <1>2 DEF ToSet
<1> QED
  BY <1>2, <1>3 DEF List, q

\* What was taken in is a list of values, each valid by itself.
Evidence ==
  /\ List(observations)
  /\ \A o \in ToSet(observations) :
       ObservationValue(o) /\ ValidObservation(o) /\ ~TooDeep(o.native_value)
  /\ List(access)
  /\ List(references)
  /\ \A r \in ToSet(references) :
       ReferencesValue(r) /\ AcceptsReferences(r) /\ DecodeReferences(r) = r
  /\ List(field_observations)
  /\ \A f \in ToSet(field_observations) :
       /\ FieldObservationValue(f) /\ ValidFieldObservation(f)
       /\ f.value.kind = "Known" => ~TooDeep(f.value.value)
  /\ \A s \in ToSet(subjects) :
       SubjectValue(s) /\ Cardinality(s.classifications) <= MaximumItems

LEMMA EvidenceInit == ResponseInit => Evidence
<1> SUFFICES ASSUME ResponseInit PROVE Evidence
  OBVIOUS
<1>1. List(<<>>) /\ ToSet(<<>>) = {}
  BY DEF List, ToSet
<1>2. PICK l \in SubjectLists : /\ \A i \in DOMAIN l : AcceptsSubject(l[i])
                                /\ subjects = [i \in DOMAIN l |-> DecodeSubject(l[i])]
  BY DEF ResponseInit
<1>3. \A i \in DOMAIN l : SubjectMessage(l[i])
  BY <1>2, MessagesAssumption DEF ToSet
<1>4. \A i \in DOMAIN l : /\ SubjectValue(DecodeSubject(l[i]))
                          /\ Cardinality(DecodeSubject(l[i]).classifications) <= MaximumItems
  BY <1>2, <1>3, SubjectDecoded
<1>5. \A s \in ToSet(subjects) : \E i \in DOMAIN l : s = DecodeSubject(l[i])
  BY <1>2 DEF ToSet
<1>6. \A s \in ToSet(subjects) :
        SubjectValue(s) /\ Cardinality(s.classifications) <= MaximumItems
  BY <1>4, <1>5
<1> QED
  BY <1>1, <1>6 DEF ResponseInit, Evidence

LEMMA EvidenceNext == Evidence /\ [ResponseNext]_response => Evidence'
<1> SUFFICES ASSUME Evidence, [ResponseNext]_response PROVE Evidence'
  OBVIOUS
<1>1. ASSUME NEW w \in ObservationMessages, Observe(w) PROVE Evidence'
  <2> DEFINE o == DecodeObservation(w)
  <2>1. ObservationValue(o) /\ ValidObservation(o) /\ ~TooDeep(o.native_value)
    BY <1>1, MessagesAssumption, ObservationDecoded DEF Observe
  <2>2. observations' = Append(observations, o)
    BY <1>1 DEF Observe
  <2> HIDE DEF o
  <2> QED
    BY <1>1, <2>1, <2>2, Appended DEF Observe, Evidence
<1>2. ASSUME NEW w \in AccessMessages, Grant(w) PROVE Evidence'
  BY <1>2, Appended DEF Grant, Evidence
<1>3. ASSUME NEW w \in ReferenceMessages, Bind(w) PROVE Evidence'
  <2>1. /\ ReferencesValue(DecodeReferences(w)) /\ AcceptsReferences(DecodeReferences(w))
        /\ DecodeReferences(DecodeReferences(w)) = DecodeReferences(w)
    BY <1>3, MessagesAssumption, ReferencesDecoded DEF Bind
  <2> QED
    BY <1>3, <2>1, Appended DEF Bind, Evidence
<1>4. ASSUME NEW w \in FieldMessages, ObserveField(w) PROVE Evidence'
  <2> DEFINE f == DecodeFieldObservation(w)
  <2>1. /\ FieldObservationValue(f) /\ ValidFieldObservation(f)
        /\ f.value.kind = "Known" => ~TooDeep(f.value.value)
    BY <1>4, MessagesAssumption, FieldObservationDecoded DEF ObserveField
  <2>2. field_observations' = Append(field_observations, f)
    BY <1>4 DEF ObserveField
  <2> HIDE DEF f
  <2> QED
    BY <1>4, <2>1, <2>2, Appended DEF ObserveField, Evidence
<1>5. CASE UNCHANGED response
  BY <1>5 DEF response, Evidence
<1> QED
  BY <1>1, <1>2, <1>3, <1>4, <1>5 DEF ResponseNext

LEMMA EvidenceAlways == ResponseSpec => []Evidence
<1> QED
  BY EvidenceInit, EvidenceNext, PTL DEF ResponseSpec

\* Whatever was decoded of a response can be encoded again: what any reader
\* took in it can hand on, whatever notation it came in, but for native JSON
\* that is over its limit once it was read, and up to what reading makes of it.
THEOREM EvidenceEncodable == ResponseSpec => []Encodable
<1>1. Evidence => Encodable
  <2> SUFFICES ASSUME Evidence PROVE Encodable
    OBVIOUS
  <2>1. ASSUME NEW o \in ToSet(observations), JsonSize(Reread(o.native_value)) <= MaximumJson
        PROVE  /\ AcceptsObservation(EncodeObservation(o))
               /\ DecodeObservation(EncodeObservation(o)) = RereadObservation(o)
    <3>1. ObservationValue(o) /\ ValidObservation(o) /\ ~UnreadableObservation(o)
      BY <2>1, JsonReread, LimitsAssumption DEF Evidence, ObservationValue, UnreadableObservation
    <3> QED
      BY <3>1, ObservationAccepted, ObservationRoundTrip
  <2>2. ASSUME NEW f \in ToSet(field_observations),
               f.value.kind = "Known" => JsonSize(Reread(f.value.value)) <= MaximumJson
        PROVE  /\ AcceptsFieldObservation(EncodeFieldObservation(f))
               /\ DecodeFieldObservation(EncodeFieldObservation(f)) = RereadFieldObservation(f)
    BY <2>2, FieldObservationAccepted, FieldObservationRoundTrip DEF Evidence
  <2>3. \A s \in ToSet(subjects) :
          AcceptsSubject(EncodeSubject(s)) /\ DecodeSubject(EncodeSubject(s)) = s
    BY SubjectAccepted DEF Evidence
  <2>4. \A r \in ToSet(references) : AcceptsReferences(r) /\ DecodeReferences(r) = r
    BY DEF Evidence
  <2> QED
    BY <2>1, <2>2, <2>3, <2>4 DEF Encodable
<1> QED
  BY <1>1, EvidenceAlways, PTL

\* Accepted references bind domains on which all observations of the subject
\* agree: the map the code keeps has forgotten none that differed.
THEOREM ReferencesAreUnambiguous == ResponseSpec => []ReferencesUnambiguous
<1>1. Evidence => ReferencesUnambiguous
  <2> SUFFICES ASSUME Evidence, Accepted, NEW b \in ToSet(references)
               PROVE  LET same == {o \in ToSet(observations) :
                                     /\ o.subject = b.subject
                                     /\ o.domain.identity = b.domain.identity}
                      IN  same # {} /\ \A o \in same : o.domain = b.domain
    BY DEF ReferencesUnambiguous
  <2>1. DomainObserved(SeenDomains(observations), b)
    BY DEF Accepted, Valid, ValidParts, ReferencesValid
  <2>2. List(observations) /\ \A o \in ToSet(observations) : o.domain # Ambiguous
    BY DEF Evidence, ObservationValue, DomainValue, Ambiguous
  <2>3. b.domain # Ambiguous
    BY DEF Evidence, ReferencesValue, DomainValue, Ambiguous
  <2> DEFINE same == {o \in ToSet(observations) :
                        DomainKey(o.subject, o.domain) = DomainKey(b.subject, b.domain)}
  <2>4. same # {} /\ \A o \in same : o.domain = b.domain
    BY <2>1, <2>2, <2>3, ObservedByAll
  <2>5. same = {o \in ToSet(observations) :
                  o.subject = b.subject /\ o.domain.identity = b.domain.identity}
    BY DEF DomainKey
  <2> HIDE DEF same
  <2> QED
    BY <2>4, <2>5
<1> QED
  BY <1>1, EvidenceAlways, PTL

\* In accepted evidence the fields of one native group have one canonical group,
\* wherever in the list they are.
THEOREM GroupsAreCanonical == ResponseSpec => []GroupsCanonical
<1>1. Evidence => GroupsCanonical
  <2> SUFFICES ASSUME Evidence, Accepted, NEW a \in ToSet(access), NEW b \in ToSet(access),
                      a.scope.subject = b.scope.subject, a.group = b.group
               PROVE  a.canonical_group = b.canonical_group
    BY DEF GroupsCanonical
  <2>1. GroupsAgree(access) /\ \A x \in ToSet(access) : x.scope.account = Account
    BY DEF Accepted, Valid, ValidParts, AccessValid
  <2>2. NativeGroup(a) = NativeGroup(b)
    BY <2>1 DEF NativeGroup
  <2> QED
    BY <2>1, <2>2, AgreeingGroups DEF Evidence
<1> QED
  BY <1>1, EvidenceAlways, PTL

\* Accepted evidence says something of each subject and reads no field of it in
\* two ways.
THEOREM ReadOneWay == ResponseSpec => []OneReading
<1>1. Evidence => OneReading
  <2> SUFFICES ASSUME Evidence, NEW requested \in Requests, Valid(requested)
               PROVE  /\ \A s \in requested \cup Ids : \E o \in ToSet(observations) : o.subject = s
                      /\ \A f \in ToSet(field_observations), o \in ToSet(observations) :
                           f.scope.subject = o.subject => f.scope.field # o.field
                      /\ \A i, j \in DOMAIN observations :
                           i # j /\ observations[i].subject = observations[j].subject
                                 /\ observations[i].origin = observations[j].origin
                                 /\ observations[i].domain.identity
                                      = observations[j].domain.identity =>
                             observations[i].field # observations[j].field
    BY DEF OneReading
  <2>1. /\ ObservationsValid(observations, Ids)
        /\ FieldsValid(field_observations, Ids, access, observations)
    BY DEF Valid, ValidParts
  <2>2. \A s \in requested \cup Ids : \E o \in ToSet(observations) : o.subject = s
    <3>1. Ids = {o.subject : o \in ToSet(observations)}
      BY <2>1 DEF ObservationsValid, Covers
    <3>2. requested = {} \/ requested = Ids
      BY DEF Valid, SubjectsValid, Ids
    <3> HIDE DEF Ids
    <3> QED
      BY <3>1, <3>2
  <2>3. ASSUME NEW f \in ToSet(field_observations), NEW o \in ToSet(observations),
               f.scope.subject = o.subject, f.scope.field = o.field
        PROVE  FALSE
    <3>1. f.scope.account = Account /\ o.account = Account
      BY <2>1 DEF ObservationsValid, FieldsValid
    <3>2. ScopeValue(f.scope)
      BY DEF Evidence, FieldObservationValue
    <3>3. f.scope = [account |-> o.account, subject |-> o.subject, field |-> o.field]
      BY <2>3, <3>1, <3>2 DEF ScopeValue, ScopeParts, Struct
    <3> QED
      BY <2>1, <3>3 DEF FieldsValid, NotCompletion
  <2>4. \A i, j \in DOMAIN observations :
          OriginKey(observations[i]) = OriginKey(observations[j]) => i = j
    BY <2>1 DEF ObservationsValid, Distinct
  <2> QED
    BY <2>2, <2>3, <2>4 DEF OriginKey
<1> QED
  BY <1>1, EvidenceAlways, PTL

-----------------------------------------------------------------------------
(* The order of a list *)

LEMMA SameEntries ==
  ASSUME NEW l, List(l), NEW m \in OrdersOf(l)
  PROVE  /\ List(m) /\ DOMAIN m = DOMAIN l /\ ToSet(m) = ToSet(l)
         /\ \E p \in [DOMAIN l -> DOMAIN l] :
              /\ \A i \in DOMAIN l : m[i] = l[p[i]]
              /\ \A i, j \in DOMAIN l : p[i] = p[j] => i = j
              /\ \A i \in DOMAIN l : \E j \in DOMAIN l : p[j] = i
<1> DEFINE n == Len(l)
<1>1. n \in Nat /\ DOMAIN l = 1 .. n
  BY ListedMembers
<1>2. PICK p \in [1 .. n -> 1 .. n] : IsInjective(p) /\ m = [i \in 1 .. n |-> l[p[i]]]
  BY <1>1 DEF OrdersOf
<1> HIDE DEF n
<1>3. n \in Nat
  BY <1>1
<1>4. IsFiniteSet(1 .. n) /\ Cardinality(1 .. n) = n
  BY <1>3, FS_Interval
<1>5. p \in Injection(1 .. n, 1 .. n)
  BY <1>2 DEF Injection
<1>6. p \in Surjection(1 .. n, 1 .. n)
  BY <1>4, <1>5, FS_Injection
<1>7. \A i \in 1 .. n : \E j \in 1 .. n : p[j] = i
  BY <1>6 DEF Surjection
<1>8. \A i, j \in 1 .. n : p[i] = p[j] => i = j
  BY <1>2 DEF IsInjective
<1>9. ToSet(m) = ToSet(l)
  BY <1>1, <1>2, <1>7 DEF ToSet
<1>10. m \in [1 .. n -> ToSet(m)]
  <2>1. DOMAIN m = 1 .. n /\ m = [i \in 1 .. n |-> m[i]]
    BY <1>2
  <2>2. \A i \in 1 .. n : m[i] \in ToSet(m)
    BY <2>1 DEF ToSet
  <2> QED
    BY <2>1, <2>2
<1>11. List(m)
  BY <1>3, <1>10, IsASeq DEF List
<1> QED
  BY <1>1, <1>2, <1>7, <1>8, <1>9, <1>11

\* Whether no two entries have the same key; k gives the entries their keys.
LEMMA SameKeys ==
  ASSUME NEW l, List(l), NEW m \in OrdersOf(l), NEW k
  PROVE  (\A i, j \in DOMAIN m : k[m[i]] = k[m[j]] => i = j)
           <=> (\A i, j \in DOMAIN l : k[l[i]] = k[l[j]] => i = j)
<1>1. DOMAIN m = DOMAIN l
  BY SameEntries
<1>2. PICK p \in [DOMAIN l -> DOMAIN l] :
        /\ \A i \in DOMAIN l : m[i] = l[p[i]]
        /\ \A i, j \in DOMAIN l : p[i] = p[j] => i = j
        /\ \A i \in DOMAIN l : \E j \in DOMAIN l : p[j] = i
  BY SameEntries, Zenon
<1>3. ASSUME \A i, j \in DOMAIN l : k[l[i]] = k[l[j]] => i = j,
             NEW i \in DOMAIN m, NEW j \in DOMAIN m, k[m[i]] = k[m[j]]
      PROVE  i = j
  BY <1>2, <1>3, <1>1
<1>4. ASSUME \A i, j \in DOMAIN m : k[m[i]] = k[m[j]] => i = j,
             NEW i \in DOMAIN l, NEW j \in DOMAIN l, k[l[i]] = k[l[j]]
      PROVE  i = j
  <2>1. PICK g \in DOMAIN l, h \in DOMAIN l : p[g] = i /\ p[h] = j
    BY <1>2
  <2>2. k[m[g]] = k[m[h]]
    BY <1>2, <1>4, <2>1
  <2> QED
    BY <1>4, <1>1, <2>1, <2>2
<1> QED
  BY <1>3, <1>4

LEMMA ObservationsAnyOrder ==
  ASSUME NEW l, List(l), NEW m \in OrdersOf(l), NEW ids
  PROVE  ObservationsValid(m, ids) <=> ObservationsValid(l, ids)
<1> DEFINE k == [x \in ToSet(l) |-> OriginKey(x)]
<1>1. ToSet(m) = ToSet(l)
  BY SameEntries
<1>2. (\A i \in DOMAIN l : l[i] \in ToSet(l)) /\ (\A i \in DOMAIN m : m[i] \in ToSet(m))
  BY DEF ToSet
<1>3. /\ \A i \in DOMAIN l : k[l[i]] = OriginKey(l[i])
      /\ \A i \in DOMAIN m : k[m[i]] = OriginKey(m[i])
  BY <1>1, <1>2
<1> HIDE DEF k
<1>4. (\A i, j \in DOMAIN m : k[m[i]] = k[m[j]] => i = j)
        <=> (\A i, j \in DOMAIN l : k[l[i]] = k[l[j]] => i = j)
  BY SameKeys
<1>5. Distinct(m, OriginKey) <=> Distinct(l, OriginKey)
  BY <1>3, <1>4 DEF Distinct
<1> QED
  BY <1>1, <1>5 DEF ObservationsValid, Covers

LEMMA ReferencesAnyOrder ==
  ASSUME NEW l, List(l), NEW m \in OrdersOf(l),
         NEW list, List(list), NEW other \in OrdersOf(list),
         \A x \in ToSet(list) \cup ToSet(l) : x.domain # Ambiguous
  PROVE  ReferencesValid(m, other) <=> ReferencesValid(l, list)
<1> DEFINE KeyOf(b) == DomainKey(b.subject, b.domain)
           k == [x \in ToSet(l) |-> KeyOf(x)]
<1>1. ToSet(m) = ToSet(l) /\ ToSet(other) = ToSet(list) /\ List(other)
  BY SameEntries
<1>2. (\A i \in DOMAIN l : l[i] \in ToSet(l)) /\ (\A i \in DOMAIN m : m[i] \in ToSet(m))
  BY DEF ToSet
<1>3. /\ \A i \in DOMAIN l : k[l[i]] = KeyOf(l[i])
      /\ \A i \in DOMAIN m : k[m[i]] = KeyOf(m[i])
  BY <1>1, <1>2
<1> HIDE DEF k
<1>4. (\A i, j \in DOMAIN m : k[m[i]] = k[m[j]] => i = j)
        <=> (\A i, j \in DOMAIN l : k[l[i]] = k[l[j]] => i = j)
  BY SameKeys
<1>5. (\A i, j \in DOMAIN m : KeyOf(m[i]) = KeyOf(m[j]) => i = j)
        <=> (\A i, j \in DOMAIN l : KeyOf(l[i]) = KeyOf(l[j]) => i = j)
  BY <1>3, <1>4
<1>6. ASSUME NEW b \in ToSet(l)
      PROVE  DomainObserved(SeenDomains(other), b) <=> DomainObserved(SeenDomains(list), b)
  <2> DEFINE same == {x \in ToSet(list) : DomainKey(x.subject, x.domain) = KeyOf(b)}
             Agreeing == same # {} /\ \A x \in same : x.domain = b.domain
  <2>1. DomainObserved(SeenDomains(list), b) <=> Agreeing
    BY ObservedByAll
  <2>2. \A x \in ToSet(other) : x.domain # Ambiguous
    BY <1>1
  <2>3. DomainObserved(SeenDomains(other), b) <=> Agreeing
    BY <1>1, <2>2, ObservedByAll
  <2> QED
    BY <2>1, <2>3
<1>7. /\ MapThenSumSet(BoundUnits, ToSet(m)) = MapThenSumSet(BoundUnits, ToSet(l))
      /\ MapThenSumSet(BindingBytes, ToSet(m)) = MapThenSumSet(BindingBytes, ToSet(l))
  BY <1>1, Zenon
<1> QED
  BY <1>1, <1>5, <1>6, <1>7 DEF ReferencesValid, Distinct

\* No two entries of one scope: of access and of fields.
LEMMA ScopesAnyOrder ==
  ASSUME NEW l, List(l), NEW m \in OrdersOf(l)
  PROVE  (\A i, j \in DOMAIN m : m[i].scope = m[j].scope => i = j)
           <=> (\A i, j \in DOMAIN l : l[i].scope = l[j].scope => i = j)
<1> DEFINE k == [x \in ToSet(l) |-> x.scope]
<1>1. ToSet(m) = ToSet(l)
  BY SameEntries
<1>2. (\A i \in DOMAIN l : l[i] \in ToSet(l)) /\ (\A i \in DOMAIN m : m[i] \in ToSet(m))
  BY DEF ToSet
<1>3. (\A i \in DOMAIN l : k[l[i]] = l[i].scope) /\ (\A i \in DOMAIN m : k[m[i]] = m[i].scope)
  BY <1>1, <1>2
<1> HIDE DEF k
<1>4. (\A i, j \in DOMAIN m : k[m[i]] = k[m[j]] => i = j)
        <=> (\A i, j \in DOMAIN l : k[l[i]] = k[l[j]] => i = j)
  BY SameKeys
<1> QED
  BY <1>3, <1>4

LEMMA AccessAnyOrder ==
  ASSUME NEW l, List(l), NEW m \in OrdersOf(l), NEW ids
  PROVE  AccessValid(m, ids) <=> AccessValid(l, ids)
<1>1. ToSet(m) = ToSet(l) /\ List(m)
  BY SameEntries
<1>2. GroupsAgree(m) <=> GroupsAgree(l)
  BY <1>1, AgreeingGroups
<1>3. (\A i, j \in DOMAIN m : m[i].scope = m[j].scope => i = j)
        <=> (\A i, j \in DOMAIN l : l[i].scope = l[j].scope => i = j)
  BY ScopesAnyOrder
<1> QED
  BY <1>1, <1>2, <1>3 DEF AccessValid, Distinct

LEMMA FieldsAnyOrder ==
  ASSUME NEW l, List(l), NEW m \in OrdersOf(l), NEW ids, NEW accesses, List(accesses),
         NEW acc \in OrdersOf(accesses), NEW list, List(list), NEW obs \in OrdersOf(list)
  PROVE  FieldsValid(m, ids, acc, obs) <=> FieldsValid(l, ids, accesses, list)
<1>1. ToSet(m) = ToSet(l) /\ ToSet(acc) = ToSet(accesses) /\ ToSet(obs) = ToSet(list)
  BY SameEntries
<1>2. (\A i, j \in DOMAIN m : m[i].scope = m[j].scope => i = j)
        <=> (\A i, j \in DOMAIN l : l[i].scope = l[j].scope => i = j)
  BY ScopesAnyOrder
<1>3. MapThenSumSet(FieldBytes, ToSet(m)) = MapThenSumSet(FieldBytes, ToSet(l))
  BY <1>1, Zenon
<1> QED
  BY <1>1, <1>2, <1>3 DEF FieldsValid, NotCompletion, Distinct

\* The verdict on evidence depends on what is listed and not on the order of any
\* of the lists, although the maps are filled in that order.
THEOREM VerdictOrderFree == ResponseSpec => []OrderFree
<1>1. Evidence => OrderFree
  <2> SUFFICES ASSUME Evidence,
                      NEW obs \in OrdersOf(observations), NEW acc \in OrdersOf(access),
                      NEW refs \in OrdersOf(references),
                      NEW fields \in OrdersOf(field_observations)
               PROVE  ValidParts(obs, acc, refs, fields)
                        <=> ValidParts(observations, access, references, field_observations)
    BY DEF OrderFree
  <2>1. \A x \in ToSet(observations) \cup ToSet(references) : x.domain # Ambiguous
    BY DEF Evidence, ObservationValue, ReferencesValue, DomainValue, Ambiguous
  <2>2. ObservationsValid(obs, Ids) <=> ObservationsValid(observations, Ids)
    BY ObservationsAnyOrder DEF Evidence
  <2>3. ReferencesValid(refs, obs) <=> ReferencesValid(references, observations)
    BY <2>1, ReferencesAnyOrder DEF Evidence
  <2>4. AccessValid(acc, Ids) <=> AccessValid(access, Ids)
    BY AccessAnyOrder DEF Evidence
  <2>5. FieldsValid(fields, Ids, acc, obs)
          <=> FieldsValid(field_observations, Ids, access, observations)
    BY FieldsAnyOrder DEF Evidence
  <2> QED
    BY <2>2, <2>3, <2>4, <2>5 DEF ValidParts
<1> QED
  BY <1>1, EvidenceAlways, PTL

=============================================================================
