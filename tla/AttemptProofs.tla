-------------------------------- MODULE AttemptProofs -----------------------
(***************************************************************************)
(* Attempts and what is known of them, for every set of attempts, every    *)
(* operation, every set of messages and every bound.                       *)
(*                                                                         *)
(* Part 1.  The host's records are safe whatever reports arrive.           *)
(* GroundsStand is not inductive by itself: a record that is written off   *)
(* must be known to be terminal (it was dispatched and needs no barrier)   *)
(* and complete, so that the transition rules speak about each of its      *)
(* effects.  Inv adds both.  First come facts about outcomes and the rules *)
(* between them (AttemptOutcome): a valid outcome has exactly one entry    *)
(* per effect, the records a host writes itself are valid, and what a      *)
(* valid report may change.                                                *)
(*                                                                         *)
(* Part 2.  With a provider that says only what is true when it says it,   *)
(* the records are true whenever they are read, no two attempts run at     *)
(* once, and no effect is carried out twice.  EvidenceSound speaks of      *)
(* records; it is inductive only together with the same claim about the    *)
(* reports and the ReconcileCompletion calls still in flight.  OneRequest  *)
(* and AppliedOnce then follow because of any two dispatched attempts one  *)
(* was dispatched on the evidence that the other is over and did nothing   *)
(* (Ordered), evidence that GroundsStand keeps.                            *)
(***************************************************************************)
EXTENDS NativeExecution, FiniteSetTheorems, FunctionTheorems, SequenceTheorems, TLAPS

EntrySeq == Seq([scope : WireScopes, knowledge : WireKnowledge])

\* Entries of outcomes are entries the wire can carry.
LEMMA OutcomeEntriesOnWire ==
  Seq([scope : WireScopes, knowledge : Knowledge]) \subseteq EntrySeq
<1>1. [scope : WireScopes, knowledge : Knowledge]
        \subseteq [scope : WireScopes, knowledge : WireKnowledge]
  BY DEF WireKnowledge
<1> QED
  BY <1>1, SeqMonotonic DEF EntrySeq

\* The number of scopes is the number of effects: effects have unique scopes.
LEMMA ScopeCount ==
  /\ DOMAIN Effects = 1..Len(Effects)
  /\ Len(Effects) \in Nat
  /\ IsFiniteSet(Scopes)
  /\ Cardinality(Scopes) = Len(Effects)
<1>1. /\ Len(Effects) \in Nat
      /\ DOMAIN Effects = 1..Len(Effects)
      /\ Effects \in [1..Len(Effects) -> Scopes]
  BY EffectsAssumption, LenProperties
<1>2. Effects \in Bijection(1..Len(Effects), Scopes)
  <2>1. Effects \in Injection(1..Len(Effects), Scopes)
    BY <1>1, EffectsAssumption, Fun_IsInj
  <2>2. Effects \in Surjection(1..Len(Effects), Scopes)
    BY <1>1, Fun_IsSurj DEF Scopes
  <2> QED
    BY <2>1, <2>2 DEF Bijection
<1>3. IsFiniteSet(1..Len(Effects)) /\ Cardinality(1..Len(Effects)) = Len(Effects)
  BY <1>1, FS_Interval
<1>4. IsFiniteSet(Scopes) /\ Cardinality(Scopes) = Len(Effects)
  BY <1>2, <1>3, FS_Bijection DEF ExistsBijection
<1> QED
  BY <1>1, <1>4

\* A valid outcome names every scope once: as many entries as scopes, all
\* scopes covered, hence none twice.
LEMMA UniqueEntry ==
  ASSUME NEW o, NEW a, o.effects \in EntrySeq, ValidFor(o, a),
         NEW i \in DOMAIN o.effects, NEW j \in DOMAIN o.effects,
         o.effects[i].scope = o.effects[j].scope
  PROVE  i = j
<1> DEFINE n == Len(o.effects)
           f == [k \in 1..n |-> o.effects[k].scope]
<1>1. n \in Nat /\ DOMAIN o.effects = 1..n
  BY LenProperties DEF EntrySeq
<1>2. EffectScopes(o) = Scopes /\ n = Cardinality(Scopes)
  BY DEF ValidFor
<1>3. f \in Surjection(1..n, Scopes)
  <2>1. f \in [1..n -> Scopes]
    BY <1>1, <1>2 DEF EffectScopes
  <2>2. \A s \in Scopes : \E k \in 1..n : f[k] = s
    BY <1>1, <1>2 DEF EffectScopes
  <2> QED
    BY <2>1, <2>2, Fun_IsSurj
<1>4. IsFiniteSet(1..n) /\ Cardinality(1..n) = Cardinality(Scopes)
  BY <1>1, <1>2, FS_Interval
<1>5. f \in Injection(1..n, Scopes)
  BY <1>3, <1>4, FS_SurjSameCardinalityImpliesInj
<1>6. f[i] = f[j]
  BY <1>1
<1> QED
  BY <1>1, <1>5, <1>6, Fun_InjectionProperties

\* The knowledge of a scope is that of its one entry.
LEMMA KnowledgeOfEntry ==
  ASSUME NEW o, NEW a, o.effects \in EntrySeq, ValidFor(o, a),
         NEW i \in DOMAIN o.effects
  PROVE  KnowledgeOf(o, o.effects[i].scope) = o.effects[i].knowledge
<1> DEFINE entries == {j \in DOMAIN o.effects : o.effects[j].scope = o.effects[i].scope}
<1>1. entries = {i}
  BY UniqueEntry
<1>2. i \in Int
  BY LenProperties DEF EntrySeq
<1>3. Max({i}) = i
  BY <1>2 DEF Max
<1> QED
  BY <1>1, <1>3 DEF KnowledgeOf

\* Every scope has its entry.
LEMMA EntryOfScope ==
  ASSUME NEW o, NEW a, ValidFor(o, a), NEW s \in Scopes
  PROVE  \E i \in DOMAIN o.effects : o.effects[i].scope = s
BY DEF ValidFor, EffectScopes

\* Outcomes built from a function on scopes say what the function says.
LEMMA OutcomeOfValid ==
  ASSUME NEW a \in Attempts, NEW lifecycle \in Lifecycles,
         NEW k \in [Scopes -> Knowledge],
         lifecycle = "NotDispatched" => \A s \in Scopes : k[s] = "NotApplied"
  PROVE  /\ OutcomeOf(a, lifecycle, k) \in Outcomes
         /\ OutcomeOf(a, lifecycle, k).effects \in EntrySeq
         /\ ValidFor(OutcomeOf(a, lifecycle, k), a)
         /\ \A s \in Scopes : KnowledgeOf(OutcomeOf(a, lifecycle, k), s) = k[s]
<1> DEFINE o == OutcomeOf(a, lifecycle, k)
           entry(i) == [scope |-> Effects[i], knowledge |-> k[Effects[i]]]
           Entries == [scope : WireScopes, knowledge : Knowledge]
<1>1. /\ DOMAIN Effects = 1..Len(Effects)
      /\ Len(Effects) \in Nat
      /\ Cardinality(Scopes) = Len(Effects)
  BY ScopeCount
<1>2. o.effects = [i \in 1..Len(Effects) |-> entry(i)]
  BY <1>1 DEF OutcomeOf
<1>3. \A i \in 1..Len(Effects) : Effects[i] \in Scopes /\ entry(i) \in Entries
  BY <1>1 DEF Scopes, WireScopes
<1>4. o.effects \in Seq(Entries)
  <2> HIDE DEF entry, Entries, o
  <2> QED
    BY <1>1, <1>2, <1>3, IsASeq
<1>5. o \in Outcomes
  BY <1>4, OperationAssumption DEF Outcomes, OutcomeOf
<1>6. Len(o.effects) = Len(Effects) /\ DOMAIN o.effects = 1..Len(Effects)
  BY <1>1, <1>2, <1>4, LenProperties
<1>7. EffectScopes(o) = Scopes
  BY <1>1, <1>2, <1>6 DEF EffectScopes, Scopes
<1>8. ValidFor(o, a)
  BY <1>1, <1>2, <1>3, <1>6, <1>7 DEF ValidFor, OutcomeOf
<1>9. o.effects \in EntrySeq
  BY <1>4, OutcomeEntriesOnWire DEF EntrySeq
<1>10. ASSUME NEW s \in Scopes
       PROVE  KnowledgeOf(o, s) = k[s]
  <2>1. PICK i \in DOMAIN Effects : Effects[i] = s
    BY DEF Scopes
  <2>2. i \in DOMAIN o.effects /\ o.effects[i] = entry(i)
    BY <1>1, <1>2, <1>6
  <2>3. KnowledgeOf(o, o.effects[i].scope) = o.effects[i].knowledge
    <3> HIDE DEF o
    <3> QED
      BY <1>8, <1>9, <2>2, KnowledgeOfEntry
  <2> QED
    BY <2>1, <2>2, <2>3
<1> QED
  BY <1>5, <1>8, <1>9, <1>10

\* What a message that decodes becomes.
LEMMA DecodedOutcome ==
  ASSUME NEW a \in Attempts, NEW w \in WireOutcomes, Decodes(w, a)
  PROVE  w \in Outcomes /\ w.effects \in EntrySeq
<1>1. w.effects \in EntrySeq
  BY EffectListsAssumption DEF WireOutcomes, EntrySeq
<1>2. DOMAIN w.effects = 1..Len(w.effects) /\ Len(w.effects) \in Nat
  BY <1>1, LenProperties DEF EntrySeq
<1>3. ASSUME NEW i \in 1..Len(w.effects)
      PROVE  w.effects[i] \in [scope : WireScopes, knowledge : Knowledge]
  <2>1. w.effects[i] \in [scope : WireScopes, knowledge : WireKnowledge]
    BY <1>1, ElementOfSeq DEF EntrySeq
  <2>2. w.effects[i].knowledge \in Knowledge
    BY <1>2 DEF Decodes
  <2> QED
    BY <2>1, <2>2
<1>4. w.effects = [i \in 1..Len(w.effects) |-> w.effects[i]]
  BY <1>1, <1>2, LenProperties DEF EntrySeq
<1>5. w.effects \in Seq([scope : WireScopes, knowledge : Knowledge])
  <2> DEFINE entry(i) == w.effects[i]
             n == Len(w.effects)
  <2>1. n \in Nat /\ \A i \in 1..n : entry(i) \in [scope : WireScopes, knowledge : Knowledge]
    BY <1>2, <1>3
  <2>2. w.effects = [i \in 1..n |-> entry(i)]
    BY <1>4
  <2> HIDE DEF entry, n
  <2>3. [i \in 1..n |-> entry(i)] \in Seq([scope : WireScopes, knowledge : Knowledge])
    BY <2>1, IsASeq
  <2> QED
    BY <2>2, <2>3
<1> QED
  BY <1>1, <1>5 DEF WireOutcomes, Outcomes, Decodes

\* What a report that validate_attempt_outcome accepts after another may
\* change, scope by scope.
LEMMA ReportKeeps ==
  ASSUME NEW a, NEW previous, NEW current, previous # NoReport,
         previous.effects \in EntrySeq, ValidReport(a, previous, current),
         NEW s \in Scopes
  PROVE  LET before == KnowledgeOf(previous, s)
             after  == KnowledgeOf(current, s)
         IN  /\ previous.lifecycle = "Terminal" => current.lifecycle = "Terminal"
             /\ before = "Applied" => after = "Applied"
             /\ before = "PartiallyApplied" => after \notin {"Unknown", "NotApplied"}
             /\ before = "NotApplied" /\ previous.lifecycle = "Terminal"
                  => after = "NotApplied"
<1>1. ValidFor(previous, a) /\ KeepsLifecycle(previous, current) /\ KeepsEvidence(previous, current)
  BY DEF ValidReport
<1>2. PICK i \in DOMAIN previous.effects : previous.effects[i].scope = s
  BY <1>1, EntryOfScope
<1>3. KnowledgeOf(previous, s) = previous.effects[i].knowledge
  BY <1>1, <1>2, KnowledgeOfEntry
<1> QED
  BY <1>1, <1>2, <1>3 DEF KeepsEvidence, KeepsLifecycle

\* The knowledge of a valid outcome is one of the four values.
LEMMA KnowledgeType ==
  ASSUME NEW o \in Outcomes, NEW a, ValidFor(o, a), NEW s \in Scopes
  PROVE  KnowledgeOf(o, s) \in Knowledge /\ o.effects \in EntrySeq
<1>1. o.effects \in EntrySeq
  BY OutcomeEntriesOnWire DEF Outcomes
<1>2. PICK i \in DOMAIN o.effects : o.effects[i].scope = s
  BY EntryOfScope
<1>3. KnowledgeOf(o, s) = o.effects[i].knowledge
  BY <1>1, <1>2, KnowledgeOfEntry
<1>4. o.effects[i] \in [scope : WireScopes, knowledge : Knowledge]
  BY <1>2, LenProperties, ElementOfSeq DEF Outcomes
<1> QED
  BY <1>1, <1>3, <1>4

-----------------------------------------------------------------------------
(* Records *)

RecordsValid == \A a \in Attempts : ValidFor(record[a], a)
ReliedDispatched == \A a \in Attempts : \A b \in relied[a] : Dispatched(b)

Inv ==
  /\ TypeOK
  /\ RecordsValid
  /\ ReliedDispatched
  /\ GroundsStand
  /\ OneBarrier

-----------------------------------------------------------------------------

\* The records the host writes itself.
LEMMA OwnRecords ==
  ASSUME NEW a \in Attempts
  PROVE  /\ Initial(a) \in Outcomes
         /\ ValidFor(Initial(a), a)
         /\ Initial(a).lifecycle = "NotDispatched"
         /\ \A s \in Scopes : KnowledgeOf(Initial(a), s) = "NotApplied"
         /\ AtRisk(a) \in Outcomes
         /\ ValidFor(AtRisk(a), a)
         /\ AtRisk(a).lifecycle = "MayStillExecute"
         /\ \A s \in Scopes : KnowledgeOf(AtRisk(a), s) = "Unknown"
<1>1. /\ [s \in Scopes |-> "NotApplied"] \in [Scopes -> Knowledge]
      /\ [s \in Scopes |-> "Unknown"] \in [Scopes -> Knowledge]
      /\ {"NotDispatched", "MayStillExecute"} \subseteq Lifecycles
  BY DEF Knowledge, Lifecycles
<1>2. /\ Initial(a) \in Outcomes
      /\ ValidFor(Initial(a), a)
      /\ \A s \in Scopes : KnowledgeOf(Initial(a), s) = "NotApplied"
  <2> DEFINE k == [s \in Scopes |-> "NotApplied"]
  <2>1. k \in [Scopes -> Knowledge] /\ \A s \in Scopes : k[s] = "NotApplied"
    BY <1>1
  <2>2. Initial(a) = OutcomeOf(a, "NotDispatched", k)
    BY DEF Initial
  <2> HIDE DEF k
  <2>3. "NotDispatched" \in Lifecycles
    BY <1>1
  <2> QED
    BY <2>1, <2>2, <2>3, OutcomeOfValid
<1>3. /\ AtRisk(a) \in Outcomes
      /\ ValidFor(AtRisk(a), a)
      /\ \A s \in Scopes : KnowledgeOf(AtRisk(a), s) = "Unknown"
  BY <1>1, OutcomeOfValid DEF AtRisk
<1>4. Initial(a).lifecycle = "NotDispatched" /\ AtRisk(a).lifecycle = "MayStillExecute"
  BY DEF Initial, AtRisk, OutcomeOf
<1> QED
  BY <1>2, <1>3, <1>4

\* What a record becomes when the host takes over a report after it.
LEMMA AcceptedReport ==
  ASSUME NEW a \in Attempts, NEW w \in WireOutcomes, TypeOK, RecordsValid,
         Accepts(a, w)
  PROVE  /\ w \in Outcomes
         /\ ValidFor(w, a)
         /\ w.lifecycle # "NotDispatched"
         /\ Terminal(record[a]) => Terminal(w)
         /\ \A s \in Scopes :
              LET before == KnowledgeOf(record[a], s)
                  after  == KnowledgeOf(w, s)
              IN  /\ before = "Applied" => after = "Applied"
                  /\ before = "PartiallyApplied" => after \notin {"Unknown", "NotApplied"}
                  /\ before = "NotApplied" /\ Terminal(record[a]) => after = "NotApplied"
<1>1. Decodes(w, a) /\ ValidReport(a, record[a], w)
  BY DEF Accepts
<1>2. w \in Outcomes /\ ValidFor(w, a) /\ w.lifecycle # "NotDispatched"
  BY <1>1, DecodedOutcome DEF ValidReport
<1>3. record[a] \in Outcomes
  BY DEF TypeOK
<1>4. record[a] # NoReport
  BY <1>3, NoReportAssumption
<1>5. record[a].effects \in EntrySeq
  BY <1>3, OutcomeEntriesOnWire DEF Outcomes
<1>6. Terminal(record[a]) => Terminal(w)
  BY <1>1, <1>4 DEF ValidReport, KeepsLifecycle, Terminal
<1> QED
  BY <1>1, <1>2, <1>4, <1>5, <1>6, ReportKeeps DEF Terminal

\* A dispatched attempt that needs no barrier is over.
LEMMA ReleasedIsTerminal ==
  ASSUME TypeOK, NEW a \in Attempts, Dispatched(a), ~RequiresBarrier(record[a])
  PROVE  Terminal(record[a])
BY DEF TypeOK, Outcomes, Lifecycles, Dispatched, RequiresBarrier, Terminal

-----------------------------------------------------------------------------

LEMMA InvInit == Init => Inv
<1> SUFFICES ASSUME Init PROVE Inv
  OBVIOUS
<1>1. TypeOK
  BY OwnRecords DEF Init, TypeOK
<1>2. RecordsValid
  BY OwnRecords DEF Init, RecordsValid
<1>3. ReliedDispatched /\ GroundsStand
  BY DEF Init, ReliedDispatched, GroundsStand
<1>4. OneBarrier
  BY OwnRecords DEF Init, OneBarrier, RequiresBarrier
<1> QED
  BY <1>1, <1>2, <1>3, <1>4 DEF Inv

LEMMA InvDispatch ==
  ASSUME Inv, NEW a \in Attempts, Dispatch(a)
  PROVE  Inv'
<1> USE DEF Inv
<1>1. /\ record' = [record EXCEPT ![a] = AtRisk(a)]
      /\ relied' = [relied EXCEPT ![a] = {b \in Attempts : Dispatched(b)}]
      /\ reports' = reports
      /\ ~Dispatched(a)
  BY DEF Dispatch
<1>2. record'[a] = AtRisk(a) /\ \A b \in Attempts \ {a} : record'[b] = record[b]
  BY <1>1 DEF TypeOK
<1>3. \A b \in Attempts : Dispatched(b) => b # a /\ NothingApplied(record[b])
  BY <1>1 DEF Dispatch, MayDispatch
<1>4. TypeOK'
  BY <1>1, OwnRecords DEF TypeOK
<1>5. RecordsValid'
  BY <1>2, OwnRecords DEF RecordsValid
<1>6. ASSUME NEW c \in Attempts, NEW b \in relied'[c]
      PROVE  b \in Attempts /\ b # a /\ Dispatched(b) /\ NothingApplied(record[b])
  <2>1. CASE c = a
    BY <1>1, <1>3, <2>1 DEF TypeOK
  <2>2. CASE c # a
    <3>1. b \in relied[c]
      BY <1>1, <2>2 DEF TypeOK
    <3> QED
      BY <1>1, <3>1 DEF TypeOK, ReliedDispatched, GroundsStand
  <2> QED
    BY <2>1, <2>2
<1>7. ReliedDispatched'
  BY <1>2, <1>6 DEF ReliedDispatched, Dispatched
<1>8. GroundsStand'
  <2> SUFFICES ASSUME NEW c \in Attempts, NEW b \in relied'[c]
               PROVE  NothingApplied(record'[b])
    BY DEF GroundsStand
  <2> QED
    BY <1>2, <1>6
<1>9. OneBarrier'
  <2>1. ASSUME NEW b \in Attempts \ {a} PROVE ~RequiresBarrier(record[b])
    <3>1. CASE Dispatched(b)
      BY <1>3, <3>1 DEF NothingApplied
    <3>2. CASE ~Dispatched(b)
      BY <3>2 DEF Dispatched, RequiresBarrier
    <3> QED
      BY <3>1, <3>2
  <2> QED
    BY <1>2, <2>1 DEF OneBarrier
<1> QED
  BY <1>4, <1>5, <1>7, <1>8, <1>9

LEMMA InvReceive ==
  ASSUME Inv, NEW a \in Attempts, NEW w \in reports, Receive(a, w)
  PROVE  Inv'
<1> USE DEF Inv
<1>1. w \in WireOutcomes /\ reports' \subseteq WireOutcomes /\ relied' = relied /\ Dispatched(a)
  BY DEF TypeOK, Receive
<1>2. CASE ~Accepts(a, w)
  <2>1. record' = record
    BY <1>2 DEF Receive
  <2> QED
    BY <1>1, <2>1 DEF TypeOK, RecordsValid, ReliedDispatched, Dispatched, GroundsStand,
                      NothingApplied, OneBarrier, RequiresBarrier
<1>3. CASE Accepts(a, w)
  <2>1. record' = [record EXCEPT ![a] = w]
    BY <1>3 DEF Receive
  <2>2. record'[a] = w /\ \A b \in Attempts \ {a} : record'[b] = record[b]
    BY <2>1 DEF TypeOK
  <2>3. /\ w \in Outcomes
        /\ ValidFor(w, a)
        /\ w.lifecycle # "NotDispatched"
        /\ Terminal(record[a]) => Terminal(w)
        /\ \A s \in Scopes :
             KnowledgeOf(record[a], s) = "NotApplied" /\ Terminal(record[a])
               => KnowledgeOf(w, s) = "NotApplied"
    BY <1>1, <1>3, AcceptedReport
  <2>4. TypeOK'
    BY <1>1, <2>1, <2>3 DEF TypeOK
  <2>5. RecordsValid'
    BY <2>2, <2>3 DEF RecordsValid
  <2>6. ReliedDispatched'
    BY <1>1, <2>2, <2>3 DEF ReliedDispatched, Dispatched, TypeOK
  <2>7. NothingApplied(record[a]) => NothingApplied(w)
    <3> SUFFICES ASSUME NothingApplied(record[a]) PROVE NothingApplied(w)
      OBVIOUS
    <3>1. Terminal(record[a])
      BY <1>1, ReleasedIsTerminal DEF NothingApplied
    <3>2. ~RequiresBarrier(w)
      BY <2>3, <3>1 DEF Terminal, RequiresBarrier
    <3> QED
      BY <2>3, <3>1, <3>2 DEF NothingApplied
  <2>8. GroundsStand'
    <3> SUFFICES ASSUME NEW c \in Attempts, NEW b \in relied'[c]
                 PROVE  NothingApplied(record'[b])
      BY DEF GroundsStand
    <3>1. b \in Attempts /\ NothingApplied(record[b])
      BY <1>1 DEF GroundsStand, TypeOK
    <3> QED
      BY <2>2, <2>7, <3>1
  <2>9. RequiresBarrier(w) => RequiresBarrier(record[a])
    BY <1>1, <2>3, ReleasedIsTerminal DEF Terminal, RequiresBarrier
  <2>10. OneBarrier'
    BY <2>2, <2>9 DEF OneBarrier
  <2> QED
    BY <2>4, <2>5, <2>6, <2>8, <2>10
<1> QED
  BY <1>2, <1>3

LEMMA InvRecordsUnchanged ==
  ASSUME Inv, UNCHANGED <<record, relied>>, reports' \subseteq WireOutcomes
  PROVE  Inv'
BY DEF Inv, TypeOK, RecordsValid, ReliedDispatched, Dispatched, GroundsStand,
       NothingApplied, OneBarrier, RequiresBarrier

LEMMA InvNext == Inv /\ [Next]_vars => Inv'
<1> SUFFICES ASSUME Inv, [Next]_vars PROVE Inv'
  OBVIOUS
<1>0. reports \subseteq WireOutcomes
  BY DEF Inv, TypeOK
<1>1. ASSUME NEW a \in Attempts, Dispatch(a) PROVE Inv'
  BY <1>1, InvDispatch
<1>2. ASSUME NEW w \in WireOutcomes, Send(w) PROVE Inv'
  BY <1>0, <1>2, InvRecordsUnchanged DEF Send
<1>3. ASSUME NEW a \in Attempts, NEW w \in reports, Receive(a, w) PROVE Inv'
  BY <1>3, InvReceive
<1>4. ASSUME NEW w \in reports, Lose(w) PROVE Inv'
  BY <1>0, <1>4, InvRecordsUnchanged DEF Lose
<1>5. CASE UNCHANGED vars
  BY <1>0, <1>5, InvRecordsUnchanged DEF vars
<1> QED
  BY <1>1, <1>2, <1>3, <1>4, <1>5 DEF Next

\* The inductive invariant holds of every behaviour.
THEOREM Invariance == Spec => []Inv
<1>1. Init => Inv
  BY InvInit
<1>2. Inv /\ [Next]_vars => Inv'
  BY InvNext
<1> QED
  BY <1>1, <1>2, PTL DEF Spec

\* Records stay outcomes and messages stay messages.
THEOREM TypeCorrect == Spec => []TypeOK
<1>1. Inv => TypeOK
  BY DEF Inv
<1> QED
  BY <1>1, Invariance, PTL

\* Evidence a dispatch relied on is never withdrawn, whatever the provider
\* reports (validate_attempt_outcome, requires_barrier).
THEOREM GroundsNeverWithdrawn == Spec => []GroundsStand
<1>1. Inv => GroundsStand
  BY DEF Inv
<1> QED
  BY <1>1, Invariance, PTL

\* A released barrier never comes back: at most one attempt is at risk.
THEOREM AtMostOneBarrier == Spec => []OneBarrier
<1>1. Inv => OneBarrier
  BY DEF Inv
<1> QED
  BY <1>1, Invariance, PTL

\* Every record covers each effect of its operation exactly once
\* (AttemptOutcome::validate_for).
THEOREM EveryRecordComplete == Spec => []RecordsComplete
<1>1. Inv => RecordsComplete
  <2> SUFFICES ASSUME Inv, NEW a \in Attempts
               PROVE  /\ ValidFor(record[a], a)
                      /\ \A s \in Scopes :
                           Cardinality({i \in DOMAIN record[a].effects :
                                          record[a].effects[i].scope = s}) = 1
    BY DEF RecordsComplete
  <2>1. ValidFor(record[a], a) /\ record[a] \in Outcomes
    BY DEF Inv, RecordsValid, TypeOK
  <2>2. record[a].effects \in EntrySeq
    BY <2>1, OutcomeEntriesOnWire DEF Outcomes
  <2>3. ASSUME NEW s \in Scopes
        PROVE  Cardinality({i \in DOMAIN record[a].effects :
                              record[a].effects[i].scope = s}) = 1
    <3>1. PICK i \in DOMAIN record[a].effects : record[a].effects[i].scope = s
      BY <2>1, EntryOfScope
    <3>2. {j \in DOMAIN record[a].effects : record[a].effects[j].scope = s} = {i}
      BY <2>1, <2>2, <3>1, UniqueEntry
    <3> QED
      BY <3>2, FS_Singleton
  <2> QED
    BY <2>1, <2>3
<1> QED
  BY <1>1, Invariance, PTL

-----------------------------------------------------------------------------
(* The record implements the evidence ledger. *)

\* What a record still admits, by cases on what it knows.
LEMMA PossibleValues ==
  ASSUME NEW o, NEW s \in Scopes, KnowledgeOf(o, s) \in Knowledge
  PROVE  /\ KnowledgeOf(o, s) = "Applied" => Possible(o, s) = {"full"}
         /\ KnowledgeOf(o, s) = "PartiallyApplied" => Possible(o, s) = {"part", "full"}
         /\ KnowledgeOf(o, s) = "NotApplied" /\ Terminal(o) => Possible(o, s) = {"none"}
         /\ KnowledgeOf(o, s) = "NotApplied" /\ ~Terminal(o)
              => Possible(o, s) = {"none", "part", "full"}
         /\ KnowledgeOf(o, s) = "Unknown" => Possible(o, s) = {"none", "part", "full"}
BY DEF Possible, Knowledge

\* Possible results are never exhausted.
LEMMA PossibleType ==
  ASSUME NEW o, NEW s \in Scopes, KnowledgeOf(o, s) \in Knowledge
  PROVE  Possible(o, s) \in (SUBSET {"none", "part", "full"}) \ {{}}
BY PossibleValues DEF Knowledge

\* An accepted report narrows what the record admits of each effect.
LEMMA ReportNarrows ==
  ASSUME Inv, NEW a \in Attempts, NEW w \in WireOutcomes, Accepts(a, w),
         NEW s \in Scopes
  PROVE  /\ Possible(w, s) \in (SUBSET {"none", "part", "full"}) \ {{}}
         /\ Possible(w, s) \subseteq Possible(record[a], s)
<1>1. /\ record[a] \in Outcomes /\ ValidFor(record[a], a)
      /\ w \in Outcomes /\ ValidFor(w, a)
  BY AcceptedReport DEF Inv, TypeOK, RecordsValid
<1>2. KnowledgeOf(record[a], s) \in Knowledge /\ KnowledgeOf(w, s) \in Knowledge
  BY <1>1, KnowledgeType
<1>3. Possible(record[a], s) \in SUBSET {"none", "part", "full"}
      /\ Possible(w, s) \in (SUBSET {"none", "part", "full"}) \ {{}}
  BY <1>2, PossibleType
<1>4. LET before == KnowledgeOf(record[a], s)
          after  == KnowledgeOf(w, s)
      IN  /\ before = "Applied" => after = "Applied"
          /\ before = "PartiallyApplied" => after \notin {"Unknown", "NotApplied"}
          /\ before = "NotApplied" /\ Terminal(record[a]) => after = "NotApplied"
  BY AcceptedReport DEF Inv
<1>5. Terminal(record[a]) => Terminal(w)
  BY AcceptedReport DEF Inv
<1>6. CASE KnowledgeOf(record[a], s) = "Applied"
  BY <1>2, <1>4, <1>6, <1>3, PossibleValues
<1>7. CASE KnowledgeOf(record[a], s) = "PartiallyApplied"
  <2>1. KnowledgeOf(w, s) \in {"Applied", "PartiallyApplied"}
    BY <1>2, <1>4, <1>7 DEF Knowledge
  <2>2. Possible(record[a], s) = {"part", "full"}
    BY <1>2, <1>7, PossibleValues
  <2>3. Possible(w, s) \subseteq {"part", "full"}
    BY <1>2, <2>1, PossibleValues
  <2> QED
    BY <1>3, <2>2, <2>3
<1>8. CASE KnowledgeOf(record[a], s) = "NotApplied" /\ Terminal(record[a])
  <2>1. KnowledgeOf(w, s) = "NotApplied" /\ Terminal(w)
    BY <1>4, <1>5, <1>8
  <2>2. Possible(w, s) = {"none"} /\ Possible(record[a], s) = {"none"}
    BY <1>2, <1>8, <2>1, PossibleValues
  <2> QED
    BY <1>3, <2>2
<1>9. CASE \/ KnowledgeOf(record[a], s) = "Unknown"
           \/ KnowledgeOf(record[a], s) = "NotApplied" /\ ~Terminal(record[a])
  <2>1. Possible(record[a], s) = {"none", "part", "full"}
    BY <1>2, <1>9, PossibleValues
  <2> QED
    BY <1>3, <2>1
<1> QED
  BY <1>2, <1>6, <1>7, <1>8, <1>9 DEF Knowledge

\* Before a dispatch, and right after it, nothing is excluded.
LEMMA NothingExcluded ==
  ASSUME Inv, NEW a \in Attempts, NEW s \in Scopes
  PROVE  /\ ~Dispatched(a) => Possible(record[a], s) = {"none", "part", "full"}
         /\ Possible(AtRisk(a), s) = {"none", "part", "full"}
<1>1. KnowledgeOf(AtRisk(a), s) = "Unknown"
  BY OwnRecords
<1>2. Possible(AtRisk(a), s) = {"none", "part", "full"}
  BY <1>1, PossibleValues DEF Knowledge
<1>3. ASSUME ~Dispatched(a) PROVE Possible(record[a], s) = {"none", "part", "full"}
  <2>1. /\ record[a] \in Outcomes /\ ValidFor(record[a], a)
        /\ record[a].lifecycle = "NotDispatched"
    BY <1>3 DEF Inv, TypeOK, RecordsValid, Dispatched
  <2>2. PICK i \in DOMAIN record[a].effects : record[a].effects[i].scope = s
    BY <2>1, EntryOfScope
  <2>3. record[a].effects \in EntrySeq
    BY <2>1, KnowledgeType
  <2>4. KnowledgeOf(record[a], s) = "NotApplied"
    BY <2>1, <2>2, <2>3, KnowledgeOfEntry DEF ValidFor
  <2> QED
    BY <2>1, <2>4, PossibleValues DEF Terminal, Knowledge
<1> QED
  BY <1>2, <1>3

LEMMA LedgerInit == Init => Ledger!Init
<1> SUFFICES ASSUME Init PROVE Ledger!Init
  OBVIOUS
<1>1. Inv /\ \A a \in Attempts : ~Dispatched(a)
  BY InvInit, OwnRecords DEF Init, Dispatched
<1>2. \A a \in Attempts, s \in Scopes : Possible(record[a], s) = {"none", "part", "full"}
  BY <1>1, NothingExcluded
<1>3. \A a \in Attempts : ~RequiresBarrier(record[a])
  BY <1>1 DEF Dispatched, RequiresBarrier
<1> QED
  BY <1>1, <1>2, <1>3 DEF Ledger!Init, Ledger!Results

LEMMA LedgerDispatch ==
  ASSUME Inv, NEW a \in Attempts, Dispatch(a)
  PROVE  Ledger!Open(a)
<1>1. record' = [record EXCEPT ![a] = AtRisk(a)] /\ ~Dispatched(a)
  BY DEF Dispatch
<1>2. record'[a] = AtRisk(a) /\ \A b \in Attempts \ {a} : record'[b] = record[b]
  BY <1>1 DEF Inv, TypeOK
<1>3. AtRisk(a).lifecycle = "MayStillExecute"
  BY OwnRecords
<1>4. \A b \in Attempts, s \in Scopes : Possible(record'[b], s) = Possible(record[b], s)
  BY <1>1, <1>2, NothingExcluded
<1>5. {b \in Attempts : ~Dispatched(b)}' = {b \in Attempts : ~Dispatched(b)} \ {a}
  BY <1>2, <1>3 DEF Dispatched
<1>6. {b \in Attempts : RequiresBarrier(record[b])}'
        = {b \in Attempts : RequiresBarrier(record[b])} \cup {a}
  BY <1>2, <1>3 DEF RequiresBarrier
<1>7. [b \in Attempts |-> [s \in Scopes |-> Possible(record[b], s)]]'
        = [b \in Attempts |-> [s \in Scopes |-> Possible(record[b], s)]]
  BY <1>4
<1> QED
  BY <1>1, <1>5, <1>6, <1>7 DEF Ledger!Open

LEMMA LedgerReceive ==
  ASSUME Inv, NEW a \in Attempts, NEW w \in reports, Receive(a, w), Accepts(a, w)
  PROVE  Ledger!Learn(a)
<1> DEFINE fresh == {b \in Attempts : ~Dispatched(b)}
           open == {b \in Attempts : RequiresBarrier(record[b])}
           possible == [b \in Attempts |-> [s \in Scopes |-> Possible(record[b], s)]]
           narrowed == [s \in Scopes |-> Possible(w, s)]
<1>1. /\ w \in WireOutcomes
      /\ Dispatched(a)
      /\ record' = [record EXCEPT ![a] = w]
  BY DEF Receive, Inv, TypeOK
<1>2. record'[a] = w /\ \A b \in Attempts \ {a} : record'[b] = record[b]
  BY <1>1 DEF Inv, TypeOK
<1>3. w.lifecycle # "NotDispatched" /\ (Terminal(record[a]) => Terminal(w))
  BY <1>1, AcceptedReport DEF Inv
<1>4. RequiresBarrier(w) => RequiresBarrier(record[a])
  BY <1>1, <1>3, ReleasedIsTerminal DEF Inv, Terminal, RequiresBarrier
<1>5. fresh' = fresh /\ a \notin fresh
  BY <1>1, <1>2, <1>3 DEF Dispatched
<1>6. open' \in {open, open \ {a}}
  <2>1. CASE RequiresBarrier(w)
    <3>1. open' = open
      BY <1>2, <1>4, <2>1
    <3> QED
      BY <3>1
  <2>2. CASE ~RequiresBarrier(w)
    <3>1. open' = open \ {a}
      BY <1>2, <2>2
    <3> QED
      BY <3>1
  <2> QED
    BY <2>1, <2>2
<1>7. narrowed \in [Scopes -> (SUBSET {"none", "part", "full"}) \ {{}}]
  BY <1>1, ReportNarrows
<1>8. \A s \in Scopes : narrowed[s] \subseteq possible[a][s]
  BY <1>1, ReportNarrows
<1>9. possible' = [possible EXCEPT ![a] = narrowed]
  <2>1. possible' = [b \in Attempts |-> [s \in Scopes |-> Possible(record'[b], s)]]
    OBVIOUS
  <2> QED
    BY <1>2, <2>1
<1> HIDE DEF fresh, open, possible, narrowed
<1>10. /\ a \notin fresh
       /\ fresh' = fresh
       /\ open' \in {open, open \ {a}}
       /\ \E n \in [Scopes -> (SUBSET {"none", "part", "full"}) \ {{}}] :
            /\ \A s \in Scopes : n[s] \subseteq possible[a][s]
            /\ possible' = [possible EXCEPT ![a] = n]
  BY <1>5, <1>6, <1>7, <1>8, <1>9
<1> QED
  BY <1>10 DEF Ledger!Learn, Ledger!Results, fresh, open, possible

LEMMA LedgerUnchanged ==
  ASSUME record' = record
  PROVE  UNCHANGED Ledger!vars
BY DEF Ledger!vars, Dispatched, RequiresBarrier, Possible, Terminal

LEMMA LedgerNext == Inv /\ [Next]_vars => [Ledger!Next]_Ledger!vars
<1> SUFFICES ASSUME Inv, [Next]_vars PROVE [Ledger!Next]_Ledger!vars
  OBVIOUS
<1>1. ASSUME NEW a \in Attempts, Dispatch(a) PROVE Ledger!Next
  BY <1>1, LedgerDispatch DEF Ledger!Next
<1>2. ASSUME NEW w \in WireOutcomes, Send(w) PROVE UNCHANGED Ledger!vars
  BY <1>2, LedgerUnchanged DEF Send
<1>3. ASSUME NEW a \in Attempts, NEW w \in reports, Receive(a, w)
      PROVE  Ledger!Next \/ UNCHANGED Ledger!vars
  <2>1. CASE Accepts(a, w)
    BY <1>3, <2>1, LedgerReceive DEF Ledger!Next
  <2>2. CASE ~Accepts(a, w)
    BY <1>3, <2>2, LedgerUnchanged DEF Receive
  <2> QED
    BY <2>1, <2>2
<1>4. ASSUME NEW w \in reports, Lose(w) PROVE UNCHANGED Ledger!vars
  BY <1>4, LedgerUnchanged DEF Lose
<1>5. CASE UNCHANGED vars
  BY <1>5, LedgerUnchanged DEF vars
<1> QED
  BY <1>1, <1>2, <1>3, <1>4, <1>5 DEF Next

\* Whatever reports arrive, in whatever order, the host's records implement
\* the evidence ledger: knowledge only narrows, closed attempts stay closed.
THEOREM RecordsImplementLedger == Spec => ImplementsLedger
<1>1. Init => Ledger!Init
  BY LedgerInit
<1>2. Inv /\ [Next]_vars => [Ledger!Next]_Ledger!vars
  BY LedgerNext
<1> QED
  BY <1>1, <1>2, Invariance, PTL DEF Spec, ImplementsLedger, Ledger!Spec

-----------------------------------------------------------------------------
(* Part 2: the requests behind the records. *)

ReportsSound ==
  \A w \in reports :
    ValidFor(w, w.attempt) /\ w.effects \in EntrySeq /\ Sound(w.attempt, w)

AsksSound ==
  \A m \in asks :
    /\ Dispatched(m.attempt)
    /\ ValidFor(m.previous, m.attempt)
    /\ m.previous.lifecycle # "NotDispatched"
    /\ Sound(m.attempt, m.previous)

Untouched ==
  \A a \in Attempts :
    ~Dispatched(a) =>
      /\ call[a] = "none"
      /\ native[a] = "absent"
      /\ \A s \in Scopes : truth[a][s] = "none"

Ordered ==
  \A a, b \in Attempts :
    Dispatched(a) /\ Dispatched(b) /\ a # b => a \in relied[b] \/ b \in relied[a]

NInv ==
  /\ Inv
  /\ NTypeOK
  /\ EvidenceSound
  /\ ReportsSound
  /\ AsksSound
  /\ Untouched
  /\ Ordered

-----------------------------------------------------------------------------

\* What a truthful provider says is sound.
LEMMA TruthfulIsSound ==
  ASSUME NTypeOK, NEW a \in Attempts, NEW w \in WireOutcomes,
         ValidFor(w, a), Truthful(a, w)
  PROVE  w.effects \in EntrySeq /\ Sound(a, w)
<1>1. w.effects \in EntrySeq
  BY EffectListsAssumption DEF WireOutcomes, EntrySeq
<1>2. ASSUME NEW s \in Scopes
      PROVE  KnowledgeOf(w, s) \in Claims(truth[a][s])
  <2>1. PICK i \in DOMAIN w.effects : w.effects[i].scope = s
    BY EntryOfScope
  <2>2. KnowledgeOf(w, s) = w.effects[i].knowledge
    BY <1>1, <2>1, KnowledgeOfEntry
  <2> QED
    BY <2>1, <2>2 DEF Truthful
<1>3. ASSUME NEW s \in Scopes
      PROVE  truth[a][s] \in {"none", "part", "full"}
  BY DEF NTypeOK, Results
<1>4. ASSUME NEW s \in Scopes
      PROVE  LET known == KnowledgeOf(w, s)
             IN  /\ known = "Applied" => truth[a][s] = "full"
                 /\ known = "PartiallyApplied" => truth[a][s] # "none"
                 /\ known = "NotApplied" => truth[a][s] = "none"
  BY <1>2, <1>3 DEF Claims
<1> QED
  BY <1>1, <1>4 DEF Sound, Truthful

-----------------------------------------------------------------------------

LEMMA NInvInit == NInit => NInv
<1> SUFFICES ASSUME NInit PROVE NInv
  OBVIOUS
<1>1. Inv /\ \A a \in Attempts : ~Dispatched(a)
  BY InvInit, OwnRecords DEF NInit, Init, Dispatched
<1>2. NTypeOK
  BY <1>1 DEF NInit, NTypeOK, Inv, Results
<1>3. EvidenceSound
  <2> SUFFICES ASSUME NEW a \in Attempts PROVE Sound(a, Initial(a))
    BY DEF EvidenceSound, NInit, Init
  <2> QED
    BY OwnRecords DEF Sound, Terminal
<1>4. ReportsSound /\ AsksSound
  BY DEF NInit, Init, ReportsSound, AsksSound
<1>5. Untouched /\ Ordered
  BY <1>1 DEF NInit, Untouched, Ordered
<1> QED
  BY <1>1, <1>2, <1>3, <1>4, <1>5 DEF NInv

\* Steps of the composed system are steps of the host's records, or none.
LEMMA NNextIsNext ==
  ASSUME NTypeOK, [NNext]_nvars
  PROVE  [Next]_vars
<1>1. ASSUME NEW a \in Attempts,
             NDispatch(a) \/ Ask(a) \/ LoseCall(a) \/ Start(a) \/ Finish(a) \/ Refuse(a)
      PROVE  [Next]_vars
  BY <1>1 DEF NDispatch, Ask, LoseCall, Start, Finish, Refuse, Next, vars
<1>2. ASSUME NEW a \in Attempts, NEW w \in reports, NReceive(a, w) PROVE [Next]_vars
  BY <1>2 DEF NReceive, Next
<1>3. ASSUME NEW w \in reports, NLose(w) PROVE [Next]_vars
  BY <1>3 DEF NLose, Next
<1>4. ASSUME NEW m \in asks, LoseAsk(m) PROVE [Next]_vars
  BY <1>4 DEF LoseAsk, vars
<1>5. ASSUME NEW a \in Attempts, NEW s \in Scopes, NEW result \in Results, Apply(a, s, result)
      PROVE  [Next]_vars
  BY <1>5 DEF Apply, vars
<1>6. ASSUME NEW a \in Attempts, NEW w \in WireOutcomes, AnswerCall(a, w) PROVE [Next]_vars
  BY <1>6 DEF AnswerCall, Next
<1>7. ASSUME NEW m \in asks, NEW w \in WireOutcomes, AnswerAsk(m, w) PROVE [Next]_vars
  BY <1>7 DEF AnswerAsk, Next
<1>8. CASE UNCHANGED nvars
  BY <1>8 DEF nvars, vars
<1> QED
  BY <1>1, <1>2, <1>3, <1>4, <1>5, <1>6, <1>7, <1>8 DEF NNext

\* Steps that leave records and native facts alone, and whose reports and
\* calls were there before.
LEMMA NInvForget ==
  ASSUME NInv, Inv', UNCHANGED <<record, relied, native, truth>>,
         reports' \subseteq reports, asks' \subseteq asks,
         call' \in [Attempts -> {"none", "sent", "received"}],
         \A a \in Attempts : call[a] = "none" => call'[a] = "none"
  PROVE  NInv'
<1> USE DEF NInv
<1>1. NTypeOK'
  BY DEF NTypeOK, Inv
<1>2. EvidenceSound' /\ ReportsSound' /\ AsksSound'
  BY DEF EvidenceSound, ReportsSound, AsksSound, Sound, Terminal, Dispatched
<1>3. Untouched' /\ Ordered'
  BY DEF Untouched, Ordered, Dispatched
<1> QED
  BY <1>1, <1>2, <1>3

\* Steps of the native system.
LEMMA NInvNative ==
  ASSUME NInv, Inv', UNCHANGED <<record, relied, reports, asks>>,
         NTypeOK',
         NEW a \in Attempts, Dispatched(a),
         \A b \in Attempts \ {a} :
           native'[b] = native[b] /\ truth'[b] = truth[b] /\ call'[b] = call[b],
         native[a] = "finished" => native'[a] = "finished",
         \A s \in Scopes :
           /\ truth[a][s] = "full" => truth'[a][s] = "full"
           /\ truth[a][s] # "none" => truth'[a][s] # "none"
           /\ native[a] = "finished" => truth'[a][s] = truth[a][s]
  PROVE  NInv'
<1> USE DEF NInv
<1>1. ASSUME NEW b \in Attempts, NEW o, Sound(b, o)
      PROVE  /\ Terminal(o) => native'[b] = "finished"
             /\ \A s \in Scopes :
                  LET known == KnowledgeOf(o, s)
                  IN  /\ known = "Applied" => truth'[b][s] = "full"
                      /\ known = "PartiallyApplied" => truth'[b][s] # "none"
                      /\ known = "NotApplied" /\ Terminal(o) => truth'[b][s] = "none"
  <2>1. CASE b = a
    BY <1>1, <2>1 DEF Sound
  <2>2. CASE b # a
    BY <1>1, <2>2 DEF Sound
  <2> QED
    BY <2>1, <2>2
<1>2. EvidenceSound'
  BY <1>1 DEF EvidenceSound, Sound, Terminal
<1>3. ReportsSound'
  <2>1. \A w \in reports : w.attempt \in Attempts
    BY DEF NTypeOK, TypeOK, WireOutcomes
  <2> QED
    BY <1>1, <2>1 DEF ReportsSound, Sound, Terminal
<1>4. AsksSound'
  <2>1. \A m \in asks : m.attempt \in Attempts
    BY DEF NTypeOK
  <2> QED
    BY <1>1, <2>1 DEF AsksSound, Sound, Terminal, Dispatched
<1>5. Untouched'
  BY DEF Untouched, Dispatched
<1>6. Ordered'
  BY DEF Ordered, Dispatched
<1> QED
  BY <1>2, <1>3, <1>4, <1>5, <1>6

LEMMA NInvDispatch ==
  ASSUME NInv, Inv', NEW a \in Attempts, NDispatch(a)
  PROVE  NInv'
<1> USE DEF NInv
<1>1. /\ record' = [record EXCEPT ![a] = AtRisk(a)]
      /\ relied' = [relied EXCEPT ![a] = {b \in Attempts : Dispatched(b)}]
      /\ call' = [call EXCEPT ![a] = "sent"]
      /\ UNCHANGED <<reports, asks, native, truth>>
      /\ ~Dispatched(a)
  BY DEF NDispatch, Dispatch
<1>2. record'[a] = AtRisk(a) /\ \A b \in Attempts \ {a} : record'[b] = record[b]
  BY <1>1 DEF NTypeOK, TypeOK
<1>3. NTypeOK'
  BY <1>1 DEF NTypeOK, Inv
<1>4. EvidenceSound'
  <2> SUFFICES ASSUME NEW b \in Attempts PROVE Sound(b, record[b])'
    BY DEF EvidenceSound
  <2>1. CASE b = a
    <3>1. Sound(a, AtRisk(a))
      BY OwnRecords DEF Sound, Terminal
    <3> QED
      BY <1>1, <1>2, <2>1, <3>1 DEF Sound, Terminal
  <2>2. CASE b # a
    BY <1>1, <1>2, <2>2 DEF EvidenceSound, Sound, Terminal
  <2> QED
    BY <2>1, <2>2
<1>5. ReportsSound' /\ AsksSound'
  <2>1. \A b \in Attempts : Dispatched(b) => Dispatched(b)'
    BY <1>1, <1>2, OwnRecords DEF Dispatched
  <2> QED
    BY <1>1, <2>1 DEF ReportsSound, AsksSound, Sound, Terminal, NTypeOK
<1>6. Untouched'
  BY <1>1, <1>2, OwnRecords DEF Untouched, Dispatched, NTypeOK
<1>7. Ordered'
  <2> SUFFICES ASSUME NEW b \in Attempts, NEW c \in Attempts, b # c,
                      Dispatched(b)', Dispatched(c)'
               PROVE  b \in relied'[c] \/ c \in relied'[b]
    BY DEF Ordered
  <2>1. CASE b # a /\ c # a
    BY <1>1, <1>2, <2>1 DEF Ordered, Dispatched, NTypeOK, TypeOK
  <2>2. CASE b = a
    BY <1>1, <1>2, <2>2 DEF Dispatched, NTypeOK, TypeOK
  <2>3. CASE c = a
    BY <1>1, <1>2, <2>3 DEF Dispatched, NTypeOK, TypeOK
  <2> QED
    BY <2>1, <2>2, <2>3
<1> QED
  BY <1>3, <1>4, <1>5, <1>6, <1>7

LEMMA NInvAsk ==
  ASSUME NInv, Inv', NEW a \in Attempts, Ask(a)
  PROVE  NInv'
<1> USE DEF NInv
<1>1. /\ asks' = asks \cup {[attempt |-> a, previous |-> record[a]]}
      /\ UNCHANGED <<record, relied, reports, call, native, truth>>
      /\ Dispatched(a)
  BY DEF Ask
<1>2. record[a] \in Outcomes /\ ValidFor(record[a], a) /\ Sound(a, record[a])
  BY DEF Inv, TypeOK, RecordsValid, EvidenceSound
<1>3. NTypeOK'
  BY <1>1, <1>2 DEF NTypeOK, Inv
<1>4. AsksSound'
  <2> SUFFICES ASSUME NEW m \in asks'
               PROVE  /\ Dispatched(m.attempt)
                      /\ ValidFor(m.previous, m.attempt)
                      /\ m.previous.lifecycle # "NotDispatched"
                      /\ Sound(m.attempt, m.previous)
    BY <1>1 DEF AsksSound, Sound, Terminal, Dispatched
  <2>1. CASE m \in asks
    BY <2>1 DEF AsksSound
  <2>2. CASE m = [attempt |-> a, previous |-> record[a]]
    BY <1>1, <1>2, <2>2 DEF Dispatched
  <2> QED
    BY <1>1, <2>1, <2>2
<1>5. EvidenceSound' /\ ReportsSound' /\ Untouched' /\ Ordered'
  BY <1>1 DEF EvidenceSound, ReportsSound, Sound, Terminal, Untouched, Ordered, Dispatched
<1> QED
  BY <1>3, <1>4, <1>5

LEMMA NInvReceive ==
  ASSUME NInv, Inv', NEW a \in Attempts, NEW w \in reports, NReceive(a, w)
  PROVE  NInv'
<1> USE DEF NInv
<1>1. /\ UNCHANGED <<relied, call, asks, native, truth>>
      /\ reports' = reports \ {w}
      /\ Dispatched(a)
      /\ record' = IF Accepts(a, w) THEN [record EXCEPT ![a] = w] ELSE record
  BY DEF NReceive, Receive
<1>2. CASE ~Accepts(a, w)
  BY <1>1, <1>2, NInvForget DEF NTypeOK
<1>3. CASE Accepts(a, w)
  <2>1. record'[a] = w /\ \A b \in Attempts \ {a} : record'[b] = record[b]
    BY <1>1, <1>3 DEF NTypeOK, TypeOK
  <2>2. w.attempt = a /\ w.lifecycle # "NotDispatched"
    BY <1>3 DEF Accepts, ValidReport, ValidFor
  <2>3. Sound(a, w)
    BY <2>2 DEF ReportsSound
  <2>4. NTypeOK'
    BY <1>1 DEF NTypeOK, Inv
  <2>5. EvidenceSound'
    BY <1>1, <2>1, <2>3 DEF EvidenceSound, Sound, Terminal
  <2>6. \A b \in Attempts : Dispatched(b)' <=> Dispatched(b)
    BY <1>1, <2>1, <2>2 DEF Dispatched
  <2>7. ReportsSound' /\ AsksSound'
    BY <1>1, <2>6 DEF ReportsSound, AsksSound, Sound, Terminal, NTypeOK
  <2>8. Untouched' /\ Ordered'
    BY <1>1, <2>6 DEF Untouched, Ordered
  <2> QED
    BY <2>4, <2>5, <2>7, <2>8
<1> QED
  BY <1>2, <1>3

\* Putting a valid and truthful report on the wire.
LEMMA NInvSend ==
  ASSUME NInv, Inv', NEW a \in Attempts, NEW w \in WireOutcomes,
         ValidFor(w, a), Truthful(a, w),
         UNCHANGED <<record, relied, native, truth>>,
         reports' = reports \cup {w}, asks' \subseteq asks,
         call' \in [Attempts -> {"none", "sent", "received"}],
         \A b \in Attempts : call[b] = "none" => call'[b] = "none"
  PROVE  NInv'
<1> USE DEF NInv
<1>1. w.attempt = a
  BY DEF ValidFor
<1>2. w.effects \in EntrySeq /\ Sound(a, w)
  BY TruthfulIsSound
<1>3. NTypeOK'
  BY DEF NTypeOK, Inv
<1>4. ReportsSound'
  BY <1>1, <1>2 DEF ReportsSound, Sound, Terminal
<1>5. EvidenceSound' /\ AsksSound'
  BY DEF EvidenceSound, AsksSound, Sound, Terminal, Dispatched
<1>6. Untouched' /\ Ordered'
  BY DEF Untouched, Ordered, Dispatched
<1> QED
  BY <1>3, <1>4, <1>5, <1>6

LEMMA NInvNext == NInv /\ [NNext]_nvars => NInv'
<1> SUFFICES ASSUME NInv, [NNext]_nvars PROVE NInv'
  OBVIOUS
<1>0. Inv'
  BY NNextIsNext, InvNext DEF NInv
<1>a. NTypeOK /\ Untouched
  BY DEF NInv
<1>1. ASSUME NEW a \in Attempts, NDispatch(a) PROVE NInv'
  BY <1>0, <1>1, NInvDispatch
<1>2. ASSUME NEW a \in Attempts, Ask(a) PROVE NInv'
  BY <1>0, <1>2, NInvAsk
<1>3. ASSUME NEW a \in Attempts, LoseCall(a) PROVE NInv'
  <2>1. call' \in [Attempts -> {"none", "sent", "received"}]
    BY <1>a, <1>3 DEF LoseCall, NTypeOK
  <2>2. \A b \in Attempts : call[b] = "none" => call'[b] = "none"
    BY <1>a, <1>3 DEF LoseCall, NTypeOK
  <2> QED
    BY <1>0, <1>3, <2>1, <2>2, NInvForget DEF LoseCall
<1>4. ASSUME NEW a \in Attempts, Start(a) PROVE NInv'
  <2>1. Dispatched(a)
    BY <1>a, <1>4 DEF Start, Untouched
  <2>2. NTypeOK'
    BY <1>a, <1>4 DEF Start, NTypeOK, TypeOK
  <2>3. /\ \A b \in Attempts \ {a} :
             native'[b] = native[b] /\ truth'[b] = truth[b] /\ call'[b] = call[b]
        /\ native[a] = "finished" => native'[a] = "finished"
        /\ truth' = truth
    BY <1>a, <1>4 DEF Start, NTypeOK
  <2> QED
    BY <1>0, <1>4, <2>1, <2>2, <2>3, NInvNative DEF Start
<1>5. ASSUME NEW a \in Attempts, Finish(a) PROVE NInv'
  <2>1. Dispatched(a)
    BY <1>a, <1>5 DEF Finish, Untouched
  <2>2. NTypeOK'
    BY <1>a, <1>5 DEF Finish, NTypeOK, TypeOK
  <2>3. /\ \A b \in Attempts \ {a} : native'[b] = native[b]
        /\ native'[a] = "finished"
        /\ truth' = truth /\ call' = call
    BY <1>a, <1>5 DEF Finish, NTypeOK
  <2> QED
    BY <1>0, <1>5, <2>1, <2>2, <2>3, NInvNative DEF Finish
<1>6. ASSUME NEW a \in Attempts, Refuse(a) PROVE NInv'
  <2>1. Dispatched(a)
    BY <1>6 DEF Refuse, NInv, AsksSound
  <2>2. NTypeOK'
    BY <1>a, <1>6 DEF Refuse, NTypeOK, TypeOK
  <2>3. /\ \A b \in Attempts \ {a} : native'[b] = native[b]
        /\ native'[a] = "finished"
        /\ truth' = truth /\ call' = call
    BY <1>a, <1>6 DEF Refuse, NTypeOK
  <2> QED
    BY <1>0, <1>6, <2>1, <2>2, <2>3, NInvNative DEF Refuse
<1>7. ASSUME NEW a \in Attempts, NEW s \in Scopes, NEW result \in Results, Apply(a, s, result)
      PROVE  NInv'
  <2>1. /\ native[a] = "running"
        /\ truth' = [truth EXCEPT ![a][s] = result]
        /\ UNCHANGED <<record, relied, reports, call, asks, native>>
        /\ truth[a][s] # "full" /\ result # "none"
    BY <1>7 DEF Apply
  <2>2. Dispatched(a)
    BY <1>a, <2>1 DEF Untouched
  <2>3. /\ \A b \in Attempts \ {a} : truth'[b] = truth[b]
        /\ truth'[a] = [truth[a] EXCEPT ![s] = result]
        /\ truth' \in [Attempts -> [Scopes -> Results]]
    BY <1>a, <2>1 DEF NTypeOK
  <2>4. NTypeOK'
    BY <1>a, <2>1, <2>3 DEF NTypeOK, TypeOK
  <2>5. \A t \in Scopes :
          /\ truth[a][t] = "full" => truth'[a][t] = "full"
          /\ truth[a][t] # "none" => truth'[a][t] # "none"
    BY <1>a, <2>1, <2>3 DEF NTypeOK
  <2> QED
    BY <1>0, <2>1, <2>2, <2>3, <2>4, <2>5, NInvNative
<1>8. ASSUME NEW a \in Attempts, NEW w \in reports, NReceive(a, w) PROVE NInv'
  BY <1>0, <1>8, NInvReceive
<1>9. ASSUME NEW w \in reports, NLose(w) PROVE NInv'
  BY <1>0, <1>a, <1>9, NInvForget DEF NLose, Lose, NTypeOK
<1>10. ASSUME NEW m \in asks, LoseAsk(m) PROVE NInv'
  BY <1>0, <1>a, <1>10, NInvForget DEF LoseAsk, NTypeOK
<1>11. ASSUME NEW a \in Attempts, NEW w \in WireOutcomes, AnswerCall(a, w) PROVE NInv'
  <2>1. ValidFor(w, a) /\ Truthful(a, w)
    BY <1>11 DEF AnswerCall, ValidReport
  <2>2. /\ call' = [call EXCEPT ![a] = "none"]
        /\ reports' = reports \cup {w}
        /\ UNCHANGED <<record, relied, asks, native, truth>>
    BY <1>11 DEF AnswerCall, Send
  <2>3. /\ call' \in [Attempts -> {"none", "sent", "received"}]
        /\ \A b \in Attempts : call[b] = "none" => call'[b] = "none"
    BY <1>a, <2>2 DEF NTypeOK
  <2> QED
    BY <1>0, <2>1, <2>2, <2>3, NInvSend
<1>12. ASSUME NEW m \in asks, NEW w \in WireOutcomes, AnswerAsk(m, w) PROVE NInv'
  <2>1. m.attempt \in Attempts /\ ValidFor(w, m.attempt) /\ Truthful(m.attempt, w)
    BY <1>a, <1>12 DEF AnswerAsk, ValidReport, NTypeOK
  <2>2. /\ asks' = asks \ {m}
        /\ reports' = reports \cup {w}
        /\ UNCHANGED <<record, relied, call, native, truth>>
    BY <1>12 DEF AnswerAsk, Send
  <2> QED
    BY <1>0, <1>a, <2>1, <2>2, NInvSend DEF NTypeOK
<1>13. CASE UNCHANGED nvars
  BY <1>0, <1>a, <1>13, NInvForget DEF nvars, NTypeOK
<1> QED
  BY <1>1, <1>2, <1>3, <1>4, <1>5, <1>6, <1>7, <1>8, <1>9, <1>10, <1>11, <1>12, <1>13
     DEF NNext

\* The inductive invariant of the composed system.
THEOREM NInvariance == NSpec => []NInv
<1>1. NInit => NInv
  BY NInvInit
<1>2. NInv /\ [NNext]_nvars => NInv'
  BY NInvNext
<1> QED
  BY <1>1, <1>2, PTL DEF NSpec

\* What the host has recorded is true, whatever was lost or came late.
THEOREM RecordsAreTrue == NSpec => []EvidenceSound
<1>1. NInv => EvidenceSound
  BY DEF NInv
<1> QED
  BY <1>1, NInvariance, PTL

\* Of two dispatched attempts one is over and did nothing.
LEMMA OneOfTwoIsVoid ==
  ASSUME NInv, NEW a \in Attempts, NEW b \in Attempts, a # b,
         Dispatched(a), Dispatched(b)
  PROVE  \E c \in {a, b} :
           native[c] = "finished" /\ \A s \in Scopes : truth[c][s] = "none"
<1>1. ASSUME NEW c \in Attempts, NEW d \in Attempts, c \in relied[d]
      PROVE  native[c] = "finished" /\ \A s \in Scopes : truth[c][s] = "none"
  <2>1. Dispatched(c) /\ NothingApplied(record[c])
    BY <1>1 DEF NInv, Inv, ReliedDispatched, GroundsStand
  <2>2. Terminal(record[c])
    BY <2>1, ReleasedIsTerminal DEF NInv, Inv, NothingApplied
  <2> QED
    BY <2>1, <2>2 DEF NInv, EvidenceSound, Sound, NothingApplied
<1>2. a \in relied[b] \/ b \in relied[a]
  BY DEF NInv, Ordered
<1> QED
  BY <1>1, <1>2

\* No two native requests for the operation run or are on their way.
THEOREM NeverTwoRequests == NSpec => []OneRequest
<1>1. NInv => OneRequest
  <2> SUFFICES ASSUME NInv, NEW a \in Attempts, NEW b \in Attempts,
                      Live(a), Live(b), a # b
               PROVE  FALSE
    BY DEF OneRequest
  <2>1. Dispatched(a) /\ Dispatched(b)
    BY DEF NInv, Untouched, Live
  <2> QED
    BY <2>1, OneOfTwoIsVoid DEF Live
<1> QED
  BY <1>1, NInvariance, PTL

\* No effect is carried out by two attempts.
THEOREM NeverAppliedTwice == NSpec => []AppliedOnce
<1>1. NInv => AppliedOnce
  <2> SUFFICES ASSUME NInv, NEW s \in Scopes, NEW a \in Attempts, NEW b \in Attempts,
                      truth[a][s] # "none", truth[b][s] # "none", a # b
               PROVE  FALSE
    BY DEF AppliedOnce
  <2>1. Dispatched(a) /\ Dispatched(b)
    BY DEF NInv, Untouched
  <2> QED
    BY <2>1, OneOfTwoIsVoid
<1> QED
  BY <1>1, NInvariance, PTL

-----------------------------------------------------------------------------

\* Whatever a process holds it can also decode.
LEMMA HeldDecodes ==
  ASSUME NEW a, NEW o \in Outcomes, ValidFor(o, a)
  PROVE  Decodes(o, a)
<1>1. Len(o.effects) <= MaximumEffects
  BY ScopeCount, MaximumEffectsAssumption DEF ValidFor
<1>2. \A i \in DOMAIN o.effects : o.effects[i] \in [scope : WireScopes, knowledge : Knowledge]
  BY LenProperties, ElementOfSeq DEF Outcomes
<1> QED
  BY <1>1, <1>2 DEF Decodes, Outcomes

\* The full truth is a report, and follows every sound outcome.
LEMMA TruthFollows ==
  ASSUME NTypeOK, NEW a \in Attempts, NEW previous \in Outcomes,
         ValidFor(previous, a), previous.lifecycle # "NotDispatched",
         Sound(a, previous)
  PROVE  /\ Decodes(FullReport(a), a)
         /\ ValidReport(a, previous, FullReport(a))
<1> DEFINE lifecycle == IF native[a] = "finished" THEN "Terminal" ELSE "MayStillExecute"
           k == [s \in Scopes |-> Exactly(truth[a][s])]
           full == OutcomeOf(a, lifecycle, k)
<1>1. \A s \in Scopes : truth[a][s] \in {"none", "part", "full"}
  BY DEF NTypeOK, Results
<1>2. lifecycle \in Lifecycles /\ lifecycle # "NotDispatched"
  BY DEF Lifecycles
<1>3. k \in [Scopes -> Knowledge]
  BY <1>1 DEF Exactly, Knowledge
<1>4. /\ full \in Outcomes
      /\ ValidFor(full, a)
      /\ \A s \in Scopes : KnowledgeOf(full, s) = k[s]
  <2> HIDE DEF lifecycle, k
  <2> QED
    BY <1>2, <1>3, OutcomeOfValid
<1>5. full.lifecycle = lifecycle
  BY DEF OutcomeOf
<1>6. Decodes(full, a)
  BY <1>4, HeldDecodes
<1>7. KeepsLifecycle(previous, full)
  BY <1>5 DEF KeepsLifecycle, Sound, Terminal
<1>8. KeepsEvidence(previous, full)
  <2> SUFFICES ASSUME NEW i \in DOMAIN previous.effects
               PROVE  LET before == previous.effects[i].knowledge
                          after  == KnowledgeOf(full, previous.effects[i].scope)
                      IN  /\ before = "Applied" => after = "Applied"
                          /\ before = "PartiallyApplied" => after \notin {"Unknown", "NotApplied"}
                          /\ before = "NotApplied" /\ previous.lifecycle = "Terminal"
                               => after = "NotApplied"
    BY DEF KeepsEvidence
  <2>1. previous.effects[i].scope \in Scopes
    BY DEF ValidFor, EffectScopes
  <2>2. PICK s \in Scopes : s = previous.effects[i].scope
    BY <2>1
  <2>3. previous.effects \in EntrySeq
    BY OutcomeEntriesOnWire DEF Outcomes
  <2>4. KnowledgeOf(previous, s) = previous.effects[i].knowledge
    BY <2>2, <2>3, KnowledgeOfEntry
  <2>5. KnowledgeOf(full, s) = Exactly(truth[a][s])
    BY <1>4
  <2>6. /\ KnowledgeOf(previous, s) = "Applied" => truth[a][s] = "full"
        /\ KnowledgeOf(previous, s) = "PartiallyApplied" => truth[a][s] # "none"
        /\ KnowledgeOf(previous, s) = "NotApplied" /\ Terminal(previous)
             => truth[a][s] = "none"
    BY DEF Sound
  <2>7. /\ truth[a][s] = "full" => KnowledgeOf(full, s) = "Applied"
        /\ truth[a][s] # "none" => KnowledgeOf(full, s) \notin {"Unknown", "NotApplied"}
        /\ truth[a][s] = "none" => KnowledgeOf(full, s) = "NotApplied"
    BY <1>1, <2>5 DEF Exactly
  <2> HIDE DEF full
  <2> QED
    BY <2>2, <2>4, <2>6, <2>7 DEF Terminal
<1>9. ValidReport(a, previous, full)
  <2> HIDE DEF lifecycle, k
  <2> QED
    BY <1>2, <1>4, <1>5, <1>7, <1>8 DEF ValidReport
<1>10. full = FullReport(a)
  BY DEF FullReport
<1> QED
  BY <1>6, <1>9, <1>10

\* The truth is never refused: not by the host, whatever it has recorded, nor
\* by the provider's own check against an outdated outcome
\* (validate_attempt_outcome, decode_outcome).
THEOREM TruthNeverRefused == NSpec => []TruthAccepted
<1>1. NInv => TruthAccepted
  <2> SUFFICES ASSUME NInv PROVE TruthAccepted
    OBVIOUS
  <2> USE DEF NInv
  <2>1. ASSUME NEW a \in Attempts, Dispatched(a)
        PROVE  Accepts(a, FullReport(a))
    <3>1. /\ record[a] \in Outcomes /\ ValidFor(record[a], a)
          /\ record[a].lifecycle # "NotDispatched" /\ Sound(a, record[a])
      BY <2>1 DEF Inv, TypeOK, RecordsValid, EvidenceSound, Dispatched
    <3> QED
      BY <3>1, TruthFollows DEF Accepts
  <2>2. ASSUME NEW m \in asks
        PROVE  /\ Decodes(m.previous, m.attempt)
               /\ ValidReport(m.attempt, m.previous, FullReport(m.attempt))
    <3>1. m.attempt \in Attempts /\ m.previous \in Outcomes
      BY DEF NTypeOK
    <3>2. /\ ValidFor(m.previous, m.attempt)
          /\ m.previous.lifecycle # "NotDispatched"
          /\ Sound(m.attempt, m.previous)
      BY DEF AsksSound
    <3> QED
      BY <3>1, <3>2, HeldDecodes, TruthFollows
  <2> QED
    BY <2>1, <2>2 DEF TruthAccepted
<1> QED
  BY <1>1, NInvariance, PTL

=============================================================================
