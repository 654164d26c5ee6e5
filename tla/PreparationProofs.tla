------------------------- MODULE PreparationProofs --------------------------
(***************************************************************************)
(* What protection claims is true for any library, any operations and any  *)
(* number of changes and executions.                                       *)
(*                                                                         *)
(* The operation that is executed passed the validators with some behavior *)
(* (Accepted).  Whatever the user touched since it was prepared, its group *)
(* has moved on from the revision the operation is conditional on          *)
(* (Touched); and what a monotone operation has merged stays merged unless *)
(* the user touched it (Merged).                                           *)
(***************************************************************************)
EXTENDS Preparation, SequenceTheorems, TLAPS

Typed ==
  /\ DOMAIN native = Scopes
  /\ revision \in [Groups -> Nat]
  /\ phase \in {"idle", "prepared", "executing", "executed"}
  /\ runs \in Nat /\ position \in Nat

\* The operation passed validate_for by a behavior the provider has had.
Accepted ==
  phase # "idle" =>
    \E b \in ToSet(Behaviors), scopes \in Requests :
      operation \in Offered /\ ValidPreparedFor(operation, b, "op", Account, scopes)

\* Revisions only grow, and of what the user touched they have grown.
Touched ==
  phase # "idle" =>
    /\ token \in [Groups -> Nat]
    /\ \A g \in Groups : token[g] <= revision[g]
    /\ \A s \in touched : s \in Scopes /\ token[NativeGroup(s)] < revision[NativeGroup(s)]

\* How far an execution is.
Progress ==
  /\ phase = "executing" => position \in 1 .. Len(operation.effects) /\ runs > 0
  /\ phase = "prepared" => runs = 0

Monotone == phase # "idle" /\ operation.protection.kind = "MonotoneMerge"

\* An effect that was carried out, in this execution or an earlier one.
Done(i) ==
  \/ runs > 1
  \/ phase = "executed"
  \/ phase = "executing" /\ i < position

Merged ==
  Monotone =>
    \A i \in 1 .. Len(operation.effects) :
      LET e == operation.effects[i]
      IN  Done(i) => e.change.additions \subseteq native[e.scope] \/ e.scope \in touched

Inv == Typed /\ Accepted /\ Touched /\ Progress /\ Merged

-----------------------------------------------------------------------------

\* What validate_for has made sure of, and what the group of an effect means.
LEMMA OfAccepted ==
  ASSUME Accepted, phase # "idle"
  PROVE  LET n == Len(operation.effects)
             e(i) == operation.effects[i]
         IN  /\ n \in Nat /\ n > 0 /\ DOMAIN operation.effects = 1 .. n
             /\ \A i \in 1 .. n : /\ e(i).scope \in Scopes /\ e(i).scope.account = Account
                                  /\ Group(e(i)) = NativeGroup(e(i).scope)
             /\ operation.protection.kind = "Conditional" =>
                  \A i \in 1 .. n : NativeGroup(e(i).scope) \in operation.protection.groups
             /\ operation.protection.kind = "MonotoneMerge" =>
                  \A i \in 1 .. n : /\ e(i).change.kind = "MergeItems"
                                    /\ e(i).scope.field \in ProgressFields
             /\ \E b \in ToSet(Behaviors) :
                  /\ b.revision = operation.behavior_revision
                  /\ \E capability \in Capabilities(b) :
                       /\ capability.class = operation.class
                       /\ \A i \in 1 .. n : e(i).scope.field \in capability.effect_fields
<1>1. PICK b \in ToSet(Behaviors), scopes \in Requests :
        operation \in Offered /\ ValidPreparedFor(operation, b, "op", Account, scopes)
  BY DEF Accepted
<1>2. /\ operation.effects \in Seq(ToSet(operation.effects))
      /\ \A i \in DOMAIN operation.effects :
           /\ operation.effects[i].scope \in Scopes
           /\ operation.effects[i].group = GroupOf[operation.effects[i].scope.field]
           /\ operation.effects[i].change.kind = "MergeItems" =>
                operation.effects[i].scope.field \in ProgressFields
  BY <1>1, OfferedAssumption
<1>3. /\ Len(operation.effects) \in Nat /\ DOMAIN operation.effects = 1 .. Len(operation.effects)
  BY <1>2, LenProperties
<1>4. operation.effects # <<>>
  BY <1>1 DEF ValidPreparedFor, ValidPrepared
<1>5. Len(operation.effects) > 0
  BY <1>2, <1>3, <1>4, EmptySeq
<1>6. \A i \in DOMAIN operation.effects : operation.effects[i].scope.account = Account
  BY <1>1 DEF ValidPreparedFor, Correlates, ScopesOf
<1>7. \A i \in DOMAIN operation.effects :
        Group(operation.effects[i]) = NativeGroup(operation.effects[i].scope)
  BY <1>2 DEF Group, NativeGroup
<1>8. operation.behavior_revision = b.revision
  BY <1>1 DEF ValidPreparedFor, ValidPrepared
<1>9. PICK capability \in Capabilities(b) :
        /\ capability.class = operation.class
        /\ Declares(operation, capability)
        /\ operation.protection.kind = "Conditional" => CoversGroups(operation)
        /\ operation.protection.kind = "MonotoneMerge" => MergesOnly(operation)
  BY <1>1 DEF ValidPreparedFor, ValidPrepared
<1>10. operation.protection.kind = "Conditional" =>
         \A i \in DOMAIN operation.effects :
           NativeGroup(operation.effects[i].scope) \in operation.protection.groups
  BY <1>7, <1>9 DEF CoversGroups, EffectGroups
<1>11. operation.protection.kind = "MonotoneMerge" =>
         \A i \in DOMAIN operation.effects :
           /\ operation.effects[i].change.kind = "MergeItems"
           /\ operation.effects[i].scope.field \in ProgressFields
  BY <1>2, <1>9 DEF MergesOnly
<1>12. /\ b \in ToSet(Behaviors) /\ b.revision = operation.behavior_revision
       /\ capability \in Capabilities(b) /\ capability.class = operation.class
       /\ \A i \in DOMAIN operation.effects :
            operation.effects[i].scope.field \in capability.effect_fields
  BY <1>8, <1>9 DEF Declares
<1> QED
  BY <1>2, <1>3, <1>5, <1>6, <1>7, <1>10, <1>11, <1>12

\* A write revises the group of its scope exactly when it changes something.
LEMMA Writes ==
  ASSUME Typed, NEW s \in Scopes, NEW value, Write(s, value)
  PROVE  /\ DOMAIN native' = Scopes /\ revision' \in [Groups -> Nat]
         /\ native'[s] = value
         /\ \A t \in Scopes : t # s => native'[t] = native[t]
         /\ \A g \in Groups : revision[g] <= revision'[g]
         /\ value # native[s] => revision[NativeGroup(s)] < revision'[NativeGroup(s)]
<1>1. NativeGroup(s) \in Groups
  BY DEF Groups
<1>2. native' = [native EXCEPT ![s] = value]
      /\ revision' = [revision EXCEPT ![NativeGroup(s)] = IF value = native[s] THEN @ ELSE @ + 1]
  BY DEF Write
<1>3. DOMAIN native = Scopes /\ revision \in [Groups -> Nat]
  BY DEF Typed
<1> HIDE DEF Groups, Scopes
<1> QED
  BY <1>1, <1>2, <1>3

-----------------------------------------------------------------------------
(* The invariant *)

LEMMA InvInit == Init => Inv
<1> SUFFICES ASSUME Init PROVE Inv
  OBVIOUS
<1>1. Typed
  <2>1. DOMAIN native = Scopes /\ revision \in [Groups -> Nat]
    BY DEF Init
  <2> QED
    BY <2>1 DEF Init, Typed
<1> QED
  BY <1>1 DEF Init, Inv, Accepted, Touched, Progress, Merged, Monotone

LEMMA InvUserChanges ==
  ASSUME Inv, NEW s \in Scopes, NEW value, UserChanges(s, value)
  PROVE  Inv'
<1>1. /\ DOMAIN native' = Scopes /\ revision' \in [Groups -> Nat]
      /\ native'[s] = value
      /\ \A t \in Scopes : t # s => native'[t] = native[t]
      /\ \A g \in Groups : revision[g] <= revision'[g]
      /\ revision[NativeGroup(s)] < revision'[NativeGroup(s)]
  BY Writes DEF Inv, UserChanges
<1>2. /\ UNCHANGED <<phase, operation, token, position, runs>>
      /\ touched' = touched \cup {s}
  BY DEF UserChanges
<1>3. Typed' /\ Accepted' /\ Progress'
  BY <1>1, <1>2 DEF Inv, Typed, Accepted, Progress
<1>4. ASSUME phase # "idle"
      PROVE  /\ token \in [Groups -> Nat]
             /\ \A g \in Groups : token[g] <= revision'[g]
             /\ \A t \in touched' : t \in Scopes /\ token[NativeGroup(t)] < revision'[NativeGroup(t)]
  <2>1. /\ token \in [Groups -> Nat] /\ revision \in [Groups -> Nat]
        /\ \A g \in Groups : token[g] <= revision[g]
        /\ \A t \in touched : t \in Scopes /\ token[NativeGroup(t)] < revision[NativeGroup(t)]
    BY <1>4 DEF Inv, Typed, Touched
  <2>2. \A t \in Scopes : NativeGroup(t) \in Groups
    BY DEF Groups
  <2> HIDE DEF Groups
  <2>3. \A g \in Groups : token[g] \in Nat /\ revision[g] \in Nat /\ revision'[g] \in Nat
    BY <1>1, <2>1
  <2>4. \A g \in Groups : token[g] <= revision'[g]
    BY <1>1, <2>1, <2>3
  <2>5. ASSUME NEW t \in touched' PROVE t \in Scopes /\ token[NativeGroup(t)] < revision'[NativeGroup(t)]
    <3>1. CASE t = s
      BY <1>1, <2>1, <2>2, <2>3, <3>1
    <3>2. CASE t \in touched
      BY <1>1, <2>1, <2>2, <2>3, <3>2
    <3> QED
      BY <1>2, <3>1, <3>2
  <2> QED
    BY <2>1, <2>4, <2>5
<1>5. Touched'
  BY <1>2, <1>4 DEF Touched
<1>6. Merged'
  <2> SUFFICES ASSUME Monotone, NEW i \in 1 .. Len(operation.effects), Done(i)
               PROVE  \/ operation.effects[i].change.additions \subseteq native'[operation.effects[i].scope]
                      \/ operation.effects[i].scope \in touched'
    BY <1>2 DEF Merged, Monotone, Done
  <2>1. operation.effects[i].scope \in Scopes
    BY OfAccepted DEF Inv, Monotone
  <2>2. \/ operation.effects[i].change.additions \subseteq native[operation.effects[i].scope]
        \/ operation.effects[i].scope \in touched
    BY DEF Inv, Merged
  <2> QED
    BY <1>1, <1>2, <2>1, <2>2
<1> QED
  BY <1>3, <1>5, <1>6 DEF Inv

LEMMA InvPrepare ==
  ASSUME Inv, NEW a \in Acceptable, Prepare(a.operation)
  PROVE  Inv'
<1>1. /\ phase' = "prepared" /\ operation' = a.operation /\ token' = revision
      /\ position' = 0 /\ runs' = 0 /\ touched' = {}
      /\ UNCHANGED <<native, revision>>
  BY DEF Prepare
<1>2. Accepted'
  <2>1. a.described \in DOMAIN Behaviors /\ a.operation \in Offered
        /\ \E scopes \in Requests :
             ValidPreparedFor(a.operation, Behaviors[a.described], "op", Account, scopes)
    BY DEF Acceptable
  <2>2. Behaviors[a.described] \in ToSet(Behaviors)
    BY <2>1 DEF ToSet
  <2> QED
    BY <1>1, <2>1, <2>2 DEF Accepted
<1>3. Typed'
  BY <1>1 DEF Inv, Typed
<1>4. Touched'
  <2>1. revision \in [Groups -> Nat] /\ \A g \in Groups : revision[g] \in Nat
    BY DEF Inv, Typed
  <2>2. \A g \in Groups : token'[g] <= revision'[g]
    BY <1>1, <2>1
  <2> QED
    BY <1>1, <2>1, <2>2 DEF Touched
<1>5. Progress' /\ Merged'
  BY <1>1 DEF Progress, Merged, Done
<1> QED
  BY <1>2, <1>3, <1>4, <1>5 DEF Inv

LEMMA InvExecute ==
  ASSUME Inv, Execute
  PROVE  Inv'
<1>1. /\ phase \in {"prepared", "executed"} /\ runs' = runs + 1
      /\ phase' = "executing" /\ position' = 1
      /\ UNCHANGED <<native, revision, operation, token, touched>>
  BY DEF Execute
<1>2. runs \in Nat /\ phase # "idle"
  BY <1>1 DEF Inv, Typed
<1>3. Typed' /\ Accepted' /\ Touched'
  BY <1>1, <1>2 DEF Inv, Typed, Accepted, Touched
<1>4. Progress'
  <2>1. Len(operation.effects) \in Nat /\ Len(operation.effects) > 0
    BY <1>2, OfAccepted DEF Inv
  <2> QED
    BY <1>1, <1>2, <2>1 DEF Progress
<1>5. Merged'
  <2> SUFFICES ASSUME Monotone', NEW i \in 1 .. Len(operation.effects), Done(i)'
               PROVE  \/ operation.effects[i].change.additions \subseteq native[operation.effects[i].scope]
                      \/ operation.effects[i].scope \in touched
    BY <1>1 DEF Merged
  <2>1. Monotone
    BY <1>1, <1>2 DEF Monotone
  <2>2. Done(i)
    <3>1. i >= 1
      BY OfAccepted, <1>2 DEF Inv
    <3>2. phase = "prepared" => runs' = 1
      BY <1>1 DEF Inv, Progress
    <3> QED
      BY <1>1, <1>2, <3>1, <3>2 DEF Done
  <2> QED
    BY <2>1, <2>2 DEF Inv, Merged
<1> QED
  BY <1>3, <1>4, <1>5 DEF Inv

LEMMA InvApplyConditional ==
  ASSUME Inv, ApplyConditional
  PROVE  Inv'
<1>1. /\ phase = "executing" /\ phase' = "executed"
      /\ operation.protection.kind = "Conditional"
      /\ UNCHANGED <<operation, token, position, runs, touched>>
  BY DEF ApplyConditional
<1>2. DOMAIN native' = Scopes /\ revision' \in [Groups -> Nat]
      /\ \A g \in Groups : revision[g] <= revision'[g]
  <2>0. DOMAIN native = Scopes /\ revision \in [Groups -> Nat]
    BY DEF Inv, Typed
  <2>1. CASE UNCHANGED <<native, revision>>
    BY <2>0, <2>1
  <2>2. CASE \A g \in operation.protection.groups : revision[g] = token[g]
    <3>1. DOMAIN native' = Scopes
      BY <2>2 DEF ApplyConditional
    <3>2. revision' = [g \in Groups |->
               IF \E s \in Scopes : NativeGroup(s) = g /\ native'[s] # native[s]
               THEN revision[g] + 1 ELSE revision[g]]
      BY <2>2 DEF ApplyConditional
    <3> HIDE DEF Groups
    <3> QED
      BY <2>0, <3>1, <3>2
  <2> QED
    BY <2>1, <2>2 DEF ApplyConditional
<1>3. Typed' /\ Accepted' /\ Progress'
  BY <1>1, <1>2 DEF Inv, Typed, Accepted, Progress
<1>4. Touched'
  <2>1. /\ token \in [Groups -> Nat] /\ revision \in [Groups -> Nat]
        /\ \A g \in Groups : token[g] <= revision[g]
        /\ \A t \in touched : t \in Scopes /\ token[NativeGroup(t)] < revision[NativeGroup(t)]
    BY <1>1 DEF Inv, Typed, Touched
  <2>2. \A t \in Scopes : NativeGroup(t) \in Groups
    BY DEF Groups
  <2>3. \A g \in Groups : token[g] \in Nat /\ revision[g] \in Nat /\ revision'[g] \in Nat
    BY <1>2, <2>1
  <2>4. \A g \in Groups : token[g] <= revision'[g]
    BY <1>2, <2>1, <2>3
  <2>5. \A t \in touched : t \in Scopes /\ token[NativeGroup(t)] < revision'[NativeGroup(t)]
    BY <1>2, <2>1, <2>2, <2>3
  <2> QED
    BY <1>1, <2>1, <2>4, <2>5 DEF Touched
<1>5. Merged'
  BY <1>1 DEF Merged, Monotone
<1> QED
  BY <1>3, <1>4, <1>5 DEF Inv

LEMMA InvApplyNext ==
  ASSUME Inv, ApplyNext
  PROVE  Inv'
<1> DEFINE e == operation.effects[position]
           n == Len(operation.effects)
<1>1. /\ phase = "executing" /\ position' = position + 1
      /\ phase' = (IF position = n THEN "executed" ELSE "executing")
      /\ Write(e.scope, Effected(native[e.scope], e.change))
      /\ UNCHANGED <<operation, token, runs, touched>>
  BY DEF ApplyNext
<1>2. position \in 1 .. n /\ runs > 0 /\ n \in Nat /\ runs \in Nat
  BY <1>1, OfAccepted DEF Inv, Progress, Typed
<1>3. \A i \in 1 .. n : operation.effects[i].scope \in Scopes
  BY <1>1, OfAccepted DEF Inv
<1>4. /\ DOMAIN native' = Scopes /\ revision' \in [Groups -> Nat]
      /\ native'[e.scope] = Effected(native[e.scope], e.change)
      /\ \A t \in Scopes : t # e.scope => native'[t] = native[t]
      /\ \A g \in Groups : revision[g] <= revision'[g]
  BY <1>1, <1>2, <1>3, Writes DEF Inv
<1>5. Typed' /\ Accepted' /\ Progress'
  BY <1>1, <1>2, <1>4 DEF Inv, Typed, Accepted, Progress
<1>6. Touched'
  <2>1. /\ token \in [Groups -> Nat] /\ revision \in [Groups -> Nat]
        /\ \A g \in Groups : token[g] <= revision[g]
        /\ \A t \in touched : t \in Scopes /\ token[NativeGroup(t)] < revision[NativeGroup(t)]
    BY <1>1 DEF Inv, Typed, Touched
  <2>2. \A t \in Scopes : NativeGroup(t) \in Groups
    BY DEF Groups
  <2>3. \A g \in Groups : token[g] \in Nat /\ revision[g] \in Nat /\ revision'[g] \in Nat
    BY <1>4, <2>1
  <2>4. \A g \in Groups : token[g] <= revision'[g]
    BY <1>4, <2>1, <2>3
  <2>5. \A t \in touched : t \in Scopes /\ token[NativeGroup(t)] < revision'[NativeGroup(t)]
    BY <1>4, <2>1, <2>2, <2>3
  <2> QED
    BY <1>1, <2>1, <2>4, <2>5 DEF Touched
<1>7. Merged'
  <2> SUFFICES ASSUME Monotone, NEW i \in 1 .. n, Done(i)'
               PROVE  \/ operation.effects[i].change.additions \subseteq native'[operation.effects[i].scope]
                      \/ operation.effects[i].scope \in touched
    BY <1>1 DEF Merged, Monotone
  <2>1. e.change.kind = "MergeItems"
    BY <1>1, <1>2, OfAccepted DEF Inv, Monotone
  <2>2. native'[e.scope] = native[e.scope] \cup e.change.additions
    BY <1>4, <2>1 DEF Effected
  <2>3. \A t \in Scopes : native[t] \subseteq native'[t]
    BY <1>4, <2>2
  <2>4. CASE i = position
    BY <2>2, <2>4
  <2>5. CASE i # position
    <3>1. Done(i)
      BY <1>1, <1>2, <2>5 DEF Done
    <3>2. \/ operation.effects[i].change.additions \subseteq native[operation.effects[i].scope]
          \/ operation.effects[i].scope \in touched
      BY <3>1 DEF Inv, Merged
    <3> QED
      BY <1>3, <2>3, <3>2
  <2> QED
    BY <2>4, <2>5
<1> QED
  BY <1>5, <1>6, <1>7 DEF Inv

LEMMA InvStep == Inv /\ [Next]_vars => Inv'
<1> SUFFICES ASSUME Inv, [Next]_vars PROVE Inv'
  OBVIOUS
<1>1. CASE \E s \in Scopes :
             \/ s.field \in ProgressFields /\ \E items \in SUBSET Units : UserChanges(s, items)
             \/ s.field \in LogFields /\ native[s] < MaxLog /\ UserChanges(s, native[s] + 1)
  BY <1>1, InvUserChanges
<1>2. CASE Update \/ Describe \/ UNCHANGED vars
  BY <1>2 DEF Update, Describe, vars, Inv, Typed, Accepted, Touched, Progress, Merged,
              Monotone, Done
<1>3. CASE \E a \in Acceptable : Prepare(a.operation)
  BY <1>3, InvPrepare
<1>4. CASE Execute
  BY <1>4, InvExecute
<1>5. CASE ApplyConditional
  BY <1>5, InvApplyConditional
<1>6. CASE ApplyNext
  BY <1>6, InvApplyNext
<1> QED
  BY <1>1, <1>2, <1>3, <1>4, <1>5, <1>6 DEF Next

\* The invariant holds of every state.
THEOREM Invariant == Spec => []Inv
<1>1. Init => Inv
  BY InvInit
<1>2. Inv /\ [Next]_vars => Inv'
  BY InvStep
<1> QED
  BY <1>1, <1>2, PTL DEF Spec

-----------------------------------------------------------------------------

\* The scopes an operation writes are scopes of its effects.
LEMMA WritesItsScopes ==
  ASSUME Inv, ApplyConditional \/ ApplyNext, NEW s \in Written
  PROVE  \E i \in 1 .. Len(operation.effects) :
           operation.effects[i].scope = s /\ (ApplyNext => i = position)
<1>1. phase = "executing"
  BY DEF ApplyConditional, ApplyNext
<1>2. s \in Scopes /\ native'[s] # native[s]
  BY DEF Written
<1>3. CASE ApplyConditional
  <2>1. s \in ScopesOf(operation)
    BY <1>2, <1>3 DEF ApplyConditional
  <2>2. operation.protection.kind = "Conditional"
    BY <1>3 DEF ApplyConditional
  <2>3. ~ApplyNext
    BY <2>2 DEF ApplyNext
  <2>4. DOMAIN operation.effects = 1 .. Len(operation.effects)
    BY <1>1, OfAccepted DEF Inv
  <2> QED
    BY <2>1, <2>3, <2>4 DEF ScopesOf
<1>4. CASE ApplyNext
  <2>1. position \in 1 .. Len(operation.effects)
    BY <1>1 DEF Inv, Progress
  <2>2. operation.effects[position].scope \in Scopes
    BY <1>1, <2>1, OfAccepted DEF Inv
  <2>3. \A t \in Scopes : t # operation.effects[position].scope => native'[t] = native[t]
    BY <1>4, <2>2, Writes DEF Inv, ApplyNext
  <2> QED
    BY <1>2, <2>1, <2>3
<1> QED
  BY <1>3, <1>4

\* A conditional operation overwrites nothing the user changed after it was
\* prepared: validate refuses with IncompleteProtection whatever does not name
\* the group of each effect.
THEOREM ConditionalOverwritesNothing == Spec => ConditionalKeepsChanges
<1>1. Inv /\ [Next]_vars => [ApplyConditional => Written \cap touched = {}]_vars
  <2> SUFFICES ASSUME Inv, ApplyConditional, NEW s \in Written, s \in touched
               PROVE  FALSE
    OBVIOUS
  <2>1. phase = "executing" /\ operation.protection.kind = "Conditional"
    BY DEF ApplyConditional
  <2>2. PICK i \in 1 .. Len(operation.effects) : operation.effects[i].scope = s
    BY WritesItsScopes
  <2>3. NativeGroup(s) \in operation.protection.groups
    BY <2>1, <2>2, OfAccepted DEF Inv
  <2>4. /\ s \in Scopes /\ native'[s] # native[s]
        /\ token[NativeGroup(s)] < revision[NativeGroup(s)]
    BY <2>1 DEF Written, Inv, Touched
  <2>5. NativeGroup(s) \in Groups
    BY <2>4 DEF Groups
  <2>6. token[NativeGroup(s)] \in Nat
    BY <2>1, <2>5 DEF Inv, Touched
  <2>7. revision[NativeGroup(s)] # token[NativeGroup(s)]
    BY <2>4, <2>6
  <2>8. native' = native
    BY <2>3, <2>7 DEF ApplyConditional
  <2> QED
    BY <2>4, <2>8
<1> QED
  BY <1>1, Invariant, PTL DEF Spec, ConditionalKeepsChanges

\* A monotone operation takes nothing away, and executed again it only repairs
\* what the user undid: validate refuses any other effect with UnsafeMerge.
THEOREM MonotoneTakesNothing == Spec => MonotoneKeepsAll
<1>1. Inv /\ [Next]_vars =>
        [ApplyNext /\ operation.protection.kind = "MonotoneMerge" =>
           \A s \in Written :
             s.field \in ProgressFields /\ native[s] \subseteq native'[s]
             /\ (runs > 1 => s \in touched)]_vars
  <2> SUFFICES ASSUME Inv, ApplyNext, operation.protection.kind = "MonotoneMerge",
                      NEW s \in Written
               PROVE  /\ s.field \in ProgressFields /\ native[s] \subseteq native'[s]
                      /\ runs > 1 => s \in touched
    OBVIOUS
  <2> DEFINE e == operation.effects[position]
  <2>1. phase = "executing" /\ Monotone
    BY DEF ApplyNext, Monotone
  <2>2. position \in 1 .. Len(operation.effects) /\ e.scope = s
    BY <2>1, WritesItsScopes DEF Inv, Progress
  <2>3. e.change.kind = "MergeItems" /\ s.field \in ProgressFields /\ s \in Scopes
    BY <2>1, <2>2, OfAccepted DEF Inv
  <2>4. native'[s] = native[s] \cup e.change.additions
    <3>1. Write(s, Effected(native[s], e.change))
      BY <2>2 DEF ApplyNext
    <3>2. native'[s] = Effected(native[s], e.change)
      BY <2>3, <3>1, Writes DEF Inv
    <3> QED
      BY <2>3, <3>2 DEF Effected
  <2>5. ASSUME runs > 1 PROVE s \in touched
    <3>1. e.change.additions \subseteq native[s] \/ s \in touched
      BY <2>1, <2>2, <2>5 DEF Inv, Merged, Done
    <3>2. native'[s] # native[s]
      BY DEF Written
    <3> QED
      BY <2>4, <3>1, <3>2
  <2> QED
    BY <2>3, <2>4, <2>5
<1> QED
  BY <1>1, Invariant, PTL DEF Spec, MonotoneKeepsAll

\* The host's operations stay within the account that was opened and within
\* the fields declared for their class by the behavior they name.
THEOREM MandateKept == Spec => WithinMandate
<1> DEFINE Mandated ==
      \A s \in Written :
        /\ s.account = Account
        /\ \E b \in ToSet(Behaviors) :
             /\ b.revision = operation.behavior_revision
             /\ \E capability \in Capabilities(b) :
                  capability.class = operation.class /\ s.field \in capability.effect_fields
<1>1. Inv /\ [Next]_vars => [HostWrites => Mandated]_vars
  <2> SUFFICES ASSUME Inv, ApplyConditional \/ ApplyNext, NEW s \in Written
               PROVE  /\ s.account = Account
                      /\ \E b \in ToSet(Behaviors) :
                           /\ b.revision = operation.behavior_revision
                           /\ \E capability \in Capabilities(b) :
                                /\ capability.class = operation.class
                                /\ s.field \in capability.effect_fields
    BY DEF HostWrites
  <2>1. phase # "idle"
    BY DEF ApplyConditional, ApplyNext
  <2>2. PICK i \in 1 .. Len(operation.effects) : operation.effects[i].scope = s
    BY WritesItsScopes
  <2> QED
    BY <2>1, <2>2, OfAccepted DEF Inv
<1>2. Spec => [][HostWrites => Mandated]_vars
  BY <1>1, Invariant, PTL DEF Spec
<1> QED
  BY <1>2 DEF WithinMandate

=============================================================================
