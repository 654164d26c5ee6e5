---------------------------- MODULE Preparation -----------------------------
(***************************************************************************)
(* Preparing a completion operation and carrying it out later.             *)
(*                                                                         *)
(* A provider resolves intentions into a PreparedOperation: the effects it *)
(* will have and the protection it executes under.  The host validates it  *)
(* against the behavior it was described and its own request, then it is   *)
(* executed, perhaps much later and perhaps twice, while the user goes on  *)
(* changing the same native library.  The validators are to make the claim *)
(* of protection true; the native system is modelled by what each kind of  *)
(* protection means there.                                                 *)
(*                                                                         *)
(* Abstracted: one subject per account.  A field of progress holds a set   *)
(* of items, the other fields a log of values, of which only the number    *)
(* matters.                                                                *)
(***************************************************************************)
EXTENDS CompletionModel

CONSTANTS
  Account, OtherAccount,  \* the opened account, and one it must not touch
  Subject,                \* the entry of the library
  ProgressFields,         \* fields that hold completed items
  LogFields,              \* fields that hold appended values
  GroupOf,                \* field -> native group that is revised as a whole
  Units,                  \* items
  Behaviors,              \* sequence of the behaviors the provider goes through
  Offered,                \* operations a provider may come up with
  Requests,               \* lists of scopes the host may ask for
  MaxWrites,              \* bound: changes the user makes
  MaxRuns,                \* bound: executions of one operation
  MaxLog                  \* bound: entries of a log

VARIABLES
  behavior,   \* index of the provider's current behavior
  described,  \* index of the behavior the host holds
  native,     \* scope -> set of items, or number of values
  revision,   \* account and group -> native revision
  phase,      \* "idle", "prepared", "executing" or "executed"
  operation,  \* the operation validated last
  token,      \* the revisions its protection was prepared for
  position,   \* next effect of an execution
  runs,       \* executions so far
  touched,    \* history: scopes the user changed since the preparation
  writes      \* changes by the user so far

vars == <<behavior, described, native, revision, phase, operation, token, position,
          runs, touched, writes>>

Accounts == {Account, OtherAccount}
Fields == ProgressFields \cup LogFields
Scopes == [account : Accounts, subject : {Subject}, field : Fields]
NativeGroup(s) == [account |-> s.account, subject |-> s.subject, group |-> GroupOf[s.field]]
Groups == {NativeGroup(s) : s \in Scopes}

\* What the host accepts of what is offered, for one of its requests, by the
\* behavior it holds.
Acceptable ==
  {a \in [described : DOMAIN Behaviors, operation : Offered] :
     \E scopes \in Requests :
       ValidPreparedFor(a.operation, Behaviors[a.described], "op", Account, scopes)}

\* Natively an effect revises the group it names, and only fields that hold
\* items can be merged.
ASSUME OfferedAssumption ==
  \A op \in Offered :
    /\ op.effects \in Seq(ToSet(op.effects))
    /\ \A i \in DOMAIN op.effects :
         LET e == op.effects[i]
         IN  /\ e.scope \in Scopes
             /\ e.group = GroupOf[e.scope.field]
             /\ e.change.kind = "MergeItems" => e.scope.field \in ProgressFields

-----------------------------------------------------------------------------
(* The native library *)

Effected(value, c) ==
  CASE c.kind = "SetCompletion" -> c.after.completed
    [] c.kind = "MergeItems"    -> value \cup c.additions
    [] c.kind = "SetValue"      -> 1
    [] c.kind = "Append"        -> value + 1

Write(scope, value) ==
  /\ native' = [native EXCEPT ![scope] = value]
  /\ revision' = [revision EXCEPT ![NativeGroup(scope)] =
                    IF value = native[scope] THEN @ ELSE @ + 1]

Init ==
  /\ behavior = 1 /\ described = 1
  /\ native = [s \in Scopes |-> IF s.field \in ProgressFields THEN {} ELSE 0]
  /\ revision = [g \in Groups |-> 0]
  /\ phase = "idle"
  /\ operation = <<>> /\ token = <<>> /\ position = 0 /\ runs = 0
  /\ touched = {} /\ writes = 0

\* The user marks or unmarks an item, or adds to a log, in any account.
UserChanges(scope, value) ==
  /\ writes < MaxWrites
  /\ value # native[scope]
  /\ Write(scope, value)
  /\ touched' = touched \cup {scope}
  /\ writes' = writes + 1
  /\ UNCHANGED <<behavior, described, phase, operation, token, position, runs>>

\* The provider is replaced by one that behaves differently.
Update ==
  /\ behavior < Len(Behaviors)
  /\ behavior' = behavior + 1
  /\ UNCHANGED <<described, native, revision, phase, operation, token, position,
                 runs, touched, writes>>

-----------------------------------------------------------------------------
(* The host *)

\* DescribeCompletionLibrary
Describe ==
  /\ described' = behavior
  /\ UNCHANGED <<behavior, native, revision, phase, operation, token, position,
                 runs, touched, writes>>

\* PrepareCompletion: the host keeps an answer that is valid for its request.
Prepare(op) ==
  /\ phase = "idle"
  /\ [described |-> described, operation |-> op] \in Acceptable
  /\ phase' = "prepared"
  /\ operation' = op /\ token' = revision
  /\ position' = 0 /\ runs' = 0 /\ touched' = {}
  /\ UNCHANGED <<behavior, described, native, revision, writes>>

\* ExecuteCompletion, or a second delivery of it.
Execute ==
  /\ phase \in {"prepared", "executed"} /\ runs < MaxRuns
  /\ runs' = runs + 1
  /\ phase' = "executing" /\ position' = 1
  /\ UNCHANGED <<behavior, described, native, revision, operation, token, touched, writes>>

\* A conditional request is carried out at once, or not at all if a group of
\* its protection is not at the revision it was prepared for.
ApplyConditional ==
  /\ phase = "executing" /\ operation.protection.kind = "Conditional"
  /\ phase' = "executed"
  /\ IF \A g \in operation.protection.groups : revision[g] = token[g]
     THEN /\ native' = [s \in Scopes |->
                          IF s \in ScopesOf(operation)
                          THEN LET i == CHOOSE j \in DOMAIN operation.effects :
                                          operation.effects[j].scope = s
                               IN  Effected(native[s], operation.effects[i].change)
                          ELSE native[s]]
          /\ revision' = [g \in Groups |->
               IF \E s \in Scopes : NativeGroup(s) = g /\ native'[s] # native[s]
               THEN revision[g] + 1 ELSE revision[g]]
     ELSE UNCHANGED <<native, revision>>
  /\ UNCHANGED <<behavior, described, operation, token, position, runs, touched, writes>>

\* Any other request is carried out effect by effect.
ApplyNext ==
  /\ phase = "executing" /\ operation.protection.kind # "Conditional"
  /\ LET e == operation.effects[position]
     IN  Write(e.scope, Effected(native[e.scope], e.change))
  /\ position' = position + 1
  /\ phase' = IF position = Len(operation.effects) THEN "executed" ELSE phase
  /\ UNCHANGED <<behavior, described, operation, token, runs, touched, writes>>

Next ==
  \/ \E s \in Scopes :
       \/ s.field \in ProgressFields /\ \E items \in SUBSET Units : UserChanges(s, items)
       \/ s.field \in LogFields /\ native[s] < MaxLog /\ UserChanges(s, native[s] + 1)
  \/ Update
  \/ Describe
  \/ \E a \in Acceptable : Prepare(a.operation)
  \/ Execute
  \/ ApplyConditional
  \/ ApplyNext

Spec == Init /\ [][Next]_vars

-----------------------------------------------------------------------------

Written == {s \in Scopes : native'[s] # native[s]}
HostWrites == ApplyConditional \/ ApplyNext

\* A conditional operation never overwrites what the user changed after it was
\* prepared, whichever of its fields that was (IncompleteProtection).
ConditionalKeepsChanges ==
  [][ApplyConditional => Written \cap touched = {}]_vars

\* An operation under monotone protection never takes anything away, and what
\* it did once is not done again by a second execution (UnsafeMerge).
MonotoneKeepsAll ==
  [][ApplyNext /\ operation.protection.kind = "MonotoneMerge" =>
       \A s \in Written :
         s.field \in ProgressFields /\ native[s] \subseteq native'[s]
         /\ (runs > 1 => s \in touched)]_vars

\* The host's operations change the opened account only, and only fields that
\* the behavior the host was described declares for the class.
WithinMandate ==
  [][HostWrites =>
       \A s \in Written :
         /\ s.account = Account
         /\ \E b \in ToSet(Behaviors) :
              /\ b.revision = operation.behavior_revision
              /\ \E capability \in Capabilities(b) :
                   capability.class = operation.class /\ s.field \in capability.effect_fields]_vars

=============================================================================
