--------------------------- MODULE TargetedWrite ----------------------------
(***************************************************************************)
(* Targeted state writes: the host reads an item, writes one field of it   *)
(* under an idempotency key, and follows what the validated response says  *)
(* of certainty and retry; a write it has no answer for is reconciled by a *)
(* read that names its key.  Meanwhile the user changes the item, calls    *)
(* time out and go on, and answers are lost.                               *)
(*                                                                         *)
(* The validators are those of validation.rs.  The provider is truthful    *)
(* about whether a write was applied and about the key and revision of a   *)
(* write it names as the cause of what it reads, and careless about        *)
(* everything else it reports.  The host sends the same key again only     *)
(* after SafeSameKey, and then as often as it needs to.                    *)
(*                                                                         *)
(* Abstracted: one item and one field, so a request has one intent and a   *)
(* response at most one effect, and duplicate fields and the matching of   *)
(* effects with intents by position do not arise; identifiers, limits and  *)
(* sizes are valid; of what a read can answer, that the item was matched;  *)
(* a revision is a number, a precondition the revision it is for.          *)
(***************************************************************************)
EXTENDS Integers, FiniteSets

CONSTANTS
  MaxKeys,      \* bound: writes of the host
  MaxSends,     \* bound: calls per write
  MaxChanges,   \* bound: changes by the user
  Values        \* values the field can be set to

ASSUME WriteAssumption == MaxKeys \in Nat \ {0} /\ MaxSends \in Nat \ {0} /\ MaxChanges \in Nat

Keys == 1 .. MaxKeys
Memberships == {"Present", "Absent"}
Clear == "Clear"
Unset == "Unset"              \* the field has no value
NoToken == 0                  \* the empty precondition
None == [expected |-> "None"] \* the host holds no current read
NoKey == 0                    \* the empty idempotency key
NoCause == [key |-> NoKey]    \* a read that names no write
Doubt == [certainty |-> "Unknown", membership |-> "Unknown"]

Capabilities ==
  [precondition_mode : {"ProviderToken", "HostRecheckOnly"},
   idempotency_mode : {"NotSupported", "StableKey"},
   may_create_source_membership : BOOLEAN,
   operations : {{"Set"}, {"Clear"}, {"Set", "Clear"}}]   \* set_supported, clear_supported

VARIABLES
  capability,   \* what the provider declares
  item,         \* the native item: membership, value, revision
  changes,      \* changes by the user so far
  read,         \* membership and revision the host goes by, or None
  key,          \* the host's current write
  request,      \* key -> its request
  sends,        \* calls made for the current write
  waiting,      \* the host waits for an answer to the last call
  running,      \* key -> calls the host has given up on that still run
  permission,   \* "settled", "sent", "same_key" or "reconcile"
  believed,     \* key -> what the host takes to be certain
  applied,      \* history: key -> times the native item was written
  receipt,      \* key -> revision its write gave the item
  created,      \* history: keys whose write created the membership
  misread       \* history: a value taken for the host's own that is not

vars == <<capability, item, changes, read, key, request, sends, waiting, running,
          permission, believed, applied, receipt, created, misread>>

-----------------------------------------------------------------------------
(* Mutated forms of the validators. *)

PreconditionOptional(mode, precondition) ==
  mode = "HostRecheckOnly" => precondition = NoToken

CombinationByRetry(status, certainty, retry) ==
  \/ certainty = "ConfirmedApplied" /\ status = "Applied" /\ retry = "NotRetryable"
  \/ certainty = "ConfirmedNotApplied" /\ status # "Applied"
       /\ retry \in {"SafeSameKey", "NotRetryable"}
  \/ certainty = "Unknown" /\ retry = "ReconcileFirst"

RetryAnyMode(retry, mode) == TRUE

EffectOfStatus(status, expected) ==
  CASE status = "Applied" -> "Created"
    [] status \in {"NoOp", "Rejected", "Failed"} -> "Unchanged"
    [] OTHER -> "Unknown"

CausationByKey(asked, causation, revision) == causation.key \in {NoKey, asked}

-----------------------------------------------------------------------------
(* targeted_state_write_request *)

PreconditionValid(mode, precondition) ==
  IF mode = "ProviderToken" THEN precondition # NoToken ELSE precondition = NoToken

CreationValid(r, c) ==
  /\ r.allow_create_membership = (r.expected = "Absent")
  /\ r.allow_create_membership => c.may_create_source_membership

ValidRequest(r, c) ==
  /\ r.expected \in Memberships
  /\ PreconditionValid(c.precondition_mode, r.precondition)
  /\ CreationValid(r, c)
  /\ (IF r.intent = Clear THEN "Clear" ELSE "Set") \in c.operations

-----------------------------------------------------------------------------
(* targeted_state_write_response *)

Statuses == {"Applied", "NoOp", "Rejected", "Failed", "Indeterminate"}

CombinationValid(status, certainty, retry) ==
  <<status, certainty, retry>> \in
    {<<"Applied", "ConfirmedApplied", "NotRetryable">>,
     <<"NoOp", "ConfirmedNotApplied", "NotRetryable">>,
     <<"Rejected", "ConfirmedNotApplied", "NotRetryable">>,
     <<"Failed", "ConfirmedNotApplied", "SafeSameKey">>,
     <<"Failed", "ConfirmedNotApplied", "NotRetryable">>,
     <<"Indeterminate", "Unknown", "ReconcileFirst">>}

RetryValid(retry, idempotency_mode) == retry = "SafeSameKey" => idempotency_mode = "StableKey"

\* validate_targeted_state_write_effects; one intent, so at most one effect
FieldEffectsValid(status, intent, effects) ==
  CASE status \in {"Rejected", "Failed"} -> effects = {}
    [] status = "Applied" ->
         effects = {IF intent = Clear THEN [effect |-> "Cleared", value |-> Unset]
                    ELSE [effect |-> "Set", value |-> intent]}
    [] status = "NoOp" -> effects = {[effect |-> "Unchanged", value |-> Unset]}
    [] status = "Indeterminate" -> effects = {[effect |-> "Unknown", value |-> Unset]}

MembershipEffect(status, expected) ==
  CASE status = "Applied" /\ expected = "Absent" -> "Created"
    [] status = "Indeterminate" -> "Unknown"
    [] OTHER -> "Unchanged"

ValidResponse(expected, intent, c, response) ==
  LET status == response.status
      done == status \in {"Applied", "NoOp"}
  IN  /\ CombinationValid(status, response.certainty, response.retry)
      /\ RetryValid(response.retry, c.idempotency_mode)
      /\ response.error = ~done
      /\ FieldEffectsValid(status, intent, response.field_effects)
      /\ response.membership_effect = MembershipEffect(status, expected)
      /\ done => response.revision
      /\ done /\ c.precondition_mode = "ProviderToken" => response.successor
      /\ status = "Applied" => response.receipt

\* error, revision, successor, receipt: it has one, and not an empty one.
Responses ==
  {r \in
     [status : Statuses,
      certainty : {"ConfirmedApplied", "ConfirmedNotApplied", "Unknown"},
      retry : {"NotRetryable", "SafeSameKey", "ReconcileFirst"},
      error : BOOLEAN, revision : BOOLEAN, successor : BOOLEAN, receipt : BOOLEAN,
      membership_effect : {"Unchanged", "Created", "Unknown"},
      field_effects : {{}} \cup {{e} : e \in [effect : {"Set", "Cleared", "Unchanged", "Unknown"},
                                              value : Values \cup {Unset}]}] :
   CombinationValid(r.status, r.certainty, r.retry)}

Intents == Values \cup {Clear}

\* What the host goes by, of a response.
Told(r) ==
  [status |-> r.status, certainty |-> r.certainty, retry |-> r.retry,
   membership_effect |-> r.membership_effect]

\* The responses that pass, of everything a provider may say.
Passing ==
  {[capability |-> c, expected |-> expected, intent |-> intent,
    told |-> {Told(r) : r \in {s \in Responses : ValidResponse(expected, intent, c, s)}}] :
   c \in Capabilities, expected \in Memberships, intent \in Intents}

-----------------------------------------------------------------------------
(* read_targeted_state_response: the write a matched read names as the cause *)

CausationValid(asked, causation, revision) ==
  \/ causation = NoCause
  \/ /\ asked # NoKey /\ causation.key = asked
     /\ causation.receipt /\ causation.revision = revision

-----------------------------------------------------------------------------

Init ==
  /\ capability \in Capabilities
  /\ item \in [membership : {"Present"}, value : Values \cup {Unset}, revision : {1}]
              \cup [membership : {"Absent"}, value : {Unset}, revision : {1}]
  /\ changes = 0 /\ read = None /\ key = 0
  /\ request = [k \in Keys |-> None]
  /\ sends = 0 /\ waiting = FALSE /\ running = [k \in Keys |-> 0]
  /\ permission = "settled"
  /\ believed = [k \in Keys |-> Doubt]
  /\ applied = [k \in Keys |-> 0] /\ receipt = [k \in Keys |-> 0] /\ created = {}
  /\ misread = FALSE

host == <<read, key, request, sends, waiting, permission, believed, misread>>
native == <<item, applied, receipt, created>>

\* The user sets the field, removes the item or puts it back.
UserChange(membership, value) ==
  /\ changes < MaxChanges
  /\ membership = "Absent" => value = Unset
  /\ item' = [membership |-> membership, value |-> value, revision |-> item.revision + 1]
  /\ changes' = changes + 1
  /\ UNCHANGED <<capability, host, running, applied, receipt, created>>

\* The writes a provider can name, with or without their receipt.
Causes ==
  {[key |-> k, revision |-> receipt[k], receipt |-> r] :
     k \in {j \in Keys : applied[j] > 0}, r \in BOOLEAN}

\* ReadTargetedState that asks after no write: none may be named.
Read(causation) ==
  /\ permission = "settled"
  /\ CausationValid(NoKey, causation, item.revision)
  /\ read' = [expected |-> item.membership, revision |-> item.revision]
  /\ UNCHANGED <<capability, native, changes, key, request, sends, waiting, running,
                 permission, believed, misread>>

\* The host writes what its last read allows; both sides validate the request.
Write(intent, precondition, allow) ==
  LET r == [expected |-> read.expected, precondition |-> precondition,
            allow_create_membership |-> allow, intent |-> intent]
  IN  /\ permission = "settled" /\ key < MaxKeys /\ read # None
      /\ precondition \in {NoToken, read.revision}
      /\ ValidRequest(r, capability)
      /\ key' = key + 1
      /\ request' = [request EXCEPT ![key'] = r]
      /\ sends' = 1 /\ waiting' = TRUE /\ permission' = "sent" /\ read' = None
      /\ UNCHANGED <<capability, native, changes, running, believed, misread>>

\* The same key once more.
Resend ==
  /\ permission = "same_key" /\ ~waiting
  /\ sends < MaxSends
  /\ sends' = sends + 1 /\ waiting' = TRUE
  /\ believed' = [believed EXCEPT ![key] = Doubt]
  /\ UNCHANGED <<capability, native, changes, read, key, request, running, permission, misread>>

\* The host waits no longer; the call may have got lost or still run.
TimeOut(runs) ==
  /\ waiting
  /\ waiting' = FALSE
  /\ permission' = IF permission = "same_key" THEN permission ELSE "reconcile"
  /\ running' = IF runs THEN [running EXCEPT ![key] = @ + 1] ELSE running
  /\ UNCHANGED <<capability, native, changes, read, key, request, sends, believed, misread>>

\* The host takes over a response that passed.
Believe(response) ==
  /\ believed' = [believed EXCEPT ![key] =
       [certainty |-> response.certainty, membership |-> response.membership_effect]]
  /\ permission' = CASE response.retry = "NotRetryable" -> "settled"
                     [] response.retry = "SafeSameKey" -> "same_key"
                     [] OTHER -> "reconcile"
  /\ read' = IF response.status \in {"Applied", "NoOp"}
                /\ capability.precondition_mode = "ProviderToken"
             THEN [expected |-> IF response.membership_effect = "Created" THEN "Present"
                                ELSE request[key].expected,
                   revision |-> IF response.status = "Applied" THEN receipt'[key]
                                ELSE item.revision]
             ELSE None

\* The item as a call finds it.
Known(k) == capability.idempotency_mode = "StableKey" /\ applied[k] > 0
Allowed(k) ==
  /\ request[k].expected = item.membership
  /\ request[k].precondition \in {NoToken, item.revision}
Intended(k) == IF request[k].intent = Clear THEN Unset ELSE request[k].intent

\* The provider handles a call: it knows the key, refuses, finds nothing to do
\* or fails, or it writes.
Handle(k, writes) ==
  IF writes
  THEN /\ ~Known(k) /\ Allowed(k) /\ item.value # Intended(k)
       /\ item' = [membership |-> "Present", value |-> Intended(k),
                   revision |-> item.revision + 1]
       /\ applied' = [applied EXCEPT ![k] = @ + 1]
       /\ receipt' = [receipt EXCEPT ![k] = item.revision + 1]
       /\ created' = IF item.membership = "Absent" THEN created \cup {k} ELSE created
  ELSE UNCHANGED native

\* What a truthful provider may report afterwards.
Truthful(k, status) ==
  CASE status = "Applied" -> applied'[k] > 0
    [] status = "Indeterminate" -> TRUE
    [] status = "NoOp" -> applied'[k] = 0 /\ running[k] = 0 /\ Allowed(k)
                          /\ item.value = Intended(k)
    [] OTHER -> applied'[k] = 0 /\ running[k] = 0

\* WriteTargetedState, answered so that the answer passes.
Answers ==
  UNION {p.told :
           p \in {q \in Passing : /\ q.capability = capability
                                 /\ q.expected = request[key].expected
                                 /\ q.intent = request[key].intent}}
Answer(response, writes) ==
  /\ waiting
  /\ Handle(key, writes)
  /\ Truthful(key, response.status)
  /\ Believe(response)
  /\ waiting' = FALSE
  /\ UNCHANGED <<capability, changes, key, request, sends, running, misread>>

\* A call the host has given up on, carried out all the same.
RunLate(k, writes) ==
  /\ running[k] > 0
  /\ Handle(k, writes)
  /\ running' = [running EXCEPT ![k] = @ - 1]
  /\ UNCHANGED <<capability, changes, host>>

\* ReadTargetedState with the key of the write in doubt; the provider names a
\* write as the cause of what it reads.  If it names none, the doubt remains.
Reconcile(causation) ==
  /\ permission = "reconcile"
  /\ CausationValid(key, causation, item.revision) /\ causation # NoCause
  /\ believed' = [believed EXCEPT ![key] =
       [certainty |-> "ConfirmedApplied", membership |-> "Unknown"]]
  /\ misread' = (misread \/ item.value # Intended(key))
  /\ permission' = "settled"
  /\ read' = [expected |-> item.membership, revision |-> item.revision]
  /\ UNCHANGED <<capability, native, changes, key, request, sends, waiting, running>>

Next ==
  \/ \E m \in Memberships, v \in Values \cup {Unset} : UserChange(m, v)
  \/ \E causation \in {NoCause} \cup Causes : Read(causation)
  \/ \E intent \in Intents, p \in {NoToken} \cup 1 .. item.revision, allow \in BOOLEAN :
       Write(intent, p, allow)
  \/ Resend
  \/ \E runs \in BOOLEAN : TimeOut(runs)
  \/ waiting /\ \E response \in Answers, writes \in BOOLEAN : Answer(response, writes)
  \/ \E k \in Keys, writes \in BOOLEAN : RunLate(k, writes)
  \/ \E causation \in {NoCause} \cup Causes : Reconcile(causation)

Spec == Init /\ [][Next]_vars

-----------------------------------------------------------------------------

\* No write is applied twice: the host may repeat a key only when the provider
\* remembers keys. ImplementsOnce, which the run checks, includes it.
AppliedOnce == \A k \in Keys : applied[k] <= 1

\* What the host takes to be certain of a write is so and stays so.
BeliefTrue ==
  \A k \in Keys :
    /\ believed[k].certainty = "ConfirmedApplied" => applied[k] > 0
    /\ believed[k].certainty = "ConfirmedNotApplied" => applied[k] = 0

\* The host is told of a created membership exactly when its write created one,
\* and none is created without leave of the request and of the capability.
CreationKnown ==
  /\ \A k \in Keys : believed[k].membership # "Unknown" =>
       ((believed[k].membership = "Created") <=> k \in created)
  /\ \A k \in created :
       request[k].allow_create_membership /\ capability.may_create_source_membership

\* With provider tokens no write overwrites a change the host has not seen.
UnseenChangeKept ==
  [][\A k \in Keys :
       applied'[k] > applied[k] /\ capability.precondition_mode = "ProviderToken" =>
         request[k].precondition = item.revision]_vars

\* A reconciling read that names the write in doubt shows the value of that
\* write, not of a later change.
CauseShowsOwnValue == ~misread

Once == INSTANCE WriteOnce WITH
  times <- applied,
  known <- [k \in Keys |-> CASE believed[k].certainty = "ConfirmedApplied" -> "done"
                             [] believed[k].certainty = "ConfirmedNotApplied" -> "undone"
                             [] OTHER -> "doubt"]

\* Writing implements its abstract specification: beyond each claim above, a
\* write that the host takes to be over is not carried out any more, and what
\* it knows to be done it does not doubt or send again.
ImplementsOnce == Once!Spec

=============================================================================
