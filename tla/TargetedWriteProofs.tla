------------------------ MODULE TargetedWriteProofs -------------------------
(***************************************************************************)
(* Targeted writes happen at most once and the host believes only what is  *)
(* so: for any number of writes, calls and changes, and all values.        *)
(*                                                                         *)
(* A belief is about the native item, which goes on being written by calls *)
(* the host has given up on.  The invariant therefore counts the calls     *)
(* that may still write (Pending): without idempotency keys there is at    *)
(* most one per write, used up when it is applied (SingleCall), and none   *)
(* is left of a write that is believed not to have been applied            *)
(* (BeliefHolds).                                                          *)
(***************************************************************************)
EXTENDS TargetedWrite, TLAPS

Typed ==
  /\ capability \in Capabilities
  /\ item.revision \in Nat
  /\ key \in 0 .. MaxKeys
  /\ waiting \in BOOLEAN
  /\ waiting \/ permission # "settled" => key \in Keys
  /\ DOMAIN request = Keys /\ DOMAIN believed = Keys
  /\ running \in [Keys -> Nat]
  /\ applied \in [Keys -> Nat]
  /\ receipt \in [Keys -> Nat]
  /\ created \subseteq Keys

\* Nothing has happened to a write that is still to come; what has been sent
\* passed targeted_state_write_request.
Started ==
  \A k \in Keys :
    /\ k > key => applied[k] = 0 /\ running[k] = 0 /\ believed[k] = Doubt
    /\ k <= key => ValidRequest(request[k], capability)

\* Calls for a write that may still write.
Pending(k) == running[k] + IF waiting /\ k = key THEN 1 ELSE 0

\* A provider that does not remember keys is called once for each write.
SingleCall ==
  /\ permission = "same_key" => capability.idempotency_mode = "StableKey"
  /\ capability.idempotency_mode # "StableKey" =>
       \A k \in Keys : applied[k] + Pending(k) <= 1

\* A write creates the membership if it is applied where none was expected.
CreatedBy ==
  \A k \in Keys : k \in created <=> (applied[k] > 0 /\ request[k].expected = "Absent")

BeliefHolds ==
  \A k \in Keys :
    LET b == believed[k]
    IN  /\ b.certainty = "ConfirmedApplied" => applied[k] > 0
        /\ b.certainty = "ConfirmedNotApplied" => applied[k] = 0 /\ Pending(k) = 0
        /\ b.membership # "Unknown" =>
             /\ b.certainty \in {"ConfirmedApplied", "ConfirmedNotApplied"}
             /\ b.membership = "Created" <=> k \in created

\* The revision of the last write to the item is that write's.
Receipts ==
  \A k \in Keys : applied[k] > 0 =>
    /\ receipt[k] <= item.revision
    /\ receipt[k] = item.revision => item.value = Intended(k)

Inv ==
  /\ Typed
  /\ Started
  /\ SingleCall
  /\ AppliedOnce
  /\ CreatedBy
  /\ BeliefHolds
  /\ Receipts
  /\ CauseShowsOwnValue

-----------------------------------------------------------------------------

LEMMA InvInit == Init => Inv
<1> SUFFICES ASSUME Init PROVE Inv
  OBVIOUS
<1> USE WriteAssumption DEF Init
<1>1. Typed
  <2>1. item.revision = 1 /\ item.revision \in Nat
    OBVIOUS
  <2>2. key \in 0 .. MaxKeys
    OBVIOUS
  <2>3. /\ running \in [Keys -> Nat] /\ applied \in [Keys -> Nat] /\ receipt \in [Keys -> Nat]
        /\ DOMAIN request = Keys /\ DOMAIN believed = Keys
    OBVIOUS
  <2>4. /\ capability \in Capabilities
        /\ waiting \in BOOLEAN /\ ~waiting /\ permission = "settled" /\ created = {}
    OBVIOUS
  <2> HIDE DEF Init
  <2> QED
    BY <2>1, <2>2, <2>3, <2>4 DEF Typed
<1>2. Started /\ SingleCall /\ AppliedOnce /\ CreatedBy
  BY DEF Started, Keys, Doubt, SingleCall, Pending, AppliedOnce, CreatedBy
<1>3. BeliefHolds /\ Receipts /\ CauseShowsOwnValue
  BY DEF BeliefHolds, Doubt, Receipts, CauseShowsOwnValue
<1> QED
  BY <1>1, <1>2, <1>3 DEF Inv

\* A call that is handled writes at most once, only where the request allows
\* it, and never a second time for a key that the provider remembers.
LEMMA Handled ==
  ASSUME Inv, NEW k \in Keys, NEW writes \in BOOLEAN, Handle(k, writes), k <= key,
         UNCHANGED <<capability, request>>
  PROVE  /\ item'.revision \in Nat /\ item'.revision >= item.revision
         /\ applied' \in [Keys -> Nat] /\ receipt' \in [Keys -> Nat] /\ created' \subseteq Keys
         /\ \A j \in Keys \ {k} : applied'[j] = applied[j] /\ (j \in created' <=> j \in created)
         /\ applied'[k] \in {applied[k], applied[k] + 1}
         /\ applied'[k] # applied[k] => ~Known(k) /\ Allowed(k)
         /\ CreatedBy' /\ Receipts'
<1> USE DEF Inv
<1>1. CASE ~writes
  <2>1. UNCHANGED native
    BY <1>1 DEF Handle
  <2> QED
    BY <2>1 DEF native, Typed, CreatedBy, Receipts, Intended
<1>2. CASE writes
  <2>1. /\ ~Known(k) /\ Allowed(k)
        /\ item' = [membership |-> "Present", value |-> Intended(k),
                    revision |-> item.revision + 1]
        /\ applied' = [applied EXCEPT ![k] = @ + 1]
        /\ receipt' = [receipt EXCEPT ![k] = item.revision + 1]
        /\ created' = IF item.membership = "Absent" THEN created \cup {k} ELSE created
    BY <1>2 DEF Handle
  <2>2. /\ item'.revision = item.revision + 1
        /\ item'.value = Intended(k)
    BY <2>1
  <2>3. /\ applied' \in [Keys -> Nat] /\ receipt' \in [Keys -> Nat] /\ created' \subseteq Keys
        /\ item.revision \in Nat
        /\ applied'[k] = applied[k] + 1 /\ applied[k] \in Nat /\ receipt'[k] = item.revision + 1
        /\ \A j \in Keys \ {k} : /\ applied'[j] = applied[j] /\ receipt'[j] = receipt[j]
                                 /\ j \in created' <=> j \in created
    BY <2>1 DEF Typed
  <2>4. k \in created' <=> request[k].expected = "Absent"
    <3>1. request[k].expected = item.membership
      BY <2>1 DEF Allowed
    <3>2. request[k].expected \in {"Present", "Absent"}
      BY DEF Started, ValidRequest, Memberships
    <3>3. k \in created => request[k].expected = "Absent"
      BY DEF CreatedBy
    <3> QED
      BY <2>1, <3>1, <3>2, <3>3
  <2>5. CreatedBy'
    BY <2>3, <2>4 DEF CreatedBy
  <2>6. Receipts'
    <3> SUFFICES ASSUME NEW j \in Keys, applied'[j] > 0
                 PROVE  /\ receipt'[j] <= item'.revision
                        /\ receipt'[j] = item'.revision => item'.value = Intended(j)'
      BY DEF Receipts
    <3>1. CASE j = k
      BY <2>2, <2>3, <3>1 DEF Intended
    <3>2. CASE j # k
      <4>1. receipt[j] <= item.revision /\ receipt[j] \in Nat
        BY <2>3, <3>2 DEF Receipts, Typed
      <4> QED
        BY <2>2, <2>3, <3>2, <4>1
    <3> QED
      BY <3>1, <3>2
  <2> QED
    BY <2>1, <2>2, <2>3, <2>5, <2>6
<1> QED
  BY <1>1, <1>2

LEMMA InvUserChange ==
  ASSUME Inv, NEW m, NEW v, UserChange(m, v)
  PROVE  Inv'
<1> USE DEF Inv
<1>1. /\ item'.revision = item.revision + 1 /\ item.revision \in Nat
      /\ UNCHANGED <<capability, key, request, waiting, running, permission, believed,
                     applied, receipt, created, misread>>
  BY DEF UserChange, host, Typed
<1>2. Typed' /\ Started' /\ SingleCall' /\ AppliedOnce' /\ CreatedBy' /\ CauseShowsOwnValue'
  BY <1>1 DEF Typed, Started, SingleCall, Pending, AppliedOnce, CreatedBy, CauseShowsOwnValue
<1>3. BeliefHolds'
  BY <1>1 DEF BeliefHolds, Pending
<1>4. Receipts'
  <2>1. \A k \in Keys : applied[k] > 0 => receipt[k] \in Nat /\ receipt[k] <= item.revision
    BY DEF Typed, Receipts
  <2> QED
    BY <1>1, <2>1 DEF Receipts
<1> QED
  BY <1>2, <1>3, <1>4

LEMMA InvRead ==
  ASSUME Inv, NEW causation, Read(causation)
  PROVE  Inv'
BY DEF Read, native, Inv, Typed, Started, SingleCall, Pending, AppliedOnce, CreatedBy,
       CauseShowsOwnValue, BeliefHolds, Receipts, Intended

LEMMA InvWrite ==
  ASSUME Inv, NEW intent \in Intents, NEW precondition, NEW allow \in BOOLEAN,
         Write(intent, precondition, allow)
  PROVE  Inv'
<1> USE DEF Inv
<1> DEFINE r == [expected |-> read.expected, precondition |-> precondition,
                 allow_create_membership |-> allow, intent |-> intent]
<1>1. /\ permission = "settled" /\ key < MaxKeys /\ ValidRequest(r, capability)
      /\ key' = key + 1 /\ request' = [request EXCEPT ![key'] = r]
      /\ waiting' = TRUE /\ permission' = "sent"
      /\ UNCHANGED <<capability, item, running, believed, applied, receipt, created, misread>>
  BY DEF Write, native
<1> HIDE DEF r
<1>2. key \in Nat /\ key' \in Keys /\ key' > key
  BY <1>1, WriteAssumption DEF Typed, Keys
<1>3. /\ applied[key'] = 0 /\ running[key'] = 0 /\ believed[key'] = Doubt
      /\ request'[key'] = r
      /\ \A k \in Keys : k # key' => request'[k] = request[k]
      /\ \A k \in Keys : k <= key' => k = key' \/ k <= key
  BY <1>1, <1>2 DEF Typed, Started, Keys
<1>4. Typed'
  <2>1. key' \in 0 .. MaxKeys
    BY <1>2, WriteAssumption DEF Keys
  <2>2. DOMAIN request' = Keys
    BY <1>1 DEF Typed
  <2> QED
    BY <1>1, <1>2, <2>1, <2>2 DEF Typed
<1>5. Started'
  BY <1>1, <1>2, <1>3 DEF Started, Keys
<1>6. SingleCall'
  BY <1>1, <1>2, <1>3 DEF SingleCall, Pending, Typed
<1>7. AppliedOnce' /\ CauseShowsOwnValue'
  BY <1>1 DEF AppliedOnce, CauseShowsOwnValue
<1>8. CreatedBy' /\ Receipts'
  BY <1>1, <1>2, <1>3 DEF CreatedBy, Receipts, Intended
<1>9. BeliefHolds'
  BY <1>1, <1>2, <1>3 DEF BeliefHolds, Pending, Doubt, Typed
<1> QED
  BY <1>4, <1>5, <1>6, <1>7, <1>8, <1>9

\* The same key once more: only a provider that remembers keys is sent it
\* (SafeSameKey), and what was believed is in doubt again.
LEMMA InvResend ==
  ASSUME Inv, Resend
  PROVE  Inv'
<1> USE DEF Inv
<1>1. /\ permission = "same_key" /\ ~waiting
      /\ waiting' = TRUE
      /\ believed' = [believed EXCEPT ![key] = Doubt]
      /\ UNCHANGED <<capability, item, key, request, running, permission, applied, receipt,
                     created, misread>>
  BY DEF Resend, native
<1>2. capability.idempotency_mode = "StableKey" /\ key \in Keys
  BY <1>1 DEF SingleCall, Typed
<1>3. Typed' /\ Started' /\ SingleCall'
  BY <1>1, <1>2 DEF Typed, Started, SingleCall
<1>4. AppliedOnce' /\ CreatedBy' /\ Receipts' /\ CauseShowsOwnValue'
  BY <1>1 DEF AppliedOnce, CreatedBy, Receipts, Intended, CauseShowsOwnValue
<1>5. BeliefHolds'
  BY <1>1, <1>2 DEF BeliefHolds, Pending, Doubt, Typed
<1> QED
  BY <1>3, <1>4, <1>5

\* A call given up on is as pending as it was, if it runs at all.
LEMMA InvTimeOut ==
  ASSUME Inv, NEW runs \in BOOLEAN, TimeOut(runs)
  PROVE  Inv'
<1> USE DEF Inv
<1>1. /\ waiting /\ waiting' = FALSE /\ key \in Keys
      /\ permission' = IF permission = "same_key" THEN permission ELSE "reconcile"
      /\ running' = IF runs THEN [running EXCEPT ![key] = @ + 1] ELSE running
      /\ UNCHANGED <<capability, item, key, request, believed, applied, receipt, created, misread>>
  BY DEF TimeOut, native, Typed
<1>2. /\ running' \in [Keys -> Nat]
      /\ \A k \in Keys : Pending(k) \in Nat /\ Pending(k)' \in Nat /\ Pending(k)' <= Pending(k)
      /\ \A k \in Keys : k # key => running'[k] = running[k]
  BY <1>1 DEF Typed, Pending
<1>3. Typed'
  BY <1>1, <1>2 DEF Typed
<1>4. Started'
  <2>1. key \in Nat /\ \A k \in Keys : k \in Nat /\ (k > key => k # key)
    BY <1>1 DEF Keys
  <2> QED
    BY <1>1, <1>2, <2>1 DEF Started
<1>7. SingleCall'
  BY <1>1, <1>2 DEF SingleCall, Typed
<1>5. AppliedOnce' /\ CreatedBy' /\ Receipts' /\ CauseShowsOwnValue'
  BY <1>1 DEF AppliedOnce, CreatedBy, Receipts, Intended, CauseShowsOwnValue
<1>6. BeliefHolds'
  BY <1>1, <1>2 DEF BeliefHolds
<1> QED
  BY <1>3, <1>4, <1>5, <1>6, <1>7

\* An answer that is taken over passes for the request it answers.
LEMMA AnswerPasses ==
  ASSUME NEW r \in Answers
  PROVE  \E s \in Responses :
           /\ ValidResponse(request[key].expected, request[key].intent, capability, s)
           /\ r = Told(s)
<1>1. PICK p \in Passing : /\ p.capability = capability /\ p.expected = request[key].expected
                           /\ p.intent = request[key].intent /\ r \in p.told
  BY DEF Answers
<1>2. PICK c \in Capabilities, expected \in Memberships, intent \in Intents :
        p = [capability |-> c, expected |-> expected, intent |-> intent,
             told |-> {Told(x) : x \in {s \in Responses : ValidResponse(expected, intent, c, s)}}]
  BY DEF Passing
<1> QED
  BY <1>1, <1>2

\* What a response that passes says of a write that the provider is truthful
\* about.
LEMMA ResponseTells ==
  ASSUME Inv, key \in Keys, NEW r \in Answers, Truthful(key, r.status)
  PROVE  /\ r.retry = "SafeSameKey" => capability.idempotency_mode = "StableKey"
         /\ r.certainty = "ConfirmedApplied" => applied'[key] > 0
         /\ r.certainty = "ConfirmedNotApplied" => applied'[key] = 0 /\ running[key] = 0
         /\ r.membership_effect # "Unknown" =>
              /\ r.certainty \in {"ConfirmedApplied", "ConfirmedNotApplied"}
              /\ r.membership_effect = "Created" <=>
                   (r.certainty = "ConfirmedApplied" /\ request[key].expected = "Absent")
<1>1. PICK s \in Responses :
        ValidResponse(request[key].expected, request[key].intent, capability, s) /\ r = Told(s)
  BY AnswerPasses
<1>2. /\ CombinationValid(r.status, r.certainty, r.retry)
      /\ RetryValid(r.retry, capability.idempotency_mode)
      /\ r.membership_effect = MembershipEffect(r.status, request[key].expected)
  BY <1>1 DEF ValidResponse, Told
<1>3. \/ r.status = "Applied" /\ r.certainty = "ConfirmedApplied"
      \/ r.status \in {"NoOp", "Rejected", "Failed"} /\ r.certainty = "ConfirmedNotApplied"
      \/ r.status = "Indeterminate" /\ r.certainty = "Unknown"
  BY <1>2 DEF CombinationValid
<1>4. /\ r.certainty = "ConfirmedApplied" => applied'[key] > 0
      /\ r.certainty = "ConfirmedNotApplied" => applied'[key] = 0 /\ running[key] = 0
  BY <1>3 DEF Truthful
<1>5. r.membership_effect # "Unknown" =>
        /\ r.certainty \in {"ConfirmedApplied", "ConfirmedNotApplied"}
        /\ r.membership_effect = "Created" <=>
             (r.certainty = "ConfirmedApplied" /\ request[key].expected = "Absent")
  BY <1>2, <1>3 DEF MembershipEffect
<1> QED
  BY <1>2, <1>4, <1>5 DEF RetryValid

LEMMA InvAnswer ==
  ASSUME Inv, NEW r \in Answers, NEW writes \in BOOLEAN, Answer(r, writes)
  PROVE  Inv'
<1> USE DEF Inv
<1>1. /\ waiting /\ waiting' = FALSE /\ key \in Keys
      /\ Handle(key, writes) /\ Truthful(key, r.status) /\ Believe(r)
      /\ UNCHANGED <<capability, key, request, running, misread>>
  BY DEF Answer, Typed
<1>2. /\ r.retry = "SafeSameKey" => capability.idempotency_mode = "StableKey"
      /\ r.certainty = "ConfirmedApplied" => applied'[key] > 0
      /\ r.certainty = "ConfirmedNotApplied" => applied'[key] = 0 /\ running[key] = 0
      /\ r.membership_effect # "Unknown" =>
           /\ r.certainty \in {"ConfirmedApplied", "ConfirmedNotApplied"}
           /\ r.membership_effect = "Created" <=>
                (r.certainty = "ConfirmedApplied" /\ request[key].expected = "Absent")
  BY <1>1, ResponseTells
<1>3. /\ believed' = [believed EXCEPT ![key] =
                        [certainty |-> r.certainty, membership |-> r.membership_effect]]
      /\ permission' = "same_key" => r.retry = "SafeSameKey"
  BY <1>1 DEF Believe
<1>4. /\ item'.revision \in Nat
      /\ applied' \in [Keys -> Nat] /\ receipt' \in [Keys -> Nat] /\ created' \subseteq Keys
      /\ \A j \in Keys \ {key} : applied'[j] = applied[j] /\ (j \in created' <=> j \in created)
      /\ applied'[key] \in {applied[key], applied[key] + 1}
      /\ applied'[key] # applied[key] => ~Known(key)
      /\ CreatedBy' /\ Receipts'
  BY <1>1, Handled DEF Typed
<1>5. Typed'
  BY <1>1, <1>3, <1>4 DEF Typed
<1>6. Started'
  <2>1. key \in Nat /\ \A k \in Keys : k \in Nat /\ (k > key => k # key)
    BY <1>1 DEF Keys
  <2> QED
    BY <1>1, <1>3, <1>4, <2>1 DEF Started, Typed
<1>7. \A k \in Keys : running[k] \in Nat /\ Pending(k)' = running[k]
  <2>1. \A k \in Keys : running[k] \in Nat
    BY DEF Typed
  <2> QED
    BY <1>1, <2>1 DEF Pending
<1>8. SingleCall' /\ AppliedOnce'
  <2>1. permission' = "same_key" => capability'.idempotency_mode = "StableKey"
    BY <1>1, <1>2, <1>3
  <2>2. CASE capability.idempotency_mode = "StableKey"
    <3>1. \A k \in Keys : applied[k] \in Nat /\ applied[k] <= 1
      BY DEF Typed, AppliedOnce
    <3>2. applied'[key] <= 1
      BY <1>1, <1>4, <2>2, <3>1 DEF Known
    <3>3. AppliedOnce'
      BY <1>4, <3>1, <3>2 DEF AppliedOnce
    <3> QED
      BY <1>1, <2>2, <3>3 DEF SingleCall
  <2>3. CASE capability.idempotency_mode # "StableKey"
    <3>1. \A k \in Keys : applied'[k] + Pending(k)' <= 1 /\ applied'[k] <= 1
      <4> SUFFICES ASSUME NEW k \in Keys
                   PROVE  applied'[k] + Pending(k)' <= 1 /\ applied'[k] <= 1
        OBVIOUS
      <4>1. applied[k] \in Nat /\ applied'[k] \in Nat /\ running[k] \in Nat
        BY <1>4, <1>7 DEF Typed
      <4>2. applied[k] + Pending(k) <= 1
        BY <2>3 DEF SingleCall
      <4>3. Pending(k) = running[k] + IF k = key THEN 1 ELSE 0
        BY <1>1 DEF Pending
      <4> QED
        BY <1>4, <1>7, <4>1, <4>2, <4>3
    <3> QED
      BY <1>1, <2>1, <3>1 DEF SingleCall, AppliedOnce
  <2> QED
    BY <2>2, <2>3
<1>9. BeliefHolds'
  <2> SUFFICES ASSUME NEW k \in Keys
               PROVE  LET b == believed'[k]
                      IN  /\ b.certainty = "ConfirmedApplied" => applied'[k] > 0
                          /\ b.certainty = "ConfirmedNotApplied" =>
                               applied'[k] = 0 /\ Pending(k)' = 0
                          /\ b.membership # "Unknown" =>
                               /\ b.certainty \in {"ConfirmedApplied", "ConfirmedNotApplied"}
                               /\ b.membership = "Created" <=> k \in created'
    BY DEF BeliefHolds
  <2>1. CASE k = key
    <3>1. believed'[k].certainty = r.certainty /\ believed'[k].membership = r.membership_effect
      BY <1>3, <2>1 DEF Typed
    <3>2. k \in created' <=> (applied'[k] > 0 /\ request[k].expected = "Absent")
      BY <1>1, <1>4 DEF CreatedBy
    <3>3. r.certainty = "ConfirmedNotApplied" => applied'[k] = 0 /\ Pending(k)' = 0
      BY <1>2, <1>7, <2>1
    <3> QED
      BY <1>2, <2>1, <3>1, <3>2, <3>3
  <2>2. CASE k # key
    BY <1>1, <1>3, <1>4, <1>7, <2>2 DEF BeliefHolds, Pending, Typed
  <2> QED
    BY <2>1, <2>2
<1>10. CauseShowsOwnValue'
  BY <1>1 DEF CauseShowsOwnValue
<1> QED
  BY <1>4, <1>5, <1>6, <1>8, <1>9, <1>10

LEMMA InvRunLate ==
  ASSUME Inv, NEW k \in Keys, NEW writes \in BOOLEAN, RunLate(k, writes)
  PROVE  Inv'
<1> USE DEF Inv
<1>1. /\ running[k] > 0 /\ Handle(k, writes)
      /\ running' = [running EXCEPT ![k] = @ - 1]
      /\ UNCHANGED <<capability, key, request, waiting, permission, believed, misread>>
  BY DEF RunLate, host
<1>2. /\ key \in Nat /\ k <= key
      /\ \A j \in Keys : j \in Nat /\ (j > key => j # k)
  BY <1>1 DEF Started, Typed, Keys
<1>3. /\ item'.revision \in Nat
      /\ applied' \in [Keys -> Nat] /\ receipt' \in [Keys -> Nat] /\ created' \subseteq Keys
      /\ \A j \in Keys \ {k} : applied'[j] = applied[j] /\ (j \in created' <=> j \in created)
      /\ applied'[k] \in {applied[k], applied[k] + 1}
      /\ applied'[k] # applied[k] => ~Known(k)
      /\ CreatedBy' /\ Receipts'
  BY <1>1, <1>2, Handled
<1>4. /\ running' \in [Keys -> Nat]
      /\ running'[k] = running[k] - 1
      /\ \A j \in Keys \ {k} : running'[j] = running[j]
      /\ \A j \in Keys : applied[j] \in Nat /\ applied'[j] \in Nat /\ running[j] \in Nat
  BY <1>1, <1>3 DEF Typed
<1>5. /\ \A j \in Keys : Pending(j) \in Nat /\ Pending(j)' \in Nat
      /\ \A j \in Keys \ {k} : Pending(j)' = Pending(j)
      /\ Pending(k)' = Pending(k) - 1
  BY <1>1, <1>4 DEF Pending
<1>6. Typed' /\ Started'
  BY <1>1, <1>2, <1>3, <1>4 DEF Typed, Started
<1>7. SingleCall' /\ AppliedOnce'
  <2>1. \A j \in Keys : applied[j] <= 1
    BY DEF AppliedOnce
  <2>2. CASE capability.idempotency_mode = "StableKey"
    <3>1. applied'[k] <= 1
      BY <1>3, <1>4, <2>1, <2>2 DEF Known
    <3> QED
      BY <1>1, <1>3, <2>1, <2>2, <3>1 DEF SingleCall, AppliedOnce
  <2>3. CASE capability.idempotency_mode # "StableKey"
    <3>1. \A j \in Keys : applied'[j] + Pending(j)' <= 1
      BY <1>3, <1>4, <1>5, <2>3 DEF SingleCall
    <3>2. \A j \in Keys : applied'[j] <= 1
      BY <1>4, <1>5, <3>1
    <3> QED
      BY <1>1, <2>3, <3>1, <3>2 DEF SingleCall, AppliedOnce
  <2> QED
    BY <2>2, <2>3
<1>8. BeliefHolds'
  <2> SUFFICES ASSUME NEW j \in Keys
               PROVE  LET b == believed[j]
                      IN  /\ b.certainty = "ConfirmedApplied" => applied'[j] > 0
                          /\ b.certainty = "ConfirmedNotApplied" =>
                               applied'[j] = 0 /\ Pending(j)' = 0
                          /\ b.membership # "Unknown" =>
                               /\ b.certainty \in {"ConfirmedApplied", "ConfirmedNotApplied"}
                               /\ b.membership = "Created" <=> j \in created'
    BY <1>1 DEF BeliefHolds
  <2>1. CASE j # k
    BY <1>3, <1>5, <2>1 DEF BeliefHolds
  <2>2. CASE j = k
    <3>1. believed[k].certainty # "ConfirmedNotApplied"
      BY <1>1, <1>4, <1>5 DEF BeliefHolds
    <3>2. believed[k].certainty = "ConfirmedApplied" =>
            applied[k] > 0 /\ applied'[k] > 0 /\ (k \in created' <=> k \in created)
      BY <1>1, <1>3, <1>4 DEF BeliefHolds, CreatedBy
    <3> QED
      BY <2>2, <3>1, <3>2 DEF BeliefHolds
  <2> QED
    BY <2>1, <2>2
<1>9. CauseShowsOwnValue'
  BY <1>1 DEF CauseShowsOwnValue
<1> QED
  BY <1>3, <1>6, <1>7, <1>8, <1>9

\* A cause that passes is the write that is asked about, at the revision the
\* item has now: so what is read is its value.
LEMMA InvReconcile ==
  ASSUME Inv, NEW causation \in Causes \cup {NoCause}, Reconcile(causation)
  PROVE  Inv'
<1> USE DEF Inv
<1>1. /\ key \in Keys /\ applied[key] > 0 /\ receipt[key] = item.revision
      /\ believed' = [believed EXCEPT ![key] =
                        [certainty |-> "ConfirmedApplied", membership |-> "Unknown"]]
      /\ misread' = (misread \/ item.value # Intended(key))
      /\ permission' = "settled"
      /\ UNCHANGED <<capability, item, key, request, waiting, running, applied, receipt, created>>
  BY DEF Reconcile, CausationValid, Causes, native, Typed
<1>2. Typed'
  BY <1>1 DEF Typed
<1>3. Started'
  <2>1. \A k \in Keys : k > key => k # key
    BY <1>1 DEF Keys
  <2> QED
    BY <1>1, <2>1 DEF Started, Typed
<1>4. SingleCall' /\ AppliedOnce' /\ CreatedBy' /\ Receipts'
  BY <1>1 DEF SingleCall, Pending, AppliedOnce, CreatedBy, Receipts, Intended
<1>5. BeliefHolds'
  BY <1>1 DEF BeliefHolds, Pending, Typed
<1>6. CauseShowsOwnValue'
  BY <1>1 DEF CauseShowsOwnValue, Receipts
<1> QED
  BY <1>2, <1>3, <1>4, <1>5, <1>6

LEMMA InvStep == Inv /\ [Next]_vars => Inv'
<1> SUFFICES ASSUME Inv, [Next]_vars PROVE Inv'
  OBVIOUS
<1>1. ASSUME NEW m, NEW v, UserChange(m, v) PROVE Inv'
  BY <1>1, InvUserChange
<1>2. CASE \E causation \in {NoCause} \cup Causes : Read(causation)
  BY <1>2, InvRead
<1>3. ASSUME NEW intent \in Intents, NEW p \in {NoToken} \cup 1 .. item.revision,
             NEW allow \in BOOLEAN, Write(intent, p, allow)
      PROVE  Inv'
  BY <1>3, InvWrite
<1>4. CASE Resend
  BY <1>4, InvResend
<1>5. ASSUME NEW runs \in BOOLEAN, TimeOut(runs) PROVE Inv'
  BY <1>5, InvTimeOut
<1>6. ASSUME NEW r \in Answers, NEW writes \in BOOLEAN, Answer(r, writes) PROVE Inv'
  BY <1>6, InvAnswer
<1>7. ASSUME NEW k \in Keys, NEW writes \in BOOLEAN, RunLate(k, writes) PROVE Inv'
  BY <1>7, InvRunLate
<1>8. ASSUME NEW causation \in {NoCause} \cup Causes, Reconcile(causation) PROVE Inv'
  BY <1>8, InvReconcile
<1>9. CASE UNCHANGED vars
  BY <1>9 DEF vars, Inv, Typed, Started, SingleCall, Pending, AppliedOnce, CreatedBy, BeliefHolds,
              Receipts, Intended, CauseShowsOwnValue
<1> QED
  BY <1>1, <1>2, <1>3, <1>4, <1>5, <1>6, <1>7, <1>8, <1>9 DEF Next

-----------------------------------------------------------------------------

\* The host repeats a key only after SafeSameKey, which validate_targeted_state_write
\* accepts from providers with stable keys alone: no write is applied twice.
THEOREM WrittenAtMostOnce == Spec => []AppliedOnce
<1>1. Inv => AppliedOnce
  BY DEF Inv
<1> QED
  BY <1>1, InvInit, InvStep, PTL DEF Spec

\* What a response or a reconciling read makes certain is so and stays so,
\* whatever calls are still running.
THEOREM BeliefsAreTrue == Spec => []BeliefTrue
<1>1. Inv => BeliefTrue
  BY DEF Inv, BeliefHolds, BeliefTrue
<1> QED
  BY <1>1, InvInit, InvStep, PTL DEF Spec

\* A created membership is reported exactly when there is one, and none is
\* created that request and capability did not allow.
THEOREM CreationsAreKnown == Spec => []CreationKnown
<1>1. Inv => CreationKnown
  <2> SUFFICES ASSUME Inv PROVE CreationKnown
    OBVIOUS
  <2>1. ASSUME NEW k \in created
        PROVE  request[k].allow_create_membership /\ capability.may_create_source_membership
    <3>1. k \in Keys /\ applied[k] > 0 /\ request[k].expected = "Absent"
      BY DEF Inv, Typed, CreatedBy
    <3>2. k <= key
      BY <3>1 DEF Inv, Typed, Started, Keys
    <3> QED
      BY <3>1, <3>2 DEF Inv, Started, ValidRequest, CreationValid
  <2> QED
    BY <2>1 DEF Inv, BeliefHolds, CreationKnown
<1> QED
  BY <1>1, InvInit, InvStep, PTL DEF Spec

\* A read that passes as caused by the write in doubt shows that write's value.
THEOREM CausesShowOwnValue == Spec => []CauseShowsOwnValue
<1>1. Inv => CauseShowsOwnValue
  BY DEF Inv
<1> QED
  BY <1>1, InvInit, InvStep, PTL DEF Spec

\* Under provider tokens a write is carried out at the revision it was made
\* for or not at all.
THEOREM UnseenChangesKept == Spec => UnseenChangeKept
<1> DEFINE Kept ==
      \A k \in Keys :
        applied'[k] > applied[k] /\ capability.precondition_mode = "ProviderToken" =>
          request[k].precondition = item.revision
<1>1. Inv /\ [Next]_vars => [Kept]_vars
  <2> SUFFICES ASSUME Inv, Next, NEW k \in Keys, applied'[k] > applied[k],
                      capability.precondition_mode = "ProviderToken"
               PROVE  request[k].precondition = item.revision
    OBVIOUS
  <2>1. applied[k] \in Nat
    BY DEF Inv, Typed
  <2>2. ASSUME NEW j \in Keys, NEW writes \in BOOLEAN, Handle(j, writes), j <= key
        PROVE  request[k].precondition = item.revision
    <3>1. writes /\ Allowed(j) /\ applied' = [applied EXCEPT ![j] = @ + 1]
      BY <2>1, <2>2 DEF Handle, native
    <3>2. j = k
      BY <2>1, <3>1 DEF Inv, Typed
    <3>3. ValidRequest(request[k], capability)
      BY <2>2, <3>2 DEF Inv, Started
    <3> QED
      BY <3>1, <3>2, <3>3 DEF Allowed, ValidRequest, PreconditionValid
  <2>3. ASSUME NEW r \in Answers, NEW writes \in BOOLEAN, Answer(r, writes)
        PROVE  request[k].precondition = item.revision
    <3>1. key \in Keys /\ key <= key /\ Handle(key, writes)
      BY <2>3 DEF Answer, Inv, Typed, Keys
    <3> QED
      BY <2>2, <3>1
  <2>4. ASSUME NEW j \in Keys, NEW writes \in BOOLEAN, RunLate(j, writes)
        PROVE  request[k].precondition = item.revision
    <3>1. j <= key /\ Handle(j, writes)
      BY <2>4 DEF RunLate, Inv, Typed, Started, Keys
    <3> QED
      BY <2>2, <3>1
  <2>5. ASSUME applied' = applied
        PROVE  FALSE
    BY <2>1, <2>5
  <2> QED
    BY <2>3, <2>4, <2>5 DEF Next, UserChange, Read, Write, Resend, TimeOut, Reconcile, native
<1>2. [][Kept]_vars => UnseenChangeKept
  BY PTL DEF UnseenChangeKept
<1> QED
  BY <1>1, <1>2, InvInit, InvStep, PTL DEF Spec

-----------------------------------------------------------------------------
(* Writing implements WriteOnce. *)

\* What the host asks about or calls again is not known to be done: while it
\* waits or reconciles it knows nothing, and a key it may repeat belongs to a
\* write that was not done or is in doubt.
Doubts ==
  /\ waiting => permission \in {"sent", "same_key"} /\ believed[key].certainty = "Unknown"
  /\ permission = "reconcile" => believed[key].certainty = "Unknown"
  /\ permission = "same_key" => believed[key].certainty # "ConfirmedApplied"

\* A response that passes never lets the host repeat or ask about what is done.
LEMMA AnswerLeavesNoDoubt ==
  ASSUME Inv, NEW r \in Answers, NEW writes \in BOOLEAN, Answer(r, writes)
  PROVE  Doubts'
<1>1. /\ waiting' = FALSE /\ key' = key /\ key \in Keys /\ Believe(r) /\ DOMAIN believed = Keys
  BY DEF Answer, Inv, Typed
<1>2. CombinationValid(r.status, r.certainty, r.retry)
  BY AnswerPasses DEF ValidResponse, Told
<1>3. /\ r.retry \notin {"NotRetryable", "SafeSameKey"} => r.certainty = "Unknown"
      /\ r.retry = "SafeSameKey" => r.certainty = "ConfirmedNotApplied"
  BY <1>2 DEF CombinationValid
<1>4. /\ believed'[key].certainty = r.certainty
      /\ permission' = "reconcile" => r.retry \notin {"NotRetryable", "SafeSameKey"}
      /\ permission' = "same_key" => r.retry = "SafeSameKey"
  BY <1>1 DEF Believe
<1> QED
  BY <1>1, <1>3, <1>4 DEF Doubts

LEMMA DoubtsStep == Inv /\ Doubts /\ [Next]_vars => Doubts'
<1> SUFFICES ASSUME Inv, Doubts, [Next]_vars PROVE Doubts'
  OBVIOUS
<1>1. CASE \E m \in Memberships, v \in Values \cup {Unset} : UserChange(m, v)
  BY <1>1 DEF UserChange, host, Doubts
<1>2. CASE \E causation \in {NoCause} \cup Causes : Read(causation)
  BY <1>2 DEF Read, Doubts
<1>3. ASSUME NEW intent \in Intents, NEW p \in {NoToken} \cup 1 .. item.revision,
             NEW allow \in BOOLEAN, Write(intent, p, allow)
      PROVE  Doubts'
  <2>1. key' = key + 1 /\ permission' = "sent" /\ believed' = believed /\ key \in Nat
        /\ key' \in Keys
    BY <1>3, WriteAssumption DEF Write, Inv, Typed, Keys
  <2>2. believed[key'] = Doubt
    BY <2>1 DEF Inv, Started
  <2> QED
    BY <2>1, <2>2 DEF Doubts, Doubt
<1>4. CASE Resend
  <2>1. permission = "same_key" /\ permission' = permission /\ key' = key /\ key \in Keys
        /\ believed' = [believed EXCEPT ![key] = Doubt] /\ DOMAIN believed = Keys
    BY <1>4 DEF Resend, Inv, Typed
  <2> QED
    BY <2>1 DEF Doubts, Doubt
<1>5. CASE \E runs \in BOOLEAN : TimeOut(runs)
  BY <1>5 DEF TimeOut, Doubts
<1>6. CASE \E r \in Answers, writes \in BOOLEAN : Answer(r, writes)
  BY <1>6, AnswerLeavesNoDoubt
<1>7. CASE \E k \in Keys, writes \in BOOLEAN : RunLate(k, writes)
  BY <1>7 DEF RunLate, host, Doubts
<1>8. CASE \E causation \in {NoCause} \cup Causes : Reconcile(causation)
  BY <1>8 DEF Reconcile, Doubts
<1>9. CASE UNCHANGED vars
  BY <1>9 DEF vars, Doubts
<1> QED
  BY <1>1, <1>2, <1>3, <1>4, <1>5, <1>6, <1>7, <1>8, <1>9 DEF Next

\* What the host knows, as WriteOnce puts it.
Knowledge(b) == CASE b.certainty = "ConfirmedApplied" -> "done"
                  [] b.certainty = "ConfirmedNotApplied" -> "undone"
                  [] OTHER -> "doubt"

LEMMA StepIsNext ==
  ASSUME NEW k \in Keys, Once!Proceed(k) \/ Once!Retry(k)
  PROVE  [Once!Next]_Once!vars
<1>1. Once!Next
  BY Zenon DEF Once!Next
<1> QED
  BY <1>1

\* A step in which one write is handled while the host is in doubt of it.
LEMMA Proceeds ==
  ASSUME Inv, Inv', NEW k \in Keys,
         believed[k].certainty \notin {"ConfirmedApplied", "ConfirmedNotApplied"},
         \A j \in Keys \ {k} : applied'[j] = applied[j] /\ believed'[j] = believed[j],
         applied'[k] \in {applied[k], applied[k] + 1}
  PROVE  Once!Proceed(k)
<1>1. /\ applied \in [Keys -> Nat] /\ applied' \in [Keys -> Nat]
      /\ applied'[k] <= 1
      /\ believed'[k].certainty = "ConfirmedApplied" => applied'[k] > 0
      /\ believed'[k].certainty = "ConfirmedNotApplied" => applied'[k] = 0
  BY DEF Inv, Typed, AppliedOnce, BeliefHolds
<1>2. applied'[k] \in {applied[k], 1}
  BY <1>1
<1>3. applied' = [applied EXCEPT ![k] = applied'[k]]
  BY <1>1
<1>4. Knowledge(believed'[k]) \in {"doubt", IF applied'[k] = 0 THEN "undone" ELSE "done"}
  BY <1>1 DEF Knowledge
<1>5. [j \in Keys |-> Knowledge(believed'[j])]
        = [[j \in Keys |-> Knowledge(believed[j])] EXCEPT ![k] = Knowledge(believed'[k])]
  OBVIOUS
<1>6. Knowledge(believed[k]) = "doubt"
  BY DEF Knowledge
<1> QED
  BY <1>2, <1>3, <1>4, <1>5, <1>6 DEF Once!Proceed, Knowledge

LEMMA Stutters ==
  ASSUME UNCHANGED <<applied, believed>>
  PROVE  UNCHANGED Once!vars
BY DEF Once!vars

LEMMA OnceInit == Init => Once!Init
BY DEF Init, Once!Init, Doubt

\* A repeated key: a write that was not done is tried again, one in doubt
\* stays in doubt.
LEMMA OnceResend ==
  ASSUME Inv, Doubts, Resend
  PROVE  [Once!Next]_Once!vars
<1> PICK k \in Keys : k = key
  BY DEF Resend, Inv, Typed
<1>1. /\ DOMAIN believed = Keys /\ believed[k].certainty # "ConfirmedApplied"
      /\ applied' = applied /\ believed' = [believed EXCEPT ![k] = Doubt]
  BY DEF Resend, native, Inv, Typed, Doubts
<1>2. [j \in Keys |-> Knowledge(believed'[j])]
        = [[j \in Keys |-> Knowledge(believed[j])] EXCEPT ![k] = "doubt"]
  BY <1>1 DEF Knowledge, Doubt
<1>3. CASE believed[k].certainty = "ConfirmedNotApplied"
  <2>1. Knowledge(believed[k]) = "undone"
    BY <1>3 DEF Knowledge
  <2>2. Once!Retry(k)
    BY <1>1, <1>2, <2>1 DEF Once!Retry, Knowledge
  <2> QED
    BY <1>1, <2>2, StepIsNext
<1>4. CASE believed[k].certainty # "ConfirmedNotApplied"
  <2>1. Knowledge(believed[k]) = "doubt"
    BY <1>1, <1>4 DEF Knowledge
  <2>2. [j \in Keys |-> Knowledge(believed'[j])] = [j \in Keys |-> Knowledge(believed[j])]
    BY <1>2, <2>1
  <2> QED
    BY <1>1, <2>2 DEF Once!vars, Knowledge
<1> QED
  BY <1>3, <1>4

\* A call that runs late writes only while its write is in doubt: none is left
\* of a write that was not done, and one that was done is not done again.
LEMMA OnceRunLate ==
  ASSUME Inv, Inv', NEW k \in Keys, NEW writes \in BOOLEAN, RunLate(k, writes)
  PROVE  [Once!Next]_Once!vars
<1>1. running[k] > 0 /\ Handle(k, writes) /\ UNCHANGED <<capability, key, request, believed>>
  BY DEF RunLate, host
<1>2. k <= key
  BY <1>1 DEF Inv, Started, Typed, Keys
<1>3. /\ \A j \in Keys \ {k} : applied'[j] = applied[j]
      /\ applied'[k] \in {applied[k], applied[k] + 1}
  BY <1>1, <1>2, Handled
<1>4. /\ applied \in [Keys -> Nat] /\ applied' \in [Keys -> Nat] /\ running[k] \in Nat
      /\ applied'[k] <= 1 /\ Pending(k) > 0
  BY <1>1 DEF Inv, Typed, AppliedOnce, Pending
<1>5. CASE applied'[k] = applied[k]
  <2>1. applied' = applied
    BY <1>3, <1>4, <1>5
  <2> QED
    BY <1>1, <2>1, Stutters
<1>6. CASE applied'[k] # applied[k]
  <2>1. applied[k] = 0
    BY <1>3, <1>4, <1>6
  <2>2. believed[k].certainty \notin {"ConfirmedApplied", "ConfirmedNotApplied"}
    BY <1>4, <2>1 DEF Inv, BeliefHolds
  <2>3. Once!Proceed(k)
    BY <1>1, <1>3, <2>2, Proceeds
  <2> QED
    BY <2>3, StepIsNext
<1> QED
  BY <1>5, <1>6

LEMMA OnceStep == Inv /\ Inv' /\ Doubts /\ [Next]_vars => [Once!Next]_Once!vars
<1> SUFFICES ASSUME Inv, Inv', Doubts, [Next]_vars PROVE [Once!Next]_Once!vars
  OBVIOUS
<1>1. CASE \E m \in Memberships, v \in Values \cup {Unset} : UserChange(m, v)
  BY <1>1, Stutters DEF UserChange, host
<1>2. CASE \E causation \in {NoCause} \cup Causes : Read(causation)
  BY <1>2, Stutters DEF Read, native
<1>3. CASE \E intent \in Intents, p \in {NoToken} \cup 1 .. item.revision, allow \in BOOLEAN :
             Write(intent, p, allow)
  BY <1>3, Stutters DEF Write, native
<1>4. CASE Resend
  BY <1>4, OnceResend
<1>5. CASE \E runs \in BOOLEAN : TimeOut(runs)
  BY <1>5, Stutters DEF TimeOut, native
<1>6. ASSUME NEW r \in Answers, NEW writes \in BOOLEAN, Answer(r, writes)
      PROVE  [Once!Next]_Once!vars
  <2>1. PICK k \in Keys : k = key
    BY <1>6 DEF Answer, Inv, Typed
  <2>2. /\ waiting /\ Handle(k, writes) /\ Believe(r) /\ k <= key
        /\ UNCHANGED <<capability, key, request>>
    BY <1>6, <2>1 DEF Answer, Keys
  <2>3. /\ \A j \in Keys \ {k} : applied'[j] = applied[j]
        /\ applied'[k] \in {applied[k], applied[k] + 1}
    BY <2>2, Handled
  <2>4. \A j \in Keys \ {k} : believed'[j] = believed[j]
    BY <2>1, <2>2 DEF Believe, Inv, Typed
  <2>5. believed[k].certainty \notin {"ConfirmedApplied", "ConfirmedNotApplied"}
    BY <2>1, <2>2 DEF Doubts
  <2>6. Once!Proceed(k)
    BY <2>3, <2>4, <2>5, Proceeds
  <2> QED
    BY <2>6, StepIsNext
<1>7. CASE \E k \in Keys, writes \in BOOLEAN : RunLate(k, writes)
  BY <1>7, OnceRunLate
<1>8. ASSUME NEW causation \in {NoCause} \cup Causes, Reconcile(causation)
      PROVE  [Once!Next]_Once!vars
  <2>1. PICK k \in Keys : k = key
    BY <1>8 DEF Reconcile, Inv, Typed
  <2>2. /\ applied' = applied
        /\ believed[k].certainty \notin {"ConfirmedApplied", "ConfirmedNotApplied"}
        /\ \A j \in Keys \ {k} : believed'[j] = believed[j]
    BY <1>8, <2>1 DEF Reconcile, native, Doubts, Inv, Typed
  <2>3. Once!Proceed(k)
    BY <2>2, Proceeds
  <2> QED
    BY <2>3, StepIsNext
<1>9. CASE UNCHANGED vars
  BY <1>9, Stutters DEF vars
<1> QED
  BY <1>1, <1>2, <1>3, <1>4, <1>5, <1>6, <1>7, <1>8, <1>9 DEF Next

\* Writing implements WriteOnce: whatever calls are lost, late or repeated, a
\* write is carried out once or not at all and only while the host doubts it,
\* and the host repeats only what was not done.
THEOREM WritesImplementOnce == Spec => ImplementsOnce
<1>1. Init => Doubts
  BY DEF Init, Doubts
<1>2. Spec => [](Inv /\ Doubts)
  BY <1>1, InvInit, InvStep, DoubtsStep, PTL DEF Spec
<1> QED
  BY <1>2, OnceInit, OnceStep, PTL DEF Spec, ImplementsOnce, Once!Spec

=============================================================================
