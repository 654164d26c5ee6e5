-------------------------- MODULE NativeExecution ---------------------------
(***************************************************************************)
(* Attempts as the provider and the native system behind it carry them     *)
(* out, composed with the host's records.  ExecuteCompletion and           *)
(* ReconcileCompletion calls are lost, delayed and overtaken; a provider   *)
(* that restarts knows less than before.                                   *)
(*                                                                         *)
(* Provider and native system are not part of the repository.  Assumed of  *)
(* the provider is what the documentation asks: it says only what is true  *)
(* at that moment (possibly less than it could), it applies                *)
(* validate_attempt_outcome before it answers, to the previous outcome of  *)
(* a ReconcileCompletionRequest or to none, and it refuses an attempt it   *)
(* has reported to be over.                                                *)
(***************************************************************************)
EXTENDS CompletionAttempt

CONSTANT MaxAsks   \* bound: ReconcileCompletion calls outstanding at a time

VARIABLES
  call,     \* the ExecuteCompletion call of each attempt
  asks,     \* outstanding ReconcileCompletion calls
  native,   \* the native request of each attempt
  truth     \* truth[a][s]: what attempt a has done to scope s so far

nvars == <<record, relied, reports, call, asks, native, truth>>

Results == {"none", "part", "full"}

NInit ==
  /\ Init
  /\ call = [a \in Attempts |-> "none"]
  /\ asks = {}
  /\ native = [a \in Attempts |-> "absent"]
  /\ truth = [a \in Attempts |-> [s \in Scopes |-> "none"]]

-----------------------------------------------------------------------------
(* Host *)

NDispatch(a) ==
  /\ Dispatch(a)
  /\ call' = [call EXCEPT ![a] = "sent"]
  /\ UNCHANGED <<asks, native, truth>>

\* The host asks again about an attempt it has not settled, and passes on the
\* outcome it holds.
Unsettled(o) ==
  \/ RequiresBarrier(o)
  \/ \E s \in Scopes : KnowledgeOf(o, s) \in {"Unknown", "PartiallyApplied"}

Ask(a) ==
  /\ Dispatched(a)
  /\ Unsettled(record[a])
  /\ Cardinality(asks) < MaxAsks
  /\ asks' = asks \cup {[attempt |-> a, previous |-> record[a]]}
  /\ UNCHANGED <<record, relied, reports, call, native, truth>>

NReceive(a, w) == Receive(a, w) /\ UNCHANGED <<call, asks, native, truth>>

-----------------------------------------------------------------------------
(* Network and crashes *)

NLose(w) == Lose(w) /\ UNCHANGED <<call, asks, native, truth>>

LoseCall(a) ==
  /\ call[a] # "none"
  /\ call' = [call EXCEPT ![a] = "none"]
  /\ UNCHANGED <<record, relied, reports, asks, native, truth>>

LoseAsk(m) ==
  /\ m \in asks
  /\ asks' = asks \ {m}
  /\ UNCHANGED <<record, relied, reports, call, native, truth>>

-----------------------------------------------------------------------------
(* Native system *)

\* The request reaches the native system, unless it was refused before.
Start(a) ==
  /\ call[a] = "sent"
  /\ call' = [call EXCEPT ![a] = "received"]
  /\ native' = [native EXCEPT ![a] = IF @ = "absent" THEN "running" ELSE @]
  /\ UNCHANGED <<record, relied, reports, asks, truth>>

Apply(a, s, result) ==
  /\ native[a] = "running"
  /\ <<truth[a][s], result>> \in {<<"none", "part">>, <<"none", "full">>, <<"part", "full">>}
  /\ truth' = [truth EXCEPT ![a][s] = result]
  /\ UNCHANGED <<record, relied, reports, call, asks, native>>

Finish(a) ==
  /\ native[a] = "running"
  /\ native' = [native EXCEPT ![a] = "finished"]
  /\ UNCHANGED <<record, relied, reports, call, asks, truth>>

\* Asked about an attempt that never arrived, the provider may refuse it from
\* now on.
Refuse(a) ==
  /\ native[a] = "absent"
  /\ \E m \in asks : m.attempt = a
  /\ native' = [native EXCEPT ![a] = "finished"]
  /\ UNCHANGED <<record, relied, reports, call, asks, truth>>

-----------------------------------------------------------------------------
(* Provider *)

\* What may be said of an effect that has gone this far.
Claims(result) ==
  CASE result = "none" -> {"Unknown", "NotApplied"}
    [] result = "part" -> {"Unknown", "PartiallyApplied"}
    [] result = "full" -> {"Unknown", "PartiallyApplied", "Applied"}

Truthful(a, w) ==
  /\ Terminal(w) => native[a] = "finished"
  /\ \A i \in DOMAIN w.effects : w.effects[i].knowledge \in Claims(truth[a][w.effects[i].scope])

AnswerCall(a, w) ==
  /\ call[a] = "received"
  /\ ValidReport(a, NoReport, w)
  /\ Truthful(a, w)
  /\ call' = [call EXCEPT ![a] = "none"]
  /\ Send(w)
  /\ UNCHANGED <<asks, native, truth>>

AnswerAsk(m, w) ==
  /\ m \in asks
  /\ Decodes(m.previous, m.attempt)
  /\ ValidReport(m.attempt, m.previous, w)
  /\ Truthful(m.attempt, w)
  /\ asks' = asks \ {m}
  /\ Send(w)
  /\ UNCHANGED <<call, native, truth>>

NNext ==
  \/ \E a \in Attempts :
       NDispatch(a) \/ Ask(a) \/ LoseCall(a) \/ Start(a) \/ Finish(a) \/ Refuse(a)
  \/ \E a \in Attempts, w \in reports : NReceive(a, w)
  \/ \E w \in reports : NLose(w)
  \/ \E m \in asks : LoseAsk(m)
  \/ \E a \in Attempts, s \in Scopes, result \in Results : Apply(a, s, result)
  \/ \E a \in Attempts, w \in WireOutcomes : AnswerCall(a, w)
  \/ \E m \in asks, w \in WireOutcomes : AnswerAsk(m, w)

NSpec == NInit /\ [][NNext]_nvars

-----------------------------------------------------------------------------

\* All that is true of attempt a now.
Exactly(result) ==
  CASE result = "none" -> "NotApplied"
    [] result = "part" -> "PartiallyApplied"
    [] result = "full" -> "Applied"

FullReport(a) ==
  OutcomeOf(a, IF native[a] = "finished" THEN "Terminal" ELSE "MayStillExecute",
            [s \in Scopes |-> Exactly(truth[a][s])])

\* The environment the liveness property assumes: native requests end, a call
\* that is repeated for ever is answered in full and delivered in the end, and
\* nothing stays in flight for ever.
AnswerFully(a) == \E m \in asks : m.attempt = a /\ AnswerAsk(m, FullReport(a))
Deliver(a)     == \E w \in reports : w = FullReport(a) /\ NReceive(a, w)

Fairness ==
  /\ \A a \in Attempts :
       /\ WF_nvars(Ask(a))
       /\ WF_nvars(Finish(a))
       /\ SF_nvars(Refuse(a))
       /\ SF_nvars(AnswerFully(a))
       /\ SF_nvars(Deliver(a))
  /\ WF_nvars(\E w \in reports : NLose(w))
  /\ WF_nvars(\E m \in asks : LoseAsk(m))

FairSpec == NSpec /\ Fairness

-----------------------------------------------------------------------------

\* The provider, the network and the native system stay in their states.
NTypeOK ==
  /\ TypeOK
  /\ call \in [Attempts -> {"none", "sent", "received"}]
  /\ asks \subseteq [attempt : Attempts, previous : Outcomes]
  /\ native \in [Attempts -> {"absent", "running", "finished"}]
  /\ truth \in [Attempts -> [Scopes -> Results]]

\* An outcome that is borne out by what attempt a did.
Sound(a, o) ==
  /\ Terminal(o) => native[a] = "finished"
  /\ \A s \in Scopes :
       LET known == KnowledgeOf(o, s)
       IN  /\ known = "Applied" => truth[a][s] = "full"
           /\ known = "PartiallyApplied" => truth[a][s] # "none"
           /\ known = "NotApplied" /\ Terminal(o) => truth[a][s] = "none"

\* What the host's record says happened, happened: however calls and reports
\* are lost or overtake one another, Applied and PartiallyApplied are facts of
\* the native system, a terminal record means no native request is left, and a
\* terminal NotApplied means nothing was or will be written.
EvidenceSound == \A a \in Attempts : Sound(a, record[a])

\* The native request runs, or is still on its way.
Live(a) == native[a] = "running" \/ (native[a] = "absent" /\ call[a] = "sent")

\* A host that retries only behind a released barrier and on NotApplied never
\* has two native requests for the operation, running or still on their way.
OneRequest ==
  \A a, b \in Attempts :
    Live(a) /\ Live(b) => a = b

\* No effect of the operation is carried out by two attempts.
AppliedOnce ==
  \A s \in Scopes : \A a, b \in Attempts :
    truth[a][s] # "none" /\ truth[b][s] # "none" => a = b

\* The validator never wedges: at every moment the full truth about an attempt
\* would be accepted, by the host after whatever it has recorded, and by the
\* provider after the (possibly outdated) outcome it was asked to continue.
TruthAccepted ==
  /\ \A a \in Attempts : Dispatched(a) => Accepts(a, FullReport(a))
  /\ \A m \in asks :
       /\ Decodes(m.previous, m.attempt)
       /\ ValidReport(m.attempt, m.previous, FullReport(m.attempt))

\* Every barrier is released in the end.
BarrierReleased ==
  \A a \in Attempts : RequiresBarrier(record[a]) ~> ~RequiresBarrier(record[a])

=============================================================================
