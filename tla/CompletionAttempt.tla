------------------------- MODULE CompletionAttempt --------------------------
(***************************************************************************)
(* The record a host keeps of every write attempt, and the reports that    *)
(* reach it.  Nothing is assumed of the provider: a report is any message  *)
(* the wire can carry, it may name another operation or attempt, lose      *)
(* effects, contradict an earlier one, overtake it or never arrive.        *)
(*                                                                         *)
(* The host itself is not part of the repository.  It is modelled from     *)
(* the types it is given: before an attempt it holds the NotDispatched     *)
(* outcome; when it dispatches, it first records MayStillExecute with      *)
(* every effect Unknown, the only record for which requires_barrier holds  *)
(* and that claims nothing; then it replaces the record by each report     *)
(* that decodes and that validate_attempt_outcome accepts after it.        *)
(***************************************************************************)
EXTENDS AttemptOutcome

CONSTANT MaxReports   \* bound: reports in flight at a time

VARIABLES
  record,    \* record[a]: the outcome the host holds of attempt a
  relied,    \* relied[a]: the attempts on whose record the dispatch of a relied
  reports    \* reports in flight

vars == <<record, relied, reports>>

Terminal(o)   == o.lifecycle = "Terminal"
Dispatched(a) == record[a].lifecycle # "NotDispatched"

\* The host's records around the first report.
Initial(a) == OutcomeOf(a, "NotDispatched", [s \in Scopes |-> "NotApplied"])
AtRisk(a)  == OutcomeOf(a, "MayStillExecute", [s \in Scopes |-> "Unknown"])

\* Everything the operation wrote is known not to have happened, for good.
NothingApplied(o) ==
  ~RequiresBarrier(o) /\ \A s \in Scopes : KnowledgeOf(o, s) = "NotApplied"

Init ==
  /\ record = [a \in Attempts |-> Initial(a)]
  /\ relied = [a \in Attempts |-> {}]
  /\ reports = {}

\* A host dispatches the operation (again) only when no earlier attempt can
\* still execute or has left anything behind.
MayDispatch(a) ==
  \A b \in Attempts \ {a} :
    Dispatched(b) => NothingApplied(record[b])

Dispatch(a) ==
  /\ ~Dispatched(a)
  /\ MayDispatch(a)
  /\ record' = [record EXCEPT ![a] = AtRisk(a)]
  /\ relied' = [relied EXCEPT ![a] = {b \in Attempts : Dispatched(b)}]
  /\ UNCHANGED reports

\* A report is put on the wire.
Send(w) ==
  /\ Cardinality(reports) < MaxReports
  /\ reports' = reports \cup {w}
  /\ UNCHANGED <<record, relied>>

\* A mutated form of Accepts: the decoder's checks are skipped.
AcceptsUndecoded(a, w) == ValidReport(a, record[a], w)

\* What a host does with a report it takes to be about attempt a.
Accepts(a, w) == Decodes(w, a) /\ ValidReport(a, record[a], w)

Receive(a, w) ==
  /\ w \in reports
  /\ Dispatched(a)
  /\ reports' = reports \ {w}
  /\ record' = IF Accepts(a, w) THEN [record EXCEPT ![a] = w] ELSE record
  /\ UNCHANGED relied

\* A call fails, times out, or one of the processes dies: the report is gone.
Lose(w) ==
  /\ w \in reports
  /\ reports' = reports \ {w}
  /\ UNCHANGED <<record, relied>>

Next ==
  \/ \E a \in Attempts : Dispatch(a)
  \/ \E w \in WireOutcomes : Send(w)
  \/ \E a \in Attempts, w \in reports : Receive(a, w)
  \/ \E w \in reports : Lose(w)

Spec == Init /\ [][Next]_vars

-----------------------------------------------------------------------------

\* Every record is an outcome, and every message in flight one of the wire's.
TypeOK ==
  /\ record \in [Attempts -> Outcomes]
  /\ relied \in [Attempts -> SUBSET Attempts]
  /\ reports \subseteq WireOutcomes

\* The host's record of an attempt is at all times a complete outcome of that
\* very attempt: each effect of the operation has exactly one entry.  A report
\* about another attempt, or with an effect missing or listed twice, never
\* becomes a record (AttemptOutcome::validate_for).
RecordsComplete ==
  \A a \in Attempts :
    /\ ValidFor(record[a], a)
    /\ \A s \in Scopes :
         Cardinality({i \in DOMAIN record[a].effects : record[a].effects[i].scope = s}) = 1

\* The evidence a dispatch relied on is never withdrawn: as long as anything
\* is recorded, every attempt the host wrote off before it dispatched another
\* stays terminal with nothing applied, whatever reports arrive later.
GroundsStand ==
  \A a \in Attempts : \A b \in relied[a] : NothingApplied(record[b])

\* No two attempts of the operation may be executing at once, as far as the
\* host's barriers tell: a released barrier never comes back.
OneBarrier ==
  \A a, b \in Attempts :
    RequiresBarrier(record[a]) /\ RequiresBarrier(record[b]) => a = b

\* The final results of an effect that a record still admits.
Possible(o, s) ==
  CASE KnowledgeOf(o, s) = "Applied"          -> {"full"}
    [] KnowledgeOf(o, s) = "PartiallyApplied" -> {"part", "full"}
    [] KnowledgeOf(o, s) = "NotApplied" /\ Terminal(o) -> {"none"}
    [] OTHER                                  -> {"none", "part", "full"}

\* The record implements the ledger: along any chain of reports knowledge
\* only narrows and a closed attempt stays closed.
Ledger == INSTANCE EvidenceLedger WITH
  fresh    <- {a \in Attempts : ~Dispatched(a)},
  open     <- {a \in Attempts : RequiresBarrier(record[a])},
  possible <- [a \in Attempts |-> [s \in Scopes |-> Possible(record[a], s)]]

ImplementsLedger == Ledger!Spec

=============================================================================
