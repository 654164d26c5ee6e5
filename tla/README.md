# Verification of trakkin-contracts

TLA+ models of `trakkin-provider-sdk` (`src/crates/trakkin-provider-sdk/src`), the
TLC configurations that check them on small instances, and theorems about them
whose proofs TLAPS checks.

The crate is a contract: types, validators and a little plumbing shared by a
*host* (it syncs completion state between services) and *providers* (one process
per service, spoken to over gRPC). Neither of the two is in the repository. What
the crate promises can only be seen when its validators decide what two processes
do to each other over an unreliable network and a native system that its user
changes too. The models therefore translate the validators from the source and
surround them with the weakest host, provider, transport and user that the types
and the crate's README ask for. Definitions of the second kind are marked external
in `PROJECT.json`.

## Inventory

| Part (source) | State | Operations | What must hold |
| --- | --- | --- | --- |
| Attempt outcomes (`completion_operation.rs`, `completion_wire.rs`) | the outcome a host holds of each attempt | `validate_for`, `validate_attempt_outcome`, `requires_barrier`, `decode_outcome` | evidence only grows; a released barrier stays released; retries never write twice; barriers can be released |
| Completion preparation (same files) | a prepared operation, kept until it is executed | `PreparedOperation::validate`, `validate_for`, `decode_prepared` | the protection claimed is the protection there is; nothing outside the request and the declared fields is written |
| Completion state (`completion_state.rs`, `completion.rs`) | the maps of one validation pass | `State::validate`, `decode_state`, `DomainReferences::new`, `Progress::validate` | a verdict independent of order; unambiguous references and groups; every subject observed |
| Completion discovery (`completion_discovery.rs`) | the cursor of a walk (the host's) | `Library::validate`, `Page::validate` | honest pages of a changing library pass; subjects stay within the library |
| Source reading (`validation.rs`) | sequence and terminal flag of a stream validator, the host's cursor | `read_request`, `accept`, `finish` | nothing is missing behind a cursor |
| Targeted state (`validation.rs`) | the host's belief about each write | request and response validators of reads and writes | writes happen at most once; what is believed is true |
| Session answers (`validation.rs`) | accounts and sources of an open connection, the step of an authentication (the host's) | validators of authentication, connection, discovery, asset and error responses | data is filed under the right account and field; nobody waits for ever |
| Bootstrap (`bootstrap.rs`) | a launched process, its listener and output | `read_launch_request`, `serve_adapter`, `parse_ready_message`, token interceptor | a host talks to the process it launched and learns whether the launch worked |
| Negotiation (`lib.rs`) | none | `negotiate_protocol` | sessions open exactly for ranges that contain the release |
| Model types, wire conversions (`completion.rs`, `completion_wire.rs`) | none | checked constructors, `TryFrom`, `From` | what is accepted can be handed on and means the same to whoever gets it |
| Health and other single responses (`validation.rs`), mapping keys (`mapping.rs`), protobuf, tracing | none | field and size checks | not modelled, see below |

How the parts interact: a host launches a provider (bootstrap), negotiates, then
describes and discovers a library (discovery), reads it (completion state),
prepares an operation against the behavior it was described (preparation),
executes it and reconciles what became of it (attempt outcomes). A session opens with
authentication and the discovery of sources. Sources without
the completion workflow are read by streams and written by targeted writes. Every
arrow is a call that may fail, time out or be answered late.

The hard behaviours, listed line by line under `hazards` in `PROJECT.json`: reports
that overtake one another; calls given up on that still run; providers that restart
and know less; native data changed by its user between any two steps; streams that
break; processes of an earlier launch whose output or port turns up later; stored
operations that are decoded again by a provider that behaves differently by then;
values whose size, nesting or very number differs between their typed form and the wire;
pages each of whose entries is valid but which are too long together; answers about the
wrong account or pieced together over time; and verdicts of one-pass validators that
might depend on the order of their input.

## Modules

| Module | Models | Extends |
| --- | --- | --- |
| `EvidenceLedger` | what a chain of reports promises (abstract specification) | |
| `AttemptOutcome` | outcomes and their validators (pure) | |
| `CompletionAttempt` | the host's records, under any provider | `AttemptOutcome`; implements `EvidenceLedger` |
| `NativeExecution` | attempts carried out by a truthful provider, composed with the records | `CompletionAttempt` |
| `Replica` | what reading a source promises (abstract specification) | |
| `ReadStream` | both stream validators, requests, transport, changing source | implements `Replica` |
| `CompletionModel` | the completion values and their rules (pure) | |
| `CompletionWire` | their messages and the conversions (pure) | `CompletionModel` |
| `Preparation` | execution of prepared operations against a native library | `CompletionModel` |
| `CompletionState` | `State::validate` over small responses | `CompletionWire` |
| `Discovery` | a walk over the pages of a library | `CompletionWire` |
| `CompletionWorkflow` | a completion from description to reconciliation, message by message | `CompletionWire` |
| `WriteOnce` | what targeted writes promise (abstract specification) | |
| `TargetedWrite` | targeted writes and the reads that reconcile them | implements `WriteOnce` |
| `Negotiation` | `negotiate_protocol` (pure) | |
| `Session` | handshake, authentication, connection, sources, targeted reads, assets | `Negotiation` |
| `Bootstrap` | launches, processes, ports, tokens | |
| `AttemptProofs`, `CompletionProofs`, `ReadStreamProofs`, `PreparationProofs`, `TargetedWriteProofs`, `SessionProofs`, `DiscoveryProofs`, `ConnectionProofs` | theorems | the modules they are about (`AttemptProofs`: `CompletionAttempt` and `NativeExecution`; `CompletionProofs`: `CompletionWire`, `CompletionWorkflow` and `CompletionState`; `ConnectionProofs`: `Bootstrap`; `SessionProofs`: `Session` and `Negotiation`) |
| `MCJson` | native JSON for the instances | `CompletionModel` |
| `MC*` | values of constants for TLC | the module they instantiate, and `MCJson` |

### Attempts: `AttemptOutcome`, `CompletionAttempt`, `NativeExecution`

`ValidFor`, `ValidReport` and `Decodes` are `AttemptOutcome::validate_for`,
`validate_attempt_outcome` and `decode_outcome`. An outcome is a record of operation,
attempt, lifecycle and a *sequence* of effect entries, so that lists with a missing,
repeated or superfluous effect exist; the map the code collects from the list is
`KnowledgeOf`. Receipts, evidence texts and `satisfaction` are left out: no rule
reads them.

`CompletionAttempt` keeps `record[a]`, the outcome a host holds of attempt `a`. The
crate fixes its shape and transitions; the host's part is read off from them: it
starts from `NotDispatched`, it must hold `MayStillExecute` with every effect
`Unknown` from before the call leaves (nothing else both raises `requires_barrier`
and claims nothing), and afterwards replaces the record by each report that passes
`decode_outcome` and `validate_attempt_outcome`. It dispatches another attempt only
when no earlier one requires a barrier or has left anything behind. `relied[a]` is
history: the attempts written off when `a` was dispatched. `Send` puts any message
at all on the wire.

`NativeExecution` adds the calls, the native requests (`native`, `truth`) and the
provider. `ExecuteCompletion` and `ReconcileCompletion` calls are lost, delayed and
overtaken. Of the provider it is assumed that it says only what is true at that
moment, possibly less than it could (it may have restarted), that it applies
`validate_attempt_outcome` to the previous outcome it was sent, and that it refuses
an attempt it has called terminal.

The invariant worth having is not "records are valid" but what they are used for:
`OneRequest` and `AppliedOnce` (retries never write twice), `EvidenceSound` (records
are true of the native system), `GroundsStand` (evidence a dispatch relied on is never
withdrawn) and, against a validator that is too strict, `TruthAccepted`: at every
moment the full truth would be accepted, so a chain of reports cannot get stuck.

### Reading: `ReadStream`

`CatalogStreamValidator` and `StateStreamValidator` are one machine. A source is a
log of `MaxChanges` changes; a batch carries a range of it and whether its items pass
the item checks; a cursor is a position. `ordered` chooses the transport: a gRPC stream
that may break anywhere, with a provider that keeps the contract; or one on which events
are also lost, repeated and reordered, with a provider that sends invalid ones and a host
that may skip an event the validator refused (it then does not keep the read).
`ImplementsReplica` and `NothingRefused` are claims about the first. `EndRead` is `finish` and
the host's decision: only `Completed` advances the cursor, although `finish` succeeds
after `Failed` and `Cancelled` too.

`Replica` says what all this is for: a host holds the changes `1 .. cursor` and nothing
else, and a read moves the cursor forward to a state the source has been in, at once or
not at all. The refinement maps the host's cursor and store to the replica's and hides
the stream; on the transport that loses events nothing is claimed of them (both are mapped
to their initial values), because `Completed` does not say how many batches there were.
`CursorCovered` is the part of it that speaks of single states and is proved from the same
invariant.

### Values and messages: `CompletionModel`, `CompletionWire`

`CompletionModel` has one operator per rule: domains (`NewDomain` sorts unordered units,
as the constructor does; `InOrder` is the sorted list of a set of numbers), progress,
observations, references, behaviors, access and prepared operations, with the rules that a
claim of protection rests on as operators of their own. At its end `DomainValue`,
`ObservationValue` and so on say what a value of each type is. A native JSON value is a
member of a set, of which matter: the length of its serialisation (`JsonSize`), bounded by
`MaximumJson` (a command with the frame around its parameters, as `bounded_json_size` of the
whole `Command` does); how deep it nests (`JsonDepth`); and what a reader makes of its
serialisation (`Reread`). A reference comes with its length: all references of a domain,
of a response, and all field observations of a response have a limit in common
(`MaximumBytes`, 4 MiB), as have the units bound in a response and the lists of it
(`MaximumStateItems`).

`Reread` is not the identity. The crate uses `serde_json` without `float_roundtrip`, so the
reader may make of a number that is no integer its neighbour, with more digits or fewer. All
that is assumed of it (`JsonAssumption`) is that it keeps the nesting.

`CompletionWire` has the message of each value and three operators per type: `EncodeT`
(the `From`), `AcceptsT` (does the `TryFrom` succeed) and `DecodeT` (what it returns).
Messages can say what values cannot: a submessage or a oneof is absent (the record has no such
field, `Present` asks for it), enums are unspecified, sets listed with repetitions.
`DomainMessage`, `ObservationMessage` and so on say what protobuf itself guarantees of a message
from anybody. JSON bytes have a length as received (`raw`) and a meaning (`json`),
because `decode_json` bounds the first and the validators the second: blanks make the
meaning shorter, numbers like `1e1` make it longer. `EncodeJson` gives the length of the
serialisation and what will be read in it; `AcceptsJson` also refuses nesting beyond the
reader's limit (128 levels), which the typed form does not count. What a hand-over leaves of a
value is therefore not the value but `RereadObservation`, `RereadOperation` and so on: all the
same, except for native JSON.

### Preparation: `Preparation`

Operations that pass `ValidPreparedFor` are executed as their protection means natively: a
conditional request at once and only if the groups it names are unchanged, any other one
effect by effect, between changes by the user. The library has fields that hold items
and fields that are logs, in two groups and two accounts. Each provider behavior is a set
of operation capabilities and the provider may be replaced at any time.

### State: `CompletionState`

A response is built message by message from small sets that contain, next to good
evidence, each kind of bad item. Lists are sequences; `See` and `Enter` are what
`State::validate` does with its maps for one item, and `SeenUpTo` and `EnteredUpTo` the maps after
each item of a list. `OrderFree` compares the verdict with those on all orders of all lists. `Encodable` says of every item
that was taken in that its own encoding is accepted again and means the same, but for what
reading makes of its numbers, and unless these are then too long: that is all the code gives.

### Discovery: `Discovery`

A walk asks for pages by cursor; pages are messages. `honest` chooses between a provider
that lists the entries present at that moment, in order and as many as it likes up to the
page size (`NextEntries`), and one that answers with any page of a large set. The decoder
bounds the encoded size of a library (256 KiB) and of a page (1 MiB); `PageBytes` adds up the
sizes of the parts. A page within its page size, of entries each valid and fit to be sent,
may be beyond that and is refused: `RefusedOnlyForSize` says that nothing else is, of a
provider that keeps the contract. Such a provider must count bytes and send a shorter page.
`WritableIsPreparable` ties discovery
to preparation: for every field and unit kind that an accepted page calls writable there
is an operation that `ValidPreparedFor` lets through by the behavior of that page.

### The workflow: `CompletionWorkflow`

Describe, read, ask, prepare, execute and reconcile one completion. Each hand-over
(`HandOver`) encodes what the sender has, decodes and validates it by what the receiver
holds, and notes what was sent, what was received, or what was refused and by what. The
provider may be replaced by its next version between any two steps, the clock runs,
calls and answers are lost, and the host executes again as far as `Replay` allows. The
operation is decoded again each time it comes back (`Arrive`, `Reconcile`), by the
behavior of that moment. A provider may also phrase the operation as the encoder would not
(`Phrased`: blanks in JSON, numbers in another notation), provided the message means it.
This answers the question why a stored operation must be
validated against the behavior of now: `Settled` holds because expiry is not part of
`decode_prepared`, and only up to a change of the behavior's revision, which orphans an
open attempt. More exceptions are named in the properties because the code has them:
`SetValue` and `Append` values are bounded on the wire only, no native JSON is read that
nests too deep, and native values and commands that are within their limit may be beyond it
once read (`Unreadable`, `UnreadableObservation`); sets of names are bounded on the wire only
(`TooManyNames`). An operation executed may differ from the one prepared in the numbers of its
native JSON (`AsRead`), and once more in each time it is kept and sent. And a call that left
inside its replay guarantee may take effect after it (`late`), because the guarantee is
compared with the preparation and nothing else.

### Targeted writes: `TargetedWrite`

The host follows what a validated response says of certainty and retry. `Passing` is
the set of all responses the response validator lets through, so the provider is as
careless as the validator allows, except that it is truthful about whether a write
was applied and about the key and revision of a write it names as a cause.
`TimeOut(TRUE)` leaves a call behind that runs later (`RunLate`). The host
resends a key only after `SafeSameKey`. `Reconcile` is a `ReadTargetedState` with a
reconciliation key whose answer names a write as the cause: only the write asked after, at
the revision read, with its receipt; a read that asks after none may not name one, and one
that names none leaves the doubt. A request writes one field, set or cleared as the
capability allows; the effects of several intents, which `validate_targeted_state_write_effects`
matches by their position, are outside the model. `WriteOnce` states what the
host gets from all this: a write carried out once or not at all, only while the host is in
doubt of it, and tried again only after it was not done (`ImplementsOnce`).

### A session: `Session`, `Negotiation`

The host offers a range of versions, as often as it likes while it is refused; the provider
answers with `Negotiate`, which follows the `if`s of `negotiate_protocol`, and
`AnswerJustified` states its answers by which versions a range contains. Then the host
authenticates, opens the connection, discovers sources, and reads the state of
an item or its asset. Each validator is an operator; a refused answer ends what the host
is doing, an accepted one decides what it waits for (`wait`): an answer, the next poll,
the user's input or choice, or the time of a retry. The provider reads piece by piece
(`Gather`) while the user changes the item or replaces the asset. It is truthful (values
are values it has read, account keys tell accounts apart, the hash of an asset is that of
a stored version) and careless otherwise: it may use a source key for two accounts,
answer fields in any order or twice, list an account twice, claim any length, presence,
content type or digest algorithm, leave out a revision, declare capabilities nothing can be read
with. A read request names its source by the key alone, so `ReadingsTrue` rests on
`discover_sources_response` comparing keys across accounts. It also rests on the provider
looking the key up among the sources of the last accepted discovery: nothing in an answer tells
the host of a source that was never listed. Of an asset, the digest is that of a version as it
is stored; a provider that reads a torn asset and hashes what it read cannot be found out.
A session that is `Waiting` is polled without regard to `retry_after`, a prompt is there or
not (the validator does not look into it), and a cancellation ends the wait whatever is answered.

### Launching: `Bootstrap`

One action per step of `read_launch_request` and `serve_adapter`; a process may end
before any of them, which closes its output and frees its port. `ReadOutput(n)` gives
the output of *any* process to `parse_ready_message` for the current launch. Assumed of
the host: it never uses an instance id or a token twice, and reads an output to its end; of
the caller of `serve_adapter`: that dropping the writer it passed closes the output.

## Runs

Every run is listed in `PROJECT.json` with its properties; every property has a mutant
there, a plausible slip in one mapped definition that makes TLC find it violated. The run
`typed_and_wire` expects a violation, see Findings.

| Run | Bounds | Why they are enough |
| --- | --- | --- |
| `records_any_provider` | 2 attempts, 2 effects, 1 report in flight, every complete list and each kind of malformed one | a retry needs two attempts; losing one of several effects needs two; reports may be sent again at any time, so one in flight covers every order |
| `truthful_provider` | 2 attempts, 1 effect, 2 reports, 1 outstanding reconciliation | two reports overtake each other; the rules treat effects separately (proved without bounds) |
| `barrier_release` | 1 attempt, 1 effect, 2 reports, 2 asks | barriers of different attempts do not interact |
| `read` | 4 changes, batches of 2, 2 events in flight, either transport | several batches, several reads, changes during a read; two events in flight repeat, overtake and lose one another |
| `launches` | 3 launches, 2 ports, 1 call | fewer ports than processes force reuse |
| `protection` | up to 2 effects, 2 user changes, 2 executions, 2 behaviors | one group protected and one not; a change before and after the first effect |
| `walk` | honest: 4 entries, pages of 2, 2 edits; any: 2 pages out of all over 8 libraries, 13 descriptors and 3 cursors | full, short and last pages; entries before and after the cursor change; pairs of entries that are too long for one message and pairs that are not; each rule violated by some page |
| `evidence` | up to 3 observations, 2 access entries, 2 references, 1 field, 4 items in all; lists and bound units of 3, sets of 2, JSON of 2, 4 bytes in common | an ambiguous domain needs two observations and a third after them; values at and above each limit, alone and together, with blanks, in short notation, too deep, and such as are read as another value |
| `workflow` | 3 histories of up to 2 behaviors, 2 effects, clock to 3, JSON of 4 and sets of 3 | a version before and after each step; an operation inside its window, after it and expired; values below, at and above each limit, when sent and when read |
| `session` | release 1.1 and ranges of numbers 0 to 2, 2 accounts, 2 source keys, 2 fields, 2 changes, 2 answers that do not end a call | a bound below, at and above the release in either number; keys that are shared or not; both orders of two fields; an asset replaced before and while it is read; a prompt after a poll or a retry |
| `targeted_write` | 2 writes of 3 calls, 2 user changes, 2 values | a refused call, one that runs late and one that overtakes it; a late call of one write after another write and a change; that writing implements `WriteOnce` |

`CHECK_DEADLOCK FALSE` appears where histories are finite: launches, edits, writes and
executions are bounded, a settled attempt or workflow needs nothing more. `session` checks
deadlock.

### Fairness

`barrier_release` (`BarrierReleased`): the crate has no scheduler, so fairness is about
the environment and stated with the property. Native requests end (weak); the host goes
on asking about an attempt that is not settled (weak); nothing stays in flight for ever
(weak); and a call repeated for ever is answered in full and delivered in the end
(strong, since it is enabled again and again but not continuously). A provider that
never knows more, or a network that loses everything, does keep a barrier for ever.

`launches` (`LaunchDecided`): a process that can take its next step does, and the host
reads an output that has ended (weak, per process). Nothing is assumed of processes
that end or hosts that launch. Every error in the startup returns from `serve_adapter`,
and its writer is dropped before serving, which is what the property rests on.

`workflow` (`Settled`): a call does not stay under way for ever (weak), and a host that can
ask about an open attempt again and again does ask (strong, because its own repeated calls
disable the question in between). Nothing is assumed of the clock, of the provider's
replacement or of repeated executions.

`session` (`Settles`): calls are answered, the host polls, timers run out and a user who is
shown something to answer or to choose from answers (all weak). `MaxAnswers` stands for the
assumption that a provider does not put a host off for ever: after that many it gives one
that ends the call, possibly an error. The user may cancel but need not.

## Proofs

`AttemptProofs` proves, in its first part, for every set of attempts, operations and
messages, every effect list and any number of reports:

* `TypeCorrect`, `EveryRecordComplete`, `GroundsNeverWithdrawn`, `AtMostOneBarrier`:
  the invariants of `records_any_provider`. The inductive invariant `Inv` joins the type
  invariant with: every record is valid for its attempt (`RecordsValid`, needed because
  `KnowledgeOf` means nothing for a list without the effect), and whoever was relied upon
  has been dispatched. A dispatched attempt without a barrier is terminal, so
  `MayDispatch` gives `OneBarrier`, and what an accepted report keeps (`ReportKeeps`)
  gives `GroundsStand`.
* `RecordsImplementLedger`: the records implement `EvidenceLedger`; `Init` maps to its
  `Init` and each step to a step or a stutter (`ReportNarrows`: an accepted report only
  narrows what is possible).

It begins with lemmas about outcomes: a valid outcome has exactly one entry per effect, so
collecting the list into a map loses nothing; what decodes is an outcome; what an accepted
report keeps.

Its second part proves, with a truthful provider, that records are true (`RecordsAreTrue`), that one native request is live at a time (`NeverTwoRequests`), that no
effect is carried out twice (`NeverAppliedTwice`) and that the full truth is never refused
(`TruthNeverRefused`). `EvidenceSound` speaks of records and is inductive only together with
the same claim about reports and reconciliations still in flight (`ReportsSound`,
`AsksSound`); `Untouched` says that nothing has happened to an attempt that was not
dispatched, and `Ordered` that of two dispatched attempts one was dispatched on evidence
that the other is over and did nothing.

`CompletionProofs` proves `HandedOn`, `ReplayedOnce` and `NothingValidRefused` for every
sequence of behaviors, every observation, every wish and every operation made of them, and
the five properties of `CompletionState` for every response. It begins with induction over
the natural numbers by sets (`NatSet`), since the theorems of the library take a predicate as
an operator, and what follows of listing a set: every finite set of numbers can be listed in
order, in one way that listing it again does not change (`Sorted`). The next part is
about the conversions alone: one lemma per type says what decoding makes of the encoding of
each value of it, the value itself but for its native JSON (`SetRoundTrip` to `OperationRoundTrip`), and `OperationsAreValues` that what a
provider prepares is such a value. With them each hand-over that is accepted hands on
what reading leaves of the value (`FaithfulHandOver`), and the invariant joins that (`Holdings`) with: nothing is
called that is not kept (`Calls`), and an operation without a replay guarantee is called once
(`Repeats`). With a guarantee a second call is carried out only if the provider of that moment
does not deduplicate; but then it does not accept the operation either, because it decodes and
validates it again and `ReplayValid` asks its capability to deduplicate, so the guarantee must
have run out (`InvArrive`). 
`NothingValidRefused` says of each refusal that it has one of the reasons `Explained` lists: the
value is beyond a limit that only the wire has, or it was made for another revision of the
behavior than the one it is validated by. For it each conversion has an acceptance lemma
(`DomainAccepted` to `PreparedAccepted`): what was encoded of a valid value is accepted, unless
its native JSON is `Unreadable` or it has `TooManyNames`. Units and completed items need no exception because the domain
bounds them (`UnitsFit`), the groups of a conditional protection none because there are no more
than effects (`FewGroups`). The invariant added is `Agreed`: the receiver validates by a behavior
the provider has had, the intention is of the scope asked for, and the operation kept was valid by
some version. If the revision has not changed neither has the behavior, so what was valid is
accepted again (`KeptStillAccepted`).

Of a response, `Evidence` is the invariant: lists of values, each valid by itself. It rests on the
lemmas that what was decoded is a value, and nests no deeper than is read
(`DomainDecoded` to `SubjectDecoded`), of which
`ReferencesDecoded` is the hardest: sorted by their unit, references lose none and do not change
when they are sorted again. With the acceptance lemmas this gives `EvidenceEncodable`. The maps of
`State::validate` depend on the order in which a list fills them; `ObservedByAll` and
`AgreeingGroups` say, by induction along the list, what they come to: a domain counts as observed
if and only if an observation has its key and none of that key another domain, and groups agree if
and only if no two entries of a native group have two canonical groups. That needs that no domain
is `Ambiguous`, which stands for the `None` of the code. From the closed forms follow
`ReferencesAreUnambiguous` and `GroupsAreCanonical`; `ReadOneWay` is direct, but needs that
a scope has no other parts; and `VerdictOrderFree` follows because what the closed forms and the
other rules speak of is the set of the items and whether their keys differ, both
the same in any order (`SameEntries`, `SameKeys`).

The assumptions: `ValuesAssumption`, the constants hold values of their types (sets are finite,
domains are what `Domain::new` returns), behaviors and observations are valid, one revision names
one behavior and all effects are in the account of the request; `RoomAssumption`, a wire set has room for the
protection kinds and for as many groups as effects (100,000 against 3 and 256 in the code);
`MessagesAssumption`, messages have the shape that protobuf gives them; `JsonAssumption`, reading
native JSON keeps its nesting. Nothing is assumed of what it does to numbers.

`ReadStreamProofs` proves, for any number of changes, batches and events in flight, that
nothing is skipped, repeated or swapped among the staged batches (`StagedWithoutHole`) and
that an accepted terminal event is final (`TerminalIsLast`), both over any transport; and
over an ordered one that a contract-keeping provider is never refused
(`WellBehavedAccepted`) and that reading implements `Replica` (`StreamImplementsReplica`,
`CursorNeverAhead`). `NoHole` compares two lists and is inductive only when the events in
flight are tied to both: `Numbered`, `InFlight` and `Staged` say that a batch is the one sent
under its number, wherever it is. The ordered claims need in addition that every batch
between the staged ones and the sent ones is in flight in its place (`Queue`), that nothing
follows a terminal event and that `Completed` names the position of the provider
(`Ending`), and which changes the batches sent so far carry (`Covers`). At the end of a
completed read the channel is empty, so by `Queue` all that was sent is staged, and the
store becomes `1 .. position` (`ReadWhole`): one `CatchUp` of the replica. Every other step
is a stutter or the replica's `Change`.

`PreparationProofs` proves the three claims about protection for every library, every set of
offered operations, behaviors and requests, and any number of changes and executions. The
operation executed is one that passed `validate_for` by some behavior (`Accepted`), and the
lemma `OfAccepted` collects what that gives. `ConditionalOverwritesNothing` rests on
`Touched`: of every scope the user touched since the preparation, the group is beyond the
revision prepared for, and conditional operations name the group of each effect.
`MonotoneTakesNothing` rests on `Merged`: what an effect of a monotone operation has merged
stays merged unless the user touched the scope, so a second execution changes nothing
else. `MandateKept` needs `Accepted` alone. The assumption (`OfferedAssumption`) is about the
native system: the group an effect names is the one it revises there, which no validator
can know, and merging is offered for fields that hold items only.

`TargetedWriteProofs` proves the five properties of targeted writes for any keys, values and
number of calls, and `AppliedOnce`, which is part of `ImplementsOnce`. `AppliedOnce` alone is
not inductive: the invariant adds that without stable keys a write has at most one call that
has written or still may (`SingleCall`), that what is believed not to have been applied has
no call left that could (`BeliefHolds`), which writes created an entry (`CreatedBy`), and
that the item shows the value of the last write while its revision is the one of that
write's receipt (`Receipts`). That writing implements
`WriteOnce` (`WritesImplementOnce`) needs also that the host, while it waits or reconciles,
knows nothing of the write, and repeats no key of a write it knows to be done (`Doubts`):
a response that allows a repetition says at the same time that nothing was applied.
A call that runs late changes the abstract state only where its write is in doubt,
which `BeliefHolds` gives from the calls still pending.

`SessionProofs` proves `ReadingsAreTrue` and `AssetsAreWhole` for any accounts, keys, fields
and changes. A request names its source by the key alone: the argument is that no two
discovered sources share a key (`KeysApart`, from `discover_sources_response`), hence
everything gathered under a key is the account's the host meant (`GatheredThere`). An asset
is whole because all parts are checked against the digest announced, and that is one of
the versions the account has had. `AnswersJustified` is proved beside them, for every release
and every range: a handshake is answered by `Negotiate` (`Answered`), and whatever that
answers to a range is exact (`NegotiateExact`).

`DiscoveryProofs` proves, for every library, every limit and every size of its entries, that
no page of an honest provider is refused however the library changes between the pages, unless
it has several entries that are too long together (`HonestRefusedForSize`), and
that what an accepted page of any provider calls writable can be prepared
(`AcceptedIsPreparable`). The second is a fact about one page: the field's narrowing ends at
a capability that writes it, which has a protection because the behavior is valid, and the
marking operation passes each rule of preparation under any protection (`MarkingPrepared`).
The first needs that the host asks with a cursor the provider gave and a page size within the
limit (`Asking`): the next cursor is then an entry beyond the one asked with, on a page that
is not empty. Assumed of the honest provider (`HonestAssumption`) is only that its library and
each of its descriptors are valid by themselves and that a message has room for any one of them.

`ConnectionProofs` proves `HostReachesOwnProcess` and `CallsServedByOwnProcess` for any number
of launches and ports. The invariant says which process holds which port (`Located`), that
an output contains nothing but its own process's announcement, of where that process listens
unless it has ended (`Own`), and that a call carries the token of its launch
(`CallsOfLaunch`).

The assumptions are the named ones of the modules: for the attempts, effects without
duplicates (checked by `PreparedOperation::validate`), the operation among those of messages,
entries of the wire's type, no more effects than `MAXIMUM_EFFECTS`, `NoReport` not an
outcome; for the others, the types of their constants and what is said above. TLC evaluates
them in the runs.

Only model-checked: liveness (`BarrierReleased`, `LaunchDecided`, `Settled`, `Settles`), which
is out of the prover's reach. Every other property of the passing runs is a theorem.

## Not modelled

* Shapes of single messages without relation to another (health, connection description
  and validation, field descriptors, items of a catalog batch): required fields only.
* String formats: identities, names, decimals, revisions, cursors, mapping keys; the
  hash in `account_identity`. A label is its length and whether it has control characters.
* Items of a batch are valid or not, and errors and heartbeats of a stream are well formed.
* Several intents in one targeted write, and the matching of their effects by position.
* What a cancellation answers, the content of prompts and `retry_after` of a poll.
* Sizes of targeted responses as a whole, and the expiry of a reading, which no
  code compares with anything but its own time of observation.
* Protobuf declarations, generated code and tracing.

## Findings

The README of the crate says that typed validation bounds native values "matching the wire
decoder" (lines 46-48). It does not match it in two respects: `decode_json` reads with
`serde_json::from_slice`, which gives up beyond 128 levels of nesting, and measures what it has
read, in which a number may be longer than the one that was measured before. The run
`typed_and_wire` shows it of the model: TLC finds an observation, described by the same
behavior, that passes typed validation and is refused by the decoder of its own message
(`TypedMatchesWire`). Both need unusual values; a provider that wants to be safe validates what
it has decoded from its own encoding.

## Plan

Done: every stateful part with its runs, the conversions, the workflow and session that
compose them, and proofs of every safety property the runs check: of attempts, the workflow,
completion state, reading, preparation, targeted writes, sessions, discovery, launches and
negotiation. Next:

1. The attempts of `CompletionAttempt` in place of the one open attempt of
   `CompletionWorkflow`, and its safety properties carried over by that composition.
