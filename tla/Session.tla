------------------------------- MODULE Session -------------------------------
(***************************************************************************)
(* A host's session with a provider: they agree on a protocol version, the *)
(* host authenticates, opens the connection, discovers sources, and reads  *)
(* the state of an item and its asset from a source.  A handshake is       *)
(* answered by negotiate_protocol, all else goes through the validators of *)
(* validation.rs, and the host does only what an accepted answer tells it. *)
(* Meanwhile the user changes the item and replaces the asset, also while  *)
(* the provider is half way through reading them.                          *)
(*                                                                         *)
(* The provider is truthful: a value it reports is one it has read, its    *)
(* account keys tell accounts apart, and the hash of an asset is that of a *)
(* stored version.  It is careless in everything else: fields in any       *)
(* order or twice, lists with repetitions, keys that are unique within an  *)
(* account only, assets pieced together over time.  It looks a key up      *)
(* among the sources of the last accepted discovery.                       *)
(*                                                                         *)
(* Abstracted: names, terms, fields and identifiers are well formed; an    *)
(* account has one source, which declares every capability, and a source   *)
(* one item and asset; sizes of messages, the content of prompts, when to  *)
(* poll again and expiry are left out, and what a cancellation answers;    *)
(* SHA-256 does not collide.                                               *)
(***************************************************************************)
EXTENDS Negotiation, Sequences, SequencesExt

CONSTANTS
  Accounts,     \* keys of the accounts behind the connection
  SourceKeys,   \* keys a provider may give their sources
  Fields,       \* fields of an item
  MaxNumber,    \* bound: greatest major and minor number a host offers
  MaxChanges,   \* bound: changes by the user
  MaxAnswers    \* bound: answers that do not end what the host is doing

ASSUME SessionAssumption == MaxNumber \in Nat /\ MaxChanges \in Nat /\ MaxAnswers \in Nat

VARIABLES
  sourceKey,    \* account -> key of its source
  capability,   \* what the sources declare
  item,         \* account -> the native item: membership, version of each field
  asset,        \* account -> version of the asset
  changes,      \* changes by the user so far
  stage,        \* "launched", "new", "authenticated", "connected" or "open"
  accounts,     \* account keys of the accepted open_connection
  sources,      \* sources of the accepted discover_sources
  call,         \* what the host is doing, or Idle
  wait,         \* what it waits for: "answer", "poll", "input", "choice", "timer"
  timer,        \* when to call again: {} or {seconds}
  prompt,       \* what the user is asked: a set of prompts or candidates
  answers,      \* answers that did not end it
  gathered,     \* what the provider has read for the call, and of which account
  result        \* what the last call has given: the answer to a handshake, a
                \*   reading, an asset or NoResult

native == <<sourceKey, capability, item, asset, changes>>
host == <<stage, accounts, sources, result>>
vars == <<native, host, call, wait, timer, prompt, answers, gathered>>

Idle == [kind |-> "idle"]
NoResult == [kind |-> "none"]
Nothing == [account |-> {}, parts |-> <<>>, digest |-> <<>>]

UpTo(S, n) == UNION {[1 .. k -> S] : k \in 0 .. n}

-----------------------------------------------------------------------------
(* Mutated forms of the validators. *)

AdviceWithoutTime(f) == f.disposition # "Unspecified"

PromptOptional(p) == p.status \notin {"Unspecified", "Failed"}

AnyCandidates(candidates) == IsInjective(candidates)

KeysPerAccount(keys, list) ==
  /\ \A i \in DOMAIN list : list[i].account_key \in keys
  /\ IsInjective(list)

ObservationsOfFields(fields, observations) ==
  ToSet(fields) = {o.field : o \in ToSet(observations)}

AssetOfLength(response, capabilities) ==
  /\ response.content # <<>> /\ Len(response.content) <= capabilities.maximum_bytes
  /\ response.full_length = Len(response.content)

-----------------------------------------------------------------------------
(* Answers of every call *)

\* adapter_error: the retry advice
ValidFailure(f) ==
  \/ f.disposition \in {"NotRetryable", "Retryable"} /\ f.after = {}
  \/ f.disposition = "RetryAfter" /\ f.after # {} /\ \A seconds \in f.after : seconds > 0

Failures ==
  [disposition : {"Unspecified", "NotRetryable", "Retryable", "RetryAfter"},
   after : {{}, {0}, {1}}]

\* authentication_progress
ValidProgress(p) ==
  /\ p.status \notin {"Unspecified", "Failed"}
  /\ p.status = "InputRequired" => p.prompt # {}

Progresses ==
  [status : {"Unspecified", "Waiting", "InputRequired", "Completed", "Cancelled", "Expired",
             "Failed"},
   prompt : {{}, {"prompt"}}]

\* open_connection_response
ValidConnection(list) == IsInjective(list)

\* source_capabilities, targeted_state_read_capability
ValidCapabilities(c) ==
  /\ c.catalog # {} /\ c.state # {}
  /\ c.maximum_bytes > 0 /\ IsInjective(c.content_types)
  /\ c.maximum_fields > 0

\* catalog, state: how they can be read, "full" or "incremental"
Capabilities ==
  [catalog : {{}, {"full"}}, state : {{}, {"incremental"}}, maximum_fields : {0, 2},
   maximum_bytes : {0, 2}, content_types : {<<"png">>, <<"png", "png">>}]

\* discover_sources_response; source_snapshot
ValidSources(keys, list) ==
  /\ \A i \in DOMAIN list : list[i].account_key \in keys
  /\ IsInjective([i \in DOMAIN list |-> list[i].key])

-----------------------------------------------------------------------------
(* Targeted state and assets *)

\* targeted_state_read_request
ValidReadRequest(fields, c) ==
  fields # <<>> /\ Len(fields) <= c.maximum_fields /\ IsInjective(fields)

\* read_targeted_state_response: the fields, in the order they were asked for
ObservationsFit(fields, observations) ==
  /\ Len(observations) = Len(fields)
  /\ \A i \in DOMAIN fields : observations[i].field = fields[i]

Valueless == {"Deleted", "Absent", "Unknown", "Stale"}   \* presences without a value

\* ... with the rest of a match; revision: there is one, and it is not empty
ValidMatched(fields, membership, observations, revision) ==
  /\ membership \in {"Present", "Absent"}
  /\ ObservationsFit(fields, observations)
  /\ \A i \in DOMAIN observations :
       LET o == observations[i]
       IN  /\ o.presence \in {"Present"} \cup Valueless
           /\ (o.presence = "Present") = (o.value # {})
           /\ ~(membership = "Absent" /\ o.presence = "Present")
  /\ revision

ValidCandidates(candidates) == Len(candidates) >= 2 /\ IsInjective(candidates)

\* asset_response; the digest of a content stands for the content
ValidAsset(response, c) ==
  /\ response.content # <<>> /\ Len(response.content) <= c.maximum_bytes
  /\ response.full_length = Len(response.content)
  /\ response.content_type \in ToSet(c.content_types) /\ response.cache_control
  /\ response.algorithm = "sha256" /\ response.digest = response.content

\* A version of an asset; versions differ in length too.
Whole(version) == [i \in 1 .. (IF version % 2 = 0 THEN 2 ELSE 1) |-> version]

\* What the item says of a field now.
Observation(a, f) ==
  IF item[a].membership = "Present" /\ item[a].version[f] > 0
  THEN [field |-> f, presence |-> "Present",
        value |-> {[account |-> a, field |-> f, version |-> item[a].version[f]]}]
  ELSE [field |-> f, presence |-> "Absent", value |-> {}]

-----------------------------------------------------------------------------

Init ==
  /\ sourceKey \in [Accounts -> SourceKeys]
  /\ capability \in Capabilities
  /\ item = [a \in Accounts |-> [membership |-> "Present", version |-> [f \in Fields |-> 1]]]
  /\ asset = [a \in Accounts |-> 1] /\ changes = 0
  /\ stage = "launched" /\ accounts = <<>> /\ sources = {}
  /\ call = Idle /\ wait = "none" /\ timer = {} /\ prompt = {} /\ answers = 0
  /\ gathered = Nothing
  /\ result = NoResult

\* The user sets a field, removes the item or puts it back, or replaces the asset.
UserChange(a) ==
  /\ stage = "open" /\ changes < MaxChanges
  /\ changes' = changes + 1
  /\ \/ \E f \in Fields : item' = [item EXCEPT ![a].version[f] = @ + 1] /\ UNCHANGED asset
     \/ /\ item' = [item EXCEPT ![a].membership = IF @ = "Present" THEN "Absent" ELSE "Present"]
        /\ UNCHANGED asset
     \/ asset' = [asset EXCEPT ![a] = @ + 1] /\ UNCHANGED item
  /\ UNCHANGED <<sourceKey, capability, host, call, wait, timer, prompt, answers, gathered>>

\* Ranges of versions a host may offer, also without an end.
Offered == [major : 0 .. MaxNumber, minor : 0 .. MaxNumber] \cup {Missing}
Ranges == [minimum : Offered, maximum : Offered] \cup {SupportedRange}

Calls ==
  CASE stage = "launched" -> [kind : {"handshake"}, supported : Ranges]
    [] stage = "new" -> {[kind |-> "authenticate"]}
    [] stage = "authenticated" -> {[kind |-> "open"]}
    [] stage = "connected" -> {[kind |-> "discover"]}
    [] stage = "open" ->
         {c \in [kind : {"read"}, source : sources, fields : UpTo(Fields, 2)] :
            ValidReadRequest(c.fields, c.source.capabilities)}
         \cup [kind : {"asset"}, source : sources] \cup {[kind |-> "discover"]}

Begin(c) ==
  /\ call = Idle
  /\ call' = c /\ wait' = "answer" /\ answers' = 0 /\ result' = NoResult
  /\ UNCHANGED <<native, stage, accounts, sources, timer, prompt, gathered>>

\* The provider reads on: a piece of the asset or a field, of an account with
\* a source of that key.
Gather(a) ==
  /\ wait = "answer" /\ call.kind \in {"read", "asset"} /\ Len(gathered.parts) < 2
  /\ \E s \in sources : s.key = call.source.key /\ s.account_key = a
  /\ gathered.account \subseteq {a}
  /\ \E part \in IF call.kind = "asset" THEN {asset[a]} ELSE {Observation(a, f) : f \in Fields} :
       gathered' = [account |-> {a}, parts |-> Append(gathered.parts, part),
                    digest |-> Whole(asset[a])]
  /\ UNCHANGED <<native, host, call, wait, timer, prompt, answers>>

\* What the host was doing is over.
Over ==
  /\ call' = Idle /\ wait' = "none" /\ timer' = {} /\ prompt' = {}
  /\ answers' = 0 /\ gathered' = Nothing

\* It is not: the host goes on when it may.
GoOn(waits, asks, seconds) ==
  /\ answers < MaxAnswers
  /\ answers' = answers + 1
  /\ wait' = waits /\ prompt' = asks /\ timer' = seconds
  /\ gathered' = Nothing
  /\ UNCHANGED call

\* Handshake; negotiate_protocol.  A host that is refused may offer another range.
AnswerHandshake ==
  /\ wait = "answer" /\ call.kind = "handshake"
  /\ Over
  /\ LET answer == Negotiate(call.supported)
     IN  /\ stage' = IF answer = "Ok" THEN "new" ELSE stage
         /\ result' = [kind |-> "handshake", supported |-> call.supported, answer |-> answer]
  /\ UNCHANGED <<native, accounts, sources>>

\* An error, or the error of an indeterminate read; a response without outcome
\* is refused like an invalid one.
Fail(f) ==
  /\ wait = "answer" /\ call.kind # "handshake"
  /\ IF ~ValidFailure(f) \/ f.disposition = "NotRetryable" THEN Over
     ELSE GoOn(IF f.disposition = "Retryable" THEN "answer" ELSE "timer", {}, f.after)
  /\ UNCHANGED <<native, host>>

\* StartAuthentication, ContinueAuthentication
AnswerAuthentication(p) ==
  /\ wait = "answer" /\ call.kind = "authenticate"
  /\ IF ValidProgress(p) /\ p.status \in {"Waiting", "InputRequired"}
     THEN GoOn(IF p.status = "Waiting" THEN "poll" ELSE "input", p.prompt, {})
     ELSE Over
  /\ stage' = IF ValidProgress(p) /\ p.status = "Completed" THEN "authenticated" ELSE stage
  /\ UNCHANGED <<native, accounts, sources, result>>

\* OpenConnection
AnswerOpen(list) ==
  /\ wait = "answer" /\ call.kind = "open"
  /\ Over
  /\ IF ValidConnection(list) THEN stage' = "connected" /\ accounts' = list
     ELSE UNCHANGED <<stage, accounts>>
  /\ UNCHANGED <<native, sources, result>>

\* DiscoverSources
AnswerDiscover(owners) ==
  LET list == [i \in DOMAIN owners |->
                 [key |-> sourceKey[owners[i]], account_key |-> owners[i],
                  capabilities |-> capability]]
  IN  /\ wait = "answer" /\ call.kind = "discover"
      /\ Over
      /\ IF ValidSources(ToSet(accounts), list) /\ (list # <<>> => ValidCapabilities(capability))
         THEN stage' = "open" /\ sources' = ToSet(list)
         ELSE UNCHANGED <<stage, sources>>
      /\ UNCHANGED <<native, accounts, result>>

\* What has no value may be said to miss it for one reason or another.
As(observation, missing) ==
  IF observation.presence = "Present" THEN observation
  ELSE [observation EXCEPT !.presence = missing]

\* ReadTargetedState, matched: the host takes the fields in the order it asked
\* for them.
AnswerMatched(membership, missing, revision) ==
  /\ wait = "answer" /\ call.kind = "read" /\ gathered.account # {}
  /\ \A a \in gathered.account : membership \in {item[a].membership, "Unspecified"}
  /\ Over
  /\ result' =
       IF ValidMatched(call.fields, membership,
                       [i \in DOMAIN gathered.parts |-> As(gathered.parts[i], missing)], revision)
       THEN [kind |-> "reading", account |-> call.source.account_key,
             fields |-> [i \in DOMAIN call.fields |->
                           [field |-> call.fields[i], value |-> gathered.parts[i].value]]]
       ELSE NoResult
  /\ UNCHANGED <<native, stage, accounts, sources>>

\* ReadTargetedState, unsupported or not found, or ambiguous: the user chooses
\* a candidate.
AnswerUnmatched == wait = "answer" /\ call.kind = "read" /\ Over /\ UNCHANGED <<native, host>>

AnswerAmbiguous(candidates) ==
  /\ wait = "answer" /\ call.kind = "read"
  /\ IF ValidCandidates(candidates) THEN GoOn("choice", ToSet(candidates), {}) ELSE Over
  /\ UNCHANGED <<native, host>>

\* ReadAsset: the content as it was pieced together, the digest of a version.
Digests == {gathered.digest} \cup {Whole(asset[a]) : a \in gathered.account}
AnswerAsset(response) ==
  /\ wait = "answer" /\ call.kind = "asset" /\ response.content = gathered.parts
  /\ response.full_length \in {Len(gathered.parts), Len(gathered.digest)}
  /\ response.digest \in Digests
  /\ Over
  /\ result' = IF ValidAsset(response, call.source.capabilities)
               THEN [kind |-> "asset", account |-> call.source.account_key,
                     content |-> response.content]
               ELSE NoResult
  /\ UNCHANGED <<native, stage, accounts, sources>>

Lists == UpTo(Accounts, 2)

Answer ==
  \/ AnswerHandshake
  \/ \E f \in Failures : Fail(f)
  \/ \E p \in Progresses : AnswerAuthentication(p)
  \/ \E list \in Lists : AnswerOpen(list)
  \/ \E list \in Lists : AnswerDiscover(list)
  \/ /\ call.kind = "read"
     /\ \E m \in {"Present", "Absent", "Unspecified"}, p \in {"Absent", "Unspecified"},
          r \in BOOLEAN : AnswerMatched(m, p, r)
  \/ AnswerUnmatched
  \/ \E c \in UpTo({"c", "d"}, 2) : AnswerAmbiguous(c)
  \/ /\ call.kind = "asset"
     /\ \E r \in [content : {gathered.parts}, full_length : 0 .. 2, content_type : {"png", "gif"},
                 cache_control : BOOLEAN, algorithm : {"sha256", "md5"}, digest : Digests] :
          AnswerAsset(r)

Again == call' = call /\ wait' = "answer" /\ timer' = {} /\ prompt' = {}

\* The host polls, the user answers what is asked or chooses, the time is up.
Poll == wait = "poll" /\ Again /\ UNCHANGED <<native, host, answers, gathered>>
UserAnswers ==
  /\ wait \in {"input", "choice"} /\ prompt # {}
  /\ Again
  /\ UNCHANGED <<native, host, answers, gathered>>
TimeIsUp ==
  /\ wait = "timer" /\ timer # {}
  /\ Again
  /\ UNCHANGED <<native, host, answers, gathered>>

\* CancelAuthentication, CancelOperation: the user need not wait, but nothing
\* makes them give up.  Whatever is answered, the host waits no longer.
Cancel ==
  /\ wait \in {"poll", "input", "choice", "timer"}
  /\ Over
  /\ UNCHANGED <<native, host>>

Next ==
  \/ \E a \in Accounts : UserChange(a)
  \/ \E c \in Calls : Begin(c)
  \/ \E a \in Accounts : Gather(a)
  \/ Answer
  \/ Poll
  \/ UserAnswers
  \/ TimeIsUp
  \/ Cancel

\* Calls are answered, timers run, and a user who is asked something answers.
Fairness == WF_vars(Answer) /\ WF_vars(Poll) /\ WF_vars(UserAnswers) /\ WF_vars(TimeIsUp)

Spec == Init /\ [][Next]_vars /\ Fairness

-----------------------------------------------------------------------------

\* A session is opened exactly when the offered range contains this release;
\* a range is called inverted exactly when it contains no version at all (one
\* that does contains its minimum); and the major version is blamed exactly
\* when no version of that major is in a range that contains some (one that
\* does contains its minimum, or the release's major with minor 0, or its
\* maximum).
AnswerJustified ==
  result.kind = "handshake" => Justified(result.supported, result.answer)

\* What the host holds for a field of an account is a value of that field of
\* that account: it names a source by its key alone and takes the fields of an
\* answer in the order it asked for them.
ReadingsTrue ==
  result.kind = "reading" =>
    \A r \in ToSet(result.fields) : \A v \in r.value :
      v.account = result.account /\ v.field = r.field

\* An asset the host keeps is one version of it, whole, although the asset is
\* replaced while the provider reads, hashes and measures it.
AssetWhole ==
  result.kind = "asset" =>
    \E version \in 1 .. asset[result.account] : result.content = Whole(version)

\* Whatever the host does in a session comes to an end: an accepted answer
\* leaves it neither waiting for a time it was not told nor the user without
\* any prompt or without two candidates to choose from.
Settles == call # Idle ~> call = Idle

=============================================================================
