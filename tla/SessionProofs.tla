--------------------------- MODULE SessionProofs ----------------------------
(***************************************************************************)
(* What a host takes from an answer belongs to the account it asked about: *)
(* for any accounts, source keys and fields, and any number of changes.    *)
(*                                                                         *)
(* A request names its source by the key alone, and the provider looks it  *)
(* up natively.  The invariant ties what the provider has gathered to the  *)
(* account of the source the host meant (GatheredThere); that this is the  *)
(* only account it can have been rests on discover_sources_response        *)
(* (KeysApart).                                                            *)
(*                                                                         *)
(* The handshake before is answered as negotiate_protocol answers the      *)
(* range that was offered (Answered), and such an answer is justified, for *)
(* every release and every range of versions.                              *)
(***************************************************************************)
EXTENDS Session, SequenceTheorems, TLAPS

Typed ==
  /\ item \in [Accounts -> [membership : {"Present", "Absent"}, version : [Fields -> Nat]]]
  /\ asset \in [Accounts -> Nat \ {0}]
  /\ stage \in {"launched", "new", "authenticated", "connected", "open"}
  /\ \A s \in sources : s.account_key \in Accounts

\* No two sources of the connection share a key.
KeysApart == \A s \in sources, t \in sources : s.key = t.key => s = t

\* What a truthful provider may have read of a field of an account.
Seen(a) ==
  {o \in [field : Fields, presence : {"Present", "Absent"},
          value : SUBSET [account : {a}, field : Fields, version : Nat]] :
     \A v \in o.value : v.field = o.field}

\* The asset of an account as it has been.
VersionsOf(a) == {Whole(version) : version \in 1 .. asset[a]}

Asked ==
  /\ call.kind \in {"read", "asset"} => call.source \in sources
  /\ call.kind = "read" => call.fields \in Seq(Fields)

GatheredThere ==
  LET a == call.source.account_key
  IN  /\ call.kind = "read" =>
           gathered.account \subseteq {a} /\ gathered.parts \in Seq(Seen(a))
      /\ call.kind = "asset" =>
           /\ gathered.account \subseteq {a} /\ gathered.parts \in Seq(Nat)
           /\ gathered.account # {} => gathered.digest \in VersionsOf(a)
           /\ gathered.account = {} => gathered = Nothing
      /\ call.kind \notin {"read", "asset"} => gathered = Nothing

AssetKept ==
  result.kind = "asset" => result.account \in Accounts /\ result.content \in VersionsOf(result.account)

Inv ==
  /\ Typed
  /\ KeysApart
  /\ Asked
  /\ GatheredThere
  /\ ReadingsTrue
  /\ AssetKept

-----------------------------------------------------------------------------
(* Negotiation *)

Answers == {"Ok", "MissingMinimum", "MissingMaximum", "InvertedRange",
            "IncompatibleMajor", "IncompatibleMinor"}

VersionRange == [minimum : Version \cup {Missing}, maximum : Version \cup {Missing}]

\* What stays true of a handshake: its answer is the one negotiate_protocol
\* gives to the range that was offered.
Answered ==
  /\ call.kind = "handshake" => call.supported \in VersionRange
  /\ result.kind = "handshake" =>
       result.supported \in VersionRange /\ result.answer = Negotiate(result.supported)

\* The answer to a range from min to max is justified.
Exact(range, min, max) ==
  /\ Negotiate(range) \in Answers \ {"MissingMinimum", "MissingMaximum"}
  /\ (Negotiate(range) = "Ok") <=> Includes(range, Current)
  /\ (Negotiate(range) = "InvertedRange") <=> ~Includes(range, min)
  /\ (Negotiate(range) = "IncompatibleMajor") <=>
       /\ Includes(range, min)
       /\ \A v \in {min, max, [major |-> PROTOCOL_MAJOR, minor |-> 0]} :
            v.major = PROTOCOL_MAJOR => ~Includes(range, v)

\* Every range that has both ends is answered by a comparison of versions.
LEMMA NegotiateExact ==
  ASSUME NEW min \in Version, NEW max \in Version,
         NEW range, range = [minimum |-> min, maximum |-> max]
  PROVE  Exact(range, min, max)
<1>1. /\ min # Missing /\ max # Missing
      /\ range.minimum = min /\ range.maximum = max
  BY MissingAssumption
<1>2. /\ min.major \in Nat /\ min.minor \in Nat /\ max.major \in Nat /\ max.minor \in Nat
      /\ Current.major = PROTOCOL_MAJOR /\ Current.minor = PROTOCOL_MINOR
      /\ PROTOCOL_MAJOR \in Nat /\ PROTOCOL_MINOR \in Nat
  BY VersionAssumption DEF Version, Current
<1> DEFINE base == [major |-> PROTOCOL_MAJOR, minor |-> 0]
<1>3. base.major = PROTOCOL_MAJOR /\ base.minor = 0
  OBVIOUS
<1> HIDE DEF base
<1>4. (\A v \in {min, max, base} : v.major = PROTOCOL_MAJOR => ~Includes(range, v))
        <=> /\ min.major = PROTOCOL_MAJOR => ~Includes(range, min)
            /\ max.major = PROTOCOL_MAJOR => ~Includes(range, max)
            /\ ~Includes(range, base)
  BY <1>3
<1>5. QED
  BY <1>1, <1>2, <1>3, <1>4 DEF Exact, base, Negotiate, Includes, Less, Answers

LEMMA RangesAreRanges == Ranges \subseteq VersionRange
<1>1. Offered \subseteq Version \cup {Missing}
  BY SessionAssumption DEF Offered, Version
<1>2. Current \in Version
  BY VersionAssumption DEF Current, Version
<1>3. [minimum : Offered, maximum : Offered] \subseteq VersionRange
  BY <1>1 DEF VersionRange
<1>4. SupportedRange \in VersionRange
  BY <1>2 DEF SupportedRange, VersionRange
<1> QED
  BY <1>3, <1>4 DEF Ranges

-----------------------------------------------------------------------------
(* Readings and assets *)

LEMMA InvInit == Init => Inv
<1> SUFFICES ASSUME Init PROVE Inv
  OBVIOUS
<1>1. Typed
  <2>1. 1 \in Nat \ {0}
    OBVIOUS
  <2>2. item \in [Accounts -> [membership : {"Present", "Absent"}, version : [Fields -> Nat]]]
    BY DEF Init
  <2>3. asset \in [Accounts -> Nat \ {0}]
    BY <2>1 DEF Init
  <2> QED
    BY <2>2, <2>3 DEF Init, Typed
<1>2. call.kind = "idle" /\ result.kind = "none"
  BY DEF Init, Idle, NoResult
<1>3. KeysApart /\ Asked /\ GatheredThere /\ ReadingsTrue /\ AssetKept
  BY <1>2 DEF Init, KeysApart, Asked, GatheredThere, ReadingsTrue, AssetKept
<1> QED
  BY <1>1, <1>3 DEF Inv

\* Nothing gathered, nothing to be wrong about.
LEMMA NothingIsFine ==
  ASSUME gathered' = Nothing
  PROVE  GatheredThere'
<1>1. gathered'.account = {} /\ gathered'.parts = <<>>
  BY DEF Nothing
<1>2. <<>> \in Seq(Seen(call'.source.account_key)) /\ <<>> \in Seq(Nat)
  BY EmptySeq
<1> QED
  BY <1>1, <1>2 DEF GatheredThere

\* The steps after which the host is done, or goes on with the same call.
LEMMA InvGoesOn ==
  ASSUME Inv, UNCHANGED <<item, asset, sources, result>>,
         stage' \in {"launched", "new", "authenticated", "connected", "open"},
         \/ call' = Idle /\ gathered' = Nothing
         \/ call' = call /\ gathered' \in {Nothing, gathered}
  PROVE  Inv'
<1>1. Typed' /\ KeysApart' /\ ReadingsTrue' /\ AssetKept'
  BY DEF Inv, Typed, KeysApart, ReadingsTrue, AssetKept, VersionsOf
<1>2. Idle.kind = "idle"
  BY DEF Idle
<1>3. Asked'
  BY <1>2 DEF Inv, Asked
<1>4. GatheredThere'
  <2>1. CASE gathered' = Nothing
    BY <2>1, NothingIsFine
  <2>2. CASE call' = call /\ gathered' = gathered
    BY <2>2 DEF Inv, GatheredThere, VersionsOf
  <2> QED
    BY <2>1, <2>2
<1> QED
  BY <1>1, <1>3, <1>4 DEF Inv

LEMMA InvUserChange ==
  ASSUME Inv, NEW a \in Accounts, UserChange(a)
  PROVE  Inv'
<1>1. UNCHANGED <<stage, sources, result, call, gathered>>
  BY DEF UserChange, host
<1>2. /\ item' \in [Accounts -> [membership : {"Present", "Absent"}, version : [Fields -> Nat]]]
      /\ asset' \in [Accounts -> Nat \ {0}]
      /\ \A b \in Accounts : asset[b] <= asset'[b]
  <2>1. CASE \E f \in Fields : item' = [item EXCEPT ![a].version[f] = @ + 1] /\ UNCHANGED asset
    <3>1. PICK f \in Fields : item' = [item EXCEPT ![a].version[f] = @ + 1]
      BY <2>1
    <3>2. /\ item[a] \in [membership : {"Present", "Absent"}, version : [Fields -> Nat]]
          /\ item[a].version[f] + 1 \in Nat
      BY DEF Inv, Typed
    <3> DEFINE changed == [item[a] EXCEPT !.version[f] = @ + 1]
    <3>3. changed \in [membership : {"Present", "Absent"}, version : [Fields -> Nat]]
      BY <3>2
    <3>4. item' = [item EXCEPT ![a] = changed]
      BY <3>1
    <3> HIDE DEF changed
    <3>5. item \in [Accounts -> [membership : {"Present", "Absent"}, version : [Fields -> Nat]]]
      BY DEF Inv, Typed
    <3>6. item' \in [Accounts -> [membership : {"Present", "Absent"}, version : [Fields -> Nat]]]
      BY <3>3, <3>4, <3>5
    <3> QED
      BY <2>1, <3>6 DEF Inv, Typed
  <2>2. CASE /\ item' = [item EXCEPT ![a].membership = IF @ = "Present" THEN "Absent" ELSE "Present"]
             /\ UNCHANGED asset
    BY <2>2 DEF Inv, Typed
  <2>3. CASE asset' = [asset EXCEPT ![a] = @ + 1] /\ UNCHANGED item
    BY <2>3 DEF Inv, Typed
  <2> QED
    BY <2>1, <2>2, <2>3 DEF UserChange
<1>3. \A b \in Accounts : VersionsOf(b) \subseteq VersionsOf(b)'
  <2> SUFFICES ASSUME NEW b \in Accounts, NEW version \in 1 .. asset[b]
               PROVE  version \in 1 .. asset'[b]
    BY DEF VersionsOf
  <2> QED
    BY <1>2 DEF Inv, Typed
<1>4. Typed' /\ KeysApart' /\ Asked' /\ ReadingsTrue'
  BY <1>1, <1>2 DEF Inv, Typed, KeysApart, Asked, ReadingsTrue
<1>5. GatheredThere' /\ AssetKept'
  BY <1>1, <1>3 DEF Inv, Typed, Asked, GatheredThere, AssetKept
<1> QED
  BY <1>4, <1>5 DEF Inv

\* A host reads only what it has discovered.
LEMMA InvBegin ==
  ASSUME Inv, NEW c \in Calls, Begin(c)
  PROVE  Inv'
<1>1. /\ call = Idle /\ call' = c /\ result' = NoResult
      /\ UNCHANGED <<item, asset, stage, sources, gathered>>
  BY DEF Begin, native
<1>2. gathered' = Nothing
  BY <1>1 DEF Inv, GatheredThere, Idle
<1>3. result'.kind = "none"
  BY <1>1 DEF NoResult
<1>4. /\ c.kind \in {"read", "asset"} => c.source \in sources
      /\ c.kind = "read" => c.fields \in UpTo(Fields, 2)
  BY DEF Inv, Typed, Calls
<1>5. ASSUME NEW fields \in UpTo(Fields, 2) PROVE fields \in Seq(Fields)
  <2>1. PICK k \in 0 .. 2 : fields \in [1 .. k -> Fields]
    BY DEF UpTo
  <2> QED
    BY <2>1
<1>6. Typed' /\ KeysApart' /\ ReadingsTrue' /\ AssetKept'
  BY <1>1, <1>3 DEF Inv, Typed, KeysApart, ReadingsTrue, AssetKept
<1>7. Asked'
  BY <1>1, <1>4, <1>5 DEF Asked
<1>8. GatheredThere'
  BY <1>2, NothingIsFine
<1> QED
  BY <1>6, <1>7, <1>8 DEF Inv

\* What the provider reads is of the account the host meant, although it looks
\* the source up by its key.
LEMMA InvGather ==
  ASSUME Inv, NEW a \in Accounts, Gather(a)
  PROVE  Inv'
<1>1. /\ call.kind \in {"read", "asset"}
      /\ UNCHANGED <<item, asset, stage, sources, result, call>>
  BY DEF Gather, native, host
<1>2. PICK s \in sources : s.key = call.source.key /\ s.account_key = a
  BY DEF Gather
<1>3. call.source.account_key = a
  BY <1>1, <1>2 DEF Inv, Asked, KeysApart
<1>4. PICK part \in IF call.kind = "asset" THEN {asset[a]} ELSE {Observation(a, f) : f \in Fields} :
        gathered' = [account |-> {a}, parts |-> Append(gathered.parts, part),
                     digest |-> Whole(asset[a])]
  BY DEF Gather
<1>5. /\ gathered'.account = {a} /\ gathered'.parts = Append(gathered.parts, part)
      /\ gathered'.digest = Whole(asset[a])
  BY <1>4
<1>6. CASE call.kind = "read"
  <2>1. PICK f \in Fields : part = Observation(a, f)
    BY <1>6
  <2>2. item[a].version[f] \in Nat
    BY DEF Inv, Typed
  <2>3. part \in Seen(a)
    BY <2>1, <2>2 DEF Observation, Seen
  <2>4. gathered'.parts \in Seq(Seen(a))
    BY <1>3, <1>5, <1>6, <2>3, AppendProperties DEF Inv, GatheredThere
  <2> QED
    BY <1>1, <1>3, <1>5, <1>6, <2>4
       DEF Inv, Typed, KeysApart, Asked, GatheredThere, ReadingsTrue, AssetKept, VersionsOf
<1>7. CASE call.kind = "asset"
  <2>1. part = asset[a] /\ part \in Nat /\ asset[a] \in 1 .. asset[a]
    BY <1>7 DEF Inv, Typed
  <2>2. gathered'.parts \in Seq(Nat)
    BY <1>5, <1>7, <2>1, AppendProperties DEF Inv, GatheredThere
  <2>3. gathered'.digest \in VersionsOf(a)
    BY <1>5, <2>1 DEF VersionsOf
  <2> QED
    BY <1>1, <1>3, <1>5, <1>7, <2>2, <2>3
       DEF Inv, Typed, KeysApart, Asked, GatheredThere, ReadingsTrue, AssetKept, VersionsOf
<1> QED
  BY <1>1, <1>6, <1>7

\* discover_sources_response lets no key pass twice, in whichever accounts.
LEMMA InvDiscover ==
  ASSUME Inv, NEW owners \in Lists, AnswerDiscover(owners)
  PROVE  Inv'
<1> DEFINE list == [i \in DOMAIN owners |->
                      [key |-> sourceKey[owners[i]], account_key |-> owners[i],
                       capabilities |-> capability]]
<1>1. /\ call' = Idle /\ gathered' = Nothing
      /\ UNCHANGED <<item, asset, result>>
      /\ \/ UNCHANGED <<stage, sources>>
         \/ ValidSources(ToSet(accounts), list) /\ stage' = "open" /\ sources' = ToSet(list)
  BY DEF AnswerDiscover, Over, native
<1>2. CASE UNCHANGED <<stage, sources>>
  BY <1>1, <1>2, InvGoesOn DEF Inv, Typed
<1>3. CASE ValidSources(ToSet(accounts), list) /\ stage' = "open" /\ sources' = ToSet(list)
  <2>1. \A s \in sources' : \E i \in DOMAIN owners : s = list[i]
    BY <1>3 DEF ToSet
  <2>2. \A i \in DOMAIN owners : owners[i] \in Accounts
    BY DEF Lists, UpTo
  <2>3. \A i \in DOMAIN owners : \A j \in DOMAIN owners : list[i].key = list[j].key => i = j
    BY <1>3 DEF ValidSources, IsInjective
  <2>4. Typed' /\ KeysApart'
    BY <1>1, <1>3, <2>1, <2>2, <2>3 DEF Inv, Typed, KeysApart
  <2>5. call'.kind = "idle"
    BY <1>1 DEF Idle
  <2>6. Asked' /\ ReadingsTrue' /\ AssetKept'
    BY <1>1, <2>5 DEF Inv, Asked, ReadingsTrue, AssetKept, VersionsOf
  <2>7. GatheredThere'
    BY <1>1, NothingIsFine
  <2> QED
    BY <2>4, <2>6, <2>7 DEF Inv
<1> QED
  BY <1>1, <1>2, <1>3

\* read_targeted_state_response: the i-th observation is of the i-th field.
LEMMA InvMatched ==
  ASSUME Inv, NEW membership, NEW missing, NEW revision,
         AnswerMatched(membership, missing, revision)
  PROVE  Inv'
<1> DEFINE a == call.source.account_key
           told == [i \in DOMAIN gathered.parts |-> As(gathered.parts[i], missing)]
           reading == [kind |-> "reading", account |-> a,
                       fields |-> [i \in DOMAIN call.fields |->
                                     [field |-> call.fields[i], value |-> gathered.parts[i].value]]]
<1>1. /\ call.kind = "read" /\ call' = Idle /\ gathered' = Nothing
      /\ UNCHANGED <<item, asset, stage, sources>>
      /\ \/ result' = NoResult
         \/ ValidMatched(call.fields, membership, told, revision) /\ result' = reading
  BY DEF AnswerMatched, Over, native
<1>2. Typed' /\ KeysApart' /\ Asked'
  BY <1>1 DEF Inv, Typed, KeysApart, Asked, Idle
<1>3. GatheredThere'
  BY <1>1, NothingIsFine
<1>4. AssetKept'
  BY <1>1 DEF AssetKept, NoResult
<1>5. CASE result' = NoResult
  BY <1>2, <1>3, <1>4, <1>5 DEF Inv, ReadingsTrue, NoResult
<1>6. CASE ValidMatched(call.fields, membership, told, revision) /\ result' = reading
  <2>1. gathered.parts \in Seq(Seen(a)) /\ call.fields \in Seq(Fields)
    BY <1>1 DEF Inv, GatheredThere, Asked
  <2>2. ASSUME NEW i \in DOMAIN call.fields
        PROVE  gathered.parts[i] \in Seen(a) /\ gathered.parts[i].field = call.fields[i]
    <3>1. told \in Seq(Seen(a) \cup {As(o, missing) : o \in Seen(a)}) /\ Len(told) = Len(gathered.parts)
      BY <2>1 DEF As
    <3>2. Len(told) = Len(call.fields) /\ told[i].field = call.fields[i]
      BY <1>6 DEF ValidMatched, ObservationsFit
    <3>3. i \in 1 .. Len(gathered.parts) /\ gathered.parts[i] \in Seen(a)
      BY <2>1, <3>1, <3>2, LenProperties, ElementOfSeq
    <3>4. told[i].field = gathered.parts[i].field
      BY <2>1, <3>3, LenProperties DEF As, Seen
    <3> QED
      BY <3>2, <3>3, <3>4
  <2>3. ASSUME NEW r \in ToSet(reading.fields), NEW v \in r.value
        PROVE  v.account = a /\ v.field = r.field
    <3>1. PICK i \in DOMAIN call.fields :
            r = [field |-> call.fields[i], value |-> gathered.parts[i].value]
      BY DEF ToSet
    <3> QED
      BY <2>2, <3>1 DEF Seen
  <2>4. ReadingsTrue'
    BY <1>6, <2>3 DEF ReadingsTrue
  <2> QED
    BY <1>2, <1>3, <1>4, <2>4 DEF Inv
<1> QED
  BY <1>1, <1>5, <1>6

\* asset_response: the content has the hash of a version, so it is that version.
LEMMA InvAsset ==
  ASSUME Inv, NEW response, AnswerAsset(response)
  PROVE  Inv'
<1> DEFINE a == call.source.account_key
<1>1. /\ call.kind = "asset" /\ call' = Idle /\ gathered' = Nothing
      /\ response.content = gathered.parts
      /\ response.digest \in {gathered.digest} \cup {Whole(asset[b]) : b \in gathered.account}
      /\ UNCHANGED <<item, asset, stage, sources>>
      /\ \/ result' = NoResult
         \/ /\ ValidAsset(response, call.source.capabilities)
            /\ result' = [kind |-> "asset", account |-> a, content |-> response.content]
  BY DEF AnswerAsset, Digests, Over, native
<1>2. Typed' /\ KeysApart' /\ Asked'
  BY <1>1 DEF Inv, Typed, KeysApart, Asked, Idle
<1>3. GatheredThere'
  BY <1>1, NothingIsFine
<1>4. ReadingsTrue'
  BY <1>1 DEF ReadingsTrue, NoResult
<1>5. CASE result' = NoResult
  BY <1>2, <1>3, <1>4, <1>5 DEF Inv, AssetKept, NoResult
<1>6. CASE /\ ValidAsset(response, call.source.capabilities)
           /\ result' = [kind |-> "asset", account |-> a, content |-> response.content]
  <2>1. response.content # <<>> /\ response.content = response.digest
    BY <1>6 DEF ValidAsset
  <2>2. gathered.account # {}
    BY <1>1, <2>1 DEF Inv, GatheredThere, Nothing
  <2>3. gathered.account \subseteq {a} /\ gathered.digest \in VersionsOf(a)
    BY <1>1, <2>2 DEF Inv, GatheredThere
  <2>4. a \in Accounts /\ asset[a] \in 1 .. asset[a]
    BY <1>1 DEF Inv, Asked, Typed
  <2>5. response.content \in VersionsOf(a)
    BY <1>1, <2>1, <2>3, <2>4 DEF VersionsOf
  <2>6. AssetKept'
    BY <1>1, <1>6, <2>4, <2>5 DEF AssetKept, VersionsOf
  <2> QED
    BY <1>2, <1>3, <1>4, <2>6 DEF Inv
<1> QED
  BY <1>1, <1>5, <1>6

\* The answer of a handshake is neither a reading nor an asset.
LEMMA InvHandshake ==
  ASSUME Inv, AnswerHandshake
  PROVE  Inv'
<1>1. /\ call' = Idle /\ gathered' = Nothing /\ result'.kind = "handshake"
      /\ stage' \in {"new", stage}
      /\ UNCHANGED <<item, asset, sources>>
  BY DEF AnswerHandshake, Over, native
<1>2. Typed' /\ KeysApart' /\ Asked' /\ ReadingsTrue' /\ AssetKept'
  BY <1>1 DEF Inv, Typed, KeysApart, Asked, ReadingsTrue, AssetKept, Idle
<1>3. GatheredThere'
  BY <1>1, NothingIsFine
<1> QED
  BY <1>2, <1>3 DEF Inv

LEMMA InvStep == Inv /\ [Next]_vars => Inv'
<1> SUFFICES ASSUME Inv, [Next]_vars PROVE Inv'
  OBVIOUS
<1> DEFINE goesOn ==
      /\ UNCHANGED <<item, asset, sources, result>>
      /\ stage' \in {stage, "authenticated", "connected"}
      /\ \/ call' = Idle /\ gathered' = Nothing
         \/ call' = call /\ gathered' \in {Nothing, gathered}
<1>1. CASE goesOn
  BY <1>1, InvGoesOn DEF Inv, Typed
<1>2. ASSUME NEW a \in Accounts, UserChange(a) PROVE Inv'
  BY <1>2, InvUserChange
<1>3. ASSUME NEW c \in Calls, Begin(c) PROVE Inv'
  BY <1>3, InvBegin
<1>4. ASSUME NEW a \in Accounts, Gather(a) PROVE Inv'
  BY <1>4, InvGather
<1>5. ASSUME NEW f \in Failures, Fail(f) PROVE goesOn
  BY <1>5 DEF Fail, Over, GoOn, native, host
<1>6. ASSUME NEW p \in Progresses, AnswerAuthentication(p) PROVE goesOn
  BY <1>6 DEF AnswerAuthentication, Over, GoOn, native
<1>7. ASSUME NEW list \in Lists, AnswerOpen(list) PROVE goesOn
  BY <1>7 DEF AnswerOpen, Over, native
<1>8. ASSUME NEW list \in Lists, AnswerDiscover(list) PROVE Inv'
  BY <1>8, InvDiscover
<1>9. ASSUME NEW m, NEW p, NEW r, AnswerMatched(m, p, r) PROVE Inv'
  BY <1>9, InvMatched
<1>10. ASSUME AnswerUnmatched PROVE goesOn
  BY <1>10 DEF AnswerUnmatched, Over, native, host
<1>11. ASSUME NEW c, AnswerAmbiguous(c) PROVE goesOn
  BY <1>11 DEF AnswerAmbiguous, Over, GoOn, native, host
<1>12. ASSUME NEW r, AnswerAsset(r) PROVE Inv'
  BY <1>12, InvAsset
<1>13. ASSUME Poll \/ UserAnswers \/ TimeIsUp \/ Cancel \/ UNCHANGED vars PROVE goesOn
  BY <1>13 DEF Poll, UserAnswers, TimeIsUp, Cancel, Again, Over, vars, native, host
<1> HIDE DEF goesOn
<1>14. CASE Answer
  BY <1>1, <1>5, <1>6, <1>7, <1>8, <1>9, <1>10, <1>11, <1>12, <1>14, InvHandshake DEF Answer
<1> QED
  BY <1>1, <1>2, <1>3, <1>4, <1>13, <1>14 DEF Next

\* Only a handshake makes a result of its kind.
LEMMA AnsweredStep == Inv /\ Answered /\ [Next]_vars => Answered'
<1> SUFFICES ASSUME Inv, Answered, [Next]_vars PROVE Answered'
  OBVIOUS
<1>1. Idle.kind = "idle" /\ NoResult.kind = "none"
  BY DEF Idle, NoResult
<1>2. ASSUME NEW c \in Calls, Begin(c) PROVE Answered'
  <2>1. c.kind = "handshake" => c.supported \in Ranges
    <3>1. stage \in {"launched", "new", "authenticated", "connected", "open"}
      BY DEF Inv, Typed
    <3>2. CASE stage = "launched"
      BY <3>2 DEF Calls
    <3>3. CASE stage = "open"
      BY <3>3 DEF Calls
    <3> QED
      BY <3>1, <3>2, <3>3 DEF Calls
  <2> QED
    BY <1>1, <1>2, <2>1, RangesAreRanges DEF Begin, Answered
<1>3. ASSUME AnswerHandshake PROVE Answered'
  BY <1>1, <1>3 DEF AnswerHandshake, Over, Answered
<1>4. ASSUME NEW m, NEW p, NEW r, AnswerMatched(m, p, r) PROVE Answered'
  <2>1. call' = Idle /\ (result' = NoResult \/ result'.kind = "reading")
    BY <1>4 DEF AnswerMatched, Over
  <2> QED
    BY <1>1, <2>1 DEF Answered
<1>5. ASSUME NEW r, AnswerAsset(r) PROVE Answered'
  <2>1. call' = Idle /\ (result' = NoResult \/ result'.kind = "asset")
    BY <1>5 DEF AnswerAsset, Over
  <2> QED
    BY <1>1, <2>1 DEF Answered
<1> DEFINE other == result' = result /\ call' \in {call, Idle}
<1>6. CASE other
  BY <1>1, <1>6 DEF Answered
<1>7. ASSUME NEW a \in Accounts, UserChange(a) \/ Gather(a) PROVE other
  BY <1>7 DEF UserChange, Gather, host
<1>8. ASSUME NEW f \in Failures, Fail(f) PROVE other
  BY <1>8 DEF Fail, Over, GoOn, host
<1>9. ASSUME NEW p \in Progresses, AnswerAuthentication(p) PROVE other
  BY <1>9 DEF AnswerAuthentication, Over, GoOn
<1>10. ASSUME NEW list \in Lists, AnswerOpen(list) \/ AnswerDiscover(list) PROVE other
  BY <1>10 DEF AnswerOpen, AnswerDiscover, Over
<1>11. ASSUME NEW c, AnswerUnmatched \/ AnswerAmbiguous(c) PROVE other
  BY <1>11 DEF AnswerUnmatched, AnswerAmbiguous, Over, GoOn, host
<1>12. ASSUME Poll \/ UserAnswers \/ TimeIsUp \/ Cancel \/ UNCHANGED vars PROVE other
  BY <1>12 DEF Poll, UserAnswers, TimeIsUp, Cancel, Again, Over, vars, host
<1> HIDE DEF other
<1>13. CASE Answer
  BY <1>3, <1>4, <1>5, <1>6, <1>8, <1>9, <1>10, <1>11, <1>13 DEF Answer
<1> QED
  BY <1>2, <1>6, <1>7, <1>12, <1>13 DEF Next

-----------------------------------------------------------------------------

\* negotiate_protocol accepts exactly the ranges that contain the current
\* release, and its refusals say what is wrong with the others.
THEOREM AnswersJustified == Spec => []AnswerJustified
<1>1. Init => Answered
  BY DEF Init, Idle, NoResult, Answered
<1>2. Answered => AnswerJustified
  <2> SUFFICES ASSUME Answered, result.kind = "handshake"
               PROVE  Justified(result.supported, result.answer)
    BY DEF AnswerJustified
  <2> DEFINE range == result.supported
             answer == result.answer
  <2>1. PICK min \in Version \cup {Missing}, max \in Version \cup {Missing} :
          range = [minimum |-> min, maximum |-> max]
    BY DEF Answered, VersionRange
  <2>2. answer = Negotiate(range)
    BY DEF Answered
  <2>3. range.minimum = min /\ range.maximum = max
    BY <2>1
  <2> HIDE DEF range, answer
  <2>4. CASE min = Missing \/ max = Missing
    BY <2>2, <2>3, <2>4 DEF Justified, Bounded, Negotiate, range, answer
  <2>5. CASE min \in Version /\ max \in Version
    <3>1. Bounded(range)
      BY <2>3, <2>5, MissingAssumption DEF Bounded
    <3>2. Exact(range, min, max)
      BY <2>1, <2>5, NegotiateExact
    <3>3. answer \notin {"MissingMinimum", "MissingMaximum"}
      BY <2>2, <3>2 DEF Exact
    <3>4. Justified(range, answer)
      BY <2>2, <2>3, <3>1, <3>2, <3>3, Zenon DEF Justified, Exact
    <3> QED
      BY <3>4 DEF range, answer
  <2> QED
    BY <2>4, <2>5
<1> QED
  BY <1>1, <1>2, InvInit, InvStep, AnsweredStep, PTL DEF Spec

\* Every value a host takes from a reading is of the field it asked for and of
\* the account of the source it asked, although sources are named by keys alone
\* and fields are told apart by their order.
THEOREM ReadingsAreTrue == Spec => []ReadingsTrue
<1>1. Inv => ReadingsTrue
  BY DEF Inv
<1> QED
  BY <1>1, InvInit, InvStep, PTL DEF Spec

\* An asset that asset_response accepts is a whole version of it, however often
\* it was replaced while it was read.
THEOREM AssetsAreWhole == Spec => []AssetWhole
<1>1. Inv => AssetWhole
  BY DEF Inv, AssetKept, VersionsOf, AssetWhole
<1> QED
  BY <1>1, InvInit, InvStep, PTL DEF Spec

=============================================================================
