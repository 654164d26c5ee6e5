------------------------- MODULE ConnectionProofs --------------------------
(***************************************************************************)
(* A host comes by a connection by launching a process of its own.         *)
(*                                                                         *)
(* Launches reach their own process, for any number of launches, ports and *)
(* calls.  ConnectedToOwn is not inductive: what the host reads was        *)
(* written earlier, by a process that may have gone on or ended since.     *)
(* Own says whose output it is and where its writer can be found now;      *)
(* Located says which processes hold a port.  ServedByOwn rests on calls   *)
(* carrying the token of the launch they are made for.                     *)
(***************************************************************************)
EXTENDS Bootstrap, TLAPS

Phases == {"none", "spawned", "launched", "bound", "announced", "serving", "gone"}

\* Only what the steps below rely on.
Typed ==
  /\ current \in 0 .. MaxLaunches
  /\ bind \in [Launches -> Ports \cup {AnyPort, NotLoopback}]
  /\ phase \in [Launches -> Phases]
  /\ port \in [Launches -> Ports \cup {0}]
  /\ DOMAIN output = Launches

\* The process of a launch exists from the launch on, and holds a port while
\* it listens.
Located ==
  /\ \A n \in Launches : phase[n] = "none" <=> n > current
  /\ \A n \in Launches : phase[n] = "launched" => bind[n] # NotLoopback
  /\ \A n \in Launches : phase[n] \in Listening <=> port[n] # 0

\* A process of a launch is where a message says, or has ended.
At(n, p) == phase[n] = "gone" \/ (phase[n] \in Listening /\ port[n] = p)

\* On the output of a process is nothing but its own announcement.
Own ==
  \A n \in Launches : \A ready \in output[n] :
    ready.address \in Ports /\ ready = Ready(n, ready.address) /\ At(n, ready.address)

Connected ==
  host = "connected" => current \in Launches /\ address \in Ports /\ At(current, address)

CallsOfLaunch == \A c \in calls : c.token = c.launch

Inv ==
  /\ Typed
  /\ Located
  /\ Own
  /\ Connected
  /\ CallsOfLaunch
  /\ ServedByOwn

-----------------------------------------------------------------------------

LEMMA InvInit == Init => Inv
BY LaunchesAssumption DEF Init, Inv, Typed, Located, Own, Connected, CallsOfLaunch, ServedByOwn,
                          Launches, Phases, Listening

\* A step of a process, its end included: what was announced stays where it
\* was announced or is gone with its process.
ProcessStep(n) ==
  /\ ReadLaunch(n) \/ Listen(n) \/ Announce(n) \/ Serve(n) \/ End(n)
  /\ UNCHANGED <<current, bind, host, address, calls, served>>

\* How phase and port change with the steps of a process.
LEMMA ProcessMoves ==
  ASSUME Inv, NEW n \in Launches, ProcessStep(n)
  PROVE  /\ Typed' /\ Located'
         /\ \A m \in Launches, p \in Ports : At(m, p) => At(m, p)'
         /\ \A m \in Launches : \A ready \in output'[m] :
              \/ ready \in output[m]
              \/ /\ ready.address \in Ports /\ ready = Ready(m, ready.address)
                 /\ At(m, ready.address)'
<1> USE PortsAssumption DEF Inv, Typed, Located, At, ProcessStep, Phases, Listening, AnyPort, NotLoopback
<1>1. CASE ReadLaunch(n)
  BY <1>1 DEF ReadLaunch, Gone, ValidLaunch, Request
<1>2. CASE Listen(n)
  BY <1>2 DEF Listen, Gone
<1>3. CASE Announce(n)
  <2>1. Ready(n, port[n]).address = port[n]
    BY DEF Ready
  <2>2. port[n] \in Ports
    BY <1>3 DEF Announce
  <2>3. \A m \in Launches : \A ready \in output'[m] :
          ready \in output[m] \/ (m = n /\ ready = Ready(n, port[n]))
    BY <1>3 DEF Announce
  <2> QED
    BY <1>3, <2>1, <2>2, <2>3 DEF Announce
<1>4. CASE Serve(n)
  BY <1>4 DEF Serve
<1>5. CASE End(n)
  BY <1>5 DEF End, Gone
<1> QED
  BY <1>1, <1>2, <1>3, <1>4, <1>5

LEMMA InvProcess ==
  ASSUME Inv, NEW n \in Launches, ProcessStep(n)
  PROVE  Inv'
<1>1. /\ Typed' /\ Located'
      /\ \A m \in Launches, p \in Ports : At(m, p) => At(m, p)'
      /\ \A m \in Launches : \A ready \in output'[m] :
           \/ ready \in output[m]
           \/ /\ ready.address \in Ports /\ ready = Ready(m, ready.address)
              /\ At(m, ready.address)'
  BY ProcessMoves
<1>2. UNCHANGED <<current, host, address, calls, served>>
  BY DEF ProcessStep
<1>3. Own'
  <2> SUFFICES ASSUME NEW m \in Launches, NEW ready \in output'[m]
               PROVE  /\ ready.address \in Ports
                      /\ ready = Ready(m, ready.address)
                      /\ At(m, ready.address)'
    BY DEF Own, Ready
  <2> QED
    BY <1>1 DEF Inv, Own
<1>4. Connected'
  <2> SUFFICES ASSUME host' = "connected"
               PROVE  current' \in Launches /\ address' \in Ports /\ At(current, address)'
    BY DEF Connected
  <2>1. current \in Launches /\ address \in Ports /\ At(current, address)
    BY <1>2 DEF Inv, Connected
  <2> QED
    BY <1>1, <1>2, <2>1
<1>5. CallsOfLaunch' /\ ServedByOwn'
  BY <1>2 DEF Inv, CallsOfLaunch, ServedByOwn
<1> QED
  BY <1>1, <1>3, <1>4, <1>5 DEF Inv

\* The next launch has no process yet, so nothing is announced for it.
LEMMA InvLaunch ==
  ASSUME Inv, NEW b \in Ports \cup {AnyPort, NotLoopback}, Launch(b)
  PROVE  Inv'
<1> USE LaunchesAssumption, PortsAssumption DEF Inv, Launch, Launches
<1>1. /\ current' = current + 1 /\ current' \in Launches /\ current' \in 0 .. MaxLaunches
      /\ phase[current'] = "none" /\ port[current'] = 0
  BY DEF Typed, Located, Listening
<1>2. /\ phase' = [phase EXCEPT ![current'] = "spawned"]
      /\ bind' = [bind EXCEPT ![current'] = b]
      /\ UNCHANGED <<port, output, calls, served>>
      /\ host' = "waiting"
  OBVIOUS
<1> HIDE DEF Launch
<1>3. Typed'
  BY <1>1, <1>2 DEF Typed, Phases
<1>4. Located'
  BY <1>1, <1>2 DEF Typed, Located, Listening
<1>5. Own'
  BY <1>1, <1>2 DEF Typed, Own, At, Listening, Ready
<1>6. Connected'
  BY <1>2 DEF Connected
<1>7. CallsOfLaunch' /\ ServedByOwn'
  BY <1>2 DEF CallsOfLaunch, ServedByOwn
<1> QED
  BY <1>3, <1>4, <1>5, <1>6, <1>7

\* The host connects when an announcement of its current launch is on the
\* output, and only the process of that launch can have put it there.
LEMMA InvReadOutput ==
  ASSUME Inv, NEW n \in Launches, ReadOutput(n)
  PROVE  Inv'
<1>1. /\ output' = [output EXCEPT ![n] = {}]
      /\ UNCHANGED <<current, bind, phase, port, calls, served>>
      /\ n <= current
  BY DEF ReadOutput
<1>2. Typed' /\ Located' /\ Own' /\ CallsOfLaunch' /\ ServedByOwn'
  BY <1>1 DEF Inv, Typed, Located, Own, At, Ready, CallsOfLaunch, ServedByOwn, Listening
<1>3. Connected'
  <2> SUFFICES ASSUME host' = "connected" PROVE Connected'
    BY DEF Connected
  <2>1. PICK ready \in output[n] : ReadyFor(ready, Request(current))
    BY DEF ReadOutput
  <2>2. PICK read \in output[n] : address' = read.address
    BY <2>1 DEF ReadOutput
  <2>3. ready = Ready(n, ready.address) /\ read.address \in Ports /\ At(n, read.address)
    BY DEF Inv, Own
  <2>4. n = current
    BY <2>1, <2>3 DEF ReadyFor, Ready, Request
  <2> QED
    BY <1>1, <2>2, <2>3, <2>4 DEF Connected, At
<1> QED
  BY <1>2, <1>3 DEF Inv

\* A process serves only calls that carry the token of its own launch.
LEMMA InvCalls ==
  ASSUME Inv, Call \/ \E c \in calls : Arrive(c)
  PROVE  Inv'
<1>1. UNCHANGED <<current, bind, phase, port, output, host, address>>
  BY DEF Call, Arrive
<1>2. Typed' /\ Located' /\ Own' /\ Connected'
  BY <1>1 DEF Inv, Typed, Located, Own, At, Connected
<1>3. CASE Call
  BY <1>2, <1>3 DEF Inv, Call, CallsOfLaunch, ServedByOwn
<1>4. CASE \E c \in calls : Arrive(c)
  BY <1>2, <1>4 DEF Inv, Arrive, CallsOfLaunch, ServedByOwn, Admits, Request
<1> QED
  BY <1>3, <1>4

LEMMA InvStep == Inv /\ [Next]_vars => Inv'
<1> SUFFICES ASSUME Inv, [Next]_vars PROVE Inv'
  OBVIOUS
<1>1. ASSUME NEW b \in Ports \cup {AnyPort, NotLoopback}, Launch(b) PROVE Inv'
  BY <1>1, InvLaunch
<1>2. ASSUME NEW n \in Launches, Process(n) PROVE Inv'
  BY <1>2, InvProcess DEF Process, ProcessStep
<1>3. ASSUME NEW n \in Launches, ReadOutput(n) PROVE Inv'
  BY <1>3, InvReadOutput
<1>4. ASSUME NEW n \in Launches, End(n), UNCHANGED <<current, bind, host, address, calls, served>>
      PROVE  Inv'
  BY <1>4, InvProcess DEF ProcessStep
<1>5. CASE Call \/ \E c \in calls : Arrive(c)
  BY <1>5, InvCalls
<1>6. CASE UNCHANGED vars
  BY <1>6 DEF vars, Inv, Typed, Located, Own, At, Connected, CallsOfLaunch, ServedByOwn
<1> QED
  BY <1>1, <1>2, <1>3, <1>4, <1>5, <1>6 DEF Next

-----------------------------------------------------------------------------

\* parse_ready_message and validate_for connect a host to the process of its
\* current launch or, once that has ended, to nobody's but its former port.
THEOREM HostReachesOwnProcess == Spec => []ConnectedToOwn
<1>1. Inv => ConnectedToOwn
  BY DEF Inv, Connected, ConnectedToOwn, At
<1> QED
  BY <1>1, InvInit, InvStep, PTL DEF Spec

\* LaunchTokenInterceptor lets a process serve the calls of its own launch only,
\* whichever ports it has inherited.
THEOREM CallsServedByOwnProcess == Spec => []ServedByOwn
<1>1. Inv => ServedByOwn
  BY DEF Inv
<1> QED
  BY <1>1, InvInit, InvStep, PTL DEF Spec

=============================================================================
