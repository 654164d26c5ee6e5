----------------------------- MODULE Bootstrap ------------------------------
(***************************************************************************)
(* Launching provider processes.  The host starts a process, writes one    *)
(* LaunchRequest to its stdin and reads its stdout to the end; the process *)
(* binds a listener, writes one ReadyMessage, closes stdout and serves RPC *)
(* calls that carry the launch token.                                      *)
(*                                                                         *)
(* A host may launch again while an earlier process still runs, and the    *)
(* output of that process may reach it late.  Processes end at any time,   *)
(* and the ports they held are taken by others.  Launch n is its own       *)
(* process instance id and its own token, which the host never uses again. *)
(* Abstracted: the encoding, the bootstrap version and sizes, which only   *)
(* decide whether a message is well formed.                                *)
(***************************************************************************)
EXTENDS Integers, FiniteSets

CONSTANTS
  MaxLaunches,  \* bound: processes the host starts
  Ports,        \* bound: ports of the machine, not 0
  MaxCalls      \* bound: calls on their way

ASSUME LaunchesAssumption == MaxLaunches \in Nat \ {0} /\ MaxCalls \in Nat \ {0}
ASSUME PortsAssumption == Ports \subseteq Nat \ {0} /\ Ports # {}

Launches == 1 .. MaxLaunches
AnyPort == 0
NotLoopback == -1       \* any address that is not a loopback address

VARIABLES
  current,    \* the launch the host is at; 0 before the first
  bind,       \* launch -> bind address of its request
  phase,      \* launch -> what its process is doing
  port,       \* launch -> port its listener holds, or 0
  output,     \* launch -> the ready messages on its stdout
  open,       \* launches whose stdout is open
  host,       \* "waiting" for the current launch, "connected", or "failed"
  address,    \* the address the host is connected to, or 0
  calls,      \* calls on their way to a port
  served      \* history: which process served a call of which launch

vars == <<current, bind, phase, port, output, open, host, address, calls, served>>
process == <<phase, port, output, open>>

Listening == {"bound", "announced", "serving"}

Ready(n, p) == [process_instance_id |-> n, launch_token |-> n, address |-> p]
Request(n) == [process_instance_id |-> n, launch_token |-> n, bind_address |-> bind[n]]

-----------------------------------------------------------------------------
(* Mutated forms of the code. *)

ReadyForAny(ready, launch) == launch.bind_address # NotLoopback /\ ready.address # AnyPort

AdmitsAny(token, n) == TRUE

\* serve_adapter without drop(ready_writer)
ServeKeepsWriter(n) ==
  /\ phase[n] = "announced"
  /\ phase' = [phase EXCEPT ![n] = "serving"]
  /\ UNCHANGED <<port, output, open>>

-----------------------------------------------------------------------------
(* Messages and tokens *)

\* LaunchRequest::validate
ValidLaunch(launch) == launch.bind_address # NotLoopback

\* ReadyMessage::validate
ValidReady(ready) == ready.address \notin {NotLoopback, AnyPort}

\* ReadyMessage::validate_for
ReadyFor(ready, launch) ==
  /\ ValidLaunch(launch)
  /\ ValidReady(ready)
  /\ ready.process_instance_id = launch.process_instance_id
  /\ ready.launch_token = launch.launch_token

\* LaunchTokenInterceptor::call
Admits(token, n) == token = Request(n).launch_token

-----------------------------------------------------------------------------
(* A process: read_launch_request, then serve_adapter *)

Gone(n) ==
  /\ phase' = [phase EXCEPT ![n] = "gone"]
  /\ port' = [port EXCEPT ![n] = 0]
  /\ open' = open \ {n}
  /\ UNCHANGED output

ReadLaunch(n) ==
  /\ phase[n] = "spawned"
  /\ IF ValidLaunch(Request(n))
     THEN phase' = [phase EXCEPT ![n] = "launched"] /\ UNCHANGED <<port, output, open>>
     ELSE Gone(n)

\* TcpListener::bind: a port of the system's choice, or the one asked for
Listen(n) ==
  /\ phase[n] = "launched"
  /\ LET taken == {port[m] : m \in Launches}
         eligible == IF bind[n] = AnyPort THEN Ports \ taken ELSE {bind[n]} \ taken
     IN  \/ \E p \in eligible :
              /\ port' = [port EXCEPT ![n] = p]
              /\ phase' = [phase EXCEPT ![n] = "bound"]
              /\ UNCHANGED <<output, open>>
         \/ eligible = {} /\ Gone(n)

\* write_ready_message; a bound listener has a port, so the message is valid
Announce(n) ==
  /\ phase[n] = "bound"
  /\ ValidReady(Ready(n, port[n]))
  /\ output' = [output EXCEPT ![n] = @ \cup {Ready(n, port[n])}]
  /\ phase' = [phase EXCEPT ![n] = "announced"]
  /\ UNCHANGED <<port, open>>

\* drop(ready_writer), and the server from then on; the writer is the stdout,
\* which is closed by it
Serve(n) ==
  /\ phase[n] = "announced"
  /\ phase' = [phase EXCEPT ![n] = "serving"]
  /\ open' = open \ {n}
  /\ UNCHANGED <<port, output>>

\* Shutdown, a crash, or a kill.
End(n) == phase[n] \notin {"none", "gone"} /\ Gone(n)

Process(n) ==
  /\ ReadLaunch(n) \/ Listen(n) \/ Announce(n) \/ Serve(n)
  /\ UNCHANGED <<current, bind, host, address, calls, served>>

\* A call reaches the port it was sent to.
Arrive(c) ==
  /\ c \in calls
  /\ calls' = calls \ {c}
  /\ \/ \E n \in Launches :
          /\ phase[n] = "serving" /\ port[n] = c.port
          /\ served' = IF Admits(c.token, n)
                       THEN served \cup {[launch |-> c.launch, process |-> n]}
                       ELSE served
     \/ c.port \notin {port[n] : n \in Launches} /\ UNCHANGED served
  /\ UNCHANGED <<current, bind, phase, port, output, open, host, address>>

-----------------------------------------------------------------------------
(* The host *)

Init ==
  /\ current = 0
  /\ bind = [n \in Launches |-> AnyPort]
  /\ phase = [n \in Launches |-> "none"]
  /\ port = [n \in Launches |-> 0]
  /\ output = [n \in Launches |-> {}]
  /\ open = {}
  /\ host = "failed" /\ address = 0
  /\ calls = {} /\ served = {}

\* The first launch, or another one: after a failure, a lost connection, or
\* because the host has lost patience.
Launch(b) ==
  /\ current < MaxLaunches
  /\ current' = current + 1
  /\ bind' = [bind EXCEPT ![current'] = b]
  /\ phase' = [phase EXCEPT ![current'] = "spawned"]
  /\ open' = open \cup {current'}
  /\ host' = "waiting" /\ address' = 0
  /\ UNCHANGED <<port, output, calls, served>>

\* The output of a process has come to its end; parse_ready_message against
\* the launch the host is at now, whichever process wrote it.
ReadOutput(n) ==
  /\ host = "waiting"
  /\ n <= current /\ n \notin open
  /\ IF \E ready \in output[n] : ReadyFor(ready, Request(current))
     THEN /\ host' = "connected"
          /\ \E ready \in output[n] : address' = ready.address
     ELSE /\ host' = IF n = current THEN "failed" ELSE host
          /\ UNCHANGED address
  /\ output' = [output EXCEPT ![n] = {}]
  /\ UNCHANGED <<current, bind, phase, port, open, calls, served>>

\* LaunchToken::apply
Call ==
  /\ host = "connected"
  /\ Cardinality(calls) < MaxCalls
  /\ calls' = calls \cup {[launch |-> current, token |-> current, port |-> address]}
  /\ UNCHANGED <<current, bind, phase, port, output, open, host, address, served>>

Next ==
  \/ \E b \in Ports \cup {AnyPort, NotLoopback} : Launch(b)
  \/ \E n \in Launches : Process(n) \/ ReadOutput(n)
  \/ \E n \in Launches : End(n) /\ UNCHANGED <<current, bind, host, address, calls, served>>
  \/ \E c \in calls : Arrive(c)
  \/ Call

Spec == Init /\ [][Next]_vars

\* Processes run and the host reads what they wrote; nobody need end, launch or call.
FairSpec ==
  /\ Spec
  /\ \A n \in Launches : WF_vars(Process(n)) /\ WF_vars(ReadOutput(n))

-----------------------------------------------------------------------------

\* The address the host connects to is the one the process of its current
\* launch listens on, unless that process has ended: outputs of earlier
\* processes that arrive late do not connect it to their ports, and a process
\* is reachable from the moment its readiness is known.
ConnectedToOwn ==
  host = "connected" =>
    \/ phase[current] = "gone"
    \/ phase[current] \in Listening /\ port[current] = address

\* A call is served by the process its launch started, although ports are
\* reused and hosts keep calling an address after its process has ended.
ServedByOwn == \A s \in served : s.process = s.launch

\* A launch is decided without a timeout: every way it can fail ends the
\* output, and a provider that serves has closed it.
LaunchDecided == host = "waiting" ~> host # "waiting"

=============================================================================
