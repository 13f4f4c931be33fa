------------------------------ MODULE Startup ------------------------------
(***************************************************************************)
(* How a client of the latency benchmark and a bridge find each other and  *)
(* agree to begin, over a socket file that outlives its bridge: bridges    *)
(* start, are signalled, fail and are killed; clients connect, wait for    *)
(* the hello, ask for a mode and wait for STARTED.                         *)
(*                                                                         *)
(* All processes belong to one user and use one path.  What happens        *)
(* between STARTED and the end of a session is the subject of Session.     *)
(***************************************************************************)
EXTENDS Integers, Sequences

CONSTANTS
  Bridges,      \* bridge processes; a restart is another process
  Clients,      \* client processes
  None,         \* nobody
  MaxAttempts   \* bound: tries to connect, 500 in the code

ASSUME StartupAssumption ==
  /\ None \notin Bridges \cup Clients
  /\ MaxAttempts \in Nat \ {0}

VARIABLES
  path,        \* the bridge whose socket the file names
  bridge,      \* where each bridge is
  stop,        \* its stop_requested
  queue,       \* the clients in the backlog of its listening socket
  peer,        \* the client it has accepted
  client,      \* where each client is
  attempts,    \* its failed tries to connect, while it tries
  server,      \* the bridge it is connected to
  toClient,    \* what is on its way to it,
  toBridge,    \* and from it
  overlapped   \* history: bridges that did not have the path to themselves

bridgeVars == <<path, bridge, stop, queue, peer, overlapped>>
clientVars == <<client, attempts, server>>
wires == <<toClient, toBridge>>
vars == <<bridgeVars, clientVars, wires>>

BridgeOver == {"ended", "failed", "refused"}
ClientOver == {"done", "dead"}
Listening  == {"accept", "hello", "barrier", "read", "answer", "loop", "terminal"}

Alive(b) == bridge[b] \notin BridgeOver \cup {"off"}

\* A bridge closes its sockets before it removes the file; a listening socket
\* takes the connections it has not accepted with it.
Hangup(c) == bridge[server[c]] \in BridgeOver \cup {"unlink"}
PeerGone(b) == client[peer[b]] \in ClientOver

Init ==
  /\ path = None
  /\ bridge = [b \in Bridges |-> "off"] /\ stop = [b \in Bridges |-> FALSE]
  /\ queue = [b \in Bridges |-> <<>>] /\ peer = [b \in Bridges |-> None]
  /\ client = [c \in Clients |-> "off"] /\ attempts = [c \in Clients |-> 0]
  /\ server = [c \in Clients |-> None]
  /\ toClient = [c \in Clients |-> <<>>] /\ toBridge = [c \in Clients |-> <<>>]
  /\ overlapped = [b \in Bridges |-> FALSE]

MoveBridge(b, place) == bridge' = [bridge EXCEPT ![b] = place]
MoveClient(c, place) == client' = [client EXCEPT ![c] = place]
SendClient(c, message) == toClient' = [toClient EXCEPT ![c] = Append(@, message)]
SendBridge(c, message) == toBridge' = [toBridge EXCEPT ![c] = Append(@, message)]

-----------------------------------------------------------------------------
\* The bridge: setup_listening_socket.

Overlap(b) ==
  LET others == {o \in Bridges \ {b} : Alive(o)}
  IN  overlapped' = [o \in Bridges |->
                       overlapped[o] \/ (others # {} /\ o \in others \cup {b})]

\* (variant for the mutation runs) What an earlier bridge left is not removed.
UnlinkNothing(b) ==
  /\ bridge[b] = "off"
  /\ Overlap(b)
  /\ MoveBridge(b, "bind")
  /\ UNCHANGED <<path, stop, queue, peer, clientVars, wires>>

\* The program starts and removes whatever is at the path.
Unlink(b) ==
  /\ bridge[b] = "off"
  /\ Overlap(b)
  /\ path' = None
  /\ MoveBridge(b, "bind")
  /\ UNCHANGED <<stop, queue, peer, clientVars, wires>>

Bind(b) ==
  /\ bridge[b] = "bind"
  /\ \/ path = None /\ path' = b /\ MoveBridge(b, "listen")
     \/ path # None /\ MoveBridge(b, "refused") /\ UNCHANGED path
  /\ UNCHANGED <<stop, queue, peer, overlapped, clientVars, wires>>

\* chmod and chown look the path up again; then listen.  Each of them may fail.
Listen(b) ==
  /\ bridge[b] = "listen"
  /\ \/ path # None /\ MoveBridge(b, "accept")
     \/ MoveBridge(b, "withdraw")
  /\ UNCHANGED <<path, stop, queue, peer, overlapped, clientVars, wires>>

\* After such a failure what is at the path is removed, whoever put it there.
Withdraw(b) ==
  /\ bridge[b] = "withdraw"
  /\ path' = None
  /\ MoveBridge(b, "failed")
  /\ UNCHANGED <<stop, queue, peer, overlapped, clientVars, wires>>

-----------------------------------------------------------------------------
\* The bridge: one client.

\* accept_client_and_send_hello.  accept blocks, and does not look at the flag.
Accept(b) ==
  /\ bridge[b] = "accept" /\ queue[b] # <<>>
  /\ peer' = [peer EXCEPT ![b] = Head(queue[b])]
  /\ queue' = [queue EXCEPT ![b] = Tail(@)]
  /\ MoveBridge(b, "hello")
  /\ UNCHANGED <<path, stop, overlapped, clientVars, wires>>

\* A hello to a client that has died in the backlog ends the bridge.
SendHello(b) ==
  /\ bridge[b] = "hello"
  /\ \/ ~PeerGone(b) /\ SendClient(peer[b], "HELLO") /\ MoveBridge(b, "barrier")
     \/ PeerGone(b) /\ MoveBridge(b, "failed") /\ UNCHANGED toClient
  /\ UNCHANGED <<path, stop, queue, peer, overlapped, clientVars, toBridge>>

\* wait_for_start_barrier: poll looks for a hangup before a message is read.
PollBarrier(b) ==
  /\ bridge[b] = "barrier"
  /\ \/ stop[b] /\ MoveBridge(b, "terminal")
     \/ ~stop[b] /\ PeerGone(b) /\ MoveBridge(b, "failed")
     \/ ~stop[b] /\ ~PeerGone(b) /\ toBridge[peer[b]] # <<>> /\ MoveBridge(b, "read")
  /\ UNCHANGED <<path, stop, queue, peer, overlapped, clientVars, wires>>

\* The mode comes first, START second; only START is answered.
ReadBarrier(b) ==
  /\ bridge[b] = "read"
  /\ toBridge' = [toBridge EXCEPT ![peer[b]] = Tail(@)]
  /\ MoveBridge(b, IF Head(toBridge[peer[b]]) = "START" THEN "answer" ELSE "barrier")
  /\ UNCHANGED <<path, stop, queue, peer, overlapped, clientVars, toClient>>

\* The source is armed, or what it holds discarded, before STARTED is sent;
\* either may fail.
AnswerStart(b) ==
  /\ bridge[b] = "answer"
  /\ \/ ~PeerGone(b) /\ SendClient(peer[b], "STARTED") /\ MoveBridge(b, "loop")
     \/ MoveBridge(b, "failed") /\ UNCHANGED toClient
  /\ UNCHANGED <<path, stop, queue, peer, overlapped, clientVars, toBridge>>

\* handle_control_message, in the loop and while the last acknowledgement is
\* awaited: a mode or a START is not answered any more.
ReadControl(b) ==
  /\ bridge[b] \in {"loop", "terminal"} /\ toBridge[peer[b]] # <<>>
  /\ toBridge' = [toBridge EXCEPT ![peer[b]] = Tail(@)]
  /\ stop' = [stop EXCEPT ![b] = @ \/ Head(toBridge[peer[b]]) = "STOP"]
  /\ UNCHANGED <<path, bridge, queue, peer, overlapped, clientVars, toClient>>

\* A stop or a hangup ends the loop.
LeaveLoop(b) ==
  /\ bridge[b] = "loop" /\ (stop[b] \/ PeerGone(b))
  /\ MoveBridge(b, "terminal")
  /\ UNCHANGED <<path, stop, queue, peer, overlapped, clientVars, wires>>

\* --duration.
DurationOver(b) ==
  /\ bridge[b] = "loop"
  /\ MoveBridge(b, "terminal")
  /\ UNCHANGED <<path, stop, queue, peer, overlapped, clientVars, wires>>

\* wait_for_terminal_ack is over, at the latest by its deadline; the sockets close.
CloseSockets(b) ==
  /\ bridge[b] = "terminal"
  /\ MoveBridge(b, "unlink")
  /\ UNCHANGED <<path, stop, queue, peer, overlapped, clientVars, wires>>

\* The last step removes whatever is at the path.
RemovePath(b) ==
  /\ bridge[b] = "unlink"
  /\ path' = None
  /\ MoveBridge(b, "ended")
  /\ UNCHANGED <<stop, queue, peer, overlapped, clientVars, wires>>

\* SIGINT or SIGTERM.  It interrupts accept, which is fatal, or comes before
\* accept and is not seen until a client has come.
Signal(b) ==
  /\ Alive(b) /\ ~stop[b]
  /\ \/ stop' = [stop EXCEPT ![b] = TRUE] /\ UNCHANGED bridge
     \/ bridge[b] = "accept" /\ MoveBridge(b, "failed") /\ UNCHANGED stop
  /\ UNCHANGED <<path, queue, peer, overlapped, clientVars, wires>>

\* What is fatal, and SIGKILL, leave the file where it is.
KillBridge(b) ==
  /\ Alive(b)
  /\ MoveBridge(b, "failed")
  /\ UNCHANGED <<path, stop, queue, peer, overlapped, clientVars, wires>>

BridgeStep(b) ==
  \/ Bind(b) \/ Listen(b) \/ Withdraw(b) \/ Accept(b) \/ SendHello(b)
  \/ PollBarrier(b) \/ ReadBarrier(b) \/ AnswerStart(b)
  \/ ReadControl(b) \/ LeaveLoop(b) \/ CloseSockets(b) \/ RemovePath(b)

-----------------------------------------------------------------------------
\* The client.

StartClient(c) ==
  /\ client[c] = "off"
  /\ MoveClient(c, "connect")
  /\ UNCHANGED <<bridgeVars, attempts, server, wires>>

\* (variant for the mutation runs) One try too many.
ConnectOnceMore(c) ==
  /\ client[c] = "connect"
  /\ IF path # None /\ bridge[path] \in Listening
     THEN /\ Len(queue[path]) <= 1
          /\ queue' = [queue EXCEPT ![path] = Append(@, c)]
          /\ server' = [server EXCEPT ![c] = path]
          /\ MoveClient(c, "hello")
          /\ attempts' = [attempts EXCEPT ![c] = 0]
     ELSE /\ IF attempts[c] + 1 <= MaxAttempts
             THEN attempts' = [attempts EXCEPT ![c] = @ + 1] /\ UNCHANGED client
             ELSE attempts' = [attempts EXCEPT ![c] = 0] /\ MoveClient(c, "dead")
          /\ UNCHANGED <<queue, server>>
  /\ UNCHANGED <<path, bridge, stop, peer, overlapped, wires>>

\* connect_socket: no file, or nobody who listens behind it, is tried again;
\* a backlog (of 1) that has been exceeded makes connect wait.
Connect(c) ==
  /\ client[c] = "connect"
  /\ IF path # None /\ bridge[path] \in Listening
     THEN /\ Len(queue[path]) <= 1
          /\ queue' = [queue EXCEPT ![path] = Append(@, c)]
          /\ server' = [server EXCEPT ![c] = path]
          /\ MoveClient(c, "hello")
          /\ attempts' = [attempts EXCEPT ![c] = 0]
     ELSE /\ IF attempts[c] + 1 < MaxAttempts
             THEN attempts' = [attempts EXCEPT ![c] = @ + 1] /\ UNCHANGED client
             ELSE attempts' = [attempts EXCEPT ![c] = 0] /\ MoveClient(c, "dead")
          /\ UNCHANGED <<queue, server>>
  /\ UNCHANGED <<path, bridge, stop, peer, overlapped, wires>>

\* (variant for the mutation runs) The end of the connection is read again.
ReceiveHelloAgain(c) ==
  /\ client[c] = "hello"
  /\ toClient[c] # <<>>
  /\ toClient' = [toClient EXCEPT ![c] = Tail(@)] /\ MoveClient(c, "mode")
  /\ UNCHANGED <<bridgeVars, attempts, server, toBridge>>

\* receive_hello: die when the connection ends before it.
ReceiveHello(c) ==
  /\ client[c] = "hello"
  /\ \/ /\ toClient[c] # <<>>
        /\ toClient' = [toClient EXCEPT ![c] = Tail(@)] /\ MoveClient(c, "mode")
     \/ toClient[c] = <<>> /\ Hangup(c) /\ MoveClient(c, "dead") /\ UNCHANGED toClient
  /\ UNCHANGED <<bridgeVars, attempts, server, toBridge>>

\* send_mode and the first half of synchronize_start.
SendRequest(c, place, message, next) ==
  /\ client[c] = place
  /\ \/ ~Hangup(c) /\ SendBridge(c, message) /\ MoveClient(c, next)
     \/ Hangup(c) /\ MoveClient(c, "dead") /\ UNCHANGED toBridge
  /\ UNCHANGED <<bridgeVars, attempts, server, toClient>>

SendMode(c)  == SendRequest(c, "mode", "SET_MODE", "start")
SendStart(c) == SendRequest(c, "start", "START", "wait")

\* synchronize_start: a bridge that has left messages unread resets the
\* connection; the end of the connection is not an error and is read for ever.
ReceiveStarted(c) ==
  /\ client[c] = "wait"
  /\ \/ /\ Hangup(c) /\ toBridge[c] # <<>>
        /\ MoveClient(c, "dead") /\ UNCHANGED toClient
     \/ /\ toClient[c] # <<>> /\ ~(Hangup(c) /\ toBridge[c] # <<>>)
        /\ toClient' = [toClient EXCEPT ![c] = Tail(@)] /\ MoveClient(c, "started")
  /\ UNCHANGED <<bridgeVars, attempts, server, toBridge>>

\* The frame loop ends; STOP is sent, whether or not anybody reads it.
SendStop(c) ==
  /\ client[c] = "started"
  /\ MoveClient(c, "stopping")
  /\ IF Hangup(c) THEN UNCHANGED toBridge ELSE SendBridge(c, "STOP")
  /\ UNCHANGED <<bridgeVars, attempts, server, toClient>>

Exit(c) ==
  /\ client[c] = "stopping"
  /\ MoveClient(c, "done")
  /\ UNCHANGED <<bridgeVars, attempts, server, wires>>

\* A signal before the handlers are installed, or SIGKILL.
KillClient(c) ==
  /\ client[c] \notin ClientOver \cup {"off"}
  /\ MoveClient(c, "dead")
  /\ attempts' = [attempts EXCEPT ![c] = 0]
  /\ UNCHANGED <<bridgeVars, server, wires>>

ClientStep(c) ==
  \/ Connect(c) \/ ReceiveHello(c) \/ SendMode(c) \/ SendStart(c)
  \/ ReceiveStarted(c) \/ SendStop(c) \/ Exit(c)

-----------------------------------------------------------------------------
Over ==
  /\ \A b \in Bridges : bridge[b] \in BridgeOver
  /\ \A c \in Clients : client[c] \in ClientOver
  /\ UNCHANGED vars

Next ==
  \/ \E b \in Bridges :
       BridgeStep(b) \/ Unlink(b) \/ DurationOver(b) \/ Signal(b) \/ KillBridge(b)
  \/ \E c \in Clients : ClientStep(c) \/ StartClient(c) \/ KillClient(c)
  \/ Over

Spec == Init /\ [][Next]_vars

\* What has been started runs; nothing has to be started, signalled or killed.
FairSpec ==
  /\ Spec
  /\ \A b \in Bridges : WF_vars(BridgeStep(b))
  /\ \A c \in Clients : WF_vars(ClientStep(c))

-----------------------------------------------------------------------------
\* The processes are at places of the code and the wires hold its messages.
TypeOK ==
  /\ path \in Bridges \cup {None}
  /\ bridge \in [Bridges -> BridgeOver \cup Listening \cup {"off", "bind", "listen", "withdraw",
                                                            "unlink"}]
  /\ stop \in [Bridges -> BOOLEAN] /\ overlapped \in [Bridges -> BOOLEAN]
  /\ queue \in [Bridges -> Seq(Clients)] /\ \A b \in Bridges : Len(queue[b]) <= 2
  /\ peer \in [Bridges -> Clients \cup {None}]
  /\ client \in [Clients -> ClientOver \cup {"off", "connect", "hello", "mode", "start",
                                             "wait", "started", "stopping"}]
  /\ attempts \in [Clients -> 0 .. MaxAttempts - 1]
  /\ server \in [Clients -> Bridges \cup {None}]
  /\ toClient \in [Clients -> Seq({"HELLO", "STARTED"})]
  /\ toBridge \in [Clients -> Seq({"SET_MODE", "START", "STOP"})]

\* Whatever a bridge that failed or was killed at any point has left behind, the
\* next one gets the path, and keeps it until it removes it itself, as long as no
\* other bridge is alive (setup_listening_socket, main).
AloneOwnsPath ==
  \A b \in Bridges : ~overlapped[b] =>
    /\ bridge[b] # "refused"
    /\ bridge[b] \in Listening \cup {"listen", "withdraw", "unlink"} => path = b

\* The one end of a start that the client does not notice: START has been read
\* by a bridge that is gone without having answered.
Stranded(c) ==
  client[c] = "wait" /\ Hangup(c) /\ toBridge[c] = <<>> /\ toClient[c] = <<>>

\* A client that looks for its bridge is started, gives up or dies with the
\* bridge, in whatever order bridges come and go, also while it waits behind
\* another client (connect_socket, receive_hello, send_mode, synchronize_start).
StartResolves ==
  \A c \in Clients :
    client[c] = "connect" ~> \/ client[c] \in {"started", "stopping"} \cup ClientOver
                             \/ Stranded(c)
=============================================================================
