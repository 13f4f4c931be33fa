---------------------------- MODULE StartupProofs ----------------------------
(***************************************************************************)
(* Proofs about Startup, for any number of bridges and clients and any     *)
(* number of tries to connect.                                             *)
(*                                                                         *)
(* StartupInv is inductive.  Its two ideas: a bridge that has never met    *)
(* another one alive finds nothing at the path it unlinked and is named by *)
(* the path from then on; and a client is in the backlog of, or accepted   *)
(* by, the one bridge it has connected to, so that nobody else reads what  *)
(* that bridge has found readable.                                         *)
(***************************************************************************)
EXTENDS Startup, SequenceTheorems, TLAPS

-----------------------------------------------------------------------------
\* Two bridges that are alive have met.
AliveHaveMet ==
  \A b, o \in Bridges : b # o /\ Alive(b) /\ Alive(o) => overlapped[b]

\* A bridge that is alone and has unlinked finds no file when it binds.
UnlinkedWhileAlone ==
  \A b \in Bridges : ~overlapped[b] /\ bridge[b] = "bind" => path = None

HasPeer == {"hello", "barrier", "read", "answer", "loop", "terminal"}

\* A bridge past accept has a client.
AcceptedPeer == \A b \in Bridges : bridge[b] \in HasPeer => peer[b] \in Clients

\* Whoever is in a backlog or accepted has connected to that bridge.
ConnectedHere ==
  /\ \A b \in Bridges : \A i \in 1 .. Len(queue[b]) :
       /\ server[queue[b][i]] = b
       /\ client[queue[b][i]] \notin {"off", "connect"}
  /\ \A b \in Bridges : peer[b] \in Clients =>
       server[peer[b]] = b /\ client[peer[b]] \notin {"off", "connect"}

\* Between poll and read nobody takes the message away.
ReadableIsRead ==
  \A b \in Bridges : bridge[b] = "read" => toBridge[peer[b]] # <<>>

\* The inductive invariant.
StartupInv ==
  /\ TypeOK
  /\ AloneOwnsPath
  /\ AliveHaveMet
  /\ UnlinkedWhileAlone
  /\ AcceptedPeer
  /\ ConnectedHere
  /\ ReadableIsRead

-----------------------------------------------------------------------------
\* Everybody in a backlog is a client.
LEMMA QueuedIsClient ==
  ASSUME TypeOK, NEW b \in Bridges, NEW i \in 1 .. Len(queue[b])
  PROVE  queue[b][i] \in Clients
  BY ElementOfSeq DEF TypeOK

\* What is sent to a client is on its wire.
LEMMA ClientWireGrows ==
  ASSUME TypeOK, NEW c \in Clients, NEW message \in {"HELLO", "STARTED"}, SendClient(c, message)
  PROVE  toClient' \in [Clients -> Seq({"HELLO", "STARTED"})]
<1>1. Append(toClient[c], message) \in Seq({"HELLO", "STARTED"})
  BY AppendProperties DEF TypeOK
<1>2. QED BY <1>1 DEF TypeOK, SendClient

\* What is sent to a bridge is on its wire, which is not empty then.
LEMMA BridgeWireGrows ==
  ASSUME TypeOK, NEW c \in Clients, NEW message \in {"SET_MODE", "START", "STOP"},
         SendBridge(c, message)
  PROVE  /\ toBridge' \in [Clients -> Seq({"SET_MODE", "START", "STOP"})]
         /\ \A k \in Clients : toBridge[k] # <<>> => toBridge'[k] # <<>>
<1>1. toBridge[c] \in Seq({"SET_MODE", "START", "STOP"})
  BY DEF TypeOK
<1>2. /\ Append(toBridge[c], message) \in Seq({"SET_MODE", "START", "STOP"})
      /\ Append(toBridge[c], message) # <<>>
  BY <1>1, AppendProperties
<1>3. toBridge' = [toBridge EXCEPT ![c] = Append(toBridge[c], message)]
  BY DEF SendBridge
<1>4. QED BY <1>2, <1>3 DEF TypeOK

\* A wire whose oldest message is taken is a wire.
LEMMA ClientWireShrinks ==
  ASSUME TypeOK, NEW c \in Clients, toClient[c] # <<>>
  PROVE  [toClient EXCEPT ![c] = Tail(@)] \in [Clients -> Seq({"HELLO", "STARTED"})]
<1>1. Tail(toClient[c]) \in Seq({"HELLO", "STARTED"})
  BY HeadTailProperties DEF TypeOK
<1>2. QED BY <1>1 DEF TypeOK

LEMMA BridgeWireShrinks ==
  ASSUME TypeOK, NEW c \in Clients, toBridge[c] # <<>>
  PROVE  [toBridge EXCEPT ![c] = Tail(@)] \in [Clients -> Seq({"SET_MODE", "START", "STOP"})]
<1>1. Tail(toBridge[c]) \in Seq({"SET_MODE", "START", "STOP"})
  BY HeadTailProperties DEF TypeOK
<1>2. QED BY <1>1 DEF TypeOK

\* A client that has connected may go on as it likes.
LEMMA ClientGoesOn ==
  ASSUME TypeOK, ConnectedHere, NEW c \in Clients, NEW place, place \notin {"off", "connect"},
         MoveClient(c, place), UNCHANGED <<queue, peer, server>>
  PROVE  ConnectedHere'
<1>1. \A k \in Clients : client'[k] = client[k] \/ client'[k] \notin {"off", "connect"}
  BY DEF TypeOK, MoveClient
<1>2. QED
  BY <1>1, QueuedIsClient DEF TypeOK, ConnectedHere

-----------------------------------------------------------------------------
\* StartupInv is preserved by Unlink: the path is empty now, and whoever else is alive is met.
LEMMA UnlinkStep ==
  ASSUME StartupInv, NEW b \in Bridges, Unlink(b)
  PROVE  StartupInv'
<1>1. TypeOK'
  BY DEF StartupInv, TypeOK, BridgeOver, Listening, ClientOver,
     Unlink, Overlap, MoveBridge, clientVars, wires
<1>2. AloneOwnsPath'
  BY StartupAssumption
     DEF StartupInv, TypeOK, AloneOwnsPath, AliveHaveMet, UnlinkedWhileAlone, Alive,
     BridgeOver, Listening, Unlink, Overlap, MoveBridge
<1>3. AliveHaveMet'
  BY DEF StartupInv, TypeOK, AliveHaveMet, Alive, BridgeOver,
     Unlink, Overlap, MoveBridge, clientVars, wires
<1>4. UnlinkedWhileAlone'
  BY DEF StartupInv, TypeOK, UnlinkedWhileAlone,
     Unlink, Overlap, MoveBridge, clientVars, wires
<1>5. AcceptedPeer'
  BY DEF StartupInv, TypeOK, AcceptedPeer, HasPeer,
     Unlink, Overlap, MoveBridge, clientVars, wires
<1>6. ConnectedHere'
  BY DEF StartupInv, TypeOK, ConnectedHere,
     Unlink, Overlap, MoveBridge, clientVars, wires
<1>7. ReadableIsRead'
  BY DEF StartupInv, TypeOK, ReadableIsRead,
     Unlink, Overlap, MoveBridge, clientVars, wires
<1>8. QED BY <1>1, <1>2, <1>3, <1>4, <1>5, <1>6, <1>7 DEF StartupInv

\* StartupInv is preserved by Bind: who is alone finds no file and takes the path.
LEMMA BindStep ==
  ASSUME StartupInv, NEW b \in Bridges, Bind(b)
  PROVE  StartupInv'
<1>1. TypeOK'
  BY DEF StartupInv, TypeOK, BridgeOver, Listening, ClientOver,
     Bind, MoveBridge, clientVars, wires
<1>2. AloneOwnsPath'
  BY StartupAssumption
     DEF StartupInv, TypeOK, AloneOwnsPath, AliveHaveMet, UnlinkedWhileAlone, Alive,
     BridgeOver, Listening, Bind, MoveBridge
<1>3. AliveHaveMet'
  BY DEF StartupInv, TypeOK, AliveHaveMet, Alive, BridgeOver,
     Bind, MoveBridge, clientVars, wires
<1>4. UnlinkedWhileAlone'
  BY DEF StartupInv, TypeOK, AliveHaveMet, UnlinkedWhileAlone, Alive, BridgeOver,
     Listening, Bind, MoveBridge
<1>5. AcceptedPeer'
  BY DEF StartupInv, TypeOK, AcceptedPeer, HasPeer,
     Bind, MoveBridge, clientVars, wires
<1>6. ConnectedHere'
  BY DEF StartupInv, TypeOK, ConnectedHere,
     Bind, MoveBridge, clientVars, wires
<1>7. ReadableIsRead'
  BY DEF StartupInv, TypeOK, ReadableIsRead,
     Bind, MoveBridge, clientVars, wires
<1>8. QED BY <1>1, <1>2, <1>3, <1>4, <1>5, <1>6, <1>7 DEF StartupInv

\* StartupInv is preserved by Listen: who is alone still has the path.
LEMMA ListenStep ==
  ASSUME StartupInv, NEW b \in Bridges, Listen(b)
  PROVE  StartupInv'
<1>1. TypeOK'
  BY DEF StartupInv, TypeOK, BridgeOver, Listening, ClientOver,
     Listen, MoveBridge, clientVars, wires
<1>2. AloneOwnsPath'
  BY StartupAssumption
     DEF StartupInv, TypeOK, AloneOwnsPath, AliveHaveMet, UnlinkedWhileAlone, Alive,
     BridgeOver, Listening, Listen, MoveBridge
<1>3. AliveHaveMet'
  BY DEF StartupInv, TypeOK, AliveHaveMet, Alive, BridgeOver,
     Listen, MoveBridge, clientVars, wires
<1>4. UnlinkedWhileAlone'
  BY DEF StartupInv, TypeOK, UnlinkedWhileAlone,
     Listen, MoveBridge, clientVars, wires
<1>5. AcceptedPeer'
  BY DEF StartupInv, TypeOK, AcceptedPeer, HasPeer,
     Listen, MoveBridge, clientVars, wires
<1>6. ConnectedHere'
  BY DEF StartupInv, TypeOK, ConnectedHere,
     Listen, MoveBridge, clientVars, wires
<1>7. ReadableIsRead'
  BY DEF StartupInv, TypeOK, ReadableIsRead,
     Listen, MoveBridge, clientVars, wires
<1>8. QED BY <1>1, <1>2, <1>3, <1>4, <1>5, <1>6, <1>7 DEF StartupInv

\* StartupInv is preserved by Withdraw: a bridge that is alone removes its own path.
LEMMA WithdrawStep ==
  ASSUME StartupInv, NEW b \in Bridges, Withdraw(b)
  PROVE  StartupInv'
<1>1. TypeOK'
  BY DEF StartupInv, TypeOK, BridgeOver, Listening, ClientOver,
     Withdraw, MoveBridge, clientVars, wires
<1>2. AloneOwnsPath'
  BY StartupAssumption
     DEF StartupInv, TypeOK, AloneOwnsPath, AliveHaveMet, UnlinkedWhileAlone, Alive,
     BridgeOver, Listening, Withdraw, MoveBridge
<1>3. AliveHaveMet'
  BY DEF StartupInv, TypeOK, AliveHaveMet, Alive, BridgeOver,
     Withdraw, MoveBridge, clientVars, wires
<1>4. UnlinkedWhileAlone'
  BY DEF StartupInv, TypeOK, UnlinkedWhileAlone,
     Withdraw, MoveBridge, clientVars, wires
<1>5. AcceptedPeer'
  BY DEF StartupInv, TypeOK, AcceptedPeer, HasPeer,
     Withdraw, MoveBridge, clientVars, wires
<1>6. ConnectedHere'
  BY DEF StartupInv, TypeOK, ConnectedHere,
     Withdraw, MoveBridge, clientVars, wires
<1>7. ReadableIsRead'
  BY DEF StartupInv, TypeOK, ReadableIsRead,
     Withdraw, MoveBridge, clientVars, wires
<1>8. QED BY <1>1, <1>2, <1>3, <1>4, <1>5, <1>6, <1>7 DEF StartupInv

\* StartupInv is preserved by Accept: the head of the backlog has connected here.
LEMMA AcceptStep ==
  ASSUME StartupInv, NEW b \in Bridges, Accept(b)
  PROVE  StartupInv'
<1>1. TypeOK'
  <2>1. /\ Head(queue[b]) \in Clients /\ Tail(queue[b]) \in Seq(Clients)
        /\ Len(Tail(queue[b])) <= 2
    BY HeadTailProperties DEF StartupInv, TypeOK, Accept
  <2>2. QED
    BY <2>1 DEF StartupInv, TypeOK, BridgeOver, Listening, ClientOver, Accept, MoveBridge,
       clientVars, wires
<1>2. AloneOwnsPath'
  BY DEF StartupInv, TypeOK, AloneOwnsPath, Listening,
     Accept, MoveBridge, clientVars, wires
<1>3. AliveHaveMet'
  BY DEF StartupInv, TypeOK, AliveHaveMet, Alive, BridgeOver,
     Accept, MoveBridge, clientVars, wires
<1>4. UnlinkedWhileAlone'
  BY DEF StartupInv, TypeOK, UnlinkedWhileAlone,
     Accept, MoveBridge, clientVars, wires
<1>5. AcceptedPeer'
  BY DEF StartupInv, TypeOK, AcceptedPeer, HasPeer,
     Accept, MoveBridge, clientVars, wires
<1>6. ConnectedHere'
  <2>1. /\ Len(queue[b]) \in Nat /\ Len(queue[b]) >= 1
        /\ Head(queue[b]) = queue[b][1] /\ Len(Tail(queue[b])) = Len(queue[b]) - 1
        /\ \A i \in 1 .. Len(Tail(queue[b])) : Tail(queue[b])[i] = queue[b][i + 1]
                                                /\ i + 1 \in 1 .. Len(queue[b])
    BY HeadTailProperties, EmptySeq DEF StartupInv, TypeOK, Accept
  <2>2. /\ server[Head(queue[b])] = b /\ client[Head(queue[b])] \notin {"off", "connect"}
        /\ \A i \in 1 .. Len(Tail(queue[b])) :
             /\ server[Tail(queue[b])[i]] = b
             /\ client[Tail(queue[b])[i]] \notin {"off", "connect"}
    BY <2>1 DEF StartupInv, ConnectedHere
  <2>3. \A o \in Bridges : o # b => queue'[o] = queue[o] /\ peer'[o] = peer[o]
    BY DEF StartupInv, TypeOK, Accept
  <2>4. queue'[b] = Tail(queue[b]) /\ peer'[b] = Head(queue[b])
    BY DEF StartupInv, TypeOK, Accept
  <2>5. QED
    BY <2>2, <2>3, <2>4 DEF StartupInv, ConnectedHere, Accept, clientVars
<1>7. ReadableIsRead'
  BY DEF StartupInv, TypeOK, ReadableIsRead,
     Accept, MoveBridge, clientVars, wires
<1>8. QED BY <1>1, <1>2, <1>3, <1>4, <1>5, <1>6, <1>7 DEF StartupInv

\* StartupInv is preserved by SendHello: only the wire to the accepted client grows.
LEMMA SendHelloStep ==
  ASSUME StartupInv, NEW b \in Bridges, SendHello(b)
  PROVE  StartupInv'
<1>1. TypeOK'
  <2>1. peer[b] \in Clients
    BY DEF StartupInv, AcceptedPeer, HasPeer, SendHello
  <2>2. toClient' \in [Clients -> Seq({"HELLO", "STARTED"})]
    BY <2>1, ClientWireGrows DEF StartupInv, TypeOK, SendHello
  <2>3. QED
    BY <2>2 DEF StartupInv, TypeOK, BridgeOver, Listening, ClientOver, SendHello, MoveBridge,
       clientVars
<1>2. AloneOwnsPath'
  BY DEF StartupInv, TypeOK, AloneOwnsPath, Listening,
     SendHello, MoveBridge, SendClient, clientVars, wires
<1>3. AliveHaveMet'
  BY DEF StartupInv, TypeOK, AliveHaveMet, Alive, BridgeOver,
     SendHello, MoveBridge, SendClient, clientVars, wires
<1>4. UnlinkedWhileAlone'
  BY DEF StartupInv, TypeOK, UnlinkedWhileAlone,
     SendHello, MoveBridge, SendClient, clientVars, wires
<1>5. AcceptedPeer'
  BY DEF StartupInv, TypeOK, AcceptedPeer, HasPeer,
     SendHello, MoveBridge, SendClient, clientVars, wires
<1>6. ConnectedHere'
  BY DEF StartupInv, TypeOK, ConnectedHere,
     SendHello, MoveBridge, SendClient, clientVars, wires
<1>7. ReadableIsRead'
  BY DEF StartupInv, TypeOK, ReadableIsRead,
     SendHello, MoveBridge, SendClient, clientVars, wires
<1>8. QED BY <1>1, <1>2, <1>3, <1>4, <1>5, <1>6, <1>7 DEF StartupInv

\* StartupInv is preserved by PollBarrier: a message is there before it is read.
LEMMA PollBarrierStep ==
  ASSUME StartupInv, NEW b \in Bridges, PollBarrier(b)
  PROVE  StartupInv'
<1>1. TypeOK'
  BY DEF StartupInv, TypeOK, BridgeOver, Listening, ClientOver,
     PollBarrier, MoveBridge, clientVars, wires
<1>2. AloneOwnsPath'
  BY DEF StartupInv, TypeOK, AloneOwnsPath, Listening,
     PollBarrier, MoveBridge, clientVars, wires
<1>3. AliveHaveMet'
  BY DEF StartupInv, TypeOK, AliveHaveMet, Alive, BridgeOver,
     PollBarrier, MoveBridge, clientVars, wires
<1>4. UnlinkedWhileAlone'
  BY DEF StartupInv, TypeOK, UnlinkedWhileAlone,
     PollBarrier, MoveBridge, clientVars, wires
<1>5. AcceptedPeer'
  BY DEF StartupInv, TypeOK, AcceptedPeer, HasPeer,
     PollBarrier, MoveBridge, clientVars, wires
<1>6. ConnectedHere'
  BY DEF StartupInv, TypeOK, ConnectedHere,
     PollBarrier, MoveBridge, clientVars, wires
<1>7. ReadableIsRead'
  BY DEF StartupInv, TypeOK, ReadableIsRead,
     PollBarrier, MoveBridge, clientVars, wires
<1>8. QED BY <1>1, <1>2, <1>3, <1>4, <1>5, <1>6, <1>7 DEF StartupInv

\* StartupInv is preserved by ReadBarrier: no other bridge reads from the same client.
LEMMA ReadBarrierStep ==
  ASSUME StartupInv, NEW b \in Bridges, ReadBarrier(b)
  PROVE  StartupInv'
<1>1. TypeOK'
  <2>1. peer[b] \in Clients /\ toBridge[peer[b]] # <<>>
    BY DEF StartupInv, AcceptedPeer, ReadableIsRead, HasPeer, ReadBarrier
  <2>2. toBridge' \in [Clients -> Seq({"SET_MODE", "START", "STOP"})]
    BY <2>1, BridgeWireShrinks DEF StartupInv, ReadBarrier
  <2>3. QED
    BY <2>2 DEF StartupInv, TypeOK, BridgeOver, Listening, ClientOver, ReadBarrier, MoveBridge,
       clientVars
<1>2. AloneOwnsPath'
  BY DEF StartupInv, TypeOK, AloneOwnsPath, Listening,
     ReadBarrier, MoveBridge, clientVars, wires
<1>3. AliveHaveMet'
  BY DEF StartupInv, TypeOK, AliveHaveMet, Alive, BridgeOver,
     ReadBarrier, MoveBridge, clientVars, wires
<1>4. UnlinkedWhileAlone'
  BY DEF StartupInv, TypeOK, UnlinkedWhileAlone,
     ReadBarrier, MoveBridge, clientVars, wires
<1>5. AcceptedPeer'
  BY DEF StartupInv, TypeOK, AcceptedPeer, HasPeer,
     ReadBarrier, MoveBridge, clientVars, wires
<1>6. ConnectedHere'
  BY DEF StartupInv, TypeOK, ConnectedHere,
     ReadBarrier, MoveBridge, clientVars, wires
<1>7. ReadableIsRead'
  <2>1. \A o \in Bridges \ {b} : bridge[o] = "read" => peer[o] # peer[b]
    BY DEF StartupInv, AcceptedPeer, ConnectedHere, HasPeer, ReadBarrier
  <2>2. QED
    BY <2>1 DEF StartupInv, TypeOK, ReadableIsRead, AcceptedPeer, HasPeer, ReadBarrier, MoveBridge,
       clientVars
<1>8. QED BY <1>1, <1>2, <1>3, <1>4, <1>5, <1>6, <1>7 DEF StartupInv

\* StartupInv is preserved by AnswerStart: only the wire to the accepted client grows.
LEMMA AnswerStartStep ==
  ASSUME StartupInv, NEW b \in Bridges, AnswerStart(b)
  PROVE  StartupInv'
<1>1. TypeOK'
  <2>1. peer[b] \in Clients
    BY DEF StartupInv, AcceptedPeer, HasPeer, AnswerStart
  <2>2. toClient' \in [Clients -> Seq({"HELLO", "STARTED"})]
    BY <2>1, ClientWireGrows DEF StartupInv, TypeOK, AnswerStart
  <2>3. QED
    BY <2>2 DEF StartupInv, TypeOK, BridgeOver, Listening, ClientOver, AnswerStart, MoveBridge,
       clientVars
<1>2. AloneOwnsPath'
  BY DEF StartupInv, TypeOK, AloneOwnsPath, Listening,
     AnswerStart, MoveBridge, SendClient, clientVars, wires
<1>3. AliveHaveMet'
  BY DEF StartupInv, TypeOK, AliveHaveMet, Alive, BridgeOver,
     AnswerStart, MoveBridge, SendClient, clientVars, wires
<1>4. UnlinkedWhileAlone'
  BY DEF StartupInv, TypeOK, UnlinkedWhileAlone,
     AnswerStart, MoveBridge, SendClient, clientVars, wires
<1>5. AcceptedPeer'
  BY DEF StartupInv, TypeOK, AcceptedPeer, HasPeer,
     AnswerStart, MoveBridge, SendClient, clientVars, wires
<1>6. ConnectedHere'
  BY DEF StartupInv, TypeOK, ConnectedHere,
     AnswerStart, MoveBridge, SendClient, clientVars, wires
<1>7. ReadableIsRead'
  BY DEF StartupInv, TypeOK, ReadableIsRead,
     AnswerStart, MoveBridge, SendClient, clientVars, wires
<1>8. QED BY <1>1, <1>2, <1>3, <1>4, <1>5, <1>6, <1>7 DEF StartupInv

\* StartupInv is preserved by ReadControl: no other bridge reads from the same client.
LEMMA ReadControlStep ==
  ASSUME StartupInv, NEW b \in Bridges, ReadControl(b)
  PROVE  StartupInv'
<1>1. TypeOK'
  <2>1. peer[b] \in Clients /\ toBridge[peer[b]] # <<>>
    BY DEF StartupInv, AcceptedPeer, ReadableIsRead, HasPeer, ReadControl
  <2>2. toBridge' \in [Clients -> Seq({"SET_MODE", "START", "STOP"})]
    BY <2>1, BridgeWireShrinks DEF StartupInv, ReadControl
  <2>3. QED
    BY <2>2 DEF StartupInv, TypeOK, BridgeOver, Listening, ClientOver, ReadControl, MoveBridge,
       clientVars
<1>2. AloneOwnsPath'
  BY DEF StartupInv, TypeOK, AloneOwnsPath, Listening,
     ReadControl, MoveBridge, clientVars, wires
<1>3. AliveHaveMet'
  BY DEF StartupInv, TypeOK, AliveHaveMet, Alive, BridgeOver,
     ReadControl, MoveBridge, clientVars, wires
<1>4. UnlinkedWhileAlone'
  BY DEF StartupInv, TypeOK, UnlinkedWhileAlone,
     ReadControl, MoveBridge, clientVars, wires
<1>5. AcceptedPeer'
  BY DEF StartupInv, TypeOK, AcceptedPeer, HasPeer,
     ReadControl, MoveBridge, clientVars, wires
<1>6. ConnectedHere'
  BY DEF StartupInv, TypeOK, ConnectedHere,
     ReadControl, MoveBridge, clientVars, wires
<1>7. ReadableIsRead'
  <2>1. \A o \in Bridges \ {b} : bridge[o] = "read" => peer[o] # peer[b]
    BY DEF StartupInv, AcceptedPeer, ConnectedHere, HasPeer, ReadControl
  <2>2. QED
    BY <2>1 DEF StartupInv, TypeOK, ReadableIsRead, AcceptedPeer, HasPeer, ReadControl, MoveBridge,
       clientVars
<1>8. QED BY <1>1, <1>2, <1>3, <1>4, <1>5, <1>6, <1>7 DEF StartupInv

\* StartupInv is preserved by Leave: the bridge only goes on.
LEMMA LeaveStep ==
  ASSUME StartupInv, NEW b \in Bridges, LeaveLoop(b) \/ DurationOver(b) \/ CloseSockets(b)
  PROVE  StartupInv'
<1>1. TypeOK'
  BY DEF StartupInv, TypeOK, BridgeOver, Listening, ClientOver,
     LeaveLoop, DurationOver, CloseSockets, MoveBridge, clientVars, wires
<1>2. AloneOwnsPath'
  BY DEF StartupInv, TypeOK, AloneOwnsPath, Listening,
     LeaveLoop, DurationOver, CloseSockets, MoveBridge, clientVars, wires
<1>3. AliveHaveMet'
  BY DEF StartupInv, TypeOK, AliveHaveMet, Alive, BridgeOver,
     LeaveLoop, DurationOver, CloseSockets, MoveBridge, clientVars, wires
<1>4. UnlinkedWhileAlone'
  BY DEF StartupInv, TypeOK, UnlinkedWhileAlone,
     LeaveLoop, DurationOver, CloseSockets, MoveBridge, clientVars, wires
<1>5. AcceptedPeer'
  BY DEF StartupInv, TypeOK, AcceptedPeer, HasPeer,
     LeaveLoop, DurationOver, CloseSockets, MoveBridge, clientVars, wires
<1>6. ConnectedHere'
  BY DEF StartupInv, TypeOK, ConnectedHere,
     LeaveLoop, DurationOver, CloseSockets, MoveBridge, clientVars, wires
<1>7. ReadableIsRead'
  BY DEF StartupInv, TypeOK, ReadableIsRead,
     LeaveLoop, DurationOver, CloseSockets, MoveBridge, clientVars, wires
<1>8. QED BY <1>1, <1>2, <1>3, <1>4, <1>5, <1>6, <1>7 DEF StartupInv

\* StartupInv is preserved by RemovePath: who is not overlapped and alive is the one that removes the path.
LEMMA RemovePathStep ==
  ASSUME StartupInv, NEW b \in Bridges, RemovePath(b)
  PROVE  StartupInv'
<1>1. TypeOK'
  BY DEF StartupInv, TypeOK, BridgeOver, Listening, ClientOver,
     RemovePath, MoveBridge, clientVars, wires
<1>2. AloneOwnsPath'
  BY StartupAssumption
     DEF StartupInv, TypeOK, AloneOwnsPath, AliveHaveMet, UnlinkedWhileAlone, Alive,
     BridgeOver, Listening, RemovePath, MoveBridge
<1>3. AliveHaveMet'
  BY DEF StartupInv, TypeOK, AliveHaveMet, Alive, BridgeOver,
     RemovePath, MoveBridge, clientVars, wires
<1>4. UnlinkedWhileAlone'
  BY DEF StartupInv, TypeOK, UnlinkedWhileAlone,
     RemovePath, MoveBridge, clientVars, wires
<1>5. AcceptedPeer'
  BY DEF StartupInv, TypeOK, AcceptedPeer, HasPeer,
     RemovePath, MoveBridge, clientVars, wires
<1>6. ConnectedHere'
  BY DEF StartupInv, TypeOK, ConnectedHere,
     RemovePath, MoveBridge, clientVars, wires
<1>7. ReadableIsRead'
  BY DEF StartupInv, TypeOK, ReadableIsRead,
     RemovePath, MoveBridge, clientVars, wires
<1>8. QED BY <1>1, <1>2, <1>3, <1>4, <1>5, <1>6, <1>7 DEF StartupInv

\* StartupInv is preserved by Signal: a signal gives nobody the path.
LEMMA SignalStep ==
  ASSUME StartupInv, NEW b \in Bridges, Signal(b)
  PROVE  StartupInv'
<1>1. TypeOK'
  BY DEF StartupInv, TypeOK, BridgeOver, Listening, ClientOver,
     Signal, MoveBridge, clientVars, wires
<1>2. AloneOwnsPath'
  BY DEF StartupInv, TypeOK, AloneOwnsPath, Listening,
     Signal, MoveBridge, clientVars, wires
<1>3. AliveHaveMet'
  BY DEF StartupInv, TypeOK, AliveHaveMet, Alive, BridgeOver,
     Signal, MoveBridge, clientVars, wires
<1>4. UnlinkedWhileAlone'
  BY DEF StartupInv, TypeOK, UnlinkedWhileAlone,
     Signal, MoveBridge, clientVars, wires
<1>5. AcceptedPeer'
  BY DEF StartupInv, TypeOK, AcceptedPeer, HasPeer,
     Signal, MoveBridge, clientVars, wires
<1>6. ConnectedHere'
  BY DEF StartupInv, TypeOK, ConnectedHere,
     Signal, MoveBridge, clientVars, wires
<1>7. ReadableIsRead'
  BY DEF StartupInv, TypeOK, ReadableIsRead,
     Signal, MoveBridge, clientVars, wires
<1>8. QED BY <1>1, <1>2, <1>3, <1>4, <1>5, <1>6, <1>7 DEF StartupInv

\* StartupInv is preserved by KillBridge: the file stays, and the bridge is alive no more.
LEMMA KillBridgeStep ==
  ASSUME StartupInv, NEW b \in Bridges, KillBridge(b)
  PROVE  StartupInv'
<1>1. TypeOK'
  BY DEF StartupInv, TypeOK, BridgeOver, Listening, ClientOver,
     KillBridge, MoveBridge, clientVars, wires
<1>2. AloneOwnsPath'
  BY DEF StartupInv, TypeOK, AloneOwnsPath, Listening,
     KillBridge, MoveBridge, clientVars, wires
<1>3. AliveHaveMet'
  BY DEF StartupInv, TypeOK, AliveHaveMet, Alive, BridgeOver,
     KillBridge, MoveBridge, clientVars, wires
<1>4. UnlinkedWhileAlone'
  BY DEF StartupInv, TypeOK, UnlinkedWhileAlone,
     KillBridge, MoveBridge, clientVars, wires
<1>5. AcceptedPeer'
  BY DEF StartupInv, TypeOK, AcceptedPeer, HasPeer,
     KillBridge, MoveBridge, clientVars, wires
<1>6. ConnectedHere'
  BY DEF StartupInv, TypeOK, ConnectedHere,
     KillBridge, MoveBridge, clientVars, wires
<1>7. ReadableIsRead'
  BY DEF StartupInv, TypeOK, ReadableIsRead,
     KillBridge, MoveBridge, clientVars, wires
<1>8. QED BY <1>1, <1>2, <1>3, <1>4, <1>5, <1>6, <1>7 DEF StartupInv

\* StartupInv is preserved by StartClient: a client that had not started is in no backlog.
LEMMA StartClientStep ==
  ASSUME StartupInv, NEW c \in Clients, StartClient(c)
  PROVE  StartupInv'
<1>1. TypeOK'
  BY DEF StartupInv, TypeOK, BridgeOver, Listening, ClientOver,
     StartClient, MoveClient, bridgeVars, wires
<1>2. AloneOwnsPath'
  BY DEF StartupInv, TypeOK, AloneOwnsPath, Listening,
     StartClient, MoveClient, bridgeVars, wires
<1>3. AliveHaveMet'
  BY DEF StartupInv, TypeOK, AliveHaveMet, Alive, BridgeOver,
     StartClient, MoveClient, bridgeVars, wires
<1>4. UnlinkedWhileAlone'
  BY DEF StartupInv, TypeOK, UnlinkedWhileAlone,
     StartClient, MoveClient, bridgeVars, wires
<1>5. AcceptedPeer'
  BY DEF StartupInv, TypeOK, AcceptedPeer, HasPeer,
     StartClient, MoveClient, bridgeVars, wires
<1>6. ConnectedHere'
  <2>1. UNCHANGED <<queue, peer, server>>
    BY DEF StartClient, bridgeVars
  <2>2. \A k \in Clients : client[k] \notin {"off", "connect"} => client'[k] = client[k]
    BY DEF StartupInv, TypeOK, StartClient, MoveClient
  <2>3. \A b \in Bridges : \A i \in 1 .. Len(queue[b]) : queue[b][i] \in Clients
    BY QueuedIsClient DEF StartupInv
  <2>4. QED BY <2>1, <2>2, <2>3 DEF StartupInv, ConnectedHere
<1>7. ReadableIsRead'
  BY DEF StartupInv, TypeOK, ReadableIsRead,
     StartClient, MoveClient, bridgeVars, wires
<1>8. QED BY <1>1, <1>2, <1>3, <1>4, <1>5, <1>6, <1>7 DEF StartupInv

\* StartupInv is preserved by Connect: the client enters the backlog of the bridge it is connected to.
LEMMA ConnectStep ==
  ASSUME StartupInv, NEW c \in Clients, Connect(c)
  PROVE  StartupInv'
<1>1. TypeOK'
  <2>1. CASE path # None /\ bridge[path] \in Listening
    <3>1. path \in Bridges /\ Append(queue[path], c) \in Seq(Clients)
          /\ Len(Append(queue[path], c)) <= 2
      BY <2>1, AppendProperties DEF StartupInv, TypeOK, Connect
    <3>2. /\ queue' \in [Bridges -> Seq(Clients)] /\ \A b \in Bridges : Len(queue'[b]) <= 2
          /\ server' \in [Clients -> Bridges \cup {None}]
      BY <2>1, <3>1 DEF StartupInv, TypeOK, Connect
    <3>3. attempts' \in [Clients -> 0 .. MaxAttempts - 1]
      <4>1. 0 \in 0 .. MaxAttempts - 1
        BY StartupAssumption
      <4>2. QED BY <2>1, <4>1 DEF StartupInv, TypeOK, Connect
    <3>4. QED
      BY <2>1, <3>2, <3>3 DEF StartupInv, TypeOK, ClientOver, Connect, MoveClient, wires
  <2>2. CASE ~(path # None /\ bridge[path] \in Listening)
    <3>1. attempts' \in [Clients -> 0 .. MaxAttempts - 1]
      <4>1. 0 \in 0 .. MaxAttempts - 1
        BY StartupAssumption
      <4>2. attempts[c] + 1 < MaxAttempts => attempts[c] + 1 \in 0 .. MaxAttempts - 1
        BY StartupAssumption DEF StartupInv, TypeOK
      <4>3. QED BY <2>2, <4>1, <4>2 DEF StartupInv, TypeOK, Connect
    <3>2. client' = client \/ MoveClient(c, "dead")
      BY <2>2 DEF Connect
    <3>3. QED
      BY <2>2, <3>1, <3>2 DEF StartupInv, TypeOK, ClientOver, Connect, MoveClient, wires
  <2>3. QED BY <2>1, <2>2
<1>2. AloneOwnsPath'
  BY DEF StartupInv, TypeOK, AloneOwnsPath, Listening,
     Connect, MoveClient, bridgeVars, wires
<1>3. AliveHaveMet'
  BY DEF StartupInv, TypeOK, AliveHaveMet, Alive, BridgeOver,
     Connect, MoveClient, bridgeVars, wires
<1>4. UnlinkedWhileAlone'
  BY DEF StartupInv, TypeOK, UnlinkedWhileAlone,
     Connect, MoveClient, bridgeVars, wires
<1>5. AcceptedPeer'
  BY DEF StartupInv, TypeOK, AcceptedPeer, HasPeer,
     Connect, MoveClient, bridgeVars, wires
<1>6. ConnectedHere'
  <2>1. CASE path # None /\ bridge[path] \in Listening
    <3>1. path \in Bridges /\ Len(Append(queue[path], c)) = Len(queue[path]) + 1
          /\ Len(queue[path]) \in Nat
          /\ \A i \in 1 .. Len(queue[path]) : Append(queue[path], c)[i] = queue[path][i]
          /\ Append(queue[path], c)[Len(queue[path]) + 1] = c
      BY <2>1, AppendProperties DEF StartupInv, TypeOK, Connect
    <3>2. UNCHANGED peer /\ client' = [client EXCEPT ![c] = "hello"]
          /\ server' = [server EXCEPT ![c] = path]
          /\ queue' = [queue EXCEPT ![path] = Append(@, c)]
      BY <2>1 DEF Connect, MoveClient
    <3>3. \A b \in Bridges : \A i \in 1 .. Len(queue[b]) :
            queue[b][i] \in Clients \ {c} /\ server'[queue[b][i]] = b
              /\ client'[queue[b][i]] \notin {"off", "connect"}
      <4>1. TAKE b \in Bridges
      <4>2. TAKE i \in 1 .. Len(queue[b])
      <4>3. /\ queue[b][i] \in Clients /\ server[queue[b][i]] = b
            /\ client[queue[b][i]] \notin {"off", "connect"}
        BY QueuedIsClient DEF StartupInv, ConnectedHere
      <4>4. queue[b][i] # c
        BY <4>3 DEF Connect
      <4>5. DOMAIN server = Clients /\ DOMAIN client = Clients
        BY DEF StartupInv, TypeOK
      <4>6. QED BY <3>2, <4>3, <4>4, <4>5
    <3>4. \A b \in Bridges : \A i \in 1 .. Len(queue'[b]) :
            server'[queue'[b][i]] = b /\ client'[queue'[b][i]] \notin {"off", "connect"}
      <4>1. TAKE b \in Bridges
      <4>2. CASE b # path
        <5>1. DOMAIN queue = Bridges
          BY DEF StartupInv, TypeOK
        <5>2. queue'[b] = queue[b]
          BY <3>2, <4>2, <5>1
        <5>3. QED BY <3>3, <5>2
      <4>3. CASE b = path
        <5>1. TAKE i \in 1 .. Len(queue'[b])
        <5>2. queue'[b] = Append(queue[path], c)
          BY <3>1, <3>2, <4>3 DEF StartupInv, TypeOK
        <5>3. CASE i = Len(queue[path]) + 1
          BY <3>1, <3>2, <4>3, <5>2, <5>3 DEF StartupInv, TypeOK
        <5>4. CASE i \in 1 .. Len(queue[path])
          BY <3>1, <3>3, <4>3, <5>2, <5>4
        <5>5. QED BY <3>1, <5>1, <5>2, <5>3, <5>4
      <4>4. QED BY <4>2, <4>3
    <3>5. \A b \in Bridges : peer'[b] \in Clients =>
            server'[peer'[b]] = b /\ client'[peer'[b]] \notin {"off", "connect"}
      BY <3>2 DEF StartupInv, TypeOK, ConnectedHere, Connect
    <3>6. QED BY <3>4, <3>5 DEF ConnectedHere
  <2>2. CASE ~(path # None /\ bridge[path] \in Listening)
    <3>1. CASE MoveClient(c, "dead")
      BY <2>2, <3>1, ClientGoesOn DEF StartupInv, Connect
    <3>2. CASE UNCHANGED client
      BY <2>2, <3>2 DEF StartupInv, ConnectedHere, Connect
    <3>3. QED BY <2>2, <3>1, <3>2 DEF Connect
  <2>3. QED BY <2>1, <2>2
<1>7. ReadableIsRead'
  BY DEF StartupInv, TypeOK, ReadableIsRead,
     Connect, MoveClient, bridgeVars, wires
<1>8. QED BY <1>1, <1>2, <1>3, <1>4, <1>5, <1>6, <1>7 DEF StartupInv

\* StartupInv is preserved by ReceiveHello: a message leaves the wire to the client.
LEMMA ReceiveHelloStep ==
  ASSUME StartupInv, NEW c \in Clients, ReceiveHello(c)
  PROVE  StartupInv'
<1>1. TypeOK'
  <2>1. toClient' \in [Clients -> Seq({"HELLO", "STARTED"})]
    BY ClientWireShrinks DEF StartupInv, ReceiveHello, TypeOK
  <2>2. QED
    BY <2>1 DEF StartupInv, TypeOK, BridgeOver, Listening, ClientOver, ReceiveHello, MoveClient,
       bridgeVars
<1>2. AloneOwnsPath'
  BY DEF StartupInv, TypeOK, AloneOwnsPath, Listening,
     ReceiveHello, MoveClient, bridgeVars, wires
<1>3. AliveHaveMet'
  BY DEF StartupInv, TypeOK, AliveHaveMet, Alive, BridgeOver,
     ReceiveHello, MoveClient, bridgeVars, wires
<1>4. UnlinkedWhileAlone'
  BY DEF StartupInv, TypeOK, UnlinkedWhileAlone,
     ReceiveHello, MoveClient, bridgeVars, wires
<1>5. AcceptedPeer'
  BY DEF StartupInv, TypeOK, AcceptedPeer, HasPeer,
     ReceiveHello, MoveClient, bridgeVars, wires
<1>6. ConnectedHere'
  BY ClientGoesOn DEF StartupInv, ReceiveHello, bridgeVars
<1>7. ReadableIsRead'
  BY DEF StartupInv, TypeOK, ReadableIsRead,
     ReceiveHello, MoveClient, bridgeVars, wires
<1>8. QED BY <1>1, <1>2, <1>3, <1>4, <1>5, <1>6, <1>7 DEF StartupInv

\* StartupInv is preserved by SendRequest: the wire to the bridge grows.
LEMMA SendRequestStep ==
  ASSUME StartupInv, NEW c \in Clients, SendMode(c) \/ SendStart(c)
  PROVE  StartupInv'
<1>1. TypeOK'
  <2>1. toBridge' \in [Clients -> Seq({"SET_MODE", "START", "STOP"})]
    BY BridgeWireGrows DEF StartupInv, TypeOK, SendMode, SendStart, SendRequest
  <2>2. QED
    BY <2>1 DEF StartupInv, TypeOK, BridgeOver, Listening, ClientOver, SendMode, SendStart, SendRequest, MoveClient,
       bridgeVars
<1>2. AloneOwnsPath'
  BY DEF StartupInv, TypeOK, AloneOwnsPath, Listening,
     SendMode, SendStart, SendRequest, SendBridge, MoveClient, bridgeVars, wires
<1>3. AliveHaveMet'
  BY DEF StartupInv, TypeOK, AliveHaveMet, Alive, BridgeOver,
     SendMode, SendStart, SendRequest, SendBridge, MoveClient, bridgeVars, wires
<1>4. UnlinkedWhileAlone'
  BY DEF StartupInv, TypeOK, UnlinkedWhileAlone,
     SendMode, SendStart, SendRequest, SendBridge, MoveClient, bridgeVars, wires
<1>5. AcceptedPeer'
  BY DEF StartupInv, TypeOK, AcceptedPeer, HasPeer,
     SendMode, SendStart, SendRequest, SendBridge, MoveClient, bridgeVars, wires
<1>6. ConnectedHere'
  BY ClientGoesOn DEF StartupInv, SendMode, SendStart, SendRequest, bridgeVars
<1>7. ReadableIsRead'
  <2>1. \A k \in Clients : toBridge[k] # <<>> => toBridge'[k] # <<>>
    BY BridgeWireGrows DEF StartupInv, TypeOK, SendMode, SendStart, SendRequest
  <2>2. QED
    BY <2>1 DEF StartupInv, AcceptedPeer, HasPeer, ReadableIsRead, SendMode, SendStart, SendRequest, bridgeVars
<1>8. QED BY <1>1, <1>2, <1>3, <1>4, <1>5, <1>6, <1>7 DEF StartupInv

\* StartupInv is preserved by ReceiveStarted: a message leaves the wire to the client.
LEMMA ReceiveStartedStep ==
  ASSUME StartupInv, NEW c \in Clients, ReceiveStarted(c)
  PROVE  StartupInv'
<1>1. TypeOK'
  <2>1. toClient' \in [Clients -> Seq({"HELLO", "STARTED"})]
    BY ClientWireShrinks DEF StartupInv, ReceiveStarted, TypeOK
  <2>2. QED
    BY <2>1 DEF StartupInv, TypeOK, BridgeOver, Listening, ClientOver, ReceiveStarted, MoveClient,
       bridgeVars
<1>2. AloneOwnsPath'
  BY DEF StartupInv, TypeOK, AloneOwnsPath, Listening,
     ReceiveStarted, MoveClient, bridgeVars, wires
<1>3. AliveHaveMet'
  BY DEF StartupInv, TypeOK, AliveHaveMet, Alive, BridgeOver,
     ReceiveStarted, MoveClient, bridgeVars, wires
<1>4. UnlinkedWhileAlone'
  BY DEF StartupInv, TypeOK, UnlinkedWhileAlone,
     ReceiveStarted, MoveClient, bridgeVars, wires
<1>5. AcceptedPeer'
  BY DEF StartupInv, TypeOK, AcceptedPeer, HasPeer,
     ReceiveStarted, MoveClient, bridgeVars, wires
<1>6. ConnectedHere'
  BY ClientGoesOn DEF StartupInv, ReceiveStarted, bridgeVars
<1>7. ReadableIsRead'
  BY DEF StartupInv, TypeOK, ReadableIsRead,
     ReceiveStarted, MoveClient, bridgeVars, wires
<1>8. QED BY <1>1, <1>2, <1>3, <1>4, <1>5, <1>6, <1>7 DEF StartupInv

\* StartupInv is preserved by SendStop: the wire to the bridge grows.
LEMMA SendStopStep ==
  ASSUME StartupInv, NEW c \in Clients, SendStop(c)
  PROVE  StartupInv'
<1>1. TypeOK'
  <2>1. toBridge' \in [Clients -> Seq({"SET_MODE", "START", "STOP"})]
    BY BridgeWireGrows DEF StartupInv, TypeOK, SendStop
  <2>2. QED
    BY <2>1 DEF StartupInv, TypeOK, BridgeOver, Listening, ClientOver, SendStop, MoveClient,
       bridgeVars
<1>2. AloneOwnsPath'
  BY DEF StartupInv, TypeOK, AloneOwnsPath, Listening,
     SendStop, MoveClient, SendBridge, bridgeVars, wires
<1>3. AliveHaveMet'
  BY DEF StartupInv, TypeOK, AliveHaveMet, Alive, BridgeOver,
     SendStop, MoveClient, SendBridge, bridgeVars, wires
<1>4. UnlinkedWhileAlone'
  BY DEF StartupInv, TypeOK, UnlinkedWhileAlone,
     SendStop, MoveClient, SendBridge, bridgeVars, wires
<1>5. AcceptedPeer'
  BY DEF StartupInv, TypeOK, AcceptedPeer, HasPeer,
     SendStop, MoveClient, SendBridge, bridgeVars, wires
<1>6. ConnectedHere'
  BY ClientGoesOn DEF StartupInv, SendStop, bridgeVars
<1>7. ReadableIsRead'
  <2>1. \A k \in Clients : toBridge[k] # <<>> => toBridge'[k] # <<>>
    BY BridgeWireGrows DEF StartupInv, TypeOK, SendStop
  <2>2. QED
    BY <2>1 DEF StartupInv, AcceptedPeer, HasPeer, ReadableIsRead, SendStop, bridgeVars
<1>8. QED BY <1>1, <1>2, <1>3, <1>4, <1>5, <1>6, <1>7 DEF StartupInv

\* StartupInv is preserved by Exit: the client stays where it has connected.
LEMMA ExitStep ==
  ASSUME StartupInv, NEW c \in Clients, Exit(c)
  PROVE  StartupInv'
<1>1. TypeOK'
  BY DEF StartupInv, TypeOK, BridgeOver, Listening, ClientOver,
     Exit, MoveClient, bridgeVars, wires
<1>2. AloneOwnsPath'
  BY DEF StartupInv, TypeOK, AloneOwnsPath, Listening,
     Exit, MoveClient, bridgeVars, wires
<1>3. AliveHaveMet'
  BY DEF StartupInv, TypeOK, AliveHaveMet, Alive, BridgeOver,
     Exit, MoveClient, bridgeVars, wires
<1>4. UnlinkedWhileAlone'
  BY DEF StartupInv, TypeOK, UnlinkedWhileAlone,
     Exit, MoveClient, bridgeVars, wires
<1>5. AcceptedPeer'
  BY DEF StartupInv, TypeOK, AcceptedPeer, HasPeer,
     Exit, MoveClient, bridgeVars, wires
<1>6. ConnectedHere'
  BY ClientGoesOn DEF StartupInv, Exit, bridgeVars
<1>7. ReadableIsRead'
  BY DEF StartupInv, TypeOK, ReadableIsRead,
     Exit, MoveClient, bridgeVars, wires
<1>8. QED BY <1>1, <1>2, <1>3, <1>4, <1>5, <1>6, <1>7 DEF StartupInv

\* StartupInv is preserved by KillClient: the client stays where it has connected.
LEMMA KillClientStep ==
  ASSUME StartupInv, NEW c \in Clients, KillClient(c)
  PROVE  StartupInv'
<1>1. TypeOK'
  BY StartupAssumption
     DEF StartupInv, TypeOK, BridgeOver, Listening, ClientOver, KillClient, MoveClient,
     bridgeVars, wires
<1>2. AloneOwnsPath'
  BY DEF StartupInv, TypeOK, AloneOwnsPath, Listening,
     KillClient, MoveClient, bridgeVars, wires
<1>3. AliveHaveMet'
  BY DEF StartupInv, TypeOK, AliveHaveMet, Alive, BridgeOver,
     KillClient, MoveClient, bridgeVars, wires
<1>4. UnlinkedWhileAlone'
  BY DEF StartupInv, TypeOK, UnlinkedWhileAlone,
     KillClient, MoveClient, bridgeVars, wires
<1>5. AcceptedPeer'
  BY DEF StartupInv, TypeOK, AcceptedPeer, HasPeer,
     KillClient, MoveClient, bridgeVars, wires
<1>6. ConnectedHere'
  BY ClientGoesOn DEF StartupInv, KillClient, bridgeVars
<1>7. ReadableIsRead'
  BY DEF StartupInv, TypeOK, ReadableIsRead,
     KillClient, MoveClient, bridgeVars, wires
<1>8. QED BY <1>1, <1>2, <1>3, <1>4, <1>5, <1>6, <1>7 DEF StartupInv

-----------------------------------------------------------------------------
\* Before anything has started nobody is alive and no client is connected.
LEMMA InitStartupInv == Init => StartupInv
<1> SUFFICES ASSUME Init PROVE StartupInv OBVIOUS
<1>1. TypeOK
  BY StartupAssumption, EmptySeq DEF Init, TypeOK, BridgeOver, Listening, ClientOver
<1>2. AloneOwnsPath /\ AliveHaveMet /\ UnlinkedWhileAlone /\ AcceptedPeer /\ ReadableIsRead
  BY DEF Init, AloneOwnsPath, AliveHaveMet, UnlinkedWhileAlone, AcceptedPeer, ReadableIsRead,
     Alive, BridgeOver, Listening, HasPeer
<1>3. ConnectedHere
  <2>1. \A b \in Bridges : Len(queue[b]) = 0
    BY EmptySeq DEF Init
  <2>2. QED
    BY <2>1, StartupAssumption DEF Init, ConnectedHere
<1>4. QED BY <1>1, <1>2, <1>3 DEF StartupInv

\* A step that changes no variable keeps the invariant.
LEMMA StutterStartupInv == StartupInv /\ UNCHANGED vars => StartupInv'
  BY DEF StartupInv, TypeOK, AloneOwnsPath, AliveHaveMet, UnlinkedWhileAlone, AcceptedPeer,
     ConnectedHere, ReadableIsRead, Alive, vars, bridgeVars, clientVars, wires

\* One case for each action.
LEMMA NextStartupInv == StartupInv /\ [Next]_vars => StartupInv'
<1> SUFFICES ASSUME StartupInv, [Next]_vars PROVE StartupInv' OBVIOUS
<1>1. ASSUME NEW b \in Bridges,
             BridgeStep(b) \/ Unlink(b) \/ DurationOver(b) \/ Signal(b) \/ KillBridge(b)
      PROVE  StartupInv'
  BY <1>1, BindStep, ListenStep, WithdrawStep, AcceptStep, SendHelloStep, PollBarrierStep,
     ReadBarrierStep, AnswerStartStep, ReadControlStep, LeaveStep, RemovePathStep,
     UnlinkStep, SignalStep, KillBridgeStep DEF BridgeStep
<1>2. ASSUME NEW c \in Clients, ClientStep(c) \/ StartClient(c) \/ KillClient(c)
      PROVE  StartupInv'
  BY <1>2, ConnectStep, ReceiveHelloStep, SendRequestStep, ReceiveStartedStep,
     SendStopStep, ExitStep, StartClientStep, KillClientStep DEF ClientStep
<1>3. CASE Over \/ UNCHANGED vars
  BY <1>3, StutterStartupInv DEF Over
<1>4. QED BY <1>1, <1>2, <1>3 DEF Next

\* The inductive invariant holds in every behaviour, whoever starts, is
\* signalled, fails or is killed, and when.
THEOREM StartupInvariant == Spec => []StartupInv
<1>1. Init => StartupInv
  BY InitStartupInv
<1>2. StartupInv /\ [Next]_vars => StartupInv'
  BY NextStartupInv
<1>3. QED BY <1>1, <1>2, PTL DEF Spec

\* Every process is at a place of its code and the wires hold its messages, for
\* any number of bridges and clients.
THEOREM StartupTypeCorrect == Spec => []TypeOK
<1>1. StartupInv => TypeOK
  BY DEF StartupInv
<1>2. QED BY <1>1, StartupInvariant, PTL

\* Any number of bridges that failed or were killed at any point leave a path that
\* the next bridge, alone, gets and keeps (setup_listening_socket, main).
THEOREM AloneAlwaysOwnsPath == Spec => []AloneOwnsPath
<1>1. StartupInv => AloneOwnsPath
  BY DEF StartupInv
<1>2. QED BY <1>1, StartupInvariant, PTL

=============================================================================
