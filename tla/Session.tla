------------------------------- MODULE Session -------------------------------
(***************************************************************************)
(* One run of the bridge (reference/bridge/main.c) with the latency client *)
(* (reference/latency-client/main.c): start barrier, frames, urgent        *)
(* wakeups, acknowledgements, device generations and both shutdowns.       *)
(*                                                                         *)
(* The bridge is one thread.  The client has two: "main" runs frames, and  *)
(* "ingress" waits for the urgent eventfd or, under the eager policy, for  *)
(* the socket.  A publication and the copy of one batch are single steps   *)
(* here; Ring shows what they are made of.                                 *)
(***************************************************************************)
EXTENDS Integers, Sequences, FiniteSets

CONSTANTS
  Policy,          \* when a frame drains: see Plan
  AckPlacement,    \* "critical", "post_use" or "post_frame"
  Capacity,        \* metadata.capacity
  Batch,           \* records drain_ring copies at a time (4096)
  BridgeMayStop,   \* the bridge has a duration or may get a signal
  StartMayFail,    \* the bridge may fail or be stopped at the start barrier
  WaitsMayExpire,  \* either side may wait its 100 ms at the shutdown in vain
  SocketLimit,     \* bound: messages a socket direction holds
  MaxRecords,      \* bound: observations, the terminal record not counted
  MaxGeneration    \* bound: device generations

ASSUME SessionAssumption ==
  /\ Policy \in {"late", "multi", "latch", "stable", "eager"}
  /\ AckPlacement \in {"critical", "post_use", "post_frame"}
  /\ Capacity \in Nat \ {0} /\ Batch \in Nat \ {0}
  /\ BridgeMayStop \in BOOLEAN /\ StartMayFail \in BOOLEAN /\ WaitsMayExpire \in BOOLEAN
  /\ SocketLimit \in Nat \ {0}
  /\ MaxRecords \in Nat /\ MaxGeneration \in Nat \ {0}

VARIABLES
  \* the mapping: everything offered (by sequence number), what was published
  offered, log, tail, dropped, eagerDrops,
  \* the bridge
  bridge,            \* "barrier", "loop", "terminal", "waitAck", "closed"
  mode, generation, sourceOpen, stopRequested, invalidAcks,
  finalDepth,        \* ring_depth of the statistics it writes; -1 before
  \* the socket and the eventfd
  toBridge, toClient, urgent,
  \* the client's threads
  main,              \* where the main thread is
  step,              \* of its frame plan
  ingress,           \* "unstarted", "check", "poll", "recv", "recvLast", "done"
  stop, terminalSeen, clientGeneration,
  \* the client's copy of the ring
  drain,             \* per thread: its call of drain_ring
  mutex,             \* ring_drain_mutex: "free" or its owner
  origin,            \* history: where the cursor began; -1 before
  localTail, lastAcked,
  \* its queue, its statistics, and history: what its frames took
  inbox,             \* per thread: a message received and not yet dealt with
  tally,             \* per thread: its call of account_sequences for that message
  pending, last, gaps, reordered, used

ringVars   == <<offered, log, tail, dropped, eagerDrops>>
bridgeVars == <<bridge, mode, generation, sourceOpen, stopRequested, invalidAcks, finalDepth>>
socketVars == <<toBridge, toClient, urgent>>
flowVars   == <<main, step, ingress, stop, terminalSeen, clientGeneration>>
drainVars  == <<drain, mutex, origin, localTail, lastAcked>>
queueVars  == <<inbox, tally, pending, last, gaps, reordered, used>>
clientVars == <<flowVars, drainVars, queueVars>>
vars == <<ringVars, bridgeVars, socketVars, clientVars>>

Thread == {"main", "ingress"}
Kind   == {"motion", "button", "terminate"}
head == Len(log)
Eager == Policy = "eager"

Minimum(a, b) == IF a <= b THEN a ELSE b

BridgeGone == bridge = "closed"
ClientGone == main \in {"exit", "dead"}
\* ... or has shut its reading side, before it joins its ingress thread.
ClientDeaf == ClientGone \/ (Eager /\ stop)

\* The bridge's socket does not block: a message that does not fit is lost.
Sent(message) ==
  toClient' = IF Len(toClient) < SocketLimit /\ ~ClientDeaf THEN Append(toClient, message)
                                                           ELSE toClient

\* A call of drain_ring: "frame" queues what it copies, "shadow" only counts it,
\* "ack" only takes the mutex to acknowledge.
Idle == [at |-> "no", kind |-> "ack", ack |-> FALSE, batch |-> <<>>]
Call(kind, ack) == [at |-> "begin", kind |-> kind, ack |-> ack, batch |-> <<>>]

\* What a thread is to do next with an eager record: load the statistics, store them, or
\* push the record; and the statistics it has loaded.
Fresh == [at |-> "load", last |-> 0, gaps |-> 0, reordered |-> 0]

-----------------------------------------------------------------------------
\* From the hello on; the hello carries the first generation.
Init ==
  /\ offered = <<>> /\ log = <<>> /\ tail = 0 /\ dropped = 0 /\ eagerDrops = 0
  /\ bridge = "barrier" /\ mode = "none" /\ generation = 1 /\ sourceOpen = TRUE
  /\ stopRequested = FALSE /\ invalidAcks = 0 /\ finalDepth = -1
  /\ toBridge = <<>> /\ toClient = <<>> /\ urgent = FALSE
  /\ main = "mode" /\ step = 1 /\ ingress = "unstarted"
  /\ stop = FALSE /\ terminalSeen = FALSE /\ clientGeneration = 1
  /\ drain = [t \in Thread |-> Idle] /\ mutex = "free"
  /\ origin = -1 /\ localTail = 0 /\ lastAcked = 0
  /\ inbox = [t \in Thread |-> <<>>] /\ tally = [t \in Thread |-> Fresh]
  /\ pending = <<>> /\ used = <<>>
  /\ last = 0 /\ gaps = 0 /\ reordered = 0

-----------------------------------------------------------------------------
\* The bridge.

\* wait_for_start_barrier: the mode, then START, answered by STARTED.
HandleBarrier ==
  /\ bridge = "barrier"
  /\ toBridge # <<>>
  /\ toBridge' = Tail(toBridge)
  /\ \/ /\ Head(toBridge).type = "SET_MODE"
        /\ mode' = Head(toBridge).mode
        /\ UNCHANGED <<bridge, toClient>>
     \/ /\ Head(toBridge).type = "START"
        /\ \/ bridge' = "loop" /\ Sent([type |-> "STARTED"])
           \/ StartMayFail /\ bridge' = "closed" /\ UNCHANGED toClient
        /\ UNCHANGED mode
  /\ UNCHANGED <<ringVars, generation, sourceOpen, stopRequested, invalidAcks,
                 finalDepth, urgent, clientVars>>

\* (variant for the mutation runs) A record that does not fit the socket is not counted.
PublishUncounted(kind) ==
  LET sequence  == Len(offered) + 1
      published == head - tail < Capacity
      eagerSend == published /\ mode = "eager"
      full      == eagerSend /\ ~ClientDeaf /\ Len(toClient) = SocketLimit
  IN  /\ offered' = Append(offered, [kind |-> kind, generation |-> generation])
      /\ IF published THEN log' = Append(log, sequence) /\ UNCHANGED dropped
                      ELSE dropped' = dropped + 1 /\ UNCHANGED log
      /\ IF eagerSend THEN Sent([type |-> "EAGER", sequence |-> sequence])
                      ELSE UNCHANGED toClient
      /\ UNCHANGED eagerDrops
      /\ stopRequested' = (stopRequested \/ (eagerSend /\ ClientDeaf))
      /\ urgent' = (urgent \/ kind # "motion" \/ ~published \/ full)

\* (variant) A button does not write the eventfd.
PublishSilent(kind) ==
  LET sequence  == Len(offered) + 1
      published == head - tail < Capacity
      eagerSend == published /\ mode = "eager"
      full      == eagerSend /\ ~ClientDeaf /\ Len(toClient) = SocketLimit
  IN  /\ offered' = Append(offered, [kind |-> kind, generation |-> generation])
      /\ IF published THEN log' = Append(log, sequence) /\ UNCHANGED dropped
                      ELSE dropped' = dropped + 1 /\ UNCHANGED log
      /\ IF eagerSend THEN Sent([type |-> "EAGER", sequence |-> sequence])
                      ELSE UNCHANGED toClient
      /\ eagerDrops' = IF full THEN eagerDrops + 1 ELSE eagerDrops
      /\ stopRequested' = (stopRequested \/ (eagerSend /\ ClientDeaf))
      /\ urgent' = (urgent \/ kind = "terminate" \/ ~published \/ full)

\* publish_record: into the ring if it has room, and then to the socket when
\* the client asked for eager records.  A button, a drop or an eager record that
\* does not fit is urgent; a client that no longer reads stops the bridge.
Publish(kind) ==
  LET sequence  == Len(offered) + 1
      published == head - tail < Capacity
      eagerSend == published /\ mode = "eager"
      full      == eagerSend /\ ~ClientDeaf /\ Len(toClient) = SocketLimit
  IN  /\ offered' = Append(offered, [kind |-> kind, generation |-> generation])
      /\ IF published THEN log' = Append(log, sequence) /\ UNCHANGED dropped
                      ELSE dropped' = dropped + 1 /\ UNCHANGED log
      /\ IF eagerSend THEN Sent([type |-> "EAGER", sequence |-> sequence])
                      ELSE UNCHANGED toClient
      /\ eagerDrops' = IF full THEN eagerDrops + 1 ELSE eagerDrops
      /\ stopRequested' = (stopRequested \/ (eagerSend /\ ClientDeaf))
      /\ urgent' = (urgent \/ kind # "motion" \/ ~published \/ full)

\* The source is read: one observation.  A send that fails asks the loop to stop,
\* which does not end the turn.
Observe(kind) ==
  /\ bridge = "loop" /\ sourceOpen
  /\ Len(offered) < MaxRecords
  /\ Publish(kind)
  /\ UNCHANGED <<tail, bridge, mode, generation, sourceOpen, invalidAcks, finalDepth,
                 toBridge, clientVars>>

\* The test on an acknowledgement, as in Ring.
AckIsValid(ack) ==
  /\ ack.generation = generation
  /\ ack.consumed >= tail
  /\ ack.consumed <= head
  /\ head - ack.consumed <= Capacity

\* handle_control_message: the oldest message.
HandleMessage ==
  /\ toBridge # <<>>
  /\ toBridge' = Tail(toBridge)
  /\ LET message == Head(toBridge)
     IN  \/ /\ message.type = "ACK" /\ AckIsValid(message)
            /\ tail' = message.consumed
            /\ UNCHANGED <<mode, invalidAcks, stopRequested, urgent>>
         \/ /\ message.type = "ACK" /\ ~AckIsValid(message)
            /\ invalidAcks' = invalidAcks + 1 /\ urgent' = TRUE
            /\ UNCHANGED <<tail, mode, stopRequested>>
         \/ /\ message.type = "STOP"
            /\ stopRequested' = TRUE
            /\ UNCHANGED <<tail, mode, invalidAcks, urgent>>
         \/ /\ message.type \in {"SET_MODE", "START"}
            /\ mode' = IF message.type = "SET_MODE" THEN message.mode ELSE mode
            /\ UNCHANGED <<tail, stopRequested, invalidAcks, urgent>>

\* One message ends a turn of the main loop, and the loop too when a stop has
\* been asked for, or when poll has also seen the client hang up.
HandleControl ==
  /\ bridge = "loop"
  /\ HandleMessage
  /\ \/ stopRequested' /\ bridge' = "terminal"
     \/ ~stopRequested' /\ UNCHANGED bridge
     \/ ~stopRequested' /\ ClientGone /\ bridge' = "terminal"
  /\ UNCHANGED <<offered, log, dropped, eagerDrops, generation, sourceOpen, finalDepth,
                 toClient, clientVars>>

\* mark_device_gone.
DeviceGone ==
  /\ bridge = "loop" /\ sourceOpen
  /\ generation < MaxGeneration
  /\ sourceOpen' = FALSE
  /\ Sent([type |-> "DEVICE_STATE", generation |-> generation])
  /\ urgent' = TRUE
  /\ UNCHANGED <<ringVars, bridge, mode, generation, stopRequested, invalidAcks,
                 finalDepth, toBridge, clientVars>>

\* try_reconnect_device.
Reconnect ==
  /\ bridge = "loop" /\ ~sourceOpen /\ ~stopRequested
  /\ sourceOpen' = TRUE
  /\ generation' = generation + 1
  /\ Sent([type |-> "DEVICE_STATE", generation |-> generation'])
  /\ urgent' = TRUE
  /\ UNCHANGED <<ringVars, bridge, mode, stopRequested, invalidAcks, finalDepth,
                 toBridge, clientVars>>

\* The duration, a signal or a failure ends the loop or the barrier; none has to come.
BridgeStops ==
  /\ \/ bridge = "barrier" /\ StartMayFail
     \/ bridge = "loop" /\ BridgeMayStop
  /\ bridge' = "terminal"
  /\ UNCHANGED <<ringVars, mode, generation, sourceOpen, stopRequested, invalidAcks,
                 finalDepth, socketVars, clientVars>>

\* The loop ends: STOP, or the client's hangup (with nothing left to read, or a reset
\* because the client left messages unread).
LeaveLoop ==
  /\ bridge = "loop"
  /\ stopRequested \/ (ClientGone /\ (toBridge = <<>> \/ toClient # <<>>))
  /\ bridge' = "terminal"
  /\ UNCHANGED <<ringVars, mode, generation, sourceOpen, stopRequested, invalidAcks,
                 finalDepth, socketVars, clientVars>>

\* The explicit terminal marker, if capacity remains.
PublishTerminal ==
  /\ bridge = "terminal"
  /\ Publish("terminate")
  /\ bridge' = "waitAck"
  /\ UNCHANGED <<tail, mode, generation, sourceOpen, invalidAcks, finalDepth,
                 toBridge, clientVars>>

\* wait_for_terminal_ack, and the statistics it ends with.  After a message the
\* wait is over if poll has also seen the client hang up.
WaitAckMessage ==
  /\ bridge = "waitAck" /\ tail < head
  /\ HandleMessage
  /\ \/ ClientGone /\ bridge' = "closed" /\ finalDepth' = head - tail'
     \/ UNCHANGED <<bridge, finalDepth>>
  /\ UNCHANGED <<offered, log, dropped, eagerDrops, generation, sourceOpen, toClient,
                 clientVars>>

WaitAckOver ==
  /\ bridge = "waitAck"
  /\ tail >= head \/ WaitsMayExpire \/ (ClientGone /\ toBridge = <<>>)
  /\ bridge' = "closed"
  /\ finalDepth' = head - tail
  /\ UNCHANGED <<ringVars, mode, generation, sourceOpen, stopRequested, invalidAcks,
                 socketVars, clientVars>>

BridgeControl ==
  \/ HandleBarrier \/ HandleControl
  \/ LeaveLoop \/ PublishTerminal \/ WaitAckMessage \/ WaitAckOver

Bridge ==
  \/ \E kind \in {"motion", "button"} : Observe(kind)
  \/ DeviceGone \/ Reconnect \/ BridgeStops
  \/ BridgeControl

-----------------------------------------------------------------------------
\* The client: the start.

\* Its socket blocks while it is full, and fails once the bridge has closed.
CanSend == BridgeGone \/ Len(toBridge) < SocketLimit
ToBridge(message) == toBridge' = IF BridgeGone THEN toBridge ELSE Append(toBridge, message)

\* send_mode, then START; die when they cannot be sent.
SendSetup ==
  /\ CanSend
  /\ \/ /\ main = "mode"
        /\ ToBridge([type |-> "SET_MODE", mode |-> IF Eager THEN "eager" ELSE "hfior"])
        /\ main' = IF BridgeGone THEN "dead" ELSE "start"
     \/ /\ main = "start"
        /\ ToBridge([type |-> "START"])
        /\ main' = IF BridgeGone THEN "dead" ELSE "waitStarted"
  /\ UNCHANGED <<ringVars, bridgeVars, toClient, urgent, step, ingress, stop, terminalSeen,
                 clientGeneration, drainVars, queueVars>>

\* synchronize_start: what is not STARTED is skipped, end of file included.  A
\* bridge that left messages unread has reset the connection.
ReceiveStarted ==
  /\ main = "waitStarted"
  /\ \/ /\ BridgeGone /\ toBridge # <<>>
        /\ main' = "dead" /\ UNCHANGED toClient
     \/ /\ toClient # <<>> /\ ~(BridgeGone /\ toBridge # <<>>)
        /\ toClient' = Tail(toClient)
        /\ main' = IF Head(toClient).type = "STARTED" THEN "join" ELSE "waitStarted"
     \/ /\ toClient = <<>> /\ BridgeGone /\ toBridge = <<>>
        /\ UNCHANGED <<toClient, main>>
  /\ UNCHANGED <<ringVars, bridgeVars, toBridge, urgent, step, ingress, stop, terminalSeen,
                 clientGeneration, drainVars, queueVars>>

\* The cursor begins at the head of now; the ingress thread starts.
JoinRing ==
  /\ main = "join"
  /\ localTail' = head /\ lastAcked' = head /\ origin' = head
  /\ main' = "idle" /\ ingress' = "check"
  /\ UNCHANGED <<ringVars, bridgeVars, socketVars, step, stop, terminalSeen,
                 clientGeneration, drain, mutex, queueVars>>

-----------------------------------------------------------------------------
\* The client: drain_ring, which both threads call.

Alive == main # "dead"

\* (variant for the mutation runs) The first record of the run is expected to be 1.
AccountFromOne(sequences) ==
  LET newest == sequences[Len(sequences)]
  IN  IF sequences = <<>> THEN UNCHANGED <<last, gaps, reordered, terminalSeen>>
      ELSE /\ terminalSeen' = (terminalSeen \/ offered[newest].kind = "terminate")
           /\ IF sequences[1] > last
                THEN /\ last' = newest
                     /\ gaps' = gaps + newest - last - Len(sequences)
                     /\ UNCHANGED reordered
                ELSE reordered' = reordered + 1 /\ UNCHANGED <<last, gaps>>

\* account_sequences, of one batch of the ring: ascending, and counted under the mutex.
Account(sequences) ==
  LET newest == sequences[Len(sequences)]
      before == IF last = 0 THEN sequences[1] - 1 ELSE last
  IN  IF sequences = <<>> THEN UNCHANGED <<last, gaps, reordered, terminalSeen>>
      ELSE /\ terminalSeen' = (terminalSeen \/ offered[newest].kind = "terminate")
           /\ IF sequences[1] > before
                THEN /\ last' = newest
                     /\ gaps' = gaps + newest - before - Len(sequences)
                     /\ UNCHANGED reordered
                ELSE reordered' = reordered + 1 /\ UNCHANGED <<last, gaps>>

\* (variant) Nobody waits for the mutex.
DrainBeginUnlocked(t) ==
  /\ Alive
  /\ drain[t].at = "begin"
  /\ mutex' = t
  /\ drain' = [drain EXCEPT ![t].at = IF drain[t].kind = "ack" THEN "end" ELSE "read"]
  /\ UNCHANGED <<ringVars, bridgeVars, socketVars, flowVars, origin, localTail, lastAcked,
                 queueVars>>

\* The mutex is taken.
DrainBegin(t) ==
  /\ Alive
  /\ drain[t].at = "begin" /\ mutex = "free"
  /\ mutex' = t
  /\ drain' = [drain EXCEPT ![t].at = IF drain[t].kind = "ack" THEN "end" ELSE "read"]
  /\ UNCHANGED <<ringVars, bridgeVars, socketVars, flowVars, origin, localTail, lastAcked,
                 queueVars>>

\* (variant) The batch is taken to be full.
DrainReadPast(t) ==
  /\ Alive
  /\ drain[t].at = "read"
  /\ localTail' = localTail + Batch
  /\ drain' = [drain EXCEPT ![t].at = "account",
                            ![t].batch = SubSeq(log, localTail + 1, Minimum(head, localTail'))]
  /\ UNCHANGED <<ringVars, bridgeVars, socketVars, flowVars, mutex, origin, lastAcked,
                 queueVars>>

\* hfior_ring_read_snapshot of one batch, which moves the private tail.
DrainRead(t) ==
  /\ Alive
  /\ drain[t].at = "read"
  /\ localTail' = Minimum(head, localTail + Batch)
  /\ drain' = [drain EXCEPT ![t].at = "account",
                            ![t].batch = SubSeq(log, localTail + 1, localTail')]
  /\ UNCHANGED <<ringVars, bridgeVars, socketVars, flowVars, mutex, origin, lastAcked,
                 queueVars>>

\* The batch is accounted and queued for the frames, or only counted by the
\* shadow drain; a full batch is followed by another.
DrainAccount(t) ==
  /\ Alive
  /\ drain[t].at = "account"
  /\ IF drain[t].kind = "shadow"
       THEN UNCHANGED <<pending, last, gaps, reordered, terminalSeen>>
       ELSE pending' = pending \o drain[t].batch /\ Account(drain[t].batch)
  /\ drain' = [drain EXCEPT ![t].at = IF Len(drain[t].batch) = Batch THEN "read" ELSE "end",
                            ![t].batch = <<>>]
  /\ UNCHANGED <<ringVars, bridgeVars, socketVars, main, step, ingress, stop,
                 clientGeneration, mutex, origin, localTail, lastAcked, inbox, tally, used>>

\* (variant) The head is acknowledged, not what was copied.
SendAckHead ==
  \/ /\ localTail = lastAcked
     /\ UNCHANGED <<toBridge, lastAcked, main>>
  \/ /\ localTail # lastAcked
     /\ CanSend
     /\ ToBridge([type |-> "ACK", generation |-> clientGeneration, consumed |-> head])
     /\ IF BridgeGone THEN main' = "dead" /\ UNCHANGED lastAcked
                      ELSE lastAcked' = localTail /\ UNCHANGED main

\* send_ack_if_needed; an acknowledgement a closed bridge cannot take ends the
\* client.
SendAckIfNeeded ==
  \/ /\ localTail = lastAcked
     /\ UNCHANGED <<toBridge, lastAcked, main>>
  \/ /\ localTail # lastAcked
     /\ CanSend
     /\ ToBridge([type |-> "ACK", generation |-> clientGeneration, consumed |-> localTail])
     /\ IF BridgeGone THEN main' = "dead" /\ UNCHANGED lastAcked
                      ELSE lastAcked' = localTail /\ UNCHANGED main

\* The acknowledgement, if this call makes it; the mutex is given back.
DrainEnd(t) ==
  /\ Alive
  /\ drain[t].at = "end"
  /\ IF drain[t].ack THEN SendAckIfNeeded ELSE UNCHANGED <<toBridge, lastAcked, main>>
  /\ mutex' = "free"
  /\ drain' = [drain EXCEPT ![t] = Idle]
  /\ UNCHANGED <<ringVars, bridgeVars, toClient, urgent, step, ingress, stop, terminalSeen,
                 clientGeneration, origin, localTail, queueVars>>

DrainStep(t) == DrainBegin(t) \/ DrainRead(t) \/ DrainAccount(t) \/ DrainEnd(t)

-----------------------------------------------------------------------------
\* The client: drain_control_socket_nonblocking, which both threads call under
\* the eager policy.

ReceivesHere(t) == IF t = "main" THEN main \in {"recv", "finalRecv"}
                                 ELSE ingress \in {"recv", "recvLast"}

\* recv: the oldest message is this thread's now.
Receive(t) ==
  /\ Alive /\ ReceivesHere(t) /\ inbox[t] = <<>>
  /\ toClient # <<>>
  /\ toClient' = Tail(toClient)
  /\ inbox' = [inbox EXCEPT ![t] = <<Head(toClient)>>]
  /\ UNCHANGED <<ringVars, bridgeVars, toBridge, urgent, flowVars, drainVars, tally, pending,
                 last, gaps, reordered, used>>

Holds(t, type) == inbox[t] # <<>> /\ Head(inbox[t]).type = type

\* process_eager_message takes no lock before the queue's, so two threads may be in it
\* at a time.  Its account_sequences loads last_sequence once (the build optimises)...
AccountLoad(t) ==
  /\ Alive /\ Holds(t, "EAGER") /\ tally[t].at = "load"
  /\ tally' = [tally EXCEPT ![t] = [at |-> "store", last |-> last, gaps |-> gaps,
                                    reordered |-> reordered]]
  /\ UNCHANGED <<ringVars, bridgeVars, socketVars, flowVars, drainVars, inbox, pending, last,
                 gaps, reordered, used>>

\* ... compares with that, and stores.  An increment is a load and a store as well:
\* it may be of the value from before what the other thread has stored meanwhile.
AccountStore(t) ==
  /\ Alive /\ tally[t].at = "store"
  /\ tally' = [tally EXCEPT ![t] = [Fresh EXCEPT !.at = "push"]]
  /\ LET sequence == Head(inbox[t]).sequence
         before   == IF tally[t].last = 0 THEN sequence - 1 ELSE tally[t].last
     IN  /\ \/ /\ sequence > before + 1
               /\ \E counted \in {tally[t].gaps, gaps} : gaps' = counted + sequence - before - 1
               /\ last' = sequence /\ UNCHANGED reordered
            \/ sequence = before + 1 /\ last' = sequence /\ UNCHANGED <<gaps, reordered>>
            \/ /\ sequence <= before
               /\ \E counted \in {tally[t].reordered, reordered} : reordered' = counted + 1
               /\ UNCHANGED <<last, gaps>>
         /\ terminalSeen' = (terminalSeen \/ offered[sequence].kind = "terminate")
  /\ UNCHANGED <<ringVars, bridgeVars, socketVars, main, step, ingress, stop, clientGeneration,
                 drainVars, inbox, pending, used>>

\* The record is pushed, under the queue's own mutex.
PushRecord(t) ==
  /\ Alive /\ tally[t].at = "push"
  /\ pending' = Append(pending, Head(inbox[t]).sequence)
  /\ inbox' = [inbox EXCEPT ![t] = <<>>]
  /\ tally' = [tally EXCEPT ![t] = Fresh]
  /\ UNCHANGED <<ringVars, bridgeVars, socketVars, flowVars, drainVars, last, gaps, reordered,
                 used>>

\* DEVICE_STATE: the generation is taken over.
TakeGeneration(t) ==
  /\ Alive /\ Holds(t, "DEVICE_STATE")
  /\ clientGeneration' = Head(inbox[t]).generation
  /\ inbox' = [inbox EXCEPT ![t] = <<>>]
  /\ UNCHANGED <<ringVars, bridgeVars, socketVars, main, step, ingress, stop, terminalSeen,
                 drainVars, tally, pending, last, gaps, reordered, used>>

\* The message is dealt with.
Process(t) == AccountLoad(t) \/ AccountStore(t) \/ PushRecord(t) \/ TakeGeneration(t)

\* Nothing to read, or a reset because the bridge left messages unread; at end of
\* file, as at a reset, the run is over.
ReceiveOver(t) ==
  /\ Alive /\ ReceivesHere(t) /\ inbox[t] = <<>>
  /\ toClient = <<>> \/ (BridgeGone /\ toBridge # <<>>)
  /\ terminalSeen' = (terminalSeen \/ BridgeGone \/ (Eager /\ stop))

-----------------------------------------------------------------------------
\* The client: the ingress thread.

IngressFree == Alive /\ drain["ingress"].at = "no"

\* The thread goes round until it is told to stop.
IngressCheck ==
  /\ IngressFree /\ ingress = "check"
  /\ ingress' = IF stop THEN "done" ELSE "poll"
  /\ UNCHANGED <<ringVars, bridgeVars, socketVars, main, step, stop, terminalSeen,
                 clientGeneration, drainVars, queueVars>>

\* poll times out, or under the eager policy finds the socket readable; a hangup
\* it sees makes this receive the last.
IngressPoll ==
  /\ IngressFree /\ ingress = "poll"
  /\ LET readable == toClient # <<>> \/ BridgeGone \/ stop
     IN  \/ ~Eager /\ ~urgent /\ ingress' = "check"
         \/ Eager /\ ~readable /\ ingress' = "check"
         \/ Eager /\ readable /\ ingress' = IF BridgeGone THEN "recvLast" ELSE "recv"
  /\ UNCHANGED <<ringVars, bridgeVars, socketVars, main, step, stop, terminalSeen,
                 clientGeneration, drainVars, queueVars>>

\* The eventfd is read, which resets it, and then the ring is drained.
IngressUrgent ==
  /\ IngressFree /\ ingress = "poll" /\ ~Eager
  /\ urgent
  /\ urgent' = FALSE
  /\ drain' = [drain EXCEPT !["ingress"] = Call("frame", TRUE)]
  /\ ingress' = "check"
  /\ UNCHANGED <<ringVars, bridgeVars, toBridge, toClient, main, step, stop, terminalSeen,
                 clientGeneration, mutex, origin, localTail, lastAcked, queueVars>>

IngressReceiveOver ==
  /\ ReceiveOver("ingress")
  /\ ingress' = IF ingress = "recvLast" THEN "done" ELSE "check"
  /\ UNCHANGED <<ringVars, bridgeVars, socketVars, main, step, stop, clientGeneration,
                 drainVars, queueVars>>

Ingress ==
  \/ IngressCheck \/ IngressPoll \/ IngressUrgent \/ IngressReceiveOver
  \/ Receive("ingress") \/ Process("ingress") \/ DrainStep("ingress")

-----------------------------------------------------------------------------
\* The client: the main thread.

MainFree == Alive /\ drain["main"].at = "no"

Critical == AckPlacement = "critical"

\* run_frame_policy and maybe_ack_post_frame: what a frame does, in order.  The
\* critical acknowledgement is made by the last drain, or ("multi") after it.
\* "late" is also the plan of hfior-spin and hfior-critical-ack, and "latch" of
\* hfior-two-stage; "stable" rechecks twice (final_rechecks), and acknowledges at the
\* last of them and at the drain before the first.
Plan ==
  LET post == <<"ackPostUse", "ackPostFrame">>
  IN  CASE Policy = "late"   -> <<"drainAck", "take">> \o post
        [] Policy = "multi"  -> <<"drain", "drain", "take", "ackCritical">> \o post
        [] Policy = "latch"  -> <<"drain", "take", "drainAck", "take">> \o post
        [] Policy = "stable" -> <<"drain", "take", "drainAck", "take", "drain", "take",
                                  "drainAck", "take">> \o post
        [] Policy = "eager"  -> <<"take", "shadow", "ackPostFrame">>

\* The acknowledgement a step of the plan makes of its own.
AcksNow(what) ==
  \/ what = "ackCritical"  /\ Critical
  \/ what = "ackPostUse"   /\ AckPlacement = "post_use"
  \/ what = "ackPostFrame" /\ AckPlacement = "post_frame"

StartFrame ==
  /\ MainFree /\ main = "idle"
  /\ ~terminalSeen
  /\ main' = "frame"
  /\ UNCHANGED <<ringVars, bridgeVars, socketVars, step, ingress, stop, terminalSeen,
                 clientGeneration, drainVars, queueVars>>

FrameStep ==
  /\ MainFree /\ main = "frame"
  /\ IF step = Len(Plan) THEN step' = 1 /\ main' = "idle"
                         ELSE step' = step + 1 /\ UNCHANGED main
  /\ LET what == Plan[step]
         call == CASE what = "drain"    -> Call("frame", FALSE)
                   [] what = "drainAck" -> Call("frame", Critical)
                   [] what = "shadow"   -> Call("shadow", TRUE)
                   [] AcksNow(what)     -> Call("ack", TRUE)
                   [] OTHER             -> Idle
     IN  /\ drain' = [drain EXCEPT !["main"] = call]
         /\ IF what = "take" THEN used' = used \o pending /\ pending' = <<>>
                             ELSE UNCHANGED <<used, pending>>
  /\ UNCHANGED <<ringVars, bridgeVars, socketVars, ingress, stop, terminalSeen,
                 clientGeneration, mutex, origin, localTail, lastAcked, inbox, tally, last,
                 gaps, reordered>>

\* The frame loop ends, at the terminal record, its duration or a signal; a STOP
\* that cannot be sent is ignored.
LeaveFrames ==
  /\ MainFree /\ main = "idle"
  /\ CanSend
  /\ ToBridge([type |-> "STOP"])
  /\ main' = "shutdown"
  /\ UNCHANGED <<ringVars, bridgeVars, toClient, urgent, step, ingress, stop, terminalSeen,
                 clientGeneration, drainVars, queueVars>>

\* Until the terminal record or for 100 ms: the eager policy first empties the
\* socket.
ShutdownTurn ==
  /\ MainFree /\ main = "shutdown"
  /\ ~terminalSeen
  /\ IF Eager THEN main' = "recv" /\ UNCHANGED drain
              ELSE drain' = [drain EXCEPT !["main"] = Call("frame", TRUE)] /\ UNCHANGED main
  /\ UNCHANGED <<ringVars, bridgeVars, socketVars, step, ingress, stop, terminalSeen,
                 clientGeneration, mutex, origin, localTail, lastAcked, queueVars>>

\* (variant) It is woken and not told to stop.
StopIngressForgets ==
  /\ MainFree /\ main = "shutdown"
  /\ terminalSeen \/ WaitsMayExpire
  /\ urgent' = TRUE
  /\ main' = "joinIngress"
  /\ UNCHANGED <<ringVars, bridgeVars, toBridge, toClient, step, ingress, stop, terminalSeen,
                 clientGeneration, drainVars, queueVars>>

\* The ingress thread is told to stop, and woken.
StopIngress ==
  /\ MainFree /\ main = "shutdown"
  /\ terminalSeen \/ WaitsMayExpire
  /\ stop' = TRUE /\ urgent' = TRUE
  /\ main' = "joinIngress"
  /\ UNCHANGED <<ringVars, bridgeVars, toBridge, toClient, step, ingress, terminalSeen,
                 clientGeneration, drainVars, queueVars>>

JoinIngress ==
  /\ main = "joinIngress" /\ ingress = "done"
  /\ IF Eager THEN main' = "finalRecv" /\ UNCHANGED drain
              ELSE main' = "final" /\ drain' = [drain EXCEPT !["main"] = Call("frame", TRUE)]
  /\ UNCHANGED <<ringVars, bridgeVars, socketVars, step, ingress, stop, terminalSeen,
                 clientGeneration, mutex, origin, localTail, lastAcked, queueVars>>

\* (variant) Only the socket is emptied.
MainReceiveOnly ==
  /\ ReceiveOver("main")
  /\ main' = IF main = "recv" THEN "shutdown" ELSE "final"
  /\ UNCHANGED <<ringVars, bridgeVars, socketVars, step, ingress, stop, clientGeneration,
                 drainVars, queueVars>>

\* The socket is empty: the shadow drain follows.
MainReceiveOver ==
  /\ ReceiveOver("main")
  /\ main' = IF main = "recv" THEN "shutdown" ELSE "final"
  /\ drain' = [drain EXCEPT !["main"] = Call("shadow", TRUE)]
  /\ UNCHANGED <<ringVars, bridgeVars, socketVars, step, ingress, stop, clientGeneration,
                 mutex, origin, localTail, lastAcked, queueVars>>

Exit ==
  /\ MainFree /\ main = "final"
  /\ main' = "exit"
  /\ UNCHANGED <<ringVars, bridgeVars, socketVars, step, ingress, stop, terminalSeen,
                 clientGeneration, drainVars, queueVars>>

Main ==
  \/ SendSetup \/ ReceiveStarted \/ JoinRing
  \/ StartFrame \/ FrameStep \/ LeaveFrames
  \/ ShutdownTurn \/ StopIngress \/ JoinIngress \/ MainReceiveOver \/ Exit
  \/ Receive("main") \/ Process("main") \/ DrainStep("main")

-----------------------------------------------------------------------------
Over == ClientGone /\ BridgeGone /\ UNCHANGED vars

Next == Bridge \/ Ingress \/ Main \/ Over

Spec == Init /\ [][Next]_vars

\* The bridge's loops and the ingress thread run; nothing makes the device move, leave or
\* come back, or the bridge stop.  The main thread may stall anywhere (--stall-ms), but not
\* inside a call of drain_ring.
ServiceFairness ==
  /\ WF_vars(BridgeControl)
  /\ WF_vars(Ingress)
  /\ WF_vars(DrainStep("main"))

StallSpec == Spec /\ ServiceFairness

\* Nothing stalls; the client's duration and its 100 ms at the shutdown elapse.
NothingStalls == WF_vars(Main) /\ SF_vars(LeaveFrames) /\ SF_vars(StopIngress)

-----------------------------------------------------------------------------
Sequence == 1 .. MaxRecords + 1
ToBridgeMessage ==
  [type : {"SET_MODE"}, mode : {"eager", "hfior"}] \cup [type : {"START", "STOP"}]
    \cup [type : {"ACK"}, generation : 1 .. MaxGeneration, consumed : Sequence]
ToClientMessage ==
  [type : {"STARTED"}] \cup [type : {"EAGER"}, sequence : Sequence]
    \cup [type : {"DEVICE_STATE"}, generation : 1 .. MaxGeneration]

\* Type correctness.
TypeOK ==
  /\ offered \in Seq([kind : Kind, generation : 1 .. MaxGeneration])
  /\ Len(offered) <= MaxRecords + 1
  /\ log \in Seq(Sequence) /\ tail \in 0 .. head /\ head - tail <= Capacity
  /\ dropped = Len(offered) - head /\ eagerDrops \in 0 .. head
  /\ bridge \in {"barrier", "loop", "terminal", "waitAck", "closed"}
  /\ mode \in {"none", "eager", "hfior"} /\ generation \in 1 .. MaxGeneration
  /\ sourceOpen \in BOOLEAN /\ stopRequested \in BOOLEAN
  /\ invalidAcks \in Nat /\ finalDepth \in -1 .. Capacity
  /\ toBridge \in Seq(ToBridgeMessage) /\ Len(toBridge) <= SocketLimit
  /\ toClient \in Seq(ToClientMessage) /\ Len(toClient) <= SocketLimit
  /\ urgent \in BOOLEAN
  /\ main \in {"mode", "start", "waitStarted", "join", "idle", "frame", "shutdown", "recv",
              "joinIngress", "finalRecv", "final", "exit", "dead"}
  /\ step \in 1 .. Len(Plan)
  /\ ingress \in {"unstarted", "check", "poll", "recv", "recvLast", "done"}
  /\ stop \in BOOLEAN /\ terminalSeen \in BOOLEAN
  /\ clientGeneration \in 1 .. generation
  /\ drain \in [Thread -> [at : {"no", "begin", "read", "account", "end"},
                           kind : {"frame", "shadow", "ack"}, ack : BOOLEAN,
                           batch : Seq(Sequence)]]
  /\ mutex \in Thread \cup {"free"}
  /\ origin \in -1 .. head /\ localTail \in 0 .. head /\ lastAcked \in 0 .. localTail
  /\ inbox \in [Thread -> Seq(ToClientMessage)]
  /\ tally \in [Thread -> [at : {"load", "store", "push"}, last : Nat, gaps : Nat,
                           reordered : Nat]]
  /\ pending \in Seq(Sequence) /\ used \in Seq(Sequence)
  /\ last \in 0 .. Len(offered) /\ gaps \in Nat /\ reordered \in Nat

\* What the cursor has passed since it began.
Drained == IF origin = -1 THEN <<>> ELSE SubSeq(log, origin + 1, localTail)

\* The batch a thread has copied and not yet queued.
Copied == drain["main"].batch \o drain["ingress"].batch

\* The frames take the published history in order, each record once, although
\* two threads drain the ring and one of them empties the queue: what was taken,
\* then what is queued, then what is being queued is what the cursor passed.
QueueKeepsHistory == ~Eager => used \o pending \o Copied = Drained

\* The gaps the client counts are exactly the records the full ring dropped in
\* the span it has seen, and it sees none out of order.
GapsAreDrops ==
  ~Eager /\ last # 0 =>
    LET published == {log[i] : i \in 1 .. head}
    IN  /\ reordered = 0
        /\ gaps = Cardinality((log[origin + 1] .. last) \ published)

\* Messages the client has not dealt with: in the socket, or in a thread's hands.
EagerIn(messages) == Cardinality({i \in 1 .. Len(messages) : messages[i].type = "EAGER"})
EagerOnTheWay == EagerIn(toClient) + EagerIn(inbox["main"]) + EagerIn(inbox["ingress"])

\* Whatever an eager client that still reads does not get, the bridge has counted:
\* as dropped by the full ring or by the full socket (send_eager_record).  As long as
\* frames run, and so one thread receives, the client sees no record out of order and
\* never counts more gaps than the bridge has losses; later NeverReordered has it.
EagerLossCounted ==
  Eager /\ origin # -1 /\ ~ClientDeaf =>
    LET lost == dropped + eagerDrops
    IN  /\ Len(used) + Len(pending) + EagerOnTheWay + lost = Len(offered)
        /\ main \in {"idle", "frame"} => reordered = 0 /\ gaps <= lost

\* What a shutdown loses has a reason: the client dies on an acknowledgement only
\* if the bridge gave up waiting for one; and the bridge reports a ring that is
\* not empty, to a client that acknowledged all of it, only if it left
\* acknowledgements unread or had refused one.
ShutdownLossExplained ==
  /\ main = "dead" /\ origin # -1 => finalDepth > 0
  /\ finalDepth > 0 /\ lastAcked = head /\ lastAcked # origin =>
       toBridge # <<>> \/ invalidAcks > 0

\* Acknowledgements, of which both threads send some, reach the bridge in order:
\* each is at least the tail and the one before it, and none is ahead of what
\* the client has copied.
AcksInOrder ==
  \A i \in 1 .. Len(toBridge) :
    toBridge[i].type = "ACK" =>
      /\ toBridge[i].consumed \in tail .. localTail
      /\ \A j \in 1 .. i :
           toBridge[j].type = "ACK" => toBridge[j].consumed <= toBridge[i].consumed

\* A client that leaves after it has accounted the terminal record has drained
\* the whole ring, the records published during its shutdown included: by its
\* frames, or by the shadow drain when the record came by the socket.
ShutdownDrainsAll ==
  main = "exit" /\ last # 0 /\ offered[last].kind = "terminate" => localTail = head

\* The bridge and the two threads together are the stream HFIOR promises.
Stream == INSTANCE ObservationStream WITH
  offered   <- Len(offered),
  accepted  <- log,
  received  <- Drained,
  reclaimed <- tail

ImplementsStream == Stream!StreamSpec

\* A published button is drained although the main thread stalls: the eventfd
\* wakes the ingress thread, and no wakeup is lost between its read and its drain.
ButtonsArrive ==
  \A position \in 1 .. MaxRecords :
    (/\ position <= head /\ offered[log[position]].kind = "button"
     /\ origin \in 0 .. position - 1)
      ~> (localTail >= position \/ ingress = "done" \/ ClientGone)

\* A run in which nothing stalls ends: the client's two threads and the bridge all
\* leave their loops (ingress_main, main, and the bridge's poll loop), whatever
\* their messages cross.
RunEnds == NothingStalls => <>(ClientGone /\ BridgeGone)

-----------------------------------------------------------------------------
\* What a check and a document say, and the code does not do.

\* run_once.sh, check duplicate_or_reordered: no record is seen twice or out of
\* order.
NeverReordered == reordered = 0

\* docs/security-model.md: a consumer does not silently join the histories of two
\* device generations; what it uses belongs to a generation it knows of.
HistoriesNotJoined ==
  \A i \in 1 .. Len(used) : offered[used[i]].generation <= clientGeneration

=============================================================================
