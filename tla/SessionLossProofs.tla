-------------------------- MODULE SessionLossProofs --------------------------
(***************************************************************************)
(* More proofs about Session: what its shutdown and its eager socket lose. *)
(*                                                                         *)
(* LossInv adds to SessionInv what the two programs have agreed on by the  *)
(* start barrier, what the last acknowledgement and the last drain did,    *)
(* where every record of an eager client went, and what its statistics are *)
(* as long as one thread alone receives.                                   *)
(***************************************************************************)
EXTENDS SessionProofs

-----------------------------------------------------------------------------
Wanted  == IF Eager THEN "eager" ELSE "hfior"
SetMode == [type |-> "SET_MODE", mode |-> Wanted]
Start   == [type |-> "START"]

\* STARTED is the next message of a client that waits for it.
Answered == toClient # <<>> /\ Head(toClient).type = "STARTED"

\* The client has STARTED, or has it next.
Engaged == (main = "waitStarted" /\ Answered) \/ main = "join" \/ origin # -1

\* The two programs before the loop: what is on its way belongs to where they are, and
\* only a bridge that answered, for which the mode is set, runs its loop.
BarrierKnown ==
  /\ bridge = "barrier" =>
       main \in {"mode", "start", "waitStarted"} /\ toClient = <<>> /\ offered = <<>>
  /\ stop => origin # -1 /\ main \in {"joinIngress", "finalRecv", "final", "exit", "dead"}
  /\ mode \in {"none", Wanted}
  /\ \A i \in 1 .. Len(toBridge) : toBridge[i].type = "SET_MODE" => toBridge[i].mode = Wanted
  /\ main = "mode" => toBridge = <<>>
  /\ main = "start" => toBridge = <<SetMode>> \/ (toBridge = <<>> /\ mode = Wanted)
  /\ main = "waitStarted" /\ ~Answered =>
       \/ toBridge = <<SetMode, Start>>
       \/ toBridge = <<Start>> /\ mode = Wanted
       \/ toBridge = <<>> /\ bridge # "barrier"
  /\ main \in Before /\ ~Engaged =>
       bridge # "loop" /\ \A i \in 1 .. Len(toClient) : toClient[i].type # "STARTED"
  /\ main = "dead" /\ origin = -1 => bridge = "closed"
  /\ Engaged =>
       bridge # "barrier" /\ mode = Wanted /\ (bridge = "closed" => finalDepth # -1)

\* The depth the bridge reports is the one it left.
DepthKnown ==
  finalDepth # -1 => bridge = "closed" /\ finalDepth = head - tail

\* The newest acknowledgement has arrived, is on its way, or one was refused; and who
\* could not send one left a ring that is not empty.
LastAckKnown ==
  /\ origin # -1 /\ lastAcked # origin /\ invalidAcks = 0 =>
       \/ tail = lastAcked
       \/ \E i \in 1 .. Len(toBridge) :
            toBridge[i].type = "ACK" /\ toBridge[i].consumed = lastAcked
  /\ main = "dead" /\ origin # -1 => bridge = "closed" /\ lastAcked < localTail

\* Nothing is offered after the terminal record.
TerminalKnown ==
  \A i \in 1 .. Len(offered) :
    offered[i].kind = "terminate" => i = Len(offered) /\ bridge \in {"waitAck", "closed"}

\* Messages are received where the client receives; at its end it does no more.
HandsKnown ==
  /\ \A t \in Thread : Len(inbox[t]) <= 1
  /\ inbox["main"] # <<>> => main \in {"recv", "finalRecv"}
  /\ inbox["ingress"] # <<>> => ingress \in {"recv", "recvLast"}
  /\ main \in {"finalRecv", "final", "exit"} => ingress = "done"
  /\ main = "exit" => drain["main"].at = "no"
  /\ \A t \in Thread : drain[t].at \in {"read", "account"} => drain[t].kind # "ack"
  /\ Eager => drain["ingress"].at = "no"

TerminalSeen == last # 0 /\ offered[last].kind = "terminate"

\* The shadow drain goes on until it has copied all there was.
LastDrainKnown ==
  Eager /\ TerminalSeen /\ main \in {"final", "exit"} =>
    \/ drain["main"].at = "begin" /\ drain["main"].kind # "ack"
    \/ drain["main"].at = "read"
    \/ drain["main"].at = "account" /\ Len(drain["main"].batch) = Batch
    \/ localTail = head

Taken == Len(used) + Len(pending)

\* Each record of an eager client is with its frames, on its way, or lost and counted.
EagerKnown ==
  Eager /\ Engaged /\ ~ClientDeaf =>
    Taken + EagerOnTheWay + dropped + eagerDrops = Len(offered)

\* Before the shutdown.
Running == Before \cup {"idle", "frame"}

\* The records counted in the statistics, and the last that the ingress thread has got.
Accounted == Taken + IF tally["ingress"].at = "push" THEN 1 ELSE 0
Behind == IF Holds("ingress", "EAGER") THEN Head(inbox["ingress"]).sequence ELSE last

\* The eager records among messages are later than floor, and in order.
Ascends(messages, floor) ==
  \A i \in 1 .. Len(messages) :
    messages[i].type = "EAGER" =>
      /\ floor < messages[i].sequence
      /\ \A j \in 1 .. i - 1 :
           messages[j].type = "EAGER" => messages[j].sequence < messages[i].sequence

\* As long as frames run only the ingress thread receives: what it has loaded still
\* holds, records come to it in order, and those it has counted as missing are before
\* the last it has counted.
RunKnown ==
  Eager /\ main \in Running =>
    /\ reordered = 0
    /\ tally["ingress"].at = "store" =>
         tally["ingress"].last = last /\ tally["ingress"].gaps = gaps
    /\ Holds("ingress", "EAGER") =>
         IF tally["ingress"].at = "push" THEN last = Behind ELSE last < Behind
    /\ gaps + Accounted <= last
    /\ Ascends(toClient, Behind)

LossInv ==
  /\ StateInv
  /\ TallyKnown
  /\ BarrierKnown
  /\ DepthKnown
  /\ LastAckKnown
  /\ TerminalKnown
  /\ HandsKnown
  /\ LastDrainKnown
  /\ EagerKnown
  /\ RunKnown

-----------------------------------------------------------------------------
\* How many eager records there are in a sequence of messages, as it grows and shrinks.
LEMMA EagerInEmpty == EagerIn(<<>>) = 0
<1>1. {i \in 1 .. Len(<<>>) : <<>>[i].type = "EAGER"} = {}
  OBVIOUS
<1>2. QED BY <1>1, FS_EmptySet DEF EagerIn

Weight(message) == IF message.type = "EAGER" THEN 1 ELSE 0

LEMMA EagerInAppend ==
  ASSUME NEW messages \in Seq(ToClientMessage), NEW message \in ToClientMessage
  PROVE  /\ EagerIn(messages) \in Nat
         /\ EagerIn(Append(messages, message)) = EagerIn(messages) + Weight(message)
<1> DEFINE n      == Len(messages)
           longer == Append(messages, message)
           S      == {i \in 1 .. n : messages[i].type = "EAGER"}
           T      == {i \in 1 .. Len(longer) : longer[i].type = "EAGER"}
<1>1. /\ n \in Nat /\ Len(longer) = n + 1 /\ longer[n + 1] = message
      /\ \A i \in 1 .. n : longer[i] = messages[i]
  BY AppendProperties
<1>2. IsFiniteSet(S) /\ Cardinality(S) \in Nat
  <2>1. IsFiniteSet(1 .. n)
    BY <1>1, FS_Interval
  <2>2. S \subseteq 1 .. n
    OBVIOUS
  <2>3. QED BY <2>1, <2>2, FS_Subset, FS_CardinalityType
<1>3. EagerIn(messages) = Cardinality(S) /\ EagerIn(longer) = Cardinality(T)
  BY DEF EagerIn
<1>4. CASE message.type = "EAGER"
  <2>1. T = S \cup {n + 1} /\ n + 1 \notin S
    BY <1>1, <1>4
  <2>2. Cardinality(T) = Cardinality(S) + 1
    BY <1>2, <2>1, FS_AddElement
  <2>3. QED BY <1>2, <1>3, <1>4, <2>2 DEF Weight
<1>5. CASE message.type # "EAGER"
  <2>1. T = S
    BY <1>1, <1>5
  <2>2. Weight(message) = 0
    BY <1>5 DEF Weight
  <2>3. EagerIn(longer) = EagerIn(messages) /\ EagerIn(messages) \in Nat
    BY <1>2, <1>3, <2>1
  <2>4. QED BY <2>2, <2>3
<1>6. QED BY <1>4, <1>5

LEMMA EagerInTail ==
  ASSUME NEW messages \in Seq(ToClientMessage), messages # <<>>
  PROVE  /\ EagerIn(Tail(messages)) \in Nat
         /\ EagerIn(messages) = EagerIn(Tail(messages)) + Weight(Head(messages))
<1> DEFINE n    == Len(messages)
           rest == Tail(messages)
           S    == {i \in 1 .. Len(rest) : rest[i].type = "EAGER"}
           T    == {i \in 1 .. n : messages[i].type = "EAGER"}
           U    == T \ {1}
           shift == [i \in S |-> i + 1]
<1>1. /\ n \in Nat \ {0} /\ Len(rest) = n - 1 /\ Head(messages) = messages[1]
      /\ \A i \in 1 .. n - 1 : rest[i] = messages[i + 1]
  BY HeadTailProperties, EmptySeq
<1>2. IsFiniteSet(S) /\ Cardinality(S) \in Nat
  <2>1. IsFiniteSet(1 .. n - 1)
    BY <1>1, FS_Interval
  <2>2. S \subseteq 1 .. n - 1
    BY <1>1
  <2>3. QED BY <2>1, <2>2, FS_Subset, FS_CardinalityType
<1>3. IsFiniteSet(U) /\ Cardinality(U) = Cardinality(S)
  <2>1. ASSUME NEW i \in S
        PROVE  i + 1 \in U
    BY <1>1
  <2>2. ASSUME NEW j \in U
        PROVE  \E i \in S : i + 1 = j
    <3>1. j - 1 \in 1 .. n - 1 /\ rest[j - 1] = messages[j]
      BY <1>1
    <3>2. QED BY <1>1, <3>1
  <2>3. shift \in [S -> U]
    BY <2>1
  <2>4. \A i, j \in S : shift[i] = shift[j] => i = j
    OBVIOUS
  <2>5. \A j \in U : \E i \in S : shift[i] = j
    BY <2>2
  <2>6. shift \in Bijection(S, U)
    BY <2>3, <2>4, <2>5, Fun_IsBij
  <2>7. ExistsBijection(S, U)
    BY <2>6 DEF ExistsBijection
  <2>8. QED BY <1>2, <2>7, FS_Bijection
<1>4. EagerIn(rest) = Cardinality(S) /\ EagerIn(messages) = Cardinality(T)
  BY DEF EagerIn
<1>5. CASE messages[1].type = "EAGER"
  <2>1. T = U \cup {1} /\ 1 \notin U
    BY <1>1, <1>5
  <2>2. Cardinality(T) = Cardinality(S) + 1
    BY <1>3, <2>1, FS_AddElement
  <2>3. QED BY <1>1, <1>2, <1>4, <1>5, <2>2 DEF Weight
<1>6. CASE messages[1].type # "EAGER"
  <2>1. T = U
    BY <1>6
  <2>2. Weight(Head(messages)) = 0
    BY <1>1, <1>6 DEF Weight
  <2>3. EagerIn(messages) = EagerIn(rest) /\ EagerIn(rest) \in Nat
    BY <1>2, <1>3, <1>4, <2>1
  <2>4. QED BY <2>2, <2>3
<1>7. QED BY <1>5, <1>6

\* A thread holds one message at a time.
LEMMA EagerInOne ==
  ASSUME NEW message \in ToClientMessage
  PROVE  EagerIn(<<message>>) = Weight(message)
<1>1. <<>> \in Seq(ToClientMessage) /\ Append(<<>>, message) = <<message>>
  BY EmptySeq
<1>2. EagerIn(Append(<<>>, message)) = EagerIn(<<>>) + Weight(message)
  BY <1>1, EagerInAppend
<1>3. Weight(message) \in Nat
  BY DEF Weight
<1>4. QED BY <1>1, <1>2, <1>3, EagerInEmpty

-----------------------------------------------------------------------------
LEMMA LossTypes ==
  ASSUME StateInv
  PROVE  /\ inbox \in [Thread -> Seq(ToClientMessage)] /\ drain \in [Thread -> DrainCall]
         /\ toBridge \in Seq(ToBridgeMessage) /\ toClient \in Seq(ToClientMessage)
         /\ offered \in Seq([kind : Kind, generation : 1 .. MaxGeneration])
         /\ "main" \in Thread /\ "ingress" \in Thread
  BY DEF StateInv, ToClientKnown, ThreadsTyped, ToBridgeKnown, RingKnown, Thread

\* At the start nothing has been agreed on and nothing can be lost.
LEMMA InitLoss ==
  ASSUME Init
  PROVE  LossInv
<1>1. StateInv
  BY InitSession
<1>2. BarrierKnown
  <2>1. ~Engaged
    BY DEF Init, Engaged
  <2>2. \A i \in 1 .. Len(toBridge) : FALSE
    BY DEF Init
  <2>3. \A i \in 1 .. Len(toClient) : FALSE
    BY DEF Init
  <2>4. QED BY <2>1, <2>2, <2>3 DEF Init, BarrierKnown
<1>3. DepthKnown /\ LastAckKnown
  BY DEF Init, DepthKnown, LastAckKnown
<1>4. TerminalKnown
  <2>1. \A i \in 1 .. Len(offered) : FALSE
    BY DEF Init
  <2>2. QED BY <2>1 DEF TerminalKnown
<1>5. HandsKnown
  <2>1. \A t \in Thread : drain[t] = Idle /\ inbox[t] = <<>> /\ Len(inbox[t]) <= 1
    BY EmptySeq DEF Init
  <2>2. Idle.at = "no"
    BY DEF Idle
  <2>3. QED BY <2>1, <2>2, Zenon DEF Init, HandsKnown, Thread
<1>6. LastDrainKnown
  BY DEF Init, LastDrainKnown
<1>7. EagerKnown
  <2>1. ~Engaged
    BY DEF Init, Engaged
  <2>2. QED BY <2>1 DEF EagerKnown
<1>8. TallyKnown
  BY InitTally
<1>9. RunKnown
  <2>1. /\ tally["ingress"] = Fresh /\ inbox["ingress"] = <<>> /\ reordered = 0 /\ gaps = 0
        /\ last = 0 /\ Taken = 0 /\ toClient = <<>>
    BY EmptySeq DEF Init, Taken, Thread
  <2>2. ~Holds("ingress", "EAGER") /\ Accounted = 0
    BY <2>1 DEF Holds, Accounted, Fresh
  <2>3. Ascends(toClient, Behind)
    BY <2>1, EmptySeq DEF Ascends
  <2>4. tally["ingress"].at = "load"
    BY <2>1 DEF Fresh
  <2>5. gaps + Accounted <= last
    BY <2>1, <2>2
  <2>6. QED BY <2>1, <2>2, <2>3, <2>4, <2>5 DEF RunKnown
<1>10. QED BY <1>1, <1>2, <1>3, <1>4, <1>5, <1>6, <1>7, <1>8, <1>9 DEF LossInv

-----------------------------------------------------------------------------
\* The client leaves the ring and the bridge alone.
LEMMA ClientLeaves ==
  ASSUME Ingress \/ Main
  PROVE  UNCHANGED <<ringVars, bridgeVars>>
<1>1. CASE \E t \in Thread : Receive(t) \/ Process(t)
  BY <1>1 DEF Receive, Process, AccountLoad, AccountStore, PushRecord, TakeGeneration
<1>2. CASE \E t \in Thread : DrainStep(t)
  BY <1>2 DEF DrainStep, DrainBegin, DrainRead, DrainAccount, DrainEnd
<1>3. CASE IngressCheck \/ IngressPoll \/ IngressUrgent \/ IngressReceiveOver
  BY <1>3 DEF IngressCheck, IngressPoll, IngressUrgent, IngressReceiveOver
<1>4. CASE SendSetup \/ ReceiveStarted \/ JoinRing
  BY <1>4 DEF SendSetup, ReceiveStarted, JoinRing
<1>5. CASE StartFrame \/ FrameStep \/ LeaveFrames \/ ShutdownTurn
  BY <1>5 DEF StartFrame, FrameStep, LeaveFrames, ShutdownTurn
<1>6. CASE StopIngress \/ JoinIngress \/ MainReceiveOver \/ Exit
  BY <1>6 DEF StopIngress, JoinIngress, MainReceiveOver, Exit
<1>7. "main" \in Thread /\ "ingress" \in Thread
  BY DEF Thread
<1>8. QED BY <1>1, <1>2, <1>3, <1>4, <1>5, <1>6, <1>7 DEF Ingress, Main

-----------------------------------------------------------------------------
\* The depth is reported as the bridge closes, which is the last it does.
LEMMA DepthStep ==
  ASSUME LossInv, [Next]_vars
  PROVE  DepthKnown'
<1>1. DepthKnown
  BY DEF LossInv
<1>2. CASE \E kind \in {"motion", "button"} : Observe(kind)
  BY <1>1, <1>2 DEF DepthKnown, Observe
<1>3. CASE HandleBarrier \/ HandleControl \/ DeviceGone \/ Reconnect \/ LeaveLoop
           \/ BridgeStops \/ PublishTerminal
  BY <1>1, <1>3 DEF DepthKnown, HandleBarrier, HandleControl, DeviceGone, Reconnect, LeaveLoop,
                    BridgeStops, PublishTerminal
<1>4. CASE WaitAckMessage
  BY <1>1, <1>4 DEF DepthKnown, WaitAckMessage, head
<1>5. CASE WaitAckOver
  BY <1>1, <1>5 DEF DepthKnown, WaitAckOver, head, ringVars
<1>6. CASE Ingress \/ Main \/ UNCHANGED vars
  <2>1. UNCHANGED <<ringVars, bridgeVars>>
    BY <1>6, ClientLeaves DEF vars
  <2>2. QED BY <1>1, <2>1 DEF DepthKnown, ringVars, bridgeVars, head
<1>7. QED BY <1>2, <1>3, <1>4, <1>5, <1>6 DEF Next, Over, Bridge, BridgeControl

\* Nothing is offered after the terminal record.
LEMMA TerminalStep ==
  ASSUME LossInv, [Next]_vars
  PROVE  TerminalKnown'
<1>1. TerminalKnown
  BY DEF LossInv
<1>2. ASSUME NEW kind \in Kind, offered' = Append(offered, [kind |-> kind, generation |-> generation]),
             bridge \in {"loop", "terminal"}, kind = "terminate" => bridge' = "waitAck"
      PROVE  TerminalKnown'
  <2>1. /\ Len(offered') = Len(offered) + 1 /\ Len(offered) \in Nat
        /\ \A i \in 1 .. Len(offered) : offered'[i] = offered[i]
        /\ offered'[Len(offered) + 1].kind = kind
    <3>1. [kind |-> kind, generation |-> generation] \in [kind : Kind, generation : 1 .. MaxGeneration]
      BY DEF LossInv, StateInv, BridgeKnown
    <3>2. QED BY <1>2, <3>1, LossTypes, AppendProperties DEF LossInv
  <2>2. \A i \in 1 .. Len(offered) : offered[i].kind # "terminate"
    BY <1>1, <1>2 DEF TerminalKnown
  <2>3. QED BY <1>2, <2>1, <2>2 DEF TerminalKnown
<1>3. CASE \E kind \in {"motion", "button"} : Observe(kind)
  <2>1. PICK kind \in {"motion", "button"} : Observe(kind)
    BY <1>3
  <2>2. offered' = Append(offered, [kind |-> kind, generation |-> generation]) /\ bridge = "loop"
    BY <2>1 DEF Observe, Publish
  <2>3. QED BY <1>2, <2>1, <2>2 DEF Kind
<1>4. CASE PublishTerminal
  <2>1. /\ offered' = Append(offered, [kind |-> "terminate", generation |-> generation])
        /\ bridge = "terminal" /\ bridge' = "waitAck"
    BY <1>4 DEF PublishTerminal, Publish
  <2>2. "terminate" \in Kind
    BY DEF Kind
  <2>3. QED BY <1>2, <2>1, <2>2
<1>5. CASE HandleBarrier \/ HandleControl \/ DeviceGone \/ Reconnect \/ LeaveLoop
           \/ BridgeStops \/ WaitAckMessage \/ WaitAckOver
  <2>1. UNCHANGED offered
    BY <1>5 DEF HandleBarrier, HandleControl, DeviceGone, Reconnect, LeaveLoop, BridgeStops,
                WaitAckMessage, WaitAckOver, ringVars
  <2>2. bridge \in {"waitAck", "closed"} => bridge' \in {"waitAck", "closed"}
    BY <1>5 DEF HandleBarrier, HandleControl, DeviceGone, Reconnect, LeaveLoop, BridgeStops,
                WaitAckMessage, WaitAckOver
  <2>3. QED BY <1>1, <2>1, <2>2 DEF TerminalKnown
<1>6. CASE Ingress \/ Main \/ UNCHANGED vars
  <2>1. UNCHANGED <<ringVars, bridgeVars>>
    BY <1>6, ClientLeaves DEF vars
  <2>2. QED BY <1>1, <2>1 DEF TerminalKnown, ringVars, bridgeVars
<1>7. QED BY <1>3, <1>4, <1>5, <1>6 DEF Next, Over, Bridge, BridgeControl

-----------------------------------------------------------------------------
\* A message is in a thread's hands only where that thread receives, and a main thread
\* that has joined the other is alone.
LEMMA HandsStep ==
  ASSUME LossInv, [Next]_vars
  PROVE  HandsKnown'
<1>1. HandsKnown
  BY DEF LossInv
<1>2. inbox \in [Thread -> Seq(ToClientMessage)] /\ drain \in [Thread -> DrainCall]
      /\ "main" \in Thread /\ "ingress" \in Thread
  BY LossTypes DEF LossInv
<1>3. ASSUME UNCHANGED <<inbox, drain, main, ingress>>
      PROVE  HandsKnown'
  BY <1>1, <1>3 DEF HandsKnown
<1>4. CASE Bridge \/ UNCHANGED vars
  BY <1>3, <1>4, BridgeLeaves DEF vars, clientVars, flowVars, drainVars, queueVars
<1>5. ASSUME NEW t \in Thread, Receive(t)
      PROVE  HandsKnown'
  <2>1. /\ UNCHANGED <<main, ingress, drain>> /\ ReceivesHere(t)
        /\ inbox' = [inbox EXCEPT ![t] = <<Head(toClient)>>]
    BY <1>5 DEF Receive, flowVars, drainVars
  <2>2. \A s \in Thread : s # t => inbox'[s] = inbox[s]
    BY <1>2, <2>1
  <2>3. Len(inbox'[t]) = 1
    BY <1>2, <2>1
  <2>4. QED BY <1>1, <2>1, <2>2, <2>3 DEF HandsKnown, ReceivesHere, Thread
<1>6. ASSUME NEW t \in Thread, Process(t)
      PROVE  HandsKnown'
  <2>1. /\ UNCHANGED <<main, ingress, drain>>
        /\ inbox' = inbox \/ inbox' = [inbox EXCEPT ![t] = <<>>]
    BY <1>6, ProcessLeaves DEF LossInv, drainVars
  <2>2. \A s \in Thread :
          (inbox'[s] = inbox[s] \/ inbox'[s] = <<>>) /\ Len(inbox'[s]) <= 1
    <3>1. TAKE s \in Thread
    <3>2. CASE s = t
      BY <1>1, <1>2, <2>1, <3>2, EmptySeq DEF HandsKnown
    <3>3. CASE s # t
      BY <1>1, <1>2, <2>1, <3>3 DEF HandsKnown
    <3>4. QED BY <3>2, <3>3
  <2>3. QED BY <1>1, <1>2, <2>1, <2>2 DEF HandsKnown
<1>7. ASSUME NEW t \in Thread, DrainStep(t)
      PROVE  HandsKnown'
  <2>1. /\ UNCHANGED <<ingress, inbox>>
        /\ main' = main \/ (main' = "dead" /\ drain[t].at = "end")
    BY <1>7 DEF DrainStep, DrainBegin, DrainRead, DrainAccount, DrainEnd, SendAckIfNeeded,
                flowVars, queueVars
  <2>2. /\ drain[t].at # "no" /\ \A s \in Thread : s # t => drain'[s] = drain[s]
        /\ drain'[t].at \in {"read", "account"} =>
             drain'[t].kind = drain[t].kind /\ drain[t].kind # "ack"
    <3>1. CASE DrainBegin(t)
      BY <1>1, <1>2, <3>1 DEF DrainBegin, HandsKnown, DrainCall
    <3>2. CASE DrainRead(t)
      BY <1>1, <1>2, <3>2 DEF DrainRead, HandsKnown, DrainCall
    <3>3. CASE DrainAccount(t)
      BY <1>1, <1>2, <3>3 DEF DrainAccount, HandsKnown, DrainCall
    <3>4. CASE DrainEnd(t)
      BY <1>1, <1>2, <3>4 DEF DrainEnd, HandsKnown, DrainCall, Idle
    <3>5. QED BY <1>7, <3>1, <3>2, <3>3, <3>4 DEF DrainStep
  <2>3. Eager => t = "main"
    BY <1>1, <2>2 DEF HandsKnown, Thread
  <2>4. main' = "dead" /\ main \in {"recv", "finalRecv"} => FALSE
    <3>1. main \in {"recv", "finalRecv"} => Eager
      BY DEF LossInv, StateInv, ThreadsKnown
    <3>2. main \in {"recv", "finalRecv"} => drain["main"].at = "no"
      BY DEF LossInv, StateInv, ThreadsKnown
    <3>3. QED BY <2>1, <2>2, <2>3, <3>1, <3>2
  <2>5. inbox'["main"] # <<>> => main' \in {"recv", "finalRecv"}
    BY <1>1, <2>1, <2>4 DEF HandsKnown
  <2>6. inbox'["ingress"] # <<>> => ingress' \in {"recv", "recvLast"}
    BY <1>1, <2>1 DEF HandsKnown
  <2>7. main' \in {"finalRecv", "final", "exit"} => ingress' = "done"
    BY <1>1, <2>1 DEF HandsKnown
  <2>8. main' = "exit" => drain'["main"].at = "no"
    BY <1>1, <1>2, <2>1, <2>2 DEF HandsKnown
  <2>9. \A s \in Thread : drain'[s].at \in {"read", "account"} => drain'[s].kind # "ack"
    BY <1>1, <2>2 DEF HandsKnown
  <2>10. Eager => drain'["ingress"].at = "no"
    BY <1>1, <1>2, <2>2, <2>3 DEF HandsKnown
  <2>11. \A s \in Thread : Len(inbox'[s]) <= 1
    BY <1>1, <2>1 DEF HandsKnown
  <2>12. QED BY <2>5, <2>6, <2>7, <2>8, <2>9, <2>10, <2>11 DEF HandsKnown
<1>8. ASSUME UNCHANGED inbox,
             \/ drain' = drain
             \/ \E s \in Thread : \E call \in DrainCall :
                  /\ drain' = [drain EXCEPT ![s] = call] /\ call.at \in {"no", "begin"}
                  /\ s = "ingress" => ~Eager
                  /\ s = "main" => main' # "exit",
             \/ main' = main
             \/ /\ inbox["main"] = <<>>
                /\ main' \in {"finalRecv", "final", "exit"} => ingress = "done"
                /\ main' = "exit" => drain' = drain /\ drain["main"].at = "no",
             \/ ingress' = ingress
             \/ /\ inbox["ingress"] = <<>> /\ ingress # "done"
                /\ main' \notin {"finalRecv", "final", "exit"} \/ main' = main
      PROVE  HandsKnown'
  <2>1. \A s \in Thread :
          /\ drain'[s].at \in {"read", "account"} => drain'[s] = drain[s]
          /\ \/ drain'[s] = drain[s]
             \/ (s = "ingress" => ~Eager) /\ (s = "main" => main' # "exit")
    <3>1. CASE drain' = drain
      BY <3>1, Zenon
    <3>2. CASE drain' # drain
      <4>1. PICK s \in Thread, call \in DrainCall :
                  /\ drain' = [drain EXCEPT ![s] = call] /\ call.at \in {"no", "begin"}
                  /\ s = "ingress" => ~Eager
                  /\ s = "main" => main' # "exit"
        BY <1>8, <3>2
      <4>2. drain'[s] = call /\ \A r \in Thread : r # s => drain'[r] = drain[r]
        BY <1>2, <4>1
      <4>3. call.at \notin {"read", "account"}
        BY <4>1
      <4>4. QED BY <4>1, <4>2, <4>3, Zenon
    <3>3. QED BY <3>1, <3>2
  <2>2. inbox'["main"] # <<>> => main' \in {"recv", "finalRecv"}
    BY <1>1, <1>8 DEF HandsKnown
  <2>3. inbox'["ingress"] # <<>> => ingress' \in {"recv", "recvLast"}
    BY <1>1, <1>8 DEF HandsKnown
  <2>4. main' \in {"finalRecv", "final", "exit"} => ingress' = "done"
    BY <1>1, <1>8 DEF HandsKnown
  <2>5. main' = "exit" => drain'["main"].at = "no"
    BY <1>1, <1>2, <1>8, <2>1 DEF HandsKnown
  <2>6. \A s \in Thread : drain'[s].at \in {"read", "account"} => drain'[s].kind # "ack"
    BY <1>1, <2>1 DEF HandsKnown
  <2>7. Eager => drain'["ingress"].at = "no"
    BY <1>1, <1>2, <2>1 DEF HandsKnown
  <2>8. \A s \in Thread : Len(inbox'[s]) <= 1
    BY <1>1, <1>8 DEF HandsKnown
  <2>9. QED BY <2>2, <2>3, <2>4, <2>5, <2>6, <2>7, <2>8 DEF HandsKnown
<1>9. \A kind \in {"frame", "shadow", "ack"} : \A ack \in BOOLEAN :
        Call(kind, ack) \in DrainCall /\ Call(kind, ack).at = "begin"
  BY CallIs
<1>10. CASE IngressCheck \/ IngressPoll \/ IngressReceiveOver
  <2>1. /\ UNCHANGED <<inbox, drain, main>> /\ ingress \in {"check", "poll", "recv", "recvLast"}
        /\ ingress \in {"recv", "recvLast"} => inbox["ingress"] = <<>>
    BY <1>10 DEF IngressCheck, IngressPoll, IngressReceiveOver, ReceiveOver, ReceivesHere,
                 drainVars, queueVars
  <2>2. inbox["ingress"] = <<>> /\ ingress # "done"
    BY <1>1, <2>1 DEF HandsKnown
  <2>3. QED BY <1>8, <2>1, <2>2
<1>11. CASE IngressUrgent
  <2>1. /\ UNCHANGED <<inbox, main>> /\ ingress = "poll" /\ ~Eager
        /\ drain' = [drain EXCEPT !["ingress"] = Call("frame", TRUE)]
    BY <1>11 DEF IngressUrgent, queueVars
  <2>2. inbox["ingress"] = <<>> /\ ingress # "done"
    BY <1>1, <2>1 DEF HandsKnown
  <2>3. PICK call \in DrainCall : call = Call("frame", TRUE) /\ call.at = "begin"
    BY <1>9
  <2>4. QED BY <1>2, <1>8, <2>1, <2>2, <2>3
<1>12. CASE SendSetup \/ ReceiveStarted \/ StartFrame \/ LeaveFrames \/ StopIngress \/ Exit
  <2>1. /\ UNCHANGED <<inbox, drain, ingress>> /\ main \notin {"recv", "finalRecv"}
        /\ main' # main => /\ main' \notin {"finalRecv", "final"}
                           /\ main' = "exit" => main = "final" /\ drain["main"].at = "no"
    BY <1>12 DEF SendSetup, ReceiveStarted, StartFrame, LeaveFrames, StopIngress, Exit, MainFree,
                 drainVars, queueVars
  <2>2. inbox["main"] = <<>> /\ (main = "final" => ingress = "done")
    BY <1>1, <2>1 DEF HandsKnown
  <2>3. QED BY <1>8, <2>1, <2>2
<1>13. CASE JoinRing
  <2>1. UNCHANGED <<inbox, drain>> /\ main = "join" /\ main' = "idle"
    BY <1>13 DEF JoinRing, queueVars
  <2>2. ingress = "unstarted"
    BY <2>1 DEF LossInv, StateInv, JoinKnown, Before
  <2>3. inbox["main"] = <<>> /\ inbox["ingress"] = <<>>
    BY <1>1, <2>1, <2>2 DEF HandsKnown
  <2>4. QED BY <1>8, <2>1, <2>2, <2>3
<1>14. CASE FrameStep
  <2>1. UNCHANGED <<inbox, ingress>> /\ main = "frame" /\ main' \in {"idle", "frame"}
    BY <1>14 DEF FrameStep
  <2>2. PICK call \in DrainCall : drain' = [drain EXCEPT !["main"] = call]
                                  /\ call.at \in {"no", "begin"}
    <3>1. Idle \in DrainCall /\ Idle.at = "no"
      BY IdleIs
    <3>2. QED
      <4>1. PICK call : /\ drain' = [drain EXCEPT !["main"] = call]
                        /\ call = CASE Plan[step] = "drain"    -> Call("frame", FALSE)
                                    [] Plan[step] = "drainAck" -> Call("frame", Critical)
                                    [] Plan[step] = "shadow"   -> Call("shadow", TRUE)
                                    [] AcksNow(Plan[step])     -> Call("ack", TRUE)
                                    [] OTHER                   -> Idle
        BY <1>14, Zenon DEF FrameStep
      <4>2. call \in {Call("frame", FALSE), Call("frame", Critical), Call("shadow", TRUE),
                      Call("ack", TRUE), Idle}
        BY <4>1
      <4>3. Critical \in BOOLEAN
        BY DEF Critical
      <4>4. call \in DrainCall /\ call.at \in {"no", "begin"}
        BY <1>9, <3>1, <4>2, <4>3
      <4>5. QED BY <4>1, <4>4
  <2>3. inbox["main"] = <<>>
    BY <1>1, <2>1 DEF HandsKnown
  <2>4. QED BY <1>2, <1>8, <2>1, <2>2, <2>3
<1>15. CASE ShutdownTurn
  <2>1. /\ UNCHANGED <<inbox, ingress>> /\ main = "shutdown" /\ main' \in {"recv", "shutdown"}
        /\ drain' = drain \/ drain' = [drain EXCEPT !["main"] = Call("frame", TRUE)]
    BY <1>15 DEF ShutdownTurn, queueVars
  <2>2. PICK call \in DrainCall : call = Call("frame", TRUE) /\ call.at = "begin"
    BY <1>9
  <2>3. inbox["main"] = <<>>
    BY <1>1, <2>1 DEF HandsKnown
  <2>4. QED BY <1>2, <1>8, <2>1, <2>2, <2>3
<1>16. CASE JoinIngress
  <2>1. /\ UNCHANGED <<inbox, ingress>> /\ main = "joinIngress"
        /\ main' \in {"finalRecv", "final"}
        /\ drain' = drain \/ drain' = [drain EXCEPT !["main"] = Call("frame", TRUE)]
        /\ ingress = "done"
    BY <1>16 DEF JoinIngress, queueVars
  <2>2. PICK call \in DrainCall : call = Call("frame", TRUE) /\ call.at = "begin"
    BY <1>9
  <2>3. inbox["main"] = <<>>
    BY <1>1, <2>1 DEF HandsKnown
  <2>4. QED BY <1>2, <1>8, <2>1, <2>2, <2>3
<1>17. CASE MainReceiveOver
  <2>1. UNCHANGED <<inbox, ingress>> /\ main \in {"recv", "finalRecv"} /\ inbox["main"] = <<>>
        /\ main' = (IF main = "recv" THEN "shutdown" ELSE "final")
        /\ drain' = [drain EXCEPT !["main"] = Call("shadow", TRUE)]
    BY <1>17 DEF MainReceiveOver, ReceiveOver, ReceivesHere, queueVars
  <2>2. PICK call \in DrainCall : call = Call("shadow", TRUE) /\ call.at = "begin"
    BY <1>9
  <2>3. main' = "final" => ingress = "done"
    BY <1>1, <2>1 DEF HandsKnown
  <2>4. QED BY <1>2, <1>8, <2>1, <2>2, <2>3
<1>18. CASE Ingress
  BY <1>2, <1>5, <1>6, <1>7, <1>10, <1>11, <1>18 DEF Ingress
<1>19. CASE Main
  BY <1>2, <1>5, <1>6, <1>7, <1>12, <1>13, <1>14, <1>15, <1>16, <1>17, <1>19 DEF Main
<1>20. QED BY <1>4, <1>18, <1>19 DEF Next, Over

-----------------------------------------------------------------------------
\* The terminal record is accounted after the bridge has offered its last.
LEMMA SeenBefore ==
  ASSUME LossInv, Bridge, TerminalSeen'
  PROVE  TerminalSeen /\ UNCHANGED <<offered, log>>
<1>1. last' = last /\ last \in 0 .. Len(offered) /\ Len(offered) \in Nat
  BY BridgeLeaves, LossTypes DEF clientVars, queueVars, LossInv, StateInv, QueueTyped
<1>2. last' # 0 /\ offered'[last'].kind = "terminate"
  BY DEF TerminalSeen
<1>3. TerminalKnown
  BY DEF LossInv
<1>4. ASSUME NEW kind, offered' = Append(offered, [kind |-> kind, generation |-> generation]),
             kind \in Kind, bridge \in {"loop", "terminal"}
      PROVE  FALSE
  <2>1. [kind |-> kind, generation |-> generation] \in [kind : Kind, generation : 1 .. MaxGeneration]
    BY <1>4 DEF LossInv, StateInv, BridgeKnown
  <2>2. \A i \in 1 .. Len(offered) : offered'[i] = offered[i]
    BY <1>4, <2>1, LossTypes, AppendProperties DEF LossInv
  <2>3. offered[last].kind = "terminate" /\ last \in 1 .. Len(offered)
    BY <1>1, <1>2, <2>2
  <2>4. QED BY <1>3, <1>4, <2>3 DEF TerminalKnown
<1>5. CASE \E kind \in {"motion", "button"} : Observe(kind)
  <2>1. PICK kind \in {"motion", "button"} : Observe(kind)
    BY <1>5
  <2>2. offered' = Append(offered, [kind |-> kind, generation |-> generation]) /\ bridge = "loop"
    BY <2>1 DEF Observe, Publish
  <2>3. QED BY <1>4, <2>2 DEF Kind
<1>6. CASE PublishTerminal
  <2>1. /\ offered' = Append(offered, [kind |-> "terminate", generation |-> generation])
        /\ bridge = "terminal"
    BY <1>6 DEF PublishTerminal, Publish
  <2>2. QED BY <1>4, <2>1 DEF Kind
<1>7. CASE HandleBarrier \/ HandleControl \/ DeviceGone \/ Reconnect \/ LeaveLoop
           \/ BridgeStops \/ WaitAckMessage \/ WaitAckOver
  <2>1. UNCHANGED <<offered, log>>
    BY <1>7 DEF HandleBarrier, HandleControl, DeviceGone, Reconnect, LeaveLoop, BridgeStops,
                WaitAckMessage, WaitAckOver, ringVars
  <2>2. QED BY <1>1, <1>2, <2>1 DEF TerminalSeen
<1>8. QED BY <1>5, <1>6, <1>7 DEF Bridge, BridgeControl

\* What the main thread of an eager client that waits for nobody drains: all there is.
Draining(call, tailNow, headNow) ==
  \/ call.at = "begin" /\ call.kind # "ack"
  \/ call.at = "read"
  \/ call.at = "account" /\ Len(call.batch) = Batch
  \/ tailNow = headNow

\* The last shadow drain ends at the head: only a batch that is not full ends it.
LEMMA LastDrainStep ==
  ASSUME LossInv, [Next]_vars
  PROVE  LastDrainKnown'
<1>1. SUFFICES ASSUME Eager, TerminalSeen', main' \in {"final", "exit"}
               PROVE  Draining(drain["main"], localTail, head)'
  BY DEF LastDrainKnown, Draining, Eager
<1>2. HandsKnown /\ LastDrainKnown
  BY DEF LossInv
<1>3. drain \in [Thread -> DrainCall] /\ "main" \in Thread /\ "ingress" \in Thread
  BY LossTypes DEF LossInv
<1>4. ASSUME TerminalSeen, main \in {"final", "exit"}
      PROVE  Draining(drain["main"], localTail, head)
  BY <1>1, <1>2, <1>4 DEF LastDrainKnown, Draining
<1>5. CASE Bridge
  <2>1. UNCHANGED <<main, drain, localTail, log>> /\ TerminalSeen
    BY <1>1, <1>5, SeenBefore, BridgeLeaves DEF clientVars, flowVars, drainVars
  <2>2. QED BY <1>1, <1>4, <2>1 DEF Draining, head
<1>6. CASE UNCHANGED vars
  <2>1. UNCHANGED <<main, drain, localTail, log, offered, last>>
    BY <1>6 DEF vars, ringVars, clientVars, flowVars, drainVars, queueVars
  <2>2. TerminalSeen
    BY <1>1, <2>1 DEF TerminalSeen
  <2>3. QED BY <1>1, <1>4, <2>1, <2>2 DEF Draining, head
<1>7. ASSUME Ingress \/ Main, last' = last
      PROVE  TerminalSeen /\ head' = head
  BY <1>1, <1>7, ClientLeaves DEF ringVars, TerminalSeen, head
<1>8. ASSUME Ingress \/ Main, UNCHANGED <<last, main, drain, localTail>>
      PROVE  Draining(drain["main"], localTail, head)'
  BY <1>1, <1>4, <1>7, <1>8 DEF Draining
<1>9. ASSUME NEW t \in Thread, Receive(t), Ingress \/ Main
      PROVE  Draining(drain["main"], localTail, head)'
  BY <1>8, <1>9 DEF Receive, flowVars, drainVars
<1>10. ASSUME NEW t \in Thread, Process(t)
       PROVE  FALSE
  <2>1. main' = main /\ inbox[t] # <<>>
    BY <1>10, ProcessLeaves DEF LossInv
  <2>2. QED BY <1>1, <1>2, <2>1 DEF HandsKnown, Thread
<1>11. ASSUME NEW t \in Thread, DrainStep(t), Ingress \/ Main
       PROVE  Draining(drain["main"], localTail, head)'
  <2>1. t = "main"
    BY <1>1, <1>2, <1>3, <1>11
       DEF HandsKnown, Thread, DrainStep, DrainBegin, DrainRead, DrainAccount, DrainEnd
  <2>2. CASE DrainBegin(t)
    <3>1. /\ UNCHANGED <<last, main, localTail>> /\ drain["main"].at = "begin"
          /\ drain'["main"].at = IF drain["main"].kind = "ack" THEN "end" ELSE "read"
      BY <1>3, <2>1, <2>2 DEF DrainBegin, flowVars, queueVars, DrainCall
    <3>2. QED BY <1>1, <1>4, <1>7, <1>11, <3>1 DEF Draining
  <2>3. CASE DrainRead(t)
    <3>1. /\ UNCHANGED <<last, main>> /\ drain["main"].at = "read"
          /\ localTail' = Minimum(head, localTail + Batch)
          /\ drain'["main"].at = "account"
          /\ drain'["main"].batch = SubSeq(log, localTail + 1, localTail')
      BY <1>3, <2>1, <2>3 DEF DrainRead, flowVars, queueVars, DrainCall
    <3>2. log \in Seq(Sequence) /\ head = Len(log) /\ localTail \in 0 .. head
      BY DEF LossInv, StateInv, RingKnown, CursorKnown, head
    <3>3. Len(drain'["main"].batch) = localTail' - localTail
      <4>1. localTail' \in localTail .. head
        BY <3>1, <3>2, BoundsAre DEF Minimum
      <4>2. PICK records \in Seq(Sequence) : records = log
        BY <3>2
      <4>3. PICK from \in Nat, to \in Nat : /\ from = localTail /\ to = localTail'
                                           /\ from <= to /\ to <= Len(records)
        BY <3>2, <4>1, <4>2
      <4>4. Len(SubSeq(records, from + 1, to)) = to - from
        BY <4>3, CopyIs
      <4>5. QED BY <3>1, <4>2, <4>3, <4>4
    <3>4. localTail' = head \/ localTail' - localTail = Batch
      BY <3>1, <3>2, BoundsAre DEF Minimum
    <3>5. QED BY <1>1, <1>7, <1>11, <3>1, <3>3, <3>4 DEF Draining
  <2>4. CASE DrainAccount(t)
    <3>1. /\ UNCHANGED <<main, localTail>> /\ drain["main"].at = "account"
          /\ drain'["main"].at = IF Len(drain["main"].batch) = Batch THEN "read" ELSE "end"
      BY <1>3, <2>1, <2>4 DEF DrainAccount, DrainCall
    <3>2. drain["main"].kind = "shadow"
      <4>1. drain["main"].kind \in {"frame", "shadow", "ack"}
        BY <1>3 DEF DrainCall
      <4>2. drain["main"].kind # "ack" /\ drain["main"].kind # "frame"
        BY <1>1, <1>2, <1>3, <3>1 DEF HandsKnown, LossInv, StateInv, ThreadsKnown
      <4>3. QED BY <4>1, <4>2
    <3>3. last' = last
      BY <2>1, <2>4, <3>2 DEF DrainAccount
    <3>4. QED BY <1>1, <1>4, <1>7, <1>11, <3>1, <3>3 DEF Draining
  <2>5. CASE DrainEnd(t)
    <3>1. /\ UNCHANGED <<last, localTail>> /\ drain["main"].at = "end"
          /\ main' = main \/ main' = "dead"
      BY <2>1, <2>5 DEF DrainEnd, SendAckIfNeeded, queueVars
    <3>2. QED BY <1>1, <1>4, <1>7, <1>11, <3>1 DEF Draining
  <2>6. QED BY <1>11, <2>2, <2>3, <2>4, <2>5 DEF DrainStep
<1>12. CASE IngressCheck \/ IngressPoll \/ IngressReceiveOver
  <2>1. UNCHANGED <<last, main, drain, localTail>>
    BY <1>12 DEF IngressCheck, IngressPoll, IngressReceiveOver, drainVars, queueVars
  <2>2. QED BY <1>8, <1>12, <2>1 DEF Ingress
<1>13. CASE IngressUrgent
  BY <1>1, <1>13 DEF IngressUrgent
<1>14. CASE SendSetup \/ ReceiveStarted \/ JoinRing \/ StartFrame \/ FrameStep \/ LeaveFrames
            \/ ShutdownTurn \/ StopIngress
  <2>1. main' \notin {"final", "exit"}
    BY <1>14 DEF SendSetup, ReceiveStarted, JoinRing, StartFrame, FrameStep, LeaveFrames,
                 ShutdownTurn, StopIngress
  <2>2. QED BY <1>1, <2>1
<1>15. CASE JoinIngress
  BY <1>1, <1>15 DEF JoinIngress
<1>16. CASE MainReceiveOver
  <2>1. drain'["main"] = Call("shadow", TRUE)
    BY <1>3, <1>16 DEF MainReceiveOver
  <2>2. Call("shadow", TRUE).at = "begin" /\ Call("shadow", TRUE).kind = "shadow"
    BY CallIs
  <2>3. QED BY <2>1, <2>2 DEF Draining
<1>17. CASE Exit
  <2>1. UNCHANGED <<last, drain, localTail>> /\ main = "final"
    BY <1>17 DEF Exit, drainVars, queueVars
  <2>2. QED BY <1>1, <1>4, <1>7, <1>17, <2>1 DEF Draining, Main
<1>18. CASE Ingress
  BY <1>3, <1>9, <1>10, <1>11, <1>12, <1>13, <1>18 DEF Ingress
<1>19. CASE Main
  BY <1>3, <1>9, <1>10, <1>11, <1>14, <1>15, <1>16, <1>17, <1>19 DEF Main
<1>20. QED BY <1>5, <1>6, <1>18, <1>19 DEF Next, Over

-----------------------------------------------------------------------------
\* The newest acknowledgement is not overtaken, and the client dies of one only when the
\* bridge has closed.
LEMMA LastAckStep ==
  ASSUME LossInv, [Next]_vars
  PROVE  LastAckKnown'
<1> DEFINE OnTheWay == \E i \in 1 .. Len(toBridge) :
                         toBridge[i].type = "ACK" /\ toBridge[i].consumed = lastAcked
<1>1. LastAckKnown
  BY DEF LossInv
<1>2. /\ toBridge \in Seq(ToBridgeMessage) /\ Len(toBridge) \in Nat
      /\ lastAcked \in 0 .. localTail /\ localTail \in Nat /\ invalidAcks \in Nat
  <2>1. toBridge \in Seq(ToBridgeMessage) /\ Len(toBridge) \in Nat
    BY LossTypes DEF LossInv
  <2>2. lastAcked \in 0 .. localTail /\ localTail \in 0 .. head /\ invalidAcks \in Nat
    BY DEF LossInv, StateInv, CursorKnown, BridgeKnown
  <2>3. QED BY <2>1, <2>2
<1>3. CASE Bridge
  <2>1. UNCHANGED <<main, origin, localTail, lastAcked>>
    BY <1>3, BridgeLeaves DEF clientVars, flowVars, drainVars
  <2>2. bridge # "closed"
    BY <1>3 DEF Bridge, BridgeControl, Observe, DeviceGone, HandleBarrier, HandleControl,
                Reconnect, LeaveLoop, BridgeStops, PublishTerminal, WaitAckMessage, WaitAckOver
  <2>3. ~(main = "dead" /\ origin # -1)
    BY <1>1, <2>2 DEF LastAckKnown
  <2>4. CASE UNCHANGED <<tail, invalidAcks, toBridge>>
    BY <1>1, <2>1, <2>3, <2>4 DEF LastAckKnown
  <2>5. CASE HandleBarrier
    <3>1. origin = -1
      <4>1. main \in Before
        BY <2>5 DEF HandleBarrier, LossInv, BarrierKnown, Before
      <4>2. QED BY <4>1 DEF LossInv, StateInv, JoinKnown
    <3>2. QED BY <2>1, <2>3, <3>1 DEF LastAckKnown
  <2>6. CASE HandleMessage
    <3>1. /\ Head(toBridge) = toBridge[1] /\ Len(toBridge) \in Nat \ {0}
          /\ Len(toBridge') = Len(toBridge) - 1
          /\ \A i \in 1 .. Len(toBridge) - 1 : toBridge'[i] = toBridge[i + 1]
      BY <1>2, <2>6, HeadTailProperties, EmptySeq DEF HandleMessage
    <3>2. SUFFICES ASSUME origin # -1, lastAcked # origin, invalidAcks' = 0
                   PROVE  tail' = lastAcked \/ OnTheWay'
      BY <2>1, <2>3 DEF LastAckKnown
    <3>3. /\ UNCHANGED invalidAcks
          /\ \/ toBridge[1].type = "ACK" /\ AckIsValid(toBridge[1]) /\ tail' = toBridge[1].consumed
             \/ toBridge[1].type # "ACK" /\ tail' = tail
      BY <1>2, <2>6, <3>1, <3>2 DEF HandleMessage
    <3>4. tail = lastAcked \/ OnTheWay
      BY <1>1, <3>2, <3>3 DEF LastAckKnown
    <3>5. CASE OnTheWay
      <4>1. PICK i \in 1 .. Len(toBridge) :
                   toBridge[i].type = "ACK" /\ toBridge[i].consumed = lastAcked
        BY <3>5
      <4>2. CASE i = 1
        BY <3>3, <4>1, <4>2
      <4>3. CASE i # 1
        <5>1. i - 1 \in 1 .. Len(toBridge') /\ toBridge'[i - 1] = toBridge[i]
          BY <3>1, <4>3
        <5>2. QED BY <2>1, <4>1, <5>1
      <4>4. QED BY <4>2, <4>3
    <3>6. CASE tail = lastAcked
      <4>1. toBridge[1].type = "ACK" =>
              tail <= toBridge[1].consumed /\ toBridge[1].consumed <= lastAcked
        BY <3>1 DEF LossInv, StateInv, ToBridgeKnown
      <4>2. toBridge[1].type = "ACK" => toBridge[1].consumed \in Nat
        BY <1>2, <3>1, SequenceIsNat DEF ToBridgeMessage, Sequence
      <4>3. QED BY <1>2, <3>3, <3>6, <4>1, <4>2
    <3>7. QED BY <3>4, <3>5, <3>6
  <2>7. QED
    BY <1>3, <2>4, <2>5, <2>6
       DEF Bridge, BridgeControl, Observe, Publish, DeviceGone, HandleControl, Reconnect, LeaveLoop,
           BridgeStops, PublishTerminal, WaitAckMessage, WaitAckOver, ringVars, socketVars
<1>4. CASE UNCHANGED vars
  BY <1>1, <1>4
     DEF LastAckKnown, vars, ringVars, bridgeVars, socketVars, clientVars, flowVars, drainVars
<1>5. ASSUME Ingress \/ Main
      PROVE  UNCHANGED <<tail, invalidAcks, bridge>>
  BY <1>5, ClientLeaves DEF ringVars, bridgeVars
<1>6. ASSUME Ingress \/ Main, UNCHANGED <<origin, lastAcked, toBridge, localTail>>,
             main' = main \/ main' # "dead"
      PROVE  LastAckKnown'
  BY <1>1, <1>5, <1>6 DEF LastAckKnown
<1>7. ASSUME NEW t \in Thread, DrainStep(t), Ingress \/ Main
      PROVE  LastAckKnown'
  <2>1. CASE DrainBegin(t) \/ DrainAccount(t)
    <3>1. UNCHANGED <<origin, lastAcked, toBridge, localTail, main>>
      BY <2>1 DEF DrainBegin, DrainAccount, flowVars, socketVars
    <3>2. QED BY <1>6, <1>7, <3>1
  <2>2. CASE DrainRead(t)
    <3>1. UNCHANGED <<origin, lastAcked, toBridge, main>> /\ main # "dead"
      BY <2>2 DEF DrainRead, flowVars, socketVars, Alive
    <3>2. QED BY <1>1, <1>5, <1>7, <3>1 DEF LastAckKnown
  <2>3. CASE DrainEnd(t)
    <3>1. UNCHANGED <<origin, localTail>> /\ main # "dead"
      BY <2>3 DEF DrainEnd, Alive
    <3>2. CASE UNCHANGED <<toBridge, lastAcked, main>>
      BY <1>6, <1>7, <3>1, <3>2
    <3>3. CASE /\ localTail # lastAcked /\ BridgeGone
               /\ toBridge' = toBridge /\ main' = "dead" /\ lastAcked' = lastAcked
      <4>1. bridge' = "closed" /\ lastAcked < localTail
        BY <1>2, <1>5, <1>7, <3>3 DEF BridgeGone
      <4>2. QED BY <1>1, <1>5, <1>7, <3>1, <3>3, <4>1 DEF LastAckKnown
    <3>4. CASE /\ lastAcked' = localTail /\ main' = main
               /\ toBridge' = Append(toBridge, [type |-> "ACK", generation |-> clientGeneration,
                                                consumed |-> localTail])
      <4>1. Len(toBridge') = Len(toBridge) + 1
            /\ toBridge'[Len(toBridge) + 1] =
                 [type |-> "ACK", generation |-> clientGeneration, consumed |-> localTail]
        BY <1>2, <3>4
      <4>2. OnTheWay'
        BY <1>2, <3>4, <4>1
      <4>3. QED BY <3>1, <3>4, <4>2 DEF LastAckKnown
    <3>5. QED BY <2>3, <3>2, <3>3, <3>4 DEF DrainEnd, SendAckIfNeeded, ToBridge
  <2>4. QED BY <1>7, <2>1, <2>2, <2>3 DEF DrainStep
<1>8. ASSUME NEW t \in Thread, Receive(t) \/ Process(t), Ingress \/ Main
      PROVE  LastAckKnown'
  <2>1. UNCHANGED <<origin, lastAcked, toBridge, localTail, main>>
    BY <1>8, ProcessLeaves DEF LossInv, Receive, flowVars, drainVars, socketVars
  <2>2. QED BY <1>6, <1>8, <2>1
<1>9. CASE IngressCheck \/ IngressPoll \/ IngressUrgent \/ IngressReceiveOver
  <2>1. UNCHANGED <<origin, lastAcked, toBridge, localTail, main>>
    BY <1>9 DEF IngressCheck, IngressPoll, IngressUrgent, IngressReceiveOver, socketVars, drainVars
  <2>2. QED BY <1>6, <1>9, <2>1 DEF Ingress
<1>10. CASE SendSetup \/ ReceiveStarted
  <2>1. main \in Before /\ origin' = origin
    BY <1>10 DEF SendSetup, ReceiveStarted, drainVars, Before
  <2>2. origin' = -1
    BY <2>1 DEF LossInv, StateInv, JoinKnown
  <2>3. QED BY <2>2 DEF LastAckKnown
<1>11. CASE JoinRing
  BY <1>11 DEF JoinRing, LastAckKnown
<1>12. CASE StartFrame \/ FrameStep \/ ShutdownTurn \/ StopIngress \/ JoinIngress
            \/ MainReceiveOver \/ Exit
  <2>1. UNCHANGED <<origin, lastAcked, toBridge, localTail>> /\ (main' = main \/ main' # "dead")
    BY <1>12 DEF StartFrame, FrameStep, ShutdownTurn, StopIngress, JoinIngress, MainReceiveOver,
                 Exit, socketVars, drainVars
  <2>2. QED BY <1>6, <1>12, <2>1 DEF Main
<1>13. CASE LeaveFrames
  <2>1. UNCHANGED <<origin, lastAcked, localTail>> /\ main' = "shutdown"
    BY <1>13 DEF LeaveFrames, drainVars
  <2>2. \A i \in 1 .. Len(toBridge) : i \in 1 .. Len(toBridge') /\ toBridge'[i] = toBridge[i]
    BY <1>2, <1>13 DEF LeaveFrames, ToBridge
  <2>3. OnTheWay => OnTheWay'
    BY <2>1, <2>2
  <2>4. QED BY <1>1, <1>5, <1>13, <2>1, <2>3 DEF LastAckKnown, Main
<1>14. CASE Ingress
  BY <1>7, <1>8, <1>9, <1>14 DEF Ingress, Thread
<1>15. CASE Main
  BY <1>7, <1>8, <1>10, <1>11, <1>12, <1>13, <1>15 DEF Main, Thread
<1>16. QED BY <1>3, <1>4, <1>14, <1>15 DEF Next, Over

-----------------------------------------------------------------------------
NoneStarted == \A i \in 1 .. Len(toClient) : toClient[i].type # "STARTED"

\* What else the bridge sends does not look like an answer.
LEMMA SendKeeps ==
  ASSUME StateInv, NEW message \in ToClientMessage, message.type # "STARTED",
         Sent(message) \/ UNCHANGED toClient
  PROVE  Answered' = Answered /\ (NoneStarted => NoneStarted')
<1>1. CASE UNCHANGED toClient
  BY <1>1 DEF Answered, NoneStarted
<1>2. CASE toClient' = Append(toClient, message)
  <2>1. /\ Len(toClient) \in Nat /\ Len(toClient') = Len(toClient) + 1
        /\ \A i \in 1 .. Len(toClient) : toClient'[i] = toClient[i]
        /\ toClient'[Len(toClient) + 1] = message
    BY <1>2, LossTypes, AppendProperties
  <2>2. toClient' # <<>> /\ Head(toClient') = toClient'[1]
    <3>1. toClient' \in Seq(ToClientMessage) /\ toClient' # <<>>
      BY <1>2, LossTypes, AppendProperties
    <3>2. QED BY <3>1, HeadTailProperties
  <2>3. toClient # <<>> => Head(toClient) = toClient[1] /\ Len(toClient) # 0
    BY LossTypes, HeadTailProperties, EmptySeq
  <2>4. toClient = <<>> => Len(toClient) = 0
    OBVIOUS
  <2>5. Answered' = Answered
    <3>1. CASE toClient = <<>>
      BY <2>1, <2>2, <2>4, <3>1 DEF Answered
    <3>2. CASE toClient # <<>>
      BY <2>1, <2>2, <2>3, <3>2 DEF Answered
    <3>3. QED BY <3>1, <3>2
  <2>6. NoneStarted => NoneStarted'
    BY <2>1 DEF NoneStarted
  <2>7. QED BY <2>5, <2>6
<1>3. QED BY <1>1, <1>2 DEF Sent

\* The bridge's turns that read no message.
LEMMA TurnSends ==
  ASSUME StateInv,
         \/ \E kind \in {"motion", "button"} : Observe(kind)
         \/ DeviceGone \/ Reconnect \/ LeaveLoop \/ BridgeStops \/ PublishTerminal
         \/ WaitAckOver
  PROVE  /\ Answered' = Answered /\ (NoneStarted => NoneStarted')
         /\ UNCHANGED <<mode, toBridge, clientVars>> /\ bridge # "closed"
         /\ bridge' # "barrier" /\ (bridge' = "loop" => bridge = "loop")
         /\ bridge' = "closed" => finalDepth' # -1
<1>1. \A sequence \in Sequence : [type |-> "EAGER", sequence |-> sequence] \in ToClientMessage
  BY DEF ToClientMessage
<1>2. \A g \in 1 .. MaxGeneration : [type |-> "DEVICE_STATE", generation |-> g] \in ToClientMessage
  BY DEF ToClientMessage
<1>3. ASSUME NEW kind, Publish(kind), Len(offered) <= MaxRecords
      PROVE  Answered' = Answered /\ (NoneStarted => NoneStarted')
  <2>1. Len(offered) + 1 \in Sequence
    BY <1>3, LossTypes, BoundsAre DEF Sequence
  <2>2. PICK message \in ToClientMessage :
               message = [type |-> "EAGER", sequence |-> Len(offered) + 1]
    BY <1>1, <2>1
  <2>3. Sent(message) \/ UNCHANGED toClient
    BY <1>3, <2>2 DEF Publish
  <2>4. message.type # "STARTED"
    BY <2>2
  <2>5. QED BY <2>3, <2>4, SendKeeps
<1>4. ASSUME NEW kind \in {"motion", "button"}, Observe(kind)
      PROVE  Answered' = Answered /\ (NoneStarted => NoneStarted')
  BY <1>3, <1>4 DEF Observe, StateInv, RingKnown
<1>5. CASE PublishTerminal
  <2>1. Answered' = Answered /\ (NoneStarted => NoneStarted')
    BY <1>3, <1>5 DEF PublishTerminal, StateInv, RingKnown
  <2>2. QED BY <1>5, <2>1 DEF PublishTerminal
<1>6. CASE \E kind \in {"motion", "button"} : Observe(kind)
  BY <1>4, <1>6 DEF Observe
<1>7. CASE DeviceGone \/ Reconnect
  <2>1. StateInv'
    BY <1>7, DeviceStep
  <2>2. PICK g \in 1 .. MaxGeneration : Sent([type |-> "DEVICE_STATE", generation |-> g])
    BY <1>7, <2>1 DEF DeviceGone, Reconnect, StateInv, BridgeKnown
  <2>3. PICK message \in ToClientMessage : message = [type |-> "DEVICE_STATE", generation |-> g]
    BY <1>2
  <2>4. Answered' = Answered /\ (NoneStarted => NoneStarted')
    BY <2>2, <2>3, SendKeeps
  <2>5. QED BY <1>7, <2>4 DEF DeviceGone, Reconnect
<1>8. CASE LeaveLoop \/ BridgeStops
  BY <1>8 DEF LeaveLoop, BridgeStops, socketVars, Answered, NoneStarted
<1>9. CASE WaitAckOver
  <2>1. head - tail # -1
    BY BoundsAre DEF StateInv, RingKnown, head
  <2>2. QED BY <1>9, <2>1 DEF WaitAckOver, socketVars, Answered, NoneStarted
<1>10. QED BY <1>5, <1>6, <1>7, <1>8, <1>9

\* Up to the loop: who has been told what.
LEMMA BarrierStepBridge ==
  ASSUME LossInv, Bridge
  PROVE  BarrierKnown'
<1>1. BarrierKnown /\ StateInv
  BY DEF LossInv
<1>2. /\ toBridge \in Seq(ToBridgeMessage) /\ Len(toBridge) \in Nat
      /\ toClient \in Seq(ToClientMessage) /\ (main \in Before => origin = -1)
      /\ origin = -1 => main \in Before \cup {"dead"}
  BY <1>1, LossTypes DEF StateInv, JoinKnown
<1>3. UNCHANGED <<main, origin, stop>>
  BY BridgeLeaves DEF clientVars, flowVars, drainVars
<1>4. ASSUME Answered' = Answered, NoneStarted => NoneStarted',
             UNCHANGED <<mode, toBridge>>, bridge # "closed",
             bridge' # "barrier", bridge' = "loop" => bridge = "loop",
             bridge' = "closed" => finalDepth' # -1
      PROVE  BarrierKnown'
  <2>1. Engaged' = Engaged
    BY <1>3, <1>4 DEF Engaged
  <2>2. main = "waitStarted" /\ ~Answered' =>
       \/ toBridge = <<SetMode, Start>>
       \/ toBridge = <<Start>> /\ mode = Wanted
       \/ toBridge = <<>>
    BY <1>1, <1>4 DEF BarrierKnown
  <2>3. main \in Before /\ ~Engaged => bridge' # "loop" /\ NoneStarted'
    BY <1>1, <1>4 DEF BarrierKnown, NoneStarted
  <2>4. Engaged => bridge' # "barrier" /\ mode = Wanted /\ (bridge' = "closed" => finalDepth' # -1)
    BY <1>1, <1>4 DEF BarrierKnown
  <2>5. ~(main = "dead" /\ origin = -1)
    BY <1>1, <1>4 DEF BarrierKnown
  <2>6. QED BY <1>1, <1>3, <1>4, <2>1, <2>2, <2>3, <2>4, <2>5
               DEF BarrierKnown, NoneStarted, Wanted
<1>5. CASE \/ \E kind \in {"motion", "button"} : Observe(kind)
           \/ DeviceGone \/ Reconnect \/ LeaveLoop \/ BridgeStops \/ PublishTerminal
           \/ WaitAckOver
  BY <1>1, <1>4, <1>5, TurnSends
<1>6. SetMode.type = "SET_MODE" /\ SetMode.mode = Wanted /\ Start.type = "START"
  BY DEF SetMode, Start
\* The oldest message, where the start is still on its way.
<1>7. ASSUME toBridge # <<>>, main \in Before, ~Engaged
      PROVE  \/ /\ main = "start" /\ toBridge = <<SetMode>> /\ Head(toBridge) = SetMode
                /\ Tail(toBridge) = <<>>
             \/ /\ main = "waitStarted" /\ toBridge = <<SetMode, Start>>
                /\ Head(toBridge) = SetMode /\ Tail(toBridge) = <<Start>>
             \/ /\ main = "waitStarted" /\ toBridge = <<Start>> /\ mode = Wanted
                /\ Head(toBridge) = Start /\ Tail(toBridge) = <<>>
  <2>1. main # "mode" /\ main # "join"
    BY <1>1, <1>7 DEF BarrierKnown, Engaged
  <2>2. CASE main = "start"
    <3>1. toBridge = <<SetMode>>
      BY <1>1, <1>7, <2>2 DEF BarrierKnown
    <3>2. QED BY <2>2, <3>1
  <2>3. CASE main = "waitStarted"
    <3>1. toBridge = <<SetMode, Start>> \/ (toBridge = <<Start>> /\ mode = Wanted)
      BY <1>1, <1>7, <2>3 DEF BarrierKnown, Engaged
    <3>2. CASE toBridge = <<SetMode, Start>>
      <4>1. Head(toBridge) = SetMode /\ Tail(toBridge) = <<Start>>
        BY <3>2
      <4>2. QED BY <2>3, <3>2, <4>1
    <3>3. CASE toBridge = <<Start>> /\ mode = Wanted
      <4>1. Head(toBridge) = Start /\ Tail(toBridge) = <<>>
        BY <3>3
      <4>2. QED BY <2>3, <3>3, <4>1
    <3>4. QED BY <3>1, <3>2, <3>3
  <2>4. QED BY <1>7, <2>1, <2>2, <2>3 DEF Before
\* What was left of it.
<1>8. ASSUME toBridge # <<>>, toBridge' = Tail(toBridge)
      PROVE  \A i \in 1 .. Len(toBridge') :
               toBridge'[i].type = "SET_MODE" => toBridge'[i].mode = Wanted
  <2>1. Len(toBridge') = Len(toBridge) - 1 /\ Len(toBridge) \in Nat \ {0}
        /\ \A i \in 1 .. Len(toBridge) - 1 : toBridge'[i] = toBridge[i + 1]
    BY <1>2, <1>8, HeadTailProperties, EmptySeq
  <2>2. QED BY <1>1, <2>1 DEF BarrierKnown
<1>9. toBridge # <<>> /\ Head(toBridge).type = "SET_MODE" => Head(toBridge).mode = Wanted
  <2>1. toBridge # <<>> => Head(toBridge) = toBridge[1] /\ 1 \in 1 .. Len(toBridge)
    BY <1>2, HeadTailProperties, EmptySeq
  <2>2. QED BY <1>1, <2>1 DEF BarrierKnown
<1>10. CASE HandleControl \/ WaitAckMessage
  <2>1. /\ HandleMessage /\ bridge \in {"loop", "waitAck"} /\ UNCHANGED <<toClient, offered>>
        /\ bridge' \in {"loop", "waitAck", "terminal", "closed"}
        /\ bridge' = "loop" => bridge = "loop"
        /\ bridge' = "closed" => finalDepth' = head - tail'
    BY <1>10 DEF HandleControl, WaitAckMessage
  <2>2. /\ toBridge # <<>> /\ toBridge' = Tail(toBridge)
        /\ mode' = mode \/ (Head(toBridge).type = "SET_MODE" /\ mode' = Head(toBridge).mode)
        /\ Head(toBridge).type = "SET_MODE" => mode' = Head(toBridge).mode
    BY <2>1 DEF HandleMessage
  <2>3. mode' \in {"none", Wanted} /\ (mode = Wanted => mode' = Wanted)
        /\ (Head(toBridge).type = "SET_MODE" => mode' = Wanted)
    BY <1>1, <1>9, <2>2 DEF BarrierKnown
  <2>4. Answered' = Answered /\ Engaged' = Engaged /\ NoneStarted' = NoneStarted
    BY <1>3, <2>1 DEF Answered, Engaged, NoneStarted
  <2>5. bridge' = "closed" => finalDepth' # -1
    <3>1. StateInv'
      BY <1>1, <1>10, HandleControlStep, WaitAckMessageStep
    <3>2. tail' \in 0 .. head /\ head \in Nat
      <4>1. log' = log /\ log \in Seq(Sequence)
        BY <1>1, <1>10 DEF HandleControl, WaitAckMessage, StateInv, RingKnown
      <4>2. QED BY <3>1, <4>1 DEF StateInv, RingKnown, head
    <3>3. head - tail' \in Nat
      <4>1. \A h \in Nat : \A n \in 0 .. h : h - n \in Nat
        OBVIOUS
      <4>2. QED BY <3>2, <4>1
    <3>4. QED BY <2>1, <3>3
  <2>6. Engaged => mode = Wanted
    BY <1>1 DEF BarrierKnown
  <2>7. ~(main = "dead" /\ origin = -1)
    BY <1>1, <2>1 DEF BarrierKnown
  <2>8. main = "mode" => toBridge' = <<>>
    BY <1>2, <1>7, <2>2 DEF Before, Engaged
  <2>9. main = "start" => toBridge' = <<>> /\ mode' = Wanted
    BY <1>2, <1>6, <1>7, <2>2, <2>3 DEF Before, Engaged
  <2>10. main = "waitStarted" /\ ~Answered =>
           (toBridge' = <<Start>> /\ mode' = Wanted) \/ toBridge' = <<>>
    BY <1>2, <1>6, <1>7, <2>2, <2>3 DEF Before, Engaged
  <2>11. main \in Before /\ ~Engaged => bridge' # "loop" /\ NoneStarted'
    BY <1>1, <2>1, <2>4 DEF BarrierKnown, NoneStarted
  <2>12. \A i \in 1 .. Len(toBridge') :
           toBridge'[i].type = "SET_MODE" => toBridge'[i].mode = Wanted
    BY <1>8, <2>2
  <2>13. stop => origin # -1 /\ main \in {"joinIngress", "finalRecv", "final", "exit", "dead"}
    BY <1>1 DEF BarrierKnown
  <2>14. QED
    BY <1>3, <2>1, <2>3, <2>4, <2>5, <2>6, <2>7, <2>8, <2>9, <2>10, <2>11, <2>12, <2>13
       DEF BarrierKnown, NoneStarted, Wanted
<1>11. CASE HandleBarrier
  <2>1. /\ bridge = "barrier" /\ toBridge # <<>> /\ toBridge' = Tail(toBridge) /\ offered' = offered
        /\ \/ /\ Head(toBridge).type = "SET_MODE" /\ mode' = Head(toBridge).mode
              /\ UNCHANGED <<bridge, toClient>>
           \/ /\ Head(toBridge).type = "START" /\ mode' = mode
              /\ bridge' = "loop" /\ Sent([type |-> "STARTED"])
           \/ /\ Head(toBridge).type = "START" /\ mode' = mode
              /\ bridge' = "closed" /\ UNCHANGED toClient
    BY <1>11 DEF HandleBarrier, ringVars
  <2>2. /\ main \in {"mode", "start", "waitStarted"} /\ toClient = <<>> /\ offered = <<>>
        /\ origin = -1 /\ ~Answered /\ ~Engaged /\ ~stop
    BY <1>1, <1>2, <2>1 DEF BarrierKnown, Engaged, Answered, Before
  <2>3. \/ /\ main = "start" /\ Head(toBridge) = SetMode /\ toBridge' = <<>>
        \/ /\ main = "waitStarted" /\ Head(toBridge) = SetMode /\ toBridge' = <<Start>>
        \/ /\ main = "waitStarted" /\ mode = Wanted /\ Head(toBridge) = Start /\ toBridge' = <<>>
    BY <1>7, <2>1, <2>2 DEF Before
  <2>4. \A i \in 1 .. Len(toBridge') :
          toBridge'[i].type = "SET_MODE" => toBridge'[i].mode = Wanted
    BY <1>8, <2>1
  <2>5. CASE Head(toBridge).type = "SET_MODE"
    <3>1. mode' = Wanted /\ UNCHANGED <<bridge, toClient>>
      BY <1>9, <2>1, <2>5
    <3>2. ~Answered' /\ ~Engaged'
      BY <1>3, <2>2, <3>1 DEF Engaged, Answered
    <3>3. \A i \in 1 .. Len(toClient') : FALSE
      BY <2>2, <3>1
    <3>4. main \in {"start", "waitStarted"} /\ (main = "start" => toBridge' = <<>>)
          /\ (main = "waitStarted" => toBridge' = <<Start>>)
      BY <1>6, <2>3, <2>5
    <3>5. QED BY <1>3, <2>1, <2>2, <2>4, <3>1, <3>2, <3>3, <3>4 DEF BarrierKnown, Wanted
  <2>6. CASE Head(toBridge).type = "START"
    <3>1. main = "waitStarted" /\ mode = Wanted /\ mode' = Wanted /\ toBridge' = <<>>
      BY <1>6, <2>1, <2>3, <2>6
    <3>2. CASE bridge' = "closed" /\ UNCHANGED toClient
      <4>1. ~Answered' /\ ~Engaged'
        BY <1>3, <2>2, <3>2 DEF Engaged, Answered
      <4>2. \A i \in 1 .. Len(toClient') : FALSE
        BY <2>2, <3>2
      <4>3. QED BY <1>3, <2>2, <2>4, <3>1, <3>2, <4>1, <4>2 DEF BarrierKnown, Wanted
    <3>3. CASE bridge' = "loop" /\ Sent([type |-> "STARTED"])
      <4>1. toClient' = Append(<<>>, [type |-> "STARTED"])
        <5>1. Len(toClient) = 0 /\ ~ClientDeaf
          BY <2>2, <3>1 DEF ClientDeaf, ClientGone
        <5>2. QED BY <2>2, <3>3, <5>1, BoundsAre DEF Sent
      <4>2. toClient' # <<>> /\ Head(toClient').type = "STARTED"
        BY <4>1
      <4>3. Answered' /\ Engaged'
        BY <1>3, <3>1, <4>2 DEF Engaged, Answered
      <4>4. QED BY <1>3, <2>2, <2>4, <3>1, <3>3, <4>3 DEF BarrierKnown, Wanted
    <3>4. QED BY <2>1, <2>6, <3>2, <3>3
  <2>7. QED BY <2>1, <2>5, <2>6
<1>12. QED BY <1>5, <1>10, <1>11 DEF Bridge, BridgeControl

LEMMA BarrierStepClient ==
  ASSUME LossInv, Ingress \/ Main
  PROVE  BarrierKnown'
<1>1. BarrierKnown /\ StateInv
  BY DEF LossInv
<1>2. /\ toBridge \in Seq(ToBridgeMessage) /\ Len(toBridge) \in Nat
      /\ toClient \in Seq(ToClientMessage) /\ (main \in Before => origin = -1)
      /\ origin = -1 => main \in Before \cup {"dead"} /\ ingress = "unstarted"
  BY <1>1, LossTypes DEF StateInv, JoinKnown
<1>3. UNCHANGED <<offered, bridge, mode, finalDepth>>
  BY ClientLeaves DEF ringVars, bridgeVars
<1>4. ASSUME UNCHANGED <<main, toBridge, toClient, stop, origin>>
      PROVE  BarrierKnown'
  BY <1>1, <1>3, <1>4 DEF BarrierKnown, Answered, Engaged, Wanted
\* With the cursor the start is over.
<1>5. ASSUME origin # -1, origin' = origin, main' \notin Before,
             stop' => main' \in {"joinIngress", "finalRecv", "final", "exit", "dead"},
             \/ toBridge' = toBridge
             \/ toBridge' \in Seq(ToBridgeMessage) /\ \A i \in 1 .. Len(toBridge') :
                  \/ i \in 1 .. Len(toBridge) /\ toBridge'[i] = toBridge[i]
                  \/ toBridge'[i].type # "SET_MODE"
      PROVE  BarrierKnown'
  <2>1. Engaged /\ bridge # "barrier"
    BY <1>1, <1>5 DEF BarrierKnown, Engaged
  <2>2. \A i \in 1 .. Len(toBridge') :
          toBridge'[i].type = "SET_MODE" => toBridge'[i].mode = Wanted
    BY <1>1, <1>5 DEF BarrierKnown
  <2>3. QED BY <1>1, <1>3, <1>5, <2>1, <2>2 DEF BarrierKnown, Before, Wanted, Engaged
<1>6. ASSUME NEW message \in ToBridgeMessage, message.type # "SET_MODE", ToBridge(message)
      PROVE  \/ toBridge' = toBridge
             \/ toBridge' \in Seq(ToBridgeMessage) /\ \A i \in 1 .. Len(toBridge') :
                  \/ i \in 1 .. Len(toBridge) /\ toBridge'[i] = toBridge[i]
                  \/ toBridge'[i].type # "SET_MODE"
  BY <1>2, <1>6, AppendProperties DEF ToBridge
<1>7. ASSUME NEW t \in Thread, Process(t) \/ DrainBegin(t) \/ DrainRead(t) \/ DrainAccount(t)
      PROVE  BarrierKnown'
  <2>1. UNCHANGED <<main, toBridge, toClient, stop, origin>>
    BY <1>7, ProcessLeaves
       DEF LossInv, DrainBegin, DrainRead, DrainAccount, flowVars, drainVars, socketVars
  <2>2. QED BY <1>4, <2>1
<1>8. ASSUME NEW t \in Thread, Receive(t)
      PROVE  BarrierKnown'
  <2>1. UNCHANGED <<main, toBridge, stop, origin>>
        /\ (main \in {"recv", "finalRecv"} \/ ingress \in {"recv", "recvLast"})
    BY <1>8 DEF Receive, ReceivesHere, flowVars, drainVars
  <2>2. origin # -1 /\ main \notin Before
    BY <1>2, <2>1 DEF Before
  <2>3. stop => main \in {"joinIngress", "finalRecv", "final", "exit", "dead"}
    BY <1>1 DEF BarrierKnown
  <2>4. QED BY <1>5, <2>1, <2>2, <2>3
<1>9. ASSUME NEW t \in Thread, DrainEnd(t)
      PROVE  BarrierKnown'
  <2>1. /\ UNCHANGED <<stop, origin>> /\ (main' = main \/ main' = "dead")
        /\ drain[t].at = "end"
    BY <1>9 DEF DrainEnd, SendAckIfNeeded
  <2>2. origin # -1 /\ main \notin Before
    BY <1>1, <1>2, <2>1 DEF StateInv, JoinKnown
  <2>3. stop => main \in {"joinIngress", "finalRecv", "final", "exit", "dead"}
    BY <1>1 DEF BarrierKnown
  <2>4. \/ toBridge' = toBridge
        \/ toBridge' \in Seq(ToBridgeMessage) /\ \A i \in 1 .. Len(toBridge') :
             \/ i \in 1 .. Len(toBridge) /\ toBridge'[i] = toBridge[i]
             \/ toBridge'[i].type # "SET_MODE"
    <3>1. CASE toBridge' = toBridge
      BY <3>1
    <3>2. CASE ToBridge([type |-> "ACK", generation |-> clientGeneration, consumed |-> localTail])
               /\ localTail # lastAcked
      <4>1. [type |-> "ACK", generation |-> clientGeneration, consumed |-> localTail]
              \in ToBridgeMessage
        <5>1. clientGeneration \in 1 .. MaxGeneration
          BY <1>1, BoundsAre DEF StateInv, ToClientKnown, BridgeKnown
        <5>2. localTail \in Sequence
          <6>1. localTail \in 0 .. head /\ lastAcked \in 0 .. localTail
            BY <1>1 DEF StateInv, CursorKnown
          <6>2. head \in Nat /\ head <= MaxRecords + 1
            BY <1>1, LossTypes, BoundsAre DEF StateInv, RingKnown, head
          <6>3. QED BY <3>2, <6>1, <6>2, BoundsAre DEF Sequence
        <5>3. QED BY <5>1, <5>2 DEF ToBridgeMessage
      <4>2. PICK message \in ToBridgeMessage :
              /\ message = [type |-> "ACK", generation |-> clientGeneration,
                            consumed |-> localTail]
              /\ message.type # "SET_MODE"
        BY <4>1
      <4>3. QED BY <1>6, <3>2, <4>2
    <3>3. QED BY <1>9, <3>1, <3>2 DEF DrainEnd, SendAckIfNeeded
  <2>5. main' \notin Before
    BY <2>1, <2>2 DEF Before
  <2>6. QED BY <1>5, <2>1, <2>2, <2>3, <2>4, <2>5
<1>10. CASE IngressCheck \/ IngressPoll \/ IngressUrgent \/ IngressReceiveOver
  <2>1. UNCHANGED <<main, toBridge, toClient, stop, origin>>
    BY <1>10 DEF IngressCheck, IngressPoll, IngressUrgent, IngressReceiveOver, socketVars, drainVars
  <2>2. QED BY <1>4, <2>1
<1>11. CASE SendSetup
  <2>1. /\ UNCHANGED <<toClient, stop, origin>> /\ main \in {"mode", "start"}
        /\ origin = -1 /\ ~stop
    BY <1>1, <1>2, <1>11 DEF SendSetup, drainVars, BarrierKnown, Before
  <2>2. ~Engaged /\ main \in Before
    BY <2>1 DEF Engaged, Before
  <2>3. bridge # "loop" /\ NoneStarted
    BY <1>1, <2>2 DEF BarrierKnown, NoneStarted
  <2>4. ~Answered'
    <3>1. toClient # <<>> => Head(toClient) = toClient[1] /\ 1 \in 1 .. Len(toClient)
      BY <1>2, HeadTailProperties, EmptySeq
    <3>2. QED BY <2>1, <2>3, <3>1 DEF Answered, NoneStarted
  <2>5. CASE BridgeGone
    <3>1. main' = "dead" /\ toBridge' = toBridge
      BY <1>11, <2>5 DEF SendSetup, ToBridge
    <3>2. QED BY <1>1, <1>3, <2>1, <2>5, <3>1 DEF BarrierKnown, BridgeGone, Engaged, Before, Wanted
  <2>6. CASE ~BridgeGone /\ main = "mode"
    <3>1. main' = "start" /\ toBridge' = Append(toBridge, SetMode)
      BY <1>11, <2>6 DEF SendSetup, ToBridge, SetMode, Wanted
    <3>2. toBridge' = <<SetMode>>
      BY <1>1, <2>6, <3>1 DEF BarrierKnown
    <3>3. \A i \in 1 .. Len(toBridge') : toBridge'[i].mode = Wanted
      BY <3>2 DEF SetMode
    <3>4. ~Engaged'
      BY <2>1, <3>1 DEF Engaged
    <3>5. QED BY <1>1, <1>3, <2>1, <2>3, <3>1, <3>2, <3>3, <3>4
                 DEF BarrierKnown, NoneStarted, Before, Wanted, SetMode
  <2>7. CASE ~BridgeGone /\ main = "start"
    <3>1. main' = "waitStarted" /\ toBridge' = Append(toBridge, Start)
      BY <1>11, <2>7 DEF SendSetup, ToBridge, Start
    <3>2. \/ toBridge' = <<SetMode, Start>>
          \/ toBridge' = <<Start>> /\ mode = Wanted
      <4>1. toBridge = <<SetMode>> \/ (toBridge = <<>> /\ mode = Wanted)
        BY <1>1, <2>7 DEF BarrierKnown
      <4>2. CASE toBridge = <<SetMode>>
        <5>1. PICK both : both = <<SetMode, Start>>
          OBVIOUS
        <5>2. /\ toBridge \in Seq({SetMode, Start}) /\ Len(toBridge) = 1 /\ toBridge[1] = SetMode
              /\ both \in Seq({SetMode, Start}) /\ Len(both) = 2
              /\ both[1] = SetMode /\ both[2] = Start
          BY <4>2, <5>1
        <5>3. /\ toBridge' \in Seq({SetMode, Start}) /\ Len(toBridge') = 2
              /\ toBridge'[1] = SetMode /\ toBridge'[2] = Start
          BY <3>1, <5>2, AppendProperties
        <5>4. \A i \in 1 .. Len(both) : toBridge'[i] = both[i]
          BY <5>2, <5>3
        <5>5. toBridge' = both
          BY <5>2, <5>3, <5>4, SeqEqual
        <5>6. QED BY <5>1, <5>5
      <4>3. CASE toBridge = <<>> /\ mode = Wanted
        BY <3>1, <4>3
      <4>4. QED BY <4>1, <4>2, <4>3
    <3>3. \A i \in 1 .. Len(toBridge') :
            toBridge'[i].type = "SET_MODE" => toBridge'[i].mode = Wanted
      BY <3>2 DEF SetMode, Start
    <3>4. ~Engaged'
      BY <2>1, <2>4, <3>1 DEF Engaged
    <3>5. QED BY <1>1, <1>3, <2>1, <2>3, <2>4, <3>1, <3>2, <3>3, <3>4
                 DEF BarrierKnown, NoneStarted, Before, Wanted, SetMode, Start
  <2>8. QED BY <2>1, <2>5, <2>6, <2>7
<1>12. CASE ReceiveStarted
  <2>1. /\ UNCHANGED <<toBridge, stop, origin>> /\ main = "waitStarted"
        /\ origin = -1 /\ ~stop
    BY <1>1, <1>2, <1>12 DEF ReceiveStarted, drainVars, BarrierKnown, Before
  <2>2. CASE BridgeGone /\ main' = "dead" /\ toClient' = toClient
    BY <1>1, <1>3, <2>1, <2>2 DEF BarrierKnown, BridgeGone, Engaged, Before, Wanted
  <2>3. CASE UNCHANGED <<toClient, main>>
    BY <1>4, <2>1, <2>3
  <2>4. CASE /\ toClient # <<>> /\ toClient' = Tail(toClient)
             /\ main' = IF Head(toClient).type = "STARTED" THEN "join" ELSE "waitStarted"
    <3>1. bridge # "barrier"
      BY <1>1, <2>4 DEF BarrierKnown
    <3>2. CASE Answered
      <4>1. main' = "join" /\ Engaged /\ Engaged'
        BY <2>1, <2>4, <3>2 DEF Answered, Engaged
      <4>2. QED BY <1>1, <1>3, <2>1, <3>1, <4>1 DEF BarrierKnown, Before, Wanted
    <3>3. CASE ~Answered
      <4>1. main' = "waitStarted" /\ ~Engaged
        BY <2>1, <2>4, <3>3 DEF Answered, Engaged
      <4>2. NoneStarted /\ bridge # "loop"
        BY <1>1, <2>1, <4>1 DEF BarrierKnown, NoneStarted, Before
      <4>3. NoneStarted'
        <5>1. /\ Len(toClient') = Len(toClient) - 1 /\ Len(toClient) \in Nat \ {0}
              /\ \A i \in 1 .. Len(toClient) - 1 : toClient'[i] = toClient[i + 1]
          BY <1>2, <2>4, HeadTailProperties, EmptySeq
        <5>2. QED BY <4>2, <5>1 DEF NoneStarted
      <4>4. ~Answered'
        <5>1. toClient' \in Seq(ToClientMessage)
          BY <1>2, <2>4, HeadTailProperties
        <5>2. toClient' # <<>> => Head(toClient') = toClient'[1] /\ 1 \in 1 .. Len(toClient')
          BY <5>1, HeadTailProperties, EmptySeq
        <5>3. QED BY <4>3, <5>2 DEF Answered, NoneStarted
      <4>5. ~Engaged'
        BY <2>1, <4>1, <4>4 DEF Engaged
      <4>6. QED BY <1>1, <1>3, <2>1, <3>1, <3>3, <4>1, <4>2, <4>3, <4>4, <4>5
                   DEF BarrierKnown, NoneStarted, Before, Wanted
    <3>4. QED BY <3>2, <3>3
  <2>5. QED BY <1>12, <2>2, <2>3, <2>4 DEF ReceiveStarted
<1>13. CASE JoinRing
  <2>1. /\ UNCHANGED <<toBridge, toClient, stop>> /\ main = "join" /\ main' = "idle"
        /\ origin' = head
    BY <1>13 DEF JoinRing, socketVars
  <2>2. head # -1 /\ ~stop
    BY <1>1, <2>1 DEF StateInv, RingKnown, BarrierKnown, head
  <2>3. Engaged /\ Engaged'
    BY <2>1, <2>2 DEF Engaged
  <2>4. QED BY <1>1, <1>3, <2>1, <2>2, <2>3 DEF BarrierKnown, Before, Wanted
<1>14. CASE StartFrame \/ FrameStep \/ ShutdownTurn \/ StopIngress \/ JoinIngress
            \/ MainReceiveOver \/ Exit
  <2>1. /\ UNCHANGED <<toBridge, origin>> /\ main \notin Before /\ main # "dead"
        /\ main' \notin Before
        /\ \/ stop' = stop /\ main \in {"idle", "frame", "shutdown", "recv"}
           \/ main' \in {"joinIngress", "finalRecv", "final", "exit", "dead"}
    BY <1>14 DEF StartFrame, FrameStep, ShutdownTurn, StopIngress, JoinIngress, MainReceiveOver,
                 Exit, MainFree, Alive, ReceiveOver, ReceivesHere, socketVars, drainVars, Before
  <2>2. origin # -1
    BY <1>2, <2>1
  <2>3. stop' => main' \in {"joinIngress", "finalRecv", "final", "exit", "dead"}
    BY <1>1, <2>1 DEF BarrierKnown
  <2>4. QED BY <1>5, <2>1, <2>2, <2>3
<1>15. CASE LeaveFrames
  <2>1. UNCHANGED <<stop, origin>> /\ main = "idle" /\ main' = "shutdown"
        /\ ToBridge([type |-> "STOP"])
    BY <1>15 DEF LeaveFrames, drainVars
  <2>2. origin # -1 /\ main' \notin Before
    BY <1>2, <2>1 DEF Before
  <2>3. ~stop
    BY <1>1, <2>1 DEF BarrierKnown
  <2>4. PICK message \in ToBridgeMessage : message = [type |-> "STOP"] /\ message.type # "SET_MODE"
    <3>1. [type |-> "STOP"] \in ToBridgeMessage /\ [type |-> "STOP"].type # "SET_MODE"
      BY DEF ToBridgeMessage
    <3>2. QED BY <3>1
  <2>5. QED BY <1>5, <1>6, <2>1, <2>2, <2>3, <2>4
<1>16. CASE Ingress
  BY <1>7, <1>8, <1>9, <1>10, <1>16 DEF Ingress, DrainStep, Thread
<1>17. CASE Main
  BY <1>7, <1>8, <1>9, <1>11, <1>12, <1>13, <1>14, <1>15, <1>17 DEF Main, DrainStep, Thread
<1>18. QED BY <1>16, <1>17

LEMMA BarrierStep ==
  ASSUME LossInv, [Next]_vars
  PROVE  BarrierKnown'
<1>1. CASE UNCHANGED vars
  BY <1>1 DEF LossInv, BarrierKnown, Answered, Engaged, Wanted, vars, ringVars, bridgeVars,
              socketVars, clientVars, flowVars, drainVars
<1>2. QED BY <1>1, BarrierStepBridge, BarrierStepClient DEF Next, Over

-----------------------------------------------------------------------------
\* The sums, as numbers.
LEMMA SumTypes ==
  ASSUME LossInv
  PROVE  /\ Len(used) \in Nat /\ Len(pending) \in Nat /\ Taken \in Nat
         /\ EagerIn(toClient) \in Nat /\ \A t \in Thread : EagerIn(inbox[t]) \in Nat
         /\ EagerOnTheWay \in Nat
         /\ EagerOnTheWay = EagerIn(toClient) + EagerIn(inbox["main"]) + EagerIn(inbox["ingress"])
         /\ dropped \in Nat /\ eagerDrops \in Nat /\ Len(offered) \in Nat
         /\ last \in Nat /\ gaps \in Nat /\ reordered \in Nat
<1>1. /\ inbox \in [Thread -> Seq(ToClientMessage)] /\ toClient \in Seq(ToClientMessage)
      /\ "main" \in Thread /\ "ingress" \in Thread
  BY LossTypes DEF LossInv
<1>2. [type |-> "STARTED"] \in ToClientMessage
  BY DEF ToClientMessage
<1>3. \A messages \in Seq(ToClientMessage) : EagerIn(messages) \in Nat
  BY <1>2, EagerInAppend
<1>4. /\ Len(used) \in Nat /\ Len(pending) \in Nat
      /\ last \in 0 .. Len(offered) /\ gaps \in Nat /\ reordered \in Nat
  BY DEF LossInv, StateInv, QueueTyped
<1>5. dropped \in Nat /\ eagerDrops \in 0 .. head /\ Len(offered) \in Nat /\ head \in Nat
  BY DEF LossInv, StateInv, RingKnown, head
<1>6. PICK a \in Nat, b \in Nat, c \in Nat :
        a = EagerIn(toClient) /\ b = EagerIn(inbox["main"]) /\ c = EagerIn(inbox["ingress"])
  BY <1>1, <1>3
<1>7. EagerOnTheWay = a + b + c
  BY <1>6 DEF EagerOnTheWay
<1>8. Taken \in Nat
  BY <1>4 DEF Taken
<1>9. EagerIn(toClient) \in Nat /\ \A t \in Thread : EagerIn(inbox[t]) \in Nat
  BY <1>1, <1>3
<1>10. EagerOnTheWay \in Nat
  BY <1>7
<1>11. last \in Nat /\ eagerDrops \in Nat
  BY <1>4, <1>5
<1>12. QED BY <1>4, <1>5, <1>8, <1>9, <1>10, <1>11 DEF EagerOnTheWay

\* The bridge's part: it counts each record it offers once.
LEMMA EagerStepBridge ==
  ASSUME LossInv, Bridge
  PROVE  EagerKnown'
<1>1. SUFFICES ASSUME Eager
               PROVE  Engaged' /\ ~ClientDeaf' =>
                        Taken' + EagerOnTheWay' + dropped' + eagerDrops' = Len(offered')
  BY DEF EagerKnown, Eager
<1>2. EagerKnown /\ BarrierKnown /\ StateInv
  BY DEF LossInv
<1>3. UNCHANGED <<main, stop, origin, used, pending, inbox>>
  BY BridgeLeaves DEF clientVars, flowVars, drainVars, queueVars
<1>4. Taken' = Taken /\ ClientDeaf' = ClientDeaf
  BY <1>3 DEF Taken, ClientDeaf, ClientGone, Eager
<1>5. SUFFICES ASSUME Engaged', ~ClientDeaf
               PROVE  Taken + EagerOnTheWay' + dropped' + eagerDrops' = Len(offered')
  BY <1>4
<1>6. PICK k \in Nat, c \in Nat, a \in Nat, b \in Nat, d \in Nat, e \in Nat, o \in Nat :
        /\ k = Taken /\ c = EagerIn(toClient) /\ a = EagerIn(inbox["main"])
        /\ b = EagerIn(inbox["ingress"]) /\ d = dropped /\ e = eagerDrops /\ o = Len(offered)
  BY SumTypes, LossTypes, <1>2
<1>7. EagerOnTheWay = c + a + b /\ EagerOnTheWay' = EagerIn(toClient') + a + b
  BY <1>3, <1>6 DEF EagerOnTheWay
<1>8. Engaged => k + (c + a + b) + d + e = o /\ mode = "eager"
  BY <1>1, <1>2, <1>5, <1>6, <1>7 DEF EagerKnown, BarrierKnown, Wanted
<1>9. toClient \in Seq(ToClientMessage) /\ Len(toClient) \in Nat /\ Len(toClient) <= SocketLimit
  BY <1>2, LossTypes DEF StateInv, ToClientKnown
<1>10. ASSUME Engaged, EagerIn(toClient') \in Nat, dropped' \in Nat, eagerDrops' \in Nat,
              (EagerIn(toClient') - c) + (dropped' - d) + (eagerDrops' - e) = Len(offered') - o,
              Len(offered') \in Nat
       PROVE  Taken + EagerOnTheWay' + dropped' + eagerDrops' = Len(offered')
  <2>1. PICK c1 \in Nat, d1 \in Nat, e1 \in Nat, o1 \in Nat :
          /\ c1 = EagerIn(toClient') /\ d1 = dropped' /\ e1 = eagerDrops' /\ o1 = Len(offered')
    BY <1>10
  <2>2. (c1 - c) + (d1 - d) + (e1 - e) = o1 - o
    BY <1>10, <2>1
  <2>3. k + (c + a + b) + d + e = o
    BY <1>8, <1>10
  <2>4. k + (c1 + a + b) + d1 + e1 = o1
    BY <2>2, <2>3
  <2>5. QED BY <1>6, <1>7, <2>1, <2>4
<1>11. ASSUME Answered' = Answered
       PROVE  Engaged
  BY <1>3, <1>5, <1>11 DEF Engaged
<1>12. \A message \in ToClientMessage :
         EagerIn(Append(toClient, message)) = c + Weight(message)
  BY <1>6, <1>9, EagerInAppend
<1>13. ASSUME NEW kind \in Kind, Publish(kind), Len(offered) <= MaxRecords, Answered' = Answered
       PROVE  Taken + EagerOnTheWay' + dropped' + eagerDrops' = Len(offered')
  <2>1. Engaged /\ mode = "eager"
    BY <1>8, <1>11, <1>13
  <2>2. Len(offered') = o + 1
    <3>1. offered' = Append(offered, [kind |-> kind, generation |-> generation])
      BY <1>13 DEF Publish
    <3>2. [kind |-> kind, generation |-> generation] \in [kind : Kind, generation : 1 .. MaxGeneration]
      BY <1>2, <1>13 DEF StateInv, BridgeKnown
    <3>3. QED BY <1>2, <1>6, <3>1, <3>2, LossTypes, AppendProperties
  <2>3. CASE head - tail < Capacity /\ Len(toClient) < SocketLimit
    <3>1. dropped' = d /\ eagerDrops' = e
          /\ toClient' = Append(toClient, [type |-> "EAGER", sequence |-> Len(offered) + 1])
      BY <1>5, <1>6, <1>9, <1>13, <2>1, <2>3, BoundsAre DEF Publish, Sent
    <3>2. Len(offered) + 1 \in Sequence
      BY <1>6, <1>13, BoundsAre DEF Sequence
    <3>3. PICK message \in ToClientMessage :
            message = [type |-> "EAGER", sequence |-> Len(offered) + 1] /\ Weight(message) = 1
      <4>1. [type |-> "EAGER", sequence |-> Len(offered) + 1] \in ToClientMessage
        BY <3>2 DEF ToClientMessage
      <4>2. Weight([type |-> "EAGER", sequence |-> Len(offered) + 1]) = 1
        BY DEF Weight
      <4>3. QED BY <4>1, <4>2
    <3>4. EagerIn(toClient') = c + 1
      BY <1>12, <3>1, <3>3
    <3>5. QED BY <1>10, <2>1, <2>2, <3>1, <3>4
  <2>4. CASE head - tail < Capacity /\ ~(Len(toClient) < SocketLimit)
    <3>1. Len(toClient) = SocketLimit
      BY <1>9, <2>4, BoundsAre
    <3>2. dropped' = d /\ eagerDrops' = e + 1 /\ toClient' = toClient
      BY <1>5, <1>6, <1>13, <2>1, <2>4, <3>1 DEF Publish, Sent
    <3>3. QED BY <1>6, <1>10, <2>1, <2>2, <3>2
  <2>5. CASE ~(head - tail < Capacity)
    <3>1. dropped' = d + 1 /\ eagerDrops' = e /\ toClient' = toClient
      BY <1>6, <1>13, <2>5 DEF Publish
    <3>2. QED BY <1>6, <1>10, <2>1, <2>2, <3>1
  <2>6. QED BY <2>3, <2>4, <2>5
<1>14. CASE \E kind \in {"motion", "button"} : Observe(kind)
  <2>1. PICK kind \in {"motion", "button"} : Observe(kind)
    BY <1>14
  <2>2. Publish(kind) /\ Len(offered) <= MaxRecords /\ Answered' = Answered
    BY <1>2, <1>14, <2>1, TurnSends DEF Observe, StateInv, RingKnown
  <2>3. QED BY <1>13, <2>2 DEF Kind
<1>15. CASE PublishTerminal
  <2>1. Publish("terminate") /\ Len(offered) <= MaxRecords /\ Answered' = Answered
    BY <1>2, <1>15, TurnSends DEF PublishTerminal, StateInv, RingKnown
  <2>2. QED BY <1>13, <2>1 DEF Kind
<1>16. CASE DeviceGone \/ Reconnect
  <2>1. StateInv' /\ Answered' = Answered
    BY <1>2, <1>16, DeviceStep, TurnSends
  <2>2. PICK g \in 1 .. MaxGeneration : Sent([type |-> "DEVICE_STATE", generation |-> g])
    BY <1>16, <2>1 DEF DeviceGone, Reconnect, StateInv, BridgeKnown
  <2>3. PICK message \in ToClientMessage :
          message = [type |-> "DEVICE_STATE", generation |-> g] /\ Weight(message) = 0
    <3>1. [type |-> "DEVICE_STATE", generation |-> g] \in ToClientMessage
      BY DEF ToClientMessage
    <3>2. Weight([type |-> "DEVICE_STATE", generation |-> g]) = 0
      BY DEF Weight
    <3>3. QED BY <3>1, <3>2
  <2>4. EagerIn(toClient') = c
    BY <1>6, <1>12, <2>2, <2>3 DEF Sent
  <2>5. UNCHANGED <<offered, dropped, eagerDrops>>
    BY <1>16 DEF DeviceGone, Reconnect, ringVars
  <2>6. QED BY <1>6, <1>10, <1>11, <2>1, <2>4, <2>5
<1>17. CASE HandleControl \/ LeaveLoop \/ BridgeStops \/ WaitAckMessage \/ WaitAckOver
  <2>1. UNCHANGED <<offered, dropped, eagerDrops, toClient>>
    BY <1>17 DEF HandleControl, LeaveLoop, BridgeStops, WaitAckMessage, WaitAckOver, ringVars,
                 socketVars
  <2>2. Answered' = Answered
    BY <2>1 DEF Answered
  <2>3. QED BY <1>6, <1>10, <1>11, <2>1, <2>2
<1>18. CASE HandleBarrier
  <2>1. bridge = "barrier" /\ UNCHANGED <<offered, dropped, eagerDrops>>
        /\ (toClient' = toClient \/ Sent([type |-> "STARTED"]))
    BY <1>18 DEF HandleBarrier, ringVars
  <2>2. main \in Before /\ toClient = <<>> /\ offered = <<>>
    BY <1>2, <2>1 DEF BarrierKnown, Before
  <2>3. origin = -1
    BY <1>2, <2>2 DEF StateInv, JoinKnown
  <2>4. used = <<>> /\ pending = <<>> /\ inbox["main"] = <<>> /\ inbox["ingress"] = <<>>
    BY <1>2, <2>3 DEF StateInv, JoinKnown, Thread
  <2>5. Taken = 0 /\ a = 0 /\ b = 0 /\ o = 0
    BY <1>6, <2>2, <2>4, EagerInEmpty, EmptySeq DEF Taken
  <2>6. dropped = 0 /\ eagerDrops = 0
    BY <1>2, <1>6, <2>5 DEF StateInv, RingKnown, head
  <2>7. PICK message \in ToClientMessage : message = [type |-> "STARTED"] /\ Weight(message) = 0
    <3>1. [type |-> "STARTED"] \in ToClientMessage
      BY DEF ToClientMessage
    <3>2. Weight([type |-> "STARTED"]) = 0
      BY DEF Weight
    <3>3. QED BY <3>1, <3>2
  <2>8. c = 0 /\ EagerIn(toClient') = 0
    <3>1. c = 0
      BY <1>6, <2>2, EagerInEmpty
    <3>2. CASE toClient' = toClient
      BY <1>6, <3>1, <3>2
    <3>3. CASE toClient' = Append(toClient, message)
      BY <1>12, <2>7, <3>1, <3>3
    <3>4. QED BY <2>1, <2>7, <3>2, <3>3 DEF Sent
  <2>9. QED BY <1>6, <1>7, <2>1, <2>5, <2>6, <2>8
<1>19. QED BY <1>14, <1>15, <1>16, <1>17, <1>18 DEF Bridge, BridgeControl

\* A message goes from the socket to a thread's hands, and from there to the frames.
LEMMA EagerStepClient ==
  ASSUME LossInv, Ingress \/ Main
  PROVE  EagerKnown'
<1>1. SUFFICES ASSUME Eager
               PROVE  EagerKnown'
  BY DEF EagerKnown, Eager
<1>2. EagerKnown /\ BarrierKnown /\ StateInv /\ HandsKnown
  BY DEF LossInv
<1>3. UNCHANGED <<offered, dropped, eagerDrops>>
  BY ClientLeaves DEF ringVars
<1>4. ASSUME Engaged' /\ ~ClientDeaf' => Engaged /\ ~ClientDeaf,
             EagerOnTheWay' = EagerOnTheWay, Taken' = Taken
      PROVE  EagerKnown'
  BY <1>1, <1>2, <1>3, <1>4 DEF EagerKnown
<1>5. ASSUME UNCHANGED <<toClient, inbox, used, pending>>
      PROVE  EagerOnTheWay' = EagerOnTheWay /\ Taken' = Taken
  BY <1>5 DEF EagerOnTheWay, Taken
<1>6. ASSUME origin' = origin, stop => stop', toClient' = toClient,
             \/ main' = main
             \/ main' = "dead"
             \/ main' \notin {"waitStarted", "join"} /\ main \notin {"exit", "dead"}
      PROVE  Engaged' /\ ~ClientDeaf' => Engaged /\ ~ClientDeaf
  BY <1>6 DEF Engaged, Answered, ClientDeaf, ClientGone, Eager
<1>7. ASSUME UNCHANGED <<toClient, queueVars>>, origin' = origin, stop => stop',
             \/ main' = main
             \/ main' = "dead"
             \/ main' \notin {"waitStarted", "join"} /\ main \notin {"exit", "dead"}
      PROVE  EagerKnown'
  BY <1>4, <1>5, <1>6, <1>7 DEF queueVars
<1>8. /\ inbox \in [Thread -> Seq(ToClientMessage)] /\ toClient \in Seq(ToClientMessage)
      /\ "main" \in Thread /\ "ingress" \in Thread /\ drain \in [Thread -> DrainCall]
  BY <1>2, LossTypes
<1>9. PICK c \in Nat, a \in Nat, b \in Nat :
        c = EagerIn(toClient) /\ a = EagerIn(inbox["main"]) /\ b = EagerIn(inbox["ingress"])
  BY SumTypes, <1>8
<1>10. EagerOnTheWay = c + a + b
  BY <1>9 DEF EagerOnTheWay
<1>11. ASSUME NEW t \in Thread, DrainStep(t)
       PROVE  EagerKnown'
  <2>1. CASE DrainBegin(t) \/ DrainRead(t) \/ DrainEnd(t)
    <3>1. UNCHANGED <<toClient, queueVars, origin, stop>> /\ (main' = main \/ main' = "dead")
      BY <2>1 DEF DrainBegin, DrainRead, DrainEnd, SendAckIfNeeded, flowVars, socketVars
    <3>2. QED BY <1>7, <3>1
  <2>2. CASE DrainAccount(t)
    <3>1. drain[t].kind = "shadow"
      <4>1. drain[t].at = "account" /\ drain[t].kind \in {"frame", "shadow", "ack"}
        BY <1>8, <2>2 DEF DrainAccount, DrainCall
      <4>2. drain[t].kind # "ack" /\ drain[t].kind # "frame"
        BY <1>1, <1>2, <4>1 DEF HandsKnown, StateInv, ThreadsKnown
      <4>3. QED BY <4>1, <4>2
    <3>2. UNCHANGED <<toClient, queueVars, origin, stop, main>>
      BY <2>2, <3>1 DEF DrainAccount, queueVars, socketVars
    <3>3. QED BY <1>7, <3>2
  <2>3. QED BY <1>11, <2>1, <2>2 DEF DrainStep
<1>12. ASSUME NEW t \in Thread, Receive(t)
       PROVE  EagerKnown'
  <2>1. /\ toClient # <<>> /\ toClient' = Tail(toClient) /\ inbox[t] = <<>>
        /\ inbox' = [inbox EXCEPT ![t] = <<Head(toClient)>>]
        /\ UNCHANGED <<used, pending, last, gaps, reordered, origin, stop, main>>
        /\ main \in {"recv", "finalRecv"} \/ ingress \in {"recv", "recvLast"}
    BY <1>12 DEF Receive, ReceivesHere, flowVars, drainVars
  <2>2. origin # -1
    BY <1>2, <2>1 DEF StateInv, JoinKnown, Before
  <2>3. Engaged' /\ ~ClientDeaf' => Engaged /\ ~ClientDeaf
    BY <2>1, <2>2 DEF Engaged, ClientDeaf, ClientGone
  <2>4. PICK message \in ToClientMessage : message = Head(toClient)
    BY <1>8, <2>1, HeadTailProperties
  <2>5. PICK w \in Nat : w = Weight(message)
    BY DEF Weight
  <2>6. EagerIn(toClient) = EagerIn(toClient') + w /\ EagerIn(toClient') \in Nat
    BY <1>8, <2>1, <2>4, <2>5, EagerInTail
  <2>7. EagerIn(inbox[t]) = 0 /\ EagerIn(inbox'[t]) = w
    <3>1. inbox'[t] = <<message>>
      BY <1>8, <2>1, <2>4
    <3>2. QED BY <2>1, <2>5, <3>1, EagerInEmpty, EagerInOne
  <2>8. \A s \in Thread : s # t => inbox'[s] = inbox[s]
    BY <1>8, <2>1
  <2>9. EagerOnTheWay' = EagerOnTheWay
    <3>1. PICK c1 \in Nat : c1 = EagerIn(toClient') /\ c = c1 + w
      BY <1>9, <2>6
    <3>2. CASE t = "main"
      <4>1. a = 0 /\ EagerIn(inbox'["main"]) = w /\ EagerIn(inbox'["ingress"]) = b
        BY <1>8, <1>9, <2>7, <2>8, <3>2
      <4>2. EagerOnTheWay' = c1 + w + b
        BY <3>1, <4>1 DEF EagerOnTheWay
      <4>3. QED BY <1>10, <3>1, <4>1, <4>2
    <3>3. CASE t = "ingress"
      <4>1. b = 0 /\ EagerIn(inbox'["ingress"]) = w /\ EagerIn(inbox'["main"]) = a
        BY <1>8, <1>9, <2>7, <2>8, <3>3
      <4>2. EagerOnTheWay' = c1 + a + w
        BY <3>1, <4>1 DEF EagerOnTheWay
      <4>3. QED BY <1>10, <3>1, <4>1, <4>2
    <3>4. QED BY <3>2, <3>3 DEF Thread
  <2>10. Taken' = Taken
    BY <2>1 DEF Taken
  <2>11. QED BY <1>4, <2>1, <2>3, <2>9, <2>10
<1>13. ASSUME NEW t \in Thread, Process(t)
       PROVE  EagerKnown'
  <2>1. inbox[t] # <<>> /\ UNCHANGED <<toClient, used, origin, stop, main>>
    BY <1>13, ProcessLeaves DEF LossInv, socketVars, drainVars
  <2>2. inbox[t] \in Seq(ToClientMessage) /\ Len(inbox[t]) = 1
    <3>1. Len(inbox[t]) <= 1
      BY <1>2, <1>13 DEF HandsKnown
    <3>2. inbox[t] \in Seq(ToClientMessage)
      BY <1>8, <1>13
    <3>3. Len(inbox[t]) \in Nat \ {0}
      BY <2>1, <3>2, EmptySeq
    <3>4. \A n \in Nat \ {0} : n <= 1 => n = 1
      OBVIOUS
    <3>5. QED BY <3>1, <3>2, <3>3, <3>4
  <2>3. PICK message \in ToClientMessage : message = Head(inbox[t])
    BY <2>1, <2>2, HeadTailProperties
  <2>4. PICK w \in Nat : w = Weight(message)
    BY DEF Weight
  <2>5. EagerIn(inbox[t]) = w
    <3>1. Tail(inbox[t]) \in Seq(ToClientMessage) /\ Len(Tail(inbox[t])) = 0
      BY <2>1, <2>2, HeadTailProperties
    <3>2. Tail(inbox[t]) = <<>>
      BY <3>1, EmptySeq
    <3>3. EagerIn(inbox[t]) = EagerIn(<<>>) + Weight(message)
      BY <2>1, <2>2, <2>3, <3>2, EagerInTail
    <3>4. QED BY <2>4, <3>3, EagerInEmpty
  <2>6. Engaged' /\ ~ClientDeaf' => Engaged /\ ~ClientDeaf
    BY <1>6, <2>1
  <2>7. ASSUME inbox' = [inbox EXCEPT ![t] = <<>>]
        PROVE  \E rest \in Nat : EagerOnTheWay = rest + w /\ EagerOnTheWay' = rest
    <3> EagerIn(inbox'[t]) = 0 /\ \A s \in Thread : s # t => inbox'[s] = inbox[s]
      BY <1>8, <2>7, EagerInEmpty
    <3>1. EagerIn(toClient') = c
      BY <1>9, <2>1
    <3>2. CASE t = "main"
      <4>1. a = w /\ EagerIn(inbox'["main"]) = 0 /\ EagerIn(inbox'["ingress"]) = b
        BY <1>8, <1>9, <2>5, <2>6, <3>2
      <4>2. EagerOnTheWay' = c + 0 + b
        BY <3>1, <4>1 DEF EagerOnTheWay
      <4>3. c + b \in Nat /\ c + a + b = (c + b) + w /\ c + 0 + b = c + b
        BY <4>1
      <4>4. QED BY <1>10, <4>2, <4>3
    <3>3. CASE t = "ingress"
      <4>1. b = w /\ EagerIn(inbox'["ingress"]) = 0 /\ EagerIn(inbox'["main"]) = a
        BY <1>8, <1>9, <2>5, <2>6, <3>3
      <4>2. EagerOnTheWay' = c + a + 0
        BY <3>1, <4>1 DEF EagerOnTheWay
      <4>3. c + a \in Nat /\ c + a + b = (c + a) + w /\ c + a + 0 = c + a
        BY <4>1
      <4>4. QED BY <1>10, <4>2, <4>3
    <3>4. QED BY <3>2, <3>3 DEF Thread
  <2>8. CASE AccountLoad(t) \/ AccountStore(t)
    <3>1. UNCHANGED <<toClient, inbox, used, pending>>
      BY <2>1, <2>8 DEF AccountLoad, AccountStore
    <3>2. QED BY <1>4, <1>5, <2>6, <3>1
  <2>9. CASE TakeGeneration(t)
    <3>1. message.type = "DEVICE_STATE" /\ inbox' = [inbox EXCEPT ![t] = <<>>]
          /\ pending' = pending
      BY <2>3, <2>9 DEF TakeGeneration, Holds
    <3>2. w = 0
      BY <2>4, <3>1 DEF Weight
    <3>3. PICK rest \in Nat : EagerOnTheWay = rest + w /\ EagerOnTheWay' = rest
      BY <2>7, <3>1
    <3>4. EagerOnTheWay' = EagerOnTheWay /\ Taken' = Taken
      BY <2>1, <3>1, <3>2, <3>3 DEF Taken
    <3>5. QED BY <1>4, <2>6, <3>4
  <2>10. CASE PushRecord(t)
    <3>1. message.type = "EAGER" /\ inbox' = [inbox EXCEPT ![t] = <<>>]
          /\ pending' = Append(pending, message.sequence)
      BY <2>3, <2>10 DEF PushRecord, LossInv, TallyKnown, Holds
    <3>2. w = 1
      BY <2>4, <3>1 DEF Weight
    <3>3. PICK rest \in Nat : EagerOnTheWay = rest + w /\ EagerOnTheWay' = rest
      BY <2>7, <3>1
    <3>4. PICK taken \in Nat, d \in Nat, e \in Nat, o \in Nat :
            taken = Taken /\ d = dropped /\ e = eagerDrops /\ o = Len(offered)
      BY SumTypes
    <3>5. Taken' = taken + 1
      <4>1. pending \in Seq(Sequence) /\ Len(used) \in Nat
        BY <1>2 DEF StateInv, QueueTyped
      <4>2. Len(pending') = Len(pending) + 1 /\ Len(pending) \in Nat
        BY <3>1, <4>1 DEF ToClientMessage
      <4>3. Taken' = Len(used) + Len(pending')
        BY <2>1 DEF Taken
      <4>4. QED BY <3>4, <4>1, <4>2, <4>3 DEF Taken
    <3>6. SUFFICES ASSUME Engaged', ~ClientDeaf'
                   PROVE  Taken' + EagerOnTheWay' + dropped' + eagerDrops' = Len(offered')
      BY DEF EagerKnown
    <3>7. Taken + EagerOnTheWay + dropped + eagerDrops = Len(offered)
      BY <1>1, <1>2, <2>6, <3>6 DEF EagerKnown
    <3>8. taken + (rest + 1) + d + e = o
      BY <3>2, <3>3, <3>4, <3>7
    <3>9. (taken + 1) + rest + d + e = o
      BY <3>8
    <3>10. dropped' = d /\ eagerDrops' = e /\ Len(offered') = o
      BY <1>3, <3>4
    <3>11. QED BY <3>3, <3>5, <3>9, <3>10
  <2>11. QED BY <1>13, <2>8, <2>9, <2>10 DEF Process
\* Before the client has STARTED nothing is claimed of what it gets.
<1>14. ASSUME ~Engaged'
       PROVE  EagerKnown'
  BY <1>14 DEF EagerKnown
<1>15. CASE IngressCheck \/ IngressPoll \/ IngressUrgent \/ IngressReceiveOver
  <2>1. UNCHANGED <<toClient, queueVars, origin, stop, main>>
    BY <1>15 DEF IngressCheck, IngressPoll, IngressUrgent, IngressReceiveOver, socketVars, drainVars
  <2>2. QED BY <1>7, <2>1
<1>16. CASE SendSetup
  <2>1. /\ UNCHANGED <<toClient, queueVars, origin>> /\ main \in {"mode", "start"}
        /\ main' \in {"dead", "start", "waitStarted"}
    BY <1>16 DEF SendSetup, drainVars
  <2>2. origin = -1 /\ main \in Before
    BY <1>2, <2>1 DEF StateInv, JoinKnown, Before
  <2>3. ~Engaged
    BY <2>1, <2>2 DEF Engaged
  <2>4. \A i \in 1 .. Len(toClient) : toClient[i].type # "STARTED"
    BY <1>2, <2>2, <2>3 DEF BarrierKnown
  <2>5. ~Answered'
    <3>1. toClient # <<>> => Head(toClient) = toClient[1] /\ 1 \in 1 .. Len(toClient)
      BY <1>8, HeadTailProperties, EmptySeq
    <3>2. QED BY <2>1, <2>4, <3>1 DEF Answered
  <2>6. ~Engaged'
    BY <2>1, <2>2, <2>5 DEF Engaged
  <2>7. QED BY <1>14, <2>6
<1>17. CASE ReceiveStarted
  <2>1. UNCHANGED <<queueVars, origin, stop>> /\ main = "waitStarted"
    BY <1>17 DEF ReceiveStarted, drainVars
  <2>2. origin = -1 /\ main \in Before
    BY <1>2, <2>1 DEF StateInv, JoinKnown, Before
  <2>3. CASE UNCHANGED toClient /\ (main' = "dead" \/ main' = main)
    BY <1>7, <2>1, <2>3
  <2>4. CASE /\ toClient # <<>> /\ toClient' = Tail(toClient)
             /\ main' = IF Head(toClient).type = "STARTED" THEN "join" ELSE "waitStarted"
    <3>1. CASE Answered
      <4>1. PICK message \in ToClientMessage :
              message = Head(toClient) /\ Weight(message) = 0
        <5>1. Head(toClient) \in ToClientMessage /\ Head(toClient).type = "STARTED"
          BY <1>8, <2>4, <3>1, HeadTailProperties DEF Answered
        <5>2. QED BY <5>1 DEF Weight
      <4>2. c = EagerIn(toClient') /\ EagerIn(toClient') \in Nat
        <5>1. EagerIn(toClient) = EagerIn(toClient') + Weight(message)
              /\ EagerIn(toClient') \in Nat
          BY <1>8, <2>4, <4>1, EagerInTail
        <5>2. QED BY <1>9, <4>1, <5>1
      <4>3. EagerOnTheWay' = EagerOnTheWay /\ Taken' = Taken
        BY <1>9, <2>1, <4>2 DEF EagerOnTheWay, Taken, queueVars
      <4>4. Engaged /\ main' = "join"
        BY <2>1, <2>4, <3>1 DEF Engaged, Answered
      <4>5. ~ClientDeaf' => ~ClientDeaf
        BY <2>1 DEF ClientDeaf, ClientGone, Eager
      <4>6. QED BY <1>4, <2>1, <4>3, <4>4, <4>5 DEF queueVars
    <3>2. CASE ~Answered
      <4>1. main' = "waitStarted" /\ ~Engaged
        BY <2>1, <2>2, <2>4, <3>2 DEF Answered, Engaged
      <4>2. \A i \in 1 .. Len(toClient) : toClient[i].type # "STARTED"
        BY <1>2, <2>2, <4>1 DEF BarrierKnown
      <4>3. ~Answered'
        <5>1. /\ Len(toClient') = Len(toClient) - 1 /\ Len(toClient) \in Nat \ {0}
              /\ toClient' \in Seq(ToClientMessage)
              /\ \A i \in 1 .. Len(toClient) - 1 : toClient'[i] = toClient[i + 1]
          BY <1>8, <2>4, HeadTailProperties, EmptySeq
        <5>2. toClient' # <<>> => Head(toClient') = toClient'[1] /\ 1 \in 1 .. Len(toClient')
          BY <5>1, HeadTailProperties, EmptySeq
        <5>3. toClient' # <<>> => toClient'[1] = toClient[2] /\ 2 \in 1 .. Len(toClient)
          BY <5>1, <5>2
        <5>4. QED BY <4>2, <5>2, <5>3 DEF Answered
      <4>4. ~Engaged'
        BY <2>1, <2>2, <4>1, <4>3 DEF Engaged
      <4>5. QED BY <1>14, <4>4
    <3>3. QED BY <3>1, <3>2
  <2>5. QED BY <1>17, <2>3, <2>4 DEF ReceiveStarted
<1>18. CASE JoinRing
  <2>1. UNCHANGED <<toClient, queueVars, stop>> /\ main = "join" /\ main' = "idle"
    BY <1>18 DEF JoinRing, socketVars
  <2>2. Engaged' /\ ~ClientDeaf' => Engaged /\ ~ClientDeaf
    BY <2>1 DEF Engaged, ClientDeaf, ClientGone, Eager
  <2>3. EagerOnTheWay' = EagerOnTheWay /\ Taken' = Taken
    BY <1>5, <2>1 DEF queueVars
  <2>4. QED BY <1>4, <2>1, <2>2, <2>3 DEF queueVars
<1>19. CASE FrameStep
  <2>1. /\ UNCHANGED <<toClient, inbox, last, gaps, reordered, origin, stop>>
        /\ main = "frame" /\ main' \in {"idle", "frame"}
        /\ \/ used' = used \o pending /\ pending' = <<>>
           \/ UNCHANGED <<used, pending>>
    BY <1>19 DEF FrameStep, socketVars
  <2>2. Taken' = Taken
    <3>1. used \in Seq(Sequence) /\ pending \in Seq(Sequence)
      BY <1>2 DEF StateInv, QueueTyped
    <3>2. CASE used' = used \o pending /\ pending' = <<>>
      <4>1. Len(used') = Len(used) + Len(pending) /\ Len(pending') = 0
        BY <3>1, <3>2, ConcatProperties, EmptySeq
      <4>2. Len(used) \in Nat /\ Len(pending) \in Nat
        BY <3>1
      <4>3. Taken' = (Len(used) + Len(pending)) + 0
        BY <4>1 DEF Taken
      <4>4. QED BY <4>2, <4>3 DEF Taken
    <3>3. CASE UNCHANGED <<used, pending>>
      BY <3>3 DEF Taken
    <3>4. QED BY <2>1, <3>2, <3>3
  <2>3. Engaged' /\ ~ClientDeaf' => Engaged /\ ~ClientDeaf
    BY <1>6, <2>1
  <2>4. EagerOnTheWay' = EagerOnTheWay
    BY <2>1 DEF EagerOnTheWay
  <2>5. QED BY <1>4, <2>1, <2>2, <2>3, <2>4
<1>20. CASE StartFrame \/ LeaveFrames \/ ShutdownTurn \/ StopIngress \/ JoinIngress
            \/ MainReceiveOver
  <2>1. /\ UNCHANGED <<toClient, queueVars, origin>> /\ (stop => stop')
        /\ main \notin {"exit", "dead"}
        /\ main' \notin {"waitStarted", "join"}
    <3>1. CASE StartFrame \/ LeaveFrames
      BY <3>1 DEF StartFrame, LeaveFrames, socketVars, drainVars
    <3>2. CASE ShutdownTurn
      BY <3>2 DEF ShutdownTurn, socketVars
    <3>3. CASE StopIngress
      BY <3>3 DEF StopIngress, drainVars
    <3>4. CASE JoinIngress
      BY <3>4 DEF JoinIngress, socketVars
    <3>5. CASE MainReceiveOver
      BY <3>5 DEF MainReceiveOver, ReceiveOver, ReceivesHere, socketVars
    <3>6. QED BY <1>20, <3>1, <3>2, <3>3, <3>4, <3>5
  <2>2. QED BY <1>7, <2>1
<1>21. CASE Exit
  <2>1. /\ UNCHANGED <<toClient, queueVars, origin, stop>> /\ main = "final" /\ main' = "exit"
    BY <1>21 DEF Exit, socketVars, drainVars
  <2>2. QED BY <1>7, <2>1
<1>22. CASE Ingress
  BY <1>11, <1>12, <1>13, <1>15, <1>22 DEF Ingress, Thread
<1>23. CASE Main
  BY <1>11, <1>12, <1>13, <1>16, <1>17, <1>18, <1>19, <1>20, <1>21, <1>23 DEF Main, Thread
<1>24. QED BY <1>22, <1>23

LEMMA EagerStep ==
  ASSUME LossInv, [Next]_vars
  PROVE  EagerKnown'
<1>1. CASE UNCHANGED vars
  <2>1. UNCHANGED <<toClient, toBridge, origin, main, stop, inbox, used, pending, last, gaps,
                    reordered, offered, dropped, eagerDrops>>
    BY <1>1 DEF vars, ringVars, socketVars, clientVars, flowVars, drainVars, queueVars
  <2>2. /\ Taken' = Taken /\ EagerOnTheWay' = EagerOnTheWay /\ Engaged' = Engaged
        /\ ClientDeaf' = ClientDeaf
    BY <2>1 DEF Taken, EagerOnTheWay, Engaged, Answered, ClientDeaf, ClientGone, Eager
  <2>3. QED BY <2>1, <2>2 DEF LossInv, EagerKnown, Eager
<1>2. QED BY <1>1, EagerStepBridge, EagerStepClient DEF Next, Over

-----------------------------------------------------------------------------
\* Messages in order: one more, one less, and how many there can be.
LEMMA AscendsAppend ==
  ASSUME NEW messages \in Seq(ToClientMessage), NEW message \in ToClientMessage,
         NEW floor \in Nat, Ascends(messages, floor),
         message.type = "EAGER" =>
           /\ floor < message.sequence
           /\ \A j \in 1 .. Len(messages) :
                messages[j].type = "EAGER" => messages[j].sequence < message.sequence
  PROVE  Ascends(Append(messages, message), floor)
<1> DEFINE longer == Append(messages, message)
<1>1. /\ Len(messages) \in Nat /\ Len(longer) = Len(messages) + 1
      /\ longer[Len(messages) + 1] = message
      /\ \A i \in 1 .. Len(messages) : longer[i] = messages[i]
  BY AppendProperties
<1> HIDE DEF longer
<1>2. SUFFICES ASSUME NEW i \in 1 .. Len(longer), longer[i].type = "EAGER"
               PROVE  /\ floor < longer[i].sequence
                      /\ \A j \in 1 .. i - 1 : longer[j].type = "EAGER" =>
                           longer[j].sequence < longer[i].sequence
  BY DEF Ascends, longer
<1>3. CASE i \in 1 .. Len(messages)
  <2>1. \A j \in 1 .. i - 1 : longer[j] = messages[j]
    BY <1>1, <1>3
  <2>2. longer[i] = messages[i]
    BY <1>1, <1>3
  <2>3. QED BY <1>2, <1>3, <2>1, <2>2 DEF Ascends
<1>4. CASE i = Len(messages) + 1
  BY <1>1, <1>2, <1>4
<1>5. QED BY <1>1, <1>3, <1>4

LEMMA AscendsTail ==
  ASSUME NEW messages \in Seq(ToClientMessage), messages # <<>>, NEW floor \in Nat,
         Ascends(messages, floor)
  PROVE  /\ Ascends(Tail(messages), floor)
         /\ Head(messages).type = "EAGER" =>
              floor < Head(messages).sequence
              /\ Ascends(Tail(messages), Head(messages).sequence)
<1> DEFINE rest == Tail(messages)
<1>1. /\ Len(messages) \in Nat \ {0} /\ Len(rest) = Len(messages) - 1
      /\ Head(messages) = messages[1]
      /\ \A i \in 1 .. Len(messages) - 1 : rest[i] = messages[i + 1]
  BY HeadTailProperties, EmptySeq
<1> HIDE DEF rest
<1>2. ASSUME NEW i \in 1 .. Len(rest), rest[i].type = "EAGER"
      PROVE  /\ floor < rest[i].sequence
             /\ messages[1].type = "EAGER" => messages[1].sequence < rest[i].sequence
             /\ \A j \in 1 .. i - 1 :
                  rest[j].type = "EAGER" => rest[j].sequence < rest[i].sequence
  <2>1. i + 1 \in 1 .. Len(messages) /\ rest[i] = messages[i + 1] /\ 1 \in 1 .. (i + 1) - 1
    BY <1>1
  <2>2. \A j \in 1 .. i - 1 : rest[j] = messages[j + 1] /\ j + 1 \in 1 .. (i + 1) - 1
    BY <1>1
  <2>3. /\ floor < messages[i + 1].sequence
        /\ \A j \in 1 .. (i + 1) - 1 :
             messages[j].type = "EAGER" => messages[j].sequence < messages[i + 1].sequence
    BY <1>2, <2>1 DEF Ascends
  <2>4. QED BY <2>1, <2>2, <2>3
<1>3. 1 \in 1 .. Len(messages)
  BY <1>1
<1>4. messages[1].type = "EAGER" => floor < messages[1].sequence
  BY <1>3 DEF Ascends
<1>5. Ascends(rest, floor)
  BY <1>2 DEF Ascends
<1>6. messages[1].type = "EAGER" => Ascends(rest, messages[1].sequence)
  BY <1>2 DEF Ascends
<1>7. QED BY <1>1, <1>4, <1>5, <1>6 DEF rest

LEMMA AscendsCount ==
  ASSUME NEW messages \in Seq(ToClientMessage), NEW floor \in Nat, NEW ceiling \in Nat,
         floor <= ceiling, Ascends(messages, floor),
         \A i \in 1 .. Len(messages) :
           messages[i].type = "EAGER" => messages[i].sequence <= ceiling
  PROVE  EagerIn(messages) <= ceiling - floor
<1> DEFINE S == {i \in 1 .. Len(messages) : messages[i].type = "EAGER"}
           f == [i \in S |-> messages[i].sequence]
<1>1. \A i \in S : messages[i].sequence \in Nat
  <2>1. TAKE i \in S
  <2>2. messages[i] \in ToClientMessage /\ messages[i].type = "EAGER"
    BY ElementOfSeq
  <2>3. QED BY <2>2, SequenceIsNat DEF ToClientMessage
<1>2. f \in [S -> floor + 1 .. ceiling]
  <2>1. ASSUME NEW i \in S
        PROVE  messages[i].sequence \in floor + 1 .. ceiling
    <3>1. floor < messages[i].sequence /\ messages[i].sequence <= ceiling
      BY DEF Ascends
    <3>2. PICK number \in Nat : number = messages[i].sequence
      BY <1>1
    <3>3. number \in floor + 1 .. ceiling
      BY <3>1, <3>2
    <3>4. QED BY <3>2, <3>3
  <2>2. QED BY <2>1
<1>3. \A i, j \in S : f[i] = f[j] => i = j
  <2>1. ASSUME NEW i \in S, NEW j \in S, i < j
        PROVE  f[i] # f[j]
    <3>1. i \in 1 .. j - 1
      BY <2>1
    <3>2. messages[i].sequence < messages[j].sequence
      BY <3>1 DEF Ascends
    <3>3. PICK a \in Nat, b \in Nat : a = messages[i].sequence /\ b = messages[j].sequence
      BY <1>1
    <3>4. a # b
      BY <3>2, <3>3
    <3>5. QED BY <3>3, <3>4
  <2>2. SUFFICES ASSUME NEW i \in S, NEW j \in S, f[i] = f[j]
                 PROVE  i = j
    OBVIOUS
  <2>3. ~(i < j) /\ ~(j < i)
    BY <2>1, <2>2
  <2>4. i \in Nat /\ j \in Nat
    OBVIOUS
  <2>5. QED BY <2>3, <2>4
<1>4. IsFiniteSet(floor + 1 .. ceiling) /\ Cardinality(floor + 1 .. ceiling) = ceiling - floor
  <2>1. PICK lower \in Int : lower = floor + 1
    OBVIOUS
  <2>2. IsFiniteSet(lower .. ceiling)
        /\ Cardinality(lower .. ceiling) = IF lower > ceiling THEN 0 ELSE ceiling - lower + 1
    <3>1. ceiling \in Int
      OBVIOUS
    <3>2. QED BY <3>1, FS_Interval
  <2>3. (IF lower > ceiling THEN 0 ELSE ceiling - lower + 1) = ceiling - floor
    BY <2>1
  <2>4. QED BY <2>1, <2>2, <2>3
<1>5. EagerIn(messages) = Cardinality(S)
  BY DEF EagerIn
<1> HIDE DEF S, f
<1>6. f \in Injection(S, floor + 1 .. ceiling)
  BY <1>2, <1>3, Fun_IsInj
<1>7. Cardinality(S) <= Cardinality(floor + 1 .. ceiling)
  BY <1>4, <1>6, FS_Injection
<1>8. QED BY <1>4, <1>5, <1>7

-----------------------------------------------------------------------------
LEMMA RunTypes ==
  ASSUME LossInv
  PROVE  /\ tally["ingress"] \in [at : {"load", "store", "push"}, last : Nat, gaps : Nat,
                                  reordered : Nat]
         /\ Behind \in 0 .. Len(offered) /\ Accounted \in Nat
         /\ \A i \in 1 .. Len(toClient) :
              toClient[i].type = "EAGER" =>
                toClient[i].sequence \in Nat /\ toClient[i].sequence <= Len(offered)
<1>1. /\ StateInv /\ TallyKnown /\ inbox["ingress"] \in Seq(ToClientMessage)
      /\ toClient \in Seq(ToClientMessage)
  BY LossTypes DEF LossInv
<1>2. \A message \in ToClientMessage : message.type = "EAGER" => message.sequence \in Nat
  BY SequenceIsNat DEF ToClientMessage
<1>3. tally["ingress"] \in [at : {"load", "store", "push"}, last : Nat, gaps : Nat,
                            reordered : Nat]
  BY <1>1 DEF TallyKnown, Thread
<1>4. Behind \in 0 .. Len(offered)
  <2>1. last \in 0 .. Len(offered) /\ Len(offered) \in Nat
    BY <1>1, LossTypes DEF StateInv, QueueTyped
  <2>2. CASE Holds("ingress", "EAGER")
    <3>1. /\ Head(inbox["ingress"]) = inbox["ingress"][1] /\ 1 \in 1 .. Len(inbox["ingress"])
          /\ Head(inbox["ingress"]) \in ToClientMessage
      BY <1>1, <2>2, HeadTailProperties, EmptySeq DEF Holds
    <3>2. Told(inbox["ingress"][1])
      BY <1>1, <3>1 DEF StateInv, ToClientKnown, Thread
    <3>3. PICK number \in Nat : number = Head(inbox["ingress"]).sequence
      BY <1>2, <2>2, <3>1 DEF Holds
    <3>4. number <= Len(offered)
      BY <2>2, <3>1, <3>2, <3>3 DEF Holds, Told
    <3>5. QED BY <2>1, <2>2, <3>3, <3>4 DEF Behind
  <2>3. QED BY <2>1, <2>2 DEF Behind
<1>5. Accounted \in Nat
  <2>1. Taken \in Nat
    BY SumTypes
  <2>2. QED BY <2>1 DEF Accounted
<1>6. ASSUME NEW i \in 1 .. Len(toClient), toClient[i].type = "EAGER"
      PROVE  toClient[i].sequence \in Nat /\ toClient[i].sequence <= Len(offered)
  <2>1. toClient[i] \in ToClientMessage
    BY <1>1, ElementOfSeq
  <2>2. Told(toClient[i])
    BY <1>1 DEF StateInv, ToClientKnown
  <2>3. QED BY <1>2, <1>6, <2>1, <2>2 DEF Told
<1>7. QED BY <1>3, <1>4, <1>5, <1>6

\* What leaves the statistics and the messages alone.
LEMMA RunQuiet ==
  ASSUME RunKnown, UNCHANGED <<inbox, tally, last, gaps, reordered>>, Taken' = Taken,
         main' \in Running => main \in Running,
         Eager /\ main' \in Running /\ Ascends(toClient, Behind) => Ascends(toClient', Behind)
  PROVE  RunKnown'
<1>1. Behind' = Behind /\ Accounted' = Accounted
      /\ Holds("ingress", "EAGER")' = Holds("ingress", "EAGER")
  BY DEF Behind, Accounted, Holds
<1>2. Ascends(toClient, Behind)' = Ascends(toClient', Behind)
  BY <1>1 DEF Ascends
<1>3. QED BY <1>1, <1>2 DEF RunKnown, Eager

\* The bridge sends each record once, after those it has offered before.
LEMMA RunStepBridge ==
  ASSUME LossInv, Bridge
  PROVE  RunKnown'
<1>1. StateInv /\ RunKnown /\ toClient \in Seq(ToClientMessage)
  BY LossTypes DEF LossInv
<1>2. UNCHANGED <<main, inbox, tally, used, pending, last, gaps, reordered>>
  BY BridgeLeaves DEF clientVars, flowVars, queueVars
<1>3. PICK behind \in Nat, count \in Nat :
        behind = Behind /\ count = Len(offered) /\ behind <= count
  BY RunTypes, LossTypes, <1>1
<1>4. ASSUME NEW message \in ToClientMessage,
             Sent(message) \/ UNCHANGED toClient,
             message.type = "EAGER" => message.sequence = count + 1
      PROVE  RunKnown'
  <2>1. ASSUME Ascends(toClient, Behind)
        PROVE  Ascends(toClient', Behind)
    <3>1. CASE toClient' = Append(toClient, message)
      <4>1. message.type = "EAGER" =>
              /\ behind < message.sequence
              /\ \A j \in 1 .. Len(toClient) :
                   toClient[j].type = "EAGER" => toClient[j].sequence < message.sequence
        <5>1. SUFFICES ASSUME message.type = "EAGER"
                       PROVE  /\ behind < count + 1
                              /\ \A j \in 1 .. Len(toClient) :
                                   toClient[j].type = "EAGER" => toClient[j].sequence < count + 1
          BY <1>4
        <5>2. \A number \in Nat : number <= count => number < count + 1
          BY <1>3
        <5>3. \A j \in 1 .. Len(toClient) : toClient[j].type = "EAGER" =>
                toClient[j].sequence \in Nat /\ toClient[j].sequence <= count
          BY <1>3, RunTypes
        <5>4. QED BY <1>3, <5>2, <5>3
      <4>2. Ascends(toClient, behind)
        BY <1>3, <2>1
      <4>3. Ascends(Append(toClient, message), behind)
        BY <1>1, <4>1, <4>2, AscendsAppend
      <4>4. QED BY <1>3, <3>1, <4>3
    <3>2. CASE toClient' = toClient
      BY <2>1, <3>2
    <3>3. QED BY <1>4, <3>1, <3>2 DEF Sent
  <2>2. Taken' = Taken
    BY <1>2 DEF Taken
  <2>3. QED BY <1>1, <1>2, <2>1, <2>2, RunQuiet
<1>5. PICK started \in ToClientMessage : started = [type |-> "STARTED"] /\ started.type # "EAGER"
  <2>1. [type |-> "STARTED"] \in ToClientMessage
    BY DEF ToClientMessage
  <2>2. QED BY <2>1
<1>6. ASSUME NEW kind, Publish(kind), Len(offered) <= MaxRecords
      PROVE  RunKnown'
  <2>1. Len(offered) + 1 \in Sequence
    BY <1>6, LossTypes, <1>1, BoundsAre DEF Sequence
  <2>2. PICK message \in ToClientMessage :
          message = [type |-> "EAGER", sequence |-> Len(offered) + 1]
    BY <2>1 DEF ToClientMessage
  <2>3. message.sequence = count + 1
    BY <1>3, <2>2
  <2>4. Sent(message) \/ UNCHANGED toClient
    BY <1>6, <2>2 DEF Publish
  <2>5. QED BY <1>4, <2>3, <2>4
<1>7. CASE \E kind \in {"motion", "button"} : Observe(kind)
  BY <1>1, <1>6, <1>7 DEF Observe, StateInv, RingKnown
<1>8. CASE PublishTerminal
  BY <1>1, <1>6, <1>8 DEF PublishTerminal, StateInv, RingKnown
<1>9. CASE DeviceGone \/ Reconnect
  <2>1. StateInv'
    BY <1>1, <1>9, DeviceStep
  <2>2. PICK g \in 1 .. MaxGeneration : Sent([type |-> "DEVICE_STATE", generation |-> g])
    BY <1>1, <1>9, <2>1 DEF DeviceGone, Reconnect, StateInv, BridgeKnown
  <2>3. PICK message \in ToClientMessage :
          message = [type |-> "DEVICE_STATE", generation |-> g] /\ message.type # "EAGER"
    <3>1. [type |-> "DEVICE_STATE", generation |-> g] \in ToClientMessage
      BY DEF ToClientMessage
    <3>2. QED BY <3>1
  <2>4. QED BY <1>4, <2>2, <2>3
<1>10. CASE HandleControl \/ LeaveLoop \/ BridgeStops \/ WaitAckMessage \/ WaitAckOver
  <2>1. UNCHANGED toClient
    BY <1>10 DEF HandleControl, LeaveLoop, BridgeStops, WaitAckMessage, WaitAckOver, socketVars
  <2>2. QED BY <1>4, <1>5, <2>1
<1>11. CASE HandleBarrier
  <2>1. toClient' = toClient \/ Sent([type |-> "STARTED"])
    BY <1>11 DEF HandleBarrier
  <2>2. QED BY <1>4, <1>5, <2>1
<1>12. QED BY <1>7, <1>8, <1>9, <1>10, <1>11 DEF Bridge, BridgeControl

\* The ingress thread counts the records it receives.
LEMMA RunStepClient ==
  ASSUME LossInv, Ingress \/ Main
  PROVE  RunKnown'
<1>1. SUFFICES ASSUME Eager, main' \in Running
               PROVE  RunKnown'
  BY DEF RunKnown, Eager
<1>2. /\ StateInv /\ RunKnown /\ TallyKnown /\ HandsKnown
      /\ inbox \in [Thread -> Seq(ToClientMessage)] /\ toClient \in Seq(ToClientMessage)
      /\ "main" \in Thread /\ "ingress" \in Thread /\ drain \in [Thread -> DrainCall]
  BY LossTypes DEF LossInv
<1>3. PICK behind \in Nat : behind = Behind
  BY RunTypes, LossTypes, <1>2
<1>4. ASSUME UNCHANGED <<toClient, inbox, tally, last, gaps, reordered>>, Taken' = Taken,
             main \in Running
      PROVE  RunKnown'
  BY <1>2, <1>4, RunQuiet
<1>5. ASSUME UNCHANGED <<toClient, queueVars>>, main \in Running
      PROVE  RunKnown'
  BY <1>4, <1>5 DEF queueVars, Taken
<1>6. ASSUME NEW t \in Thread, DrainStep(t)
      PROVE  RunKnown'
  <2>1. CASE DrainBegin(t) \/ DrainRead(t) \/ DrainEnd(t)
    <3>1. UNCHANGED <<toClient, queueVars>> /\ main \in Running
      BY <1>1, <2>1 DEF DrainBegin, DrainRead, DrainEnd, SendAckIfNeeded, flowVars, socketVars,
                        Running, Before
    <3>2. QED BY <1>5, <3>1
  <2>2. CASE DrainAccount(t)
    <3>1. drain[t].kind = "shadow"
      <4>1. drain[t].at = "account" /\ drain[t].kind \in {"frame", "shadow", "ack"}
        BY <1>2, <2>2 DEF DrainAccount, DrainCall
      <4>2. drain[t].kind # "ack" /\ drain[t].kind # "frame"
        BY <1>1, <1>2, <4>1 DEF HandsKnown, StateInv, ThreadsKnown
      <4>3. QED BY <4>1, <4>2
    <3>2. UNCHANGED <<toClient, queueVars>> /\ main \in Running
      BY <1>1, <2>2, <3>1 DEF DrainAccount, queueVars, socketVars
    <3>3. QED BY <1>5, <3>2
  <2>3. QED BY <1>6, <2>1, <2>2 DEF DrainStep
<1>7. main \in Running => inbox["main"] = <<>> /\ ~(main \in {"recv", "finalRecv"})
  BY <1>2 DEF HandsKnown, Running, Before
<1>8. ASSUME NEW t \in Thread, Receive(t)
      PROVE  RunKnown'
  <2>1. /\ toClient # <<>> /\ toClient' = Tail(toClient) /\ inbox[t] = <<>>
        /\ inbox' = [inbox EXCEPT ![t] = <<Head(toClient)>>]
        /\ UNCHANGED <<tally, used, pending, last, gaps, reordered, main>>
        /\ t = "main" => main \in {"recv", "finalRecv"}
    BY <1>8 DEF Receive, ReceivesHere, flowVars
  <2>2. t = "ingress" /\ main \in Running
    BY <1>1, <1>7, <2>1 DEF Thread
  <2>3. ~Holds("ingress", "EAGER") /\ tally["ingress"].at = "load" /\ Behind = last
    BY <1>2, <2>1, <2>2 DEF Holds, TallyKnown, Behind
  <2>4. PICK message \in ToClientMessage :
          message = Head(toClient) /\ inbox'["ingress"] = <<message>>
    BY <1>2, <2>1, <2>2, HeadTailProperties
  <2>5. Holds("ingress", "EAGER")' = (message.type = "EAGER")
    BY <2>4 DEF Holds
  <2>6. Behind' = IF message.type = "EAGER" THEN message.sequence ELSE Behind
    <3>1. Head(<<message>>) = message /\ last' = last
      BY <2>1
    <3>2. Behind' = IF Holds("ingress", "EAGER")' THEN Head(inbox'["ingress"]).sequence ELSE last'
      BY DEF Behind
    <3>3. QED BY <2>3, <2>4, <2>5, <3>1, <3>2
  <2>7. /\ reordered = 0 /\ gaps + Accounted <= last /\ Ascends(toClient, behind)
    BY <1>1, <1>2, <1>3, <2>2 DEF RunKnown
  <2>8. /\ Ascends(Tail(toClient), behind)
        /\ message.type = "EAGER" => behind < message.sequence
                                     /\ Ascends(Tail(toClient), message.sequence)
    BY <1>2, <2>1, <2>4, <2>7, AscendsTail
  <2>9. Ascends(toClient, Behind)'
    BY <1>3, <2>1, <2>6, <2>8 DEF Ascends
  <2>10. Accounted' = Accounted
    BY <2>1 DEF Accounted, Taken
  <2>11. Holds("ingress", "EAGER")' => last < Behind'
    BY <1>3, <2>3, <2>5, <2>6, <2>8
  <2>12. QED BY <2>1, <2>3, <2>7, <2>9, <2>10, <2>11 DEF RunKnown
<1>9. ASSUME NEW t \in Thread, Process(t)
      PROVE  RunKnown'
  <2>1. /\ inbox[t] # <<>> /\ UNCHANGED <<toClient, used, main>>
        /\ inbox' = inbox \/ inbox' = [inbox EXCEPT ![t] = <<>>]
    BY <1>9, ProcessLeaves DEF LossInv, socketVars
  <2>2. t = "ingress" /\ main \in Running
    BY <1>1, <1>7, <2>1 DEF Thread
  <2>3. /\ reordered = 0 /\ gaps + Accounted <= last /\ Ascends(toClient, Behind)
        /\ tally["ingress"].at = "store" =>
             tally["ingress"].last = last /\ tally["ingress"].gaps = gaps
        /\ Holds("ingress", "EAGER") =>
             IF tally["ingress"].at = "push" THEN last = Behind ELSE last < Behind
    BY <1>1, <1>2, <2>2 DEF RunKnown
  <2>4. PICK l \in Nat, g \in Nat, k \in Nat, m \in Nat :
          l = last /\ g = gaps /\ k = Taken /\ m = Accounted
    BY SumTypes, RunTypes
  <2>5. CASE AccountLoad("ingress")
    <3>1. /\ UNCHANGED <<inbox, pending, last, gaps, reordered>>
          /\ tally["ingress"].at = "load" /\ Holds("ingress", "EAGER")
          /\ tally'["ingress"] = [at |-> "store", last |-> last, gaps |-> gaps,
                                  reordered |-> reordered]
      BY <1>2, <2>5 DEF AccountLoad, TallyKnown
    <3>2. Behind' = Behind /\ Accounted' = Accounted
          /\ Holds("ingress", "EAGER")' = Holds("ingress", "EAGER")
      BY <2>1, <3>1 DEF Behind, Accounted, Holds, Taken
    <3>3. Ascends(toClient, Behind)'
      BY <2>1, <2>3, <3>2 DEF Ascends
    <3>4. QED BY <2>3, <3>1, <3>2, <3>3 DEF RunKnown
  <2>6. CASE AccountStore("ingress")
    <3>1. tally["ingress"].at = "store" /\ Holds("ingress", "EAGER")
      BY <1>2, <2>6 DEF AccountStore, TallyKnown
    <3>2. PICK record \in Nat \ {0} : record = Head(inbox["ingress"]).sequence /\ record = Behind
      <4>1. inbox["ingress"] # <<>> /\ Head(inbox["ingress"]).type = "EAGER"
        BY <3>1 DEF Holds
      <4>2. Head(inbox["ingress"]) \in ToClientMessage
        BY <1>2, <4>1, HeadTailProperties
      <4>3. Head(inbox["ingress"]).sequence \in Nat \ {0}
        BY <4>1, <4>2, SequenceIsNat DEF ToClientMessage
      <4>4. QED BY <3>1, <4>3 DEF Behind
    <3>3. PICK before \in Nat : before = IF l = 0 THEN record - 1 ELSE l
      <4>1. record - 1 \in Nat
        BY <3>2
      <4>2. QED BY <4>1
    <3>4. l < record /\ before < record /\ l <= before /\ m = k
      <4>1. l < record
        BY <2>3, <2>4, <3>1, <3>2
      <4>2. m = k
        BY <2>4, <3>1 DEF Accounted
      <4>3. QED BY <3>2, <3>3, <4>1, <4>2
    <3>5. /\ UNCHANGED <<inbox, pending>>
          /\ tally'["ingress"].at = "push"
          /\ \/ record > before + 1 /\ gaps' = g + record - before - 1 /\ last' = record
                /\ reordered' = reordered
             \/ record = before + 1 /\ last' = record /\ gaps' = g /\ reordered' = reordered
             \/ record <= before
      <4>1. tally["ingress"].last = l /\ tally["ingress"].gaps = g
        BY <2>3, <2>4, <3>1
      <4>2. tally'["ingress"] = [Fresh EXCEPT !.at = "push"]
        BY <1>2, <2>6 DEF AccountStore, TallyKnown
      <4>3. [Fresh EXCEPT !.at = "push"].at = "push"
        BY DEF Fresh
      <4>4. \/ record > before + 1 /\ gaps' = g + record - before - 1 /\ last' = record
               /\ reordered' = reordered
            \/ record = before + 1 /\ last' = record /\ gaps' = g /\ reordered' = reordered
            \/ record <= before
        BY <2>4, <2>6, <3>2, <3>3, <4>1 DEF AccountStore
      <4>5. QED BY <2>6, <4>2, <4>3, <4>4 DEF AccountStore
    <3>6. /\ last' = record /\ reordered' = 0
          /\ \/ record > before + 1 /\ gaps' = g + record - before - 1
             \/ record = before + 1 /\ gaps' = g
      BY <2>3, <3>4, <3>5
    <3>7. g + k <= l
      BY <2>3, <2>4, <3>4
    <3>8. gaps' + (k + 1) <= record
      <4>1. CASE record > before + 1 /\ gaps' = g + record - before - 1
        <5>1. (g + record - before - 1) + (k + 1) <= record
          BY <3>4, <3>7
        <5>2. QED BY <4>1, <5>1
      <4>2. CASE record = before + 1 /\ gaps' = g
        BY <3>4, <3>7, <4>2
      <4>3. QED BY <3>6, <4>1, <4>2
    <3>9. Accounted' = k + 1
      <4>1. Taken' = k
        BY <2>1, <2>4, <3>5 DEF Taken
      <4>2. QED BY <3>5, <4>1 DEF Accounted
    <3>10. Holds("ingress", "EAGER")' /\ Behind' = record
      BY <3>1, <3>2, <3>5 DEF Holds, Behind
    <3>11. Ascends(toClient, Behind)'
      BY <2>1, <2>3, <3>2, <3>10 DEF Ascends
    <3>12. QED BY <3>5, <3>6, <3>8, <3>9, <3>10, <3>11 DEF RunKnown
  <2>7. CASE PushRecord("ingress")
    <3>1. /\ tally["ingress"].at = "push" /\ Holds("ingress", "EAGER")
          /\ inbox'["ingress"] = <<>> /\ tally'["ingress"] = Fresh
          /\ UNCHANGED <<last, gaps, reordered>>
          /\ pending' = Append(pending, Head(inbox["ingress"]).sequence)
      BY <1>2, <2>7 DEF PushRecord, TallyKnown
    <3>2. ~Holds("ingress", "EAGER")' /\ Behind' = last /\ last = Behind
      BY <2>3, <3>1 DEF Holds, Behind
    <3>3. Taken' = k + 1
      <4>1. pending \in Seq(Sequence) /\ Len(used) \in Nat
        BY <1>2 DEF StateInv, QueueTyped
      <4>2. Len(pending') = Len(pending) + 1 /\ Len(pending) \in Nat
        BY <3>1, <4>1
      <4>3. Taken' = Len(used) + Len(pending')
        BY <2>1 DEF Taken
      <4>4. QED BY <2>4, <4>1, <4>2, <4>3 DEF Taken
    <3>4. tally'["ingress"].at = "load"
      BY <3>1 DEF Fresh
    <3>5. Accounted' = k + 1 /\ m = k + 1
      <4>1. Accounted' = (k + 1) + 0
        BY <3>3, <3>4 DEF Accounted
      <4>2. Accounted = k + 1
        BY <2>4, <3>1 DEF Accounted
      <4>3. QED BY <2>4, <4>1, <4>2
    <3>6. gaps' + Accounted' <= last'
      BY <2>3, <2>4, <3>1, <3>5
    <3>7. Ascends(toClient, Behind)'
      BY <2>1, <2>3, <3>2 DEF Ascends
    <3>8. QED BY <2>3, <3>1, <3>2, <3>4, <3>6, <3>7 DEF RunKnown
  <2>8. CASE TakeGeneration("ingress")
    <3>1. /\ inbox'["ingress"] = <<>> /\ UNCHANGED <<tally, pending, last, gaps, reordered>>
          /\ Head(inbox["ingress"]).type = "DEVICE_STATE"
      BY <1>2, <2>8 DEF TakeGeneration, Holds
    <3>2. ~Holds("ingress", "EAGER")
      BY <3>1 DEF Holds
    <3>3. ~Holds("ingress", "EAGER")' /\ Behind' = Behind /\ Accounted' = Accounted
      BY <2>1, <3>1, <3>2 DEF Holds, Behind, Accounted, Taken
    <3>4. Ascends(toClient, Behind)'
      BY <2>1, <2>3, <3>3 DEF Ascends
    <3>5. QED BY <2>3, <3>1, <3>3, <3>4 DEF RunKnown
  <2>9. QED BY <1>9, <2>2, <2>5, <2>6, <2>7, <2>8 DEF Process
<1>10. CASE IngressCheck \/ IngressPoll \/ IngressUrgent \/ IngressReceiveOver
  <2>1. UNCHANGED <<toClient, queueVars, main>>
    BY <1>10 DEF IngressCheck, IngressPoll, IngressUrgent, IngressReceiveOver, socketVars
  <2>2. QED BY <1>1, <1>5, <2>1
<1>11. CASE SendSetup \/ JoinRing \/ StartFrame
  <2>1. UNCHANGED <<toClient, queueVars>> /\ main \in Running
    BY <1>11 DEF SendSetup, JoinRing, StartFrame, socketVars, Running, Before
  <2>2. QED BY <1>5, <2>1
<1>12. CASE ReceiveStarted
  <2>1. /\ UNCHANGED queueVars /\ main \in Running
        /\ toClient' = toClient \/ (toClient # <<>> /\ toClient' = Tail(toClient))
    BY <1>12 DEF ReceiveStarted, Running, Before
  <2>2. Ascends(toClient, Behind) => Ascends(toClient', Behind)
    <3>1. Ascends(toClient, behind) => Ascends(toClient', behind)
      BY <1>2, <2>1, AscendsTail
    <3>2. QED BY <1>3, <3>1
  <2>3. Taken' = Taken /\ UNCHANGED <<inbox, tally, last, gaps, reordered>>
    BY <2>1 DEF queueVars, Taken
  <2>4. QED BY <1>2, <2>1, <2>2, <2>3, RunQuiet
<1>13. CASE FrameStep
  <2>1. /\ UNCHANGED <<toClient, inbox, tally, last, gaps, reordered>> /\ main \in Running
        /\ \/ used' = used \o pending /\ pending' = <<>>
           \/ UNCHANGED <<used, pending>>
    BY <1>13 DEF FrameStep, socketVars, Running
  <2>2. Taken' = Taken
    <3>1. used \in Seq(Sequence) /\ pending \in Seq(Sequence)
      BY <1>2 DEF StateInv, QueueTyped
    <3>2. CASE used' = used \o pending /\ pending' = <<>>
      <4>1. Len(used') = Len(used) + Len(pending) /\ Len(pending') = 0
        BY <3>1, <3>2, ConcatProperties, EmptySeq
      <4>2. Len(used) \in Nat /\ Len(pending) \in Nat
        BY <3>1
      <4>3. Taken' = (Len(used) + Len(pending)) + 0
        BY <4>1 DEF Taken
      <4>4. QED BY <4>2, <4>3 DEF Taken
    <3>3. CASE UNCHANGED <<used, pending>>
      BY <3>3 DEF Taken
    <3>4. QED BY <2>1, <3>2, <3>3
  <2>3. QED BY <1>4, <2>1, <2>2
\* The shutdown does not go back to the frames.
<1>14. CASE LeaveFrames \/ ShutdownTurn \/ StopIngress \/ JoinIngress \/ MainReceiveOver \/ Exit
  <2>1. main' \notin Running
    BY <1>1, <1>14 DEF LeaveFrames, ShutdownTurn, StopIngress, JoinIngress, MainReceiveOver, Exit,
                       Running, Before, Eager
  <2>2. QED BY <1>1, <2>1
<1>15. CASE Ingress
  BY <1>2, <1>6, <1>8, <1>9, <1>10, <1>15 DEF Ingress
<1>16. CASE Main
  BY <1>2, <1>6, <1>8, <1>9, <1>11, <1>12, <1>13, <1>14, <1>16 DEF Main
<1>17. QED BY <1>15, <1>16

LEMMA RunStep ==
  ASSUME LossInv, [Next]_vars
  PROVE  RunKnown'
<1>1. CASE UNCHANGED vars
  <2>1. UNCHANGED <<toClient, main, inbox, tally, used, pending, last, gaps, reordered>>
    BY <1>1 DEF vars, socketVars, clientVars, flowVars, queueVars
  <2>2. Taken' = Taken /\ RunKnown
    BY <2>1 DEF Taken, LossInv
  <2>3. QED BY <2>1, <2>2, RunQuiet
<1>2. QED BY <1>1, RunStepBridge, RunStepClient DEF Next, Over

-----------------------------------------------------------------------------
LEMMA NextLossInv ==
  ASSUME LossInv, [Next]_vars
  PROVE  LossInv'
<1>1. StateInv' /\ TallyKnown'
  BY NextStateInv, TallyStep DEF LossInv
<1>2. BarrierKnown' /\ DepthKnown' /\ LastAckKnown' /\ TerminalKnown'
  BY BarrierStep, DepthStep, LastAckStep, TerminalStep
<1>3. HandsKnown' /\ LastDrainKnown' /\ EagerKnown'
  BY HandsStep, LastDrainStep, EagerStep
<1>4. RunKnown'
  BY RunStep
<1>5. QED BY <1>1, <1>2, <1>3, <1>4 DEF LossInv

\* LossInv holds of every reachable state.
THEOREM LossInvariant == Spec => []LossInv
<1>1. Init => LossInv
  BY InitLoss
<1>2. LossInv /\ [Next]_vars => LossInv'
  BY NextLossInv
<1>3. QED BY <1>1, <1>2, PTL DEF Spec

-----------------------------------------------------------------------------
\* A client that leaves after it has accounted the terminal record has drained the whole
\* ring: it was the last to be offered, and what the cursor has not passed came before it
\* (the drains after the frame loop, main of the client).
THEOREM ShutdownLeavesNothing == Spec => []ShutdownDrainsAll
<1>1. LossInv => ShutdownDrainsAll
  <2>1. SUFFICES ASSUME LossInv, main = "exit", last # 0, offered[last].kind = "terminate"
                 PROVE  localTail = head
    BY DEF ShutdownDrainsAll
  <2>2. StateInv
    BY <2>1 DEF LossInv
  <2>3. CASE Eager
    <3>1. drain["main"].at = "no"
      BY <2>1 DEF LossInv, HandsKnown
    <3>2. QED BY <2>1, <2>3, <3>1 DEF LossInv, LastDrainKnown, TerminalSeen
  <2>4. CASE ~Eager
    <3>1. origin # -1
      BY <2>1, <2>2 DEF StateInv, JoinKnown, Before
    <3>2. /\ head \in Nat /\ localTail \in 0 .. head /\ origin \in Nat
          /\ Len(used) \in Nat /\ Len(pending) \in Nat
          /\ last \in 0 .. Len(offered) /\ Len(offered) \in Nat
      <4>1. /\ head \in Nat /\ Len(offered) \in Nat
        BY <2>2 DEF StateInv, RingKnown, head
      <4>2. localTail \in 0 .. head /\ origin \in Nat
        BY <2>2, <3>1, <4>1 DEF StateInv, CursorKnown
      <4>3. Len(used) \in Nat /\ Len(pending) \in Nat /\ last \in 0 .. Len(offered)
        BY <2>2 DEF StateInv, QueueTyped
      <4>4. QED BY <4>1, <4>2, <4>3
    <3>3. last = Len(offered)
      BY <2>1, <3>2 DEF LossInv, TerminalKnown
    <3>4. PICK seen \in Nat : seen = Len(used) + Len(pending)
      BY <3>2
    <3>5. seen > 0 /\ last = log[origin + seen]
      BY <2>1, <2>2, <2>4, <3>4 DEF StateInv, Counted
    <3>6. seen <= localTail - origin
      <4>1. Len(drain["main"].batch) \in Nat /\ Len(drain["ingress"].batch) \in Nat
        BY <2>2, LossTypes DEF DrainCall
      <4>2. PICK a \in Nat, b \in Nat :
              a = Len(drain["main"].batch) /\ b = Len(drain["ingress"].batch)
        BY <4>1
      <4>3. Len(used) + Len(pending) + Len(drain["main"].batch) + Len(drain["ingress"].batch)
              = localTail - origin
        BY <2>2, <2>4, <3>1 DEF StateInv, HistoryKept
      <4>4. seen + a + b = localTail - origin
        BY <3>4, <4>2, <4>3
      <4>5. QED BY <3>2, <4>4
    <3>7. PICK i \in 1 .. head : i = origin + seen /\ i <= localTail
      BY <3>2, <3>5, <3>6
    <3>8. head - i <= Len(offered) - log[i]
      BY <2>2 DEF StateInv, RingKnown
    <3>9. head - i <= 0
      BY <3>2, <3>3, <3>5, <3>7, <3>8
    <3>10. QED BY <3>2, <3>7, <3>9
  <2>5. QED BY <2>3, <2>4
<1>2. QED BY <1>1, LossInvariant, PTL

\* Every record offered to an eager client that still reads is with its frames, on its
\* way, or counted as lost by the bridge; and as long as frames run the client sees no
\* record out of order and counts no more gaps than the bridge has losses
\* (publish_record, send_eager_record, process_eager_message, account_sequences).
THEOREM EagerLossIsCounted == Spec => []EagerLossCounted
<1>1. LossInv => EagerLossCounted
  <2>1. SUFFICES ASSUME LossInv, Eager, origin # -1, ~ClientDeaf
                 PROVE  /\ Len(used) + Len(pending) + EagerOnTheWay + (dropped + eagerDrops)
                             = Len(offered)
                        /\ main \in {"idle", "frame"} =>
                             reordered = 0 /\ gaps <= dropped + eagerDrops
    BY DEF EagerLossCounted
  <2>2. PICK n \in Nat, w \in Nat, d \in Nat, e \in Nat, o \in Nat, l \in Nat, g \in Nat :
          /\ n = Taken /\ w = EagerOnTheWay /\ d = dropped /\ e = eagerDrops
          /\ o = Len(offered) /\ l = last /\ g = gaps
    BY <2>1, SumTypes
  <2>3. PICK u \in Nat, p \in Nat : u = Len(used) /\ p = Len(pending) /\ n = u + p
    BY <2>1, <2>2, SumTypes DEF Taken
  <2>4. n + w + d + e = o
    BY <2>1, <2>2 DEF LossInv, EagerKnown, Engaged
  <2>5. u + p + w + (d + e) = o
    BY <2>3, <2>4
  <2>6. ASSUME main \in {"idle", "frame"}
        PROVE  reordered = 0 /\ gaps <= dropped + eagerDrops
    <3>1. /\ reordered = 0 /\ gaps + Accounted <= last /\ Ascends(toClient, Behind)
          /\ Holds("ingress", "EAGER") =>
               IF tally["ingress"].at = "push" THEN last = Behind ELSE last < Behind
      BY <2>1, <2>6 DEF LossInv, RunKnown, Running
    <3>2. PICK behind \in Nat, m \in Nat, c \in Nat, b \in Nat :
            /\ behind = Behind /\ m = Accounted /\ c = EagerIn(toClient)
            /\ b = EagerIn(inbox["ingress"]) /\ behind <= o
      <4>1. Behind \in 0 .. o /\ Accounted \in Nat
        BY <2>1, <2>2, RunTypes
      <4>2. EagerIn(toClient) \in Nat /\ EagerIn(inbox["ingress"]) \in Nat
        BY <2>1, SumTypes DEF Thread
      <4>3. QED BY <4>1, <4>2
    <3>3. c <= o - behind
      <4>1. \A i \in 1 .. Len(toClient) : toClient[i].type = "EAGER" => toClient[i].sequence <= o
        BY <2>1, <2>2, RunTypes
      <4>2. toClient \in Seq(ToClientMessage) /\ Ascends(toClient, behind)
        BY <2>1, <3>1, <3>2, LossTypes DEF LossInv
      <4>3. EagerIn(toClient) <= o - behind
        BY <3>2, <4>1, <4>2, AscendsCount
      <4>4. QED BY <3>2, <4>3
    <3>4. w = c + b
      <4>1. inbox["main"] = <<>>
        BY <2>1, <2>6 DEF LossInv, HandsKnown
      <4>2. EagerIn(inbox["main"]) = 0
        BY <4>1, EagerInEmpty
      <4>3. w = c + 0 + b
        BY <2>2, <3>2, <4>2 DEF EagerOnTheWay
      <4>4. QED BY <4>3
    <3>5. b = IF Holds("ingress", "EAGER") THEN 1 ELSE 0
      <4>1. inbox["ingress"] \in Seq(ToClientMessage) /\ Len(inbox["ingress"]) <= 1
        BY <2>1, LossTypes DEF LossInv, HandsKnown
      <4>2. CASE inbox["ingress"] = <<>>
        BY <3>2, <4>2, EagerInEmpty DEF Holds
      <4>3. CASE inbox["ingress"] # <<>>
        <5>1. PICK message \in ToClientMessage : message = Head(inbox["ingress"])
          BY <4>1, <4>3, HeadTailProperties
        <5>2. Tail(inbox["ingress"]) = <<>>
          <6>1. /\ Tail(inbox["ingress"]) \in Seq(ToClientMessage)
                /\ Len(inbox["ingress"]) \in Nat \ {0}
                /\ Len(Tail(inbox["ingress"])) = Len(inbox["ingress"]) - 1
            BY <4>1, <4>3, HeadTailProperties, EmptySeq
          <6>2. Len(Tail(inbox["ingress"])) = 0
            <7>1. PICK k \in Nat \ {0} : k = Len(inbox["ingress"]) /\ k <= 1
              BY <4>1, <6>1
            <7>2. k - 1 = 0
              <8>1. \A length \in Nat \ {0} : length <= 1 => length - 1 = 0
                OBVIOUS
              <8>2. QED BY <7>1, <8>1
            <7>3. QED BY <6>1, <7>1, <7>2
          <6>3. QED BY <6>1, <6>2, EmptySeq
        <5>3. EagerIn(inbox["ingress"]) = EagerIn(<<>>) + Weight(message)
          BY <4>1, <4>3, <5>1, <5>2, EagerInTail
        <5>4. EagerIn(inbox["ingress"]) = 0 + Weight(message)
          BY <5>3, EagerInEmpty
        <5>5. Holds("ingress", "EAGER") = (message.type = "EAGER")
          BY <4>3, <5>1 DEF Holds
        <5>6. Weight(message) = IF Holds("ingress", "EAGER") THEN 1 ELSE 0
          BY <5>5 DEF Weight
        <5>7. QED BY <3>2, <5>4, <5>6
      <4>4. QED BY <4>2, <4>3
    <3>6. m = n + IF tally["ingress"].at = "push" THEN 1 ELSE 0
      BY <2>2, <3>2 DEF Accounted
    <3>7. g + m <= l
      BY <2>2, <3>1, <3>2
    <3>8. g + n + b <= behind
      <4>1. CASE ~Holds("ingress", "EAGER")
        <5>1. tally["ingress"].at # "push" /\ behind = l
          BY <2>1, <2>2, <3>2, <4>1 DEF LossInv, TallyKnown, Behind, Thread
        <5>2. b = 0 /\ m = n
          BY <3>5, <3>6, <4>1, <5>1
        <5>3. QED BY <3>7, <5>1, <5>2
      <4>2. CASE Holds("ingress", "EAGER") /\ tally["ingress"].at = "push"
        <5>1. b = 1 /\ m = n + 1 /\ l = behind
          BY <2>2, <3>1, <3>2, <3>5, <3>6, <4>2
        <5>2. QED BY <3>7, <5>1
      <4>3. CASE Holds("ingress", "EAGER") /\ tally["ingress"].at # "push"
        <5>1. b = 1 /\ m = n /\ l < behind
          BY <2>2, <3>1, <3>2, <3>5, <3>6, <4>3
        <5>2. QED BY <3>7, <5>1
      <4>4. QED BY <4>1, <4>2, <4>3
    <3>9. g <= d + e
      BY <2>4, <3>3, <3>4, <3>8
    <3>10. QED BY <2>2, <3>1, <3>9
  <2>7. QED BY <2>2, <2>3, <2>5, <2>6
<1>2. QED BY <1>1, LossInvariant, PTL

\* A client dies on an acknowledgement only if the bridge gave up waiting for one, and a
\* client that acknowledged everything leaves a ring that is not empty only if the bridge
\* left acknowledgements unread or refused one (send_ack_if_needed, wait_for_terminal_ack).
THEOREM ShutdownLossHasReason == Spec => []ShutdownLossExplained
<1>1. LossInv => ShutdownLossExplained
  <2>1. SUFFICES ASSUME LossInv
                 PROVE  ShutdownLossExplained
    OBVIOUS
  <2>2. /\ head \in Nat /\ tail \in 0 .. head /\ localTail \in 0 .. head
        /\ lastAcked \in 0 .. localTail /\ tail <= lastAcked
    <3>1. StateInv
      BY <2>1 DEF LossInv
    <3>2. head \in Nat /\ tail \in 0 .. head
      BY <3>1 DEF StateInv, RingKnown, head
    <3>3. localTail \in 0 .. head /\ lastAcked \in 0 .. localTail /\ tail <= lastAcked
      BY <3>1 DEF StateInv, CursorKnown, ToBridgeKnown
    <3>4. QED BY <3>2, <3>3
  <2>3. ASSUME main = "dead", origin # -1
        PROVE  finalDepth > 0
    <3>1. bridge = "closed" /\ lastAcked < localTail
      BY <2>1, <2>3 DEF LossInv, LastAckKnown
    <3>2. finalDepth # -1
      BY <2>1, <2>3, <3>1 DEF LossInv, BarrierKnown, Engaged
    <3>3. finalDepth = head - tail
      BY <2>1, <3>2 DEF LossInv, DepthKnown
    <3>4. QED BY <2>2, <3>1, <3>3
  <2>4. ASSUME finalDepth > 0, lastAcked = head, lastAcked # origin, ~(invalidAcks > 0)
        PROVE  toBridge # <<>>
    <3>1. finalDepth = head - tail
      BY <2>1, <2>4 DEF LossInv, DepthKnown
    <3>2. tail # lastAcked
      BY <2>2, <2>4, <3>1
    <3>3. origin # -1
      <4>1. origin = -1 => localTail = 0
        BY <2>1 DEF LossInv, StateInv, JoinKnown
      <4>2. QED BY <2>2, <3>2, <4>1
    <3>4. invalidAcks = 0
      <4>1. invalidAcks \in Nat
        BY <2>1 DEF LossInv, StateInv, BridgeKnown
      <4>2. QED BY <2>4, <4>1
    <3>5. PICK i \in 1 .. Len(toBridge) : toBridge[i].consumed = lastAcked
      BY <2>1, <2>4, <3>2, <3>3, <3>4 DEF LossInv, LastAckKnown
    <3>6. Len(<<>>) = 0
      OBVIOUS
    <3>7. QED BY <3>5, <3>6
  <2>5. QED BY <2>3, <2>4 DEF ShutdownLossExplained
<1>2. QED BY <1>1, LossInvariant, PTL

=============================================================================
