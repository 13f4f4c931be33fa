---------------------------- MODULE SessionProofs ----------------------------
(***************************************************************************)
(* Proofs about Session, for every policy and placement of the             *)
(* acknowledgement, every capacity, batch and socket, and every bound.     *)
(*                                                                         *)
(* SessionInv is inductive.  Its parts are what the bridge has published,  *)
(* what is on its way in either direction, where the threads are (one at   *)
(* most is past the mutex), where the cursor is, and what was made of what *)
(* it has passed.                                                          *)
(***************************************************************************)
EXTENDS Session, SequenceTheorems, FiniteSetTheorems, FunctionTheorems, TLAPS

-----------------------------------------------------------------------------
DrainCall ==
  [at : {"no", "begin", "read", "account", "end"}, kind : {"frame", "shadow", "ack"},
   ack : BOOLEAN, batch : Seq(Sequence)]

\* Before the client has its cursor.
Before == {"mode", "start", "waitStarted", "join"}

\* The ring; records are numbered in order, with room between for what was dropped.
RingKnown ==
  /\ offered \in Seq([kind : Kind, generation : 1 .. MaxGeneration])
  /\ Len(offered) <= MaxRecords + 1
  /\ bridge \in {"barrier", "loop", "terminal"} => Len(offered) <= MaxRecords
  /\ log \in Seq(Sequence) /\ tail \in 0 .. head /\ head - tail <= Capacity
  /\ dropped \in Nat /\ dropped = Len(offered) - head /\ eagerDrops \in 0 .. head
  /\ \A i \in 1 .. head : head - i <= Len(offered) - log[i]
  /\ \A i, j \in 1 .. head : i <= j => j - i <= log[j] - log[i]

BridgeKnown ==
  /\ bridge \in {"barrier", "loop", "terminal", "waitAck", "closed"}
  /\ mode \in {"none", "eager", "hfior"} /\ generation \in 1 .. MaxGeneration
  /\ sourceOpen \in BOOLEAN /\ (~sourceOpen => generation < MaxGeneration)
  /\ stopRequested \in BOOLEAN
  /\ invalidAcks \in Nat /\ finalDepth \in -1 .. Capacity
  /\ urgent \in BOOLEAN

\* Acknowledgements on their way lie between the tail and the newest, in order.
ToBridgeKnown ==
  /\ toBridge \in Seq(ToBridgeMessage) /\ Len(toBridge) <= SocketLimit
  /\ tail <= lastAcked
  /\ \A i \in 1 .. Len(toBridge) :
       toBridge[i].type = "ACK" =>
         /\ tail <= toBridge[i].consumed /\ toBridge[i].consumed <= lastAcked
         /\ \A j \in 1 .. i :
              toBridge[j].type = "ACK" => toBridge[j].consumed <= toBridge[i].consumed

\* What the bridge tells is of records it has disposed of and generations there were.
Told(message) ==
  /\ message.type = "EAGER" => message.sequence <= Len(offered)
  /\ message.type = "DEVICE_STATE" => message.generation <= generation

ToClientKnown ==
  /\ toClient \in Seq(ToClientMessage) /\ Len(toClient) <= SocketLimit
  /\ inbox \in [Thread -> Seq(ToClientMessage)]
  /\ clientGeneration \in 1 .. generation
  /\ \A i \in 1 .. Len(toClient) : Told(toClient[i])
  /\ \A t \in Thread : \A i \in 1 .. Len(inbox[t]) : Told(inbox[t][i])

ThreadsTyped ==
  /\ main \in {"mode", "start", "waitStarted", "join", "idle", "frame", "shutdown", "recv",
              "joinIngress", "finalRecv", "final", "exit", "dead"}
  /\ step \in 1 .. Len(Plan)
  /\ ingress \in {"unstarted", "check", "poll", "recv", "recvLast", "done"}
  /\ stop \in BOOLEAN /\ terminalSeen \in BOOLEAN
  /\ drain \in [Thread -> DrainCall]
  /\ mutex \in Thread \cup {"free"}

\* One thread is past the mutex, and only it may hold a batch; the others wait or are
\* elsewhere.  A call queues records under the ring policies only, and messages are
\* received under the eager one only.
ThreadsKnown ==
  /\ \A t \in Thread : drain[t].at \in {"read", "account", "end"} => mutex = t
  /\ \A t \in Thread : drain[t].at # "account" => drain[t].batch = <<>>
  /\ main \in {"joinIngress", "recv", "finalRecv"} => drain["main"].at = "no"
  /\ Eager => \A t \in Thread : drain[t].kind # "frame"
  /\ ~Eager => /\ main \notin {"recv", "finalRecv"} /\ ingress \notin {"recv", "recvLast"}
               /\ \A t \in Thread : inbox[t] = <<>>
  /\ ~Eager => \A t \in Thread : drain[t].kind # "shadow"

\* Without a cursor nothing is drained and nothing received.
JoinKnown ==
  /\ main \in Before => origin = -1
  /\ origin = -1 =>
       /\ main \in Before \cup {"dead"} /\ ingress = "unstarted"
       /\ \A t \in Thread : drain[t].at = "no" /\ inbox[t] = <<>>
       /\ used = <<>> /\ pending = <<>> /\ localTail = 0

\* A thread's batch is what the cursor has passed last.
CursorKnown ==
  /\ origin \in -1 .. head /\ localTail \in 0 .. head /\ lastAcked \in 0 .. localTail
  /\ origin <= localTail
  /\ \A t \in Thread :
       /\ origin + Len(drain[t].batch) <= localTail
       /\ \A i \in 1 .. Len(drain[t].batch) :
            drain[t].batch[i] = log[localTail - Len(drain[t].batch) + i]

QueueTyped ==
  /\ pending \in Seq(Sequence) /\ used \in Seq(Sequence)
  /\ last \in 0 .. Len(offered) /\ gaps \in Nat /\ reordered \in Nat

\* What was taken, then what is queued, then what is being queued is what the cursor
\* has passed.
HistoryKept ==
  ~Eager /\ origin # -1 =>
    /\ Len(used) + Len(pending) + Len(drain["main"].batch) + Len(drain["ingress"].batch)
         = localTail - origin
    /\ \A i \in 1 .. Len(used) : used[i] = log[origin + i]
    /\ \A i \in 1 .. Len(pending) : pending[i] = log[origin + Len(used) + i]

\* The statistics are those of what was taken and what is queued.
Counted ==
  ~Eager =>
    LET seen == Len(used) + Len(pending)
    IN  /\ reordered = 0
        /\ seen = 0 => last = 0 /\ gaps = 0
        /\ seen > 0 => last = log[origin + seen] /\ gaps = last - log[origin + 1] + 1 - seen

\* The statistics a thread has loaded are of an eager record it holds.
TallyKnown ==
  /\ tally \in [Thread -> [at : {"load", "store", "push"}, last : Nat, gaps : Nat,
                           reordered : Nat]]
  /\ \A t \in Thread : tally[t].at # "load" => Holds(t, "EAGER")

StateInv ==
  /\ RingKnown
  /\ BridgeKnown
  /\ ToBridgeKnown
  /\ ToClientKnown
  /\ ThreadsTyped
  /\ ThreadsKnown
  /\ JoinKnown
  /\ CursorKnown
  /\ QueueTyped
  /\ HistoryKept
  /\ Counted

SessionInv == StateInv /\ TallyKnown

-----------------------------------------------------------------------------
LEMMA BoundsAre ==
  /\ Capacity \in Nat \ {0} /\ Batch \in Nat \ {0} /\ SocketLimit \in Nat \ {0}
  /\ MaxRecords \in Nat /\ MaxGeneration \in Nat \ {0}
  /\ Policy \in {"late", "multi", "latch", "stable", "eager"}
  BY SessionAssumption DEF SessionAssumption

LEMMA SequenceIsNat ==
  Sequence \subseteq Nat \ {0}
  BY BoundsAre DEF Sequence

\* What the bridge leaves alone keeps.
LEMMA BridgeUntouched ==
  ASSUME RingKnown, BridgeKnown, UNCHANGED <<ringVars, bridgeVars>>, urgent' \in BOOLEAN
  PROVE  RingKnown' /\ BridgeKnown'
  BY DEF RingKnown, BridgeKnown, ringVars, bridgeVars, head

\* The bridge goes on: it only adds to what it has offered and published, and to the
\* generations.
Extended ==
  /\ Len(offered) \in Nat /\ Len(offered') \in Nat /\ Len(offered) <= Len(offered')
  /\ head \in Nat /\ head' \in Nat /\ head <= head'
  /\ \A i \in 1 .. head : log'[i] = log[i]
  /\ generation \in Nat /\ generation' \in Nat /\ generation <= generation'

\* What the client knows of the ring keeps, as the bridge goes on.
LEMMA ClientUntouched ==
  ASSUME StateInv, Extended, UNCHANGED clientVars
  PROVE  /\ ThreadsTyped' /\ ThreadsKnown' /\ JoinKnown' /\ CursorKnown' /\ QueueTyped'
         /\ HistoryKept' /\ Counted'
<1>1. UNCHANGED <<main, step, ingress, stop, terminalSeen, clientGeneration, drain, mutex,
                  origin, localTail, lastAcked, inbox, pending, last, gaps, reordered, used>>
  BY DEF clientVars, flowVars, drainVars, queueVars
<1>2. ThreadsTyped' /\ ThreadsKnown' /\ JoinKnown'
  BY <1>1 DEF StateInv, ThreadsTyped, ThreadsKnown, JoinKnown
<1>3. /\ head \in Nat /\ head' \in Nat /\ head <= head' /\ origin \in Int /\ localTail \in Nat
      /\ localTail <= head /\ origin <= localTail /\ -1 <= origin
      /\ \A i \in 1 .. head : log'[i] = log[i]
  BY DEF StateInv, CursorKnown, Extended
<1>4. \A t \in Thread :
        /\ Len(drain[t].batch) \in Nat /\ origin + Len(drain[t].batch) <= localTail
        /\ Len(drain[t].batch) <= localTail \/ drain[t].batch = <<>>
  <2>1. TAKE t \in Thread
  <2>2. drain[t].batch \in Seq(Sequence)
    BY DEF StateInv, ThreadsTyped, DrainCall
  <2>3. origin = -1 => drain[t].at = "no"
    BY DEF StateInv, JoinKnown
  <2>4. drain[t].at = "no" => drain[t].batch = <<>>
    BY DEF StateInv, ThreadsKnown
  <2>5. origin + Len(drain[t].batch) <= localTail
    BY DEF StateInv, CursorKnown
  <2>6. Len(drain[t].batch) \in Nat
    BY <2>2
  <2>7. QED BY <1>3, <2>3, <2>4, <2>5, <2>6
<1>5. CursorKnown'
  <2>1. ASSUME NEW t \in Thread, NEW i \in 1 .. Len(drain[t].batch)
        PROVE  drain[t].batch[i] = log'[localTail - Len(drain[t].batch) + i]
    <3>1. drain[t].batch # <<>>
      BY EmptySeq
    <3>2. localTail - Len(drain[t].batch) + i \in 1 .. head
      BY <1>3, <1>4, <3>1
    <3>3. drain[t].batch[i] = log[localTail - Len(drain[t].batch) + i]
      BY DEF StateInv, CursorKnown
    <3>4. QED BY <1>3, <3>2, <3>3
  <2>2. origin \in -1 .. head' /\ localTail \in 0 .. head' /\ lastAcked \in 0 .. localTail
    BY <1>3 DEF StateInv, CursorKnown
  <2>3. QED BY <1>1, <1>3, <1>4, <2>1, <2>2 DEF CursorKnown
<1>6. QueueTyped'
  BY <1>1 DEF StateInv, QueueTyped, Extended
<1>7. Len(used) \in Nat /\ Len(pending) \in Nat
  BY DEF StateInv, QueueTyped
<1>8. origin = -1 => Len(used) = 0 /\ Len(pending) = 0
  BY EmptySeq DEF StateInv, JoinKnown
<1>9. ~Eager /\ origin # -1 => Len(used) + Len(pending) <= localTail - origin
  <2>1. \A t \in Thread : Len(drain[t].batch) \in Nat
    BY <1>4
  <2>2. "main" \in Thread /\ "ingress" \in Thread
    BY DEF Thread
  <2>3. Len(drain["main"].batch) \in Nat /\ Len(drain["ingress"].batch) \in Nat
    BY <2>1, <2>2
  <2>4. PICK a \in Nat, b \in Nat : a = Len(drain["main"].batch) /\ b = Len(drain["ingress"].batch)
    BY <2>3
  <2>5. ~Eager /\ origin # -1 => Len(used) + Len(pending) + a + b = localTail - origin
    BY <2>4 DEF StateInv, HistoryKept
  <2>6. QED BY <1>3, <1>7, <2>5
<1>10. HistoryKept'
  <2>1. SUFFICES ASSUME ~Eager, origin # -1
                 PROVE  /\ Len(used) + Len(pending) + Len(drain["main"].batch)
                             + Len(drain["ingress"].batch) = localTail - origin
                        /\ \A i \in 1 .. Len(used) : used[i] = log'[origin + i]
                        /\ \A i \in 1 .. Len(pending) : pending[i] = log'[origin + Len(used) + i]
    BY <1>1 DEF HistoryKept
  <2>2. \A i \in 1 .. Len(used) : origin + i \in 1 .. head
    BY <1>3, <1>7, <1>9, <2>1
  <2>3. \A i \in 1 .. Len(pending) : origin + Len(used) + i \in 1 .. head
    BY <1>3, <1>7, <1>9, <2>1
  <2>4. QED BY <1>3, <2>1, <2>2, <2>3 DEF StateInv, HistoryKept
<1>11. Counted'
  <2>1. SUFFICES ASSUME ~Eager
                 PROVE  /\ reordered = 0
                        /\ Len(used) + Len(pending) = 0 => last = 0 /\ gaps = 0
                        /\ Len(used) + Len(pending) > 0 =>
                             /\ last = log'[origin + (Len(used) + Len(pending))]
                             /\ gaps = last - log'[origin + 1] + 1 - (Len(used) + Len(pending))
    BY <1>1 DEF Counted
  <2>2. Len(used) + Len(pending) > 0 =>
          origin + (Len(used) + Len(pending)) \in 1 .. head /\ origin + 1 \in 1 .. head
    BY <1>3, <1>7, <1>8, <1>9, <2>1
  <2>3. QED BY <1>3, <2>1, <2>2 DEF StateInv, Counted
<1>12. QED BY <1>2, <1>5, <1>6, <1>10, <1>11

-----------------------------------------------------------------------------
\* What a frame does never queues what it copies under the eager policy, and always
\* does under the others.
LEMMA PlanIs ==
  /\ Len(Plan) \in Nat \ {0}
  /\ \A i \in 1 .. Len(Plan) :
       /\ Eager => Plan[i] \in {"take", "shadow", "ackPostFrame"}
       /\ ~Eager => Plan[i] \in {"drain", "drainAck", "take", "ackCritical", "ackPostUse",
                                 "ackPostFrame"}
<1> DEFINE Ringwise == {"drain", "drainAck", "take", "ackCritical", "ackPostUse", "ackPostFrame"}
<1> DEFINE post == <<"ackPostUse", "ackPostFrame">>
<1>1. CASE Eager
  <2>1. Plan = <<"take", "shadow", "ackPostFrame">>
    BY <1>1 DEF Eager, Plan
  <2>2. QED BY <1>1, <2>1
<1>2. CASE ~Eager
  <2>1. post \in Seq(Ringwise) /\ Len(post) = 2
    OBVIOUS
  <2>2. PICK front \in Seq(Ringwise) : Plan = front \o post
    <3>1. CASE Policy = "late"
      <4>1. <<"drainAck", "take">> \in Seq(Ringwise)
        OBVIOUS
      <4>2. Plan = <<"drainAck", "take">> \o post
        BY <3>1, Zenon DEF Plan
      <4>3. QED BY <4>1, <4>2
    <3>2. CASE Policy = "multi"
      <4>1. <<"drain", "drain", "take", "ackCritical">> \in Seq(Ringwise)
        OBVIOUS
      <4>2. Plan = <<"drain", "drain", "take", "ackCritical">> \o post
        BY <3>2 DEF Plan
      <4>3. QED BY <4>1, <4>2
    <3>3. CASE Policy = "latch"
      <4>1. <<"drain", "take", "drainAck", "take">> \in Seq(Ringwise)
        OBVIOUS
      <4>2. Plan = <<"drain", "take", "drainAck", "take">> \o post
        BY <3>3 DEF Plan
      <4>3. QED BY <4>1, <4>2
    <3>4. CASE Policy = "stable"
      <4>1. <<"drain", "take", "drainAck", "take", "drain", "take", "drainAck", "take">>
              \in Seq(Ringwise)
        OBVIOUS
      <4>2. Plan = <<"drain", "take", "drainAck", "take", "drain", "take", "drainAck", "take">>
                     \o post
        BY <3>4 DEF Plan
      <4>3. QED BY <4>1, <4>2
    <3>5. QED BY <1>2, <3>1, <3>2, <3>3, <3>4, BoundsAre DEF Eager
  <2> HIDE DEF Ringwise, post
  <2>3. Plan \in Seq(Ringwise) /\ Len(Plan) = Len(front) + 2 /\ Len(front) \in Nat
    <3>1. PICK end \in Seq(Ringwise) : end = post /\ Len(end) = 2
      BY <2>1
    <3>2. Plan = front \o end
      BY <2>2, <3>1
    <3>3. front \o end \in Seq(Ringwise) /\ Len(front \o end) = Len(front) + Len(end)
      BY ConcatProperties
    <3>4. Len(front) \in Nat
      OBVIOUS
    <3>5. QED BY <3>1, <3>2, <3>3, <3>4
  <2>4. \A i \in 1 .. Len(Plan) : Plan[i] \in Ringwise
    BY <2>3, ElementOfSeq
  <2>5. QED BY <1>2, <2>3, <2>4 DEF Ringwise
<1>3. QED BY <1>1, <1>2

-----------------------------------------------------------------------------
\* At the start there is nothing on its way and nothing was drained.
LEMMA InitSession ==
  ASSUME Init
  PROVE  StateInv
<1>1. Len(offered) = 0 /\ head = 0 /\ Len(toBridge) = 0 /\ Len(toClient) = 0 /\ Len(used) = 0
      /\ Len(pending) = 0 /\ \A i \in 1 .. 0 : FALSE
  BY EmptySeq DEF Init, head
<1>2. RingKnown
  BY <1>1, BoundsAre DEF Init, RingKnown
<1>3. BridgeKnown
  <2>1. generation \in 1 .. MaxGeneration /\ finalDepth \in -1 .. Capacity
    BY BoundsAre DEF Init
  <2>2. QED BY <2>1 DEF Init, BridgeKnown
<1>4. ToBridgeKnown
  BY <1>1, BoundsAre DEF Init, ToBridgeKnown
<1>5. ToClientKnown
  <2>1. \A t \in Thread : inbox[t] = <<>> /\ Len(inbox[t]) = 0
    BY EmptySeq DEF Init
  <2>2. inbox \in [Thread -> Seq(ToClientMessage)]
    BY EmptySeq DEF Init
  <2>3. QED BY <1>1, <2>1, <2>2, BoundsAre DEF Init, ToClientKnown
<1>6. Idle \in DrainCall /\ Idle.at = "no" /\ Idle.batch = <<>> /\ Idle.kind = "ack"
  BY EmptySeq DEF Idle, DrainCall
<1>7. drain \in [Thread -> DrainCall] /\ \A t \in Thread : drain[t] = Idle
  BY <1>6 DEF Init
<1>8. ThreadsTyped
  <2>1. 1 \in 1 .. Len(Plan)
    BY PlanIs
  <2>2. QED BY <1>7, <2>1 DEF Init, ThreadsTyped
<1>9. ThreadsKnown
  BY <1>6, <1>7 DEF Init, ThreadsKnown
<1>10. JoinKnown
  BY <1>6, <1>7 DEF Init, JoinKnown, Before
<1>11. CursorKnown
  <2>1. \A t \in Thread : Len(drain[t].batch) = 0
    BY <1>6, <1>7, EmptySeq
  <2>2. QED BY <1>1, <2>1 DEF Init, CursorKnown
<1>12. QueueTyped
  BY <1>1 DEF Init, QueueTyped
<1>13. HistoryKept /\ Counted
  BY <1>1 DEF Init, HistoryKept, Counted
<1>14. QED
  BY <1>2, <1>3, <1>4, <1>5, <1>8, <1>9, <1>10, <1>11, <1>12, <1>13 DEF StateInv

-----------------------------------------------------------------------------
\* A message more for the client, or none.
LEMMA ToldMore ==
  ASSUME StateInv, Extended, UNCHANGED <<inbox, clientGeneration>>,
         NEW message \in ToClientMessage, Told(message)',
         Sent(message) \/ UNCHANGED toClient,
         generation' \in 1 .. MaxGeneration
  PROVE  ToClientKnown'
<1>1. /\ toClient \in Seq(ToClientMessage) /\ Len(toClient) \in Nat
      /\ Len(toClient) <= SocketLimit /\ SocketLimit \in Nat
  BY BoundsAre DEF StateInv, ToClientKnown
<1>2. /\ toClient' \in Seq(ToClientMessage) /\ Len(toClient') <= SocketLimit
      /\ \A i \in 1 .. Len(toClient') :
           \/ toClient'[i] = message
           \/ i \in 1 .. Len(toClient) /\ toClient'[i] = toClient[i]
  <2>1. CASE toClient' = toClient
    BY <1>1, <2>1
  <2>2. CASE toClient' = Append(toClient, message) /\ Len(toClient) < SocketLimit
    <3>1. /\ toClient' \in Seq(ToClientMessage) /\ Len(toClient') = Len(toClient) + 1
          /\ \A i \in 1 .. Len(toClient) : toClient'[i] = toClient[i]
          /\ toClient'[Len(toClient) + 1] = message
      BY <1>1, <2>2, AppendProperties
    <3>2. Len(toClient') <= SocketLimit
      BY <1>1, <2>2, <3>1
    <3>3. \A i \in 1 .. Len(toClient') : i \in 1 .. Len(toClient) \/ i = Len(toClient) + 1
      BY <1>1, <3>1
    <3>4. QED BY <3>1, <3>2, <3>3
  <2>3. QED BY <2>1, <2>2 DEF Sent
<1>3. ASSUME NEW m \in ToClientMessage, Told(m)
      PROVE  Told(m)'
  <2>1. m.type = "EAGER" => m.sequence \in Nat
    BY SequenceIsNat DEF ToClientMessage
  <2>2. m.type = "DEVICE_STATE" => m.generation \in Nat
    BY DEF ToClientMessage
  <2>3. QED BY <1>3, <2>1, <2>2 DEF Told, Extended
<1>4. \A i \in 1 .. Len(toClient') : Told(toClient[i])'
  <2>1. TAKE i \in 1 .. Len(toClient')
  <2>2. CASE toClient'[i] = message
    BY <2>2 DEF Told
  <2>3. CASE i \in 1 .. Len(toClient) /\ toClient'[i] = toClient[i]
    <3>1. toClient[i] \in ToClientMessage /\ Told(toClient[i])
      BY <1>1, <2>3, ElementOfSeq DEF StateInv, ToClientKnown
    <3>2. PICK m \in ToClientMessage : m = toClient[i] /\ Told(m)
      BY <3>1
    <3>3. Told(m)' /\ m = toClient'[i]
      BY <1>3, <2>3, <3>2
    <3>4. QED BY <3>3 DEF Told
  <2>4. QED BY <1>2, <2>2, <2>3
<1>5. \A t \in Thread : \A i \in 1 .. Len(inbox[t]) : Told(inbox[t][i])'
  <2>1. TAKE t \in Thread
  <2>2. TAKE i \in 1 .. Len(inbox[t])
  <2>3. inbox[t] \in Seq(ToClientMessage)
    BY DEF StateInv, ToClientKnown
  <2>4. inbox[t][i] \in ToClientMessage /\ Told(inbox[t][i])
    BY <2>3, ElementOfSeq DEF StateInv, ToClientKnown
  <2>5. PICK m \in ToClientMessage : m = inbox[t][i] /\ Told(m)
    BY <2>4
  <2>6. Told(m)' /\ m = inbox'[t][i]
    BY <1>3, <2>5
  <2>7. QED BY <2>6 DEF Told
<1>6. clientGeneration' \in 1 .. generation' /\ inbox' = inbox
      /\ inbox \in [Thread -> Seq(ToClientMessage)]
  BY DEF StateInv, ToClientKnown, Extended
<1>7. QED BY <1>2, <1>4, <1>5, <1>6 DEF ToClientKnown

-----------------------------------------------------------------------------
\* publish_record: the next number is larger than all before, in the ring or dropped.
LEMMA PublishKeeps ==
  ASSUME StateInv, NEW kind \in Kind, Publish(kind), Len(offered) <= MaxRecords,
         UNCHANGED <<tail, generation, mode, sourceOpen, invalidAcks, finalDepth, toBridge,
                     clientVars>>,
         bridge' \in {"barrier", "loop", "terminal", "waitAck", "closed"},
         bridge' \in {"barrier", "loop", "terminal"} => Len(offered) < MaxRecords
  PROVE  StateInv'
<1>1. /\ offered \in Seq([kind : Kind, generation : 1 .. MaxGeneration])
      /\ Len(offered) \in Nat /\ log \in Seq(Sequence) /\ head \in Nat /\ head = Len(log)
      /\ tail \in Nat /\ MaxRecords \in Nat /\ Capacity \in Nat
      /\ dropped \in Nat /\ dropped = Len(offered) - head
      /\ generation \in 1 .. MaxGeneration /\ MaxGeneration \in Nat
      /\ eagerDrops \in 0 .. head
  BY BoundsAre DEF StateInv, RingKnown, BridgeKnown, head
<1>2. [kind |-> kind, generation |-> generation] \in [kind : Kind, generation : 1 .. MaxGeneration]
  BY <1>1
<1>3. PICK sequence \in Sequence : sequence = Len(offered) + 1
  BY <1>1 DEF Sequence
<1>4. /\ offered' \in Seq([kind : Kind, generation : 1 .. MaxGeneration])
      /\ Len(offered') = Len(offered) + 1
  BY <1>1, <1>2, AppendProperties DEF Publish
<1>5. \/ /\ log' = Append(log, sequence) /\ dropped' = dropped
         /\ head - tail < Capacity /\ eagerDrops' \in {eagerDrops, eagerDrops + 1}
         /\ \/ Sent([type |-> "EAGER", sequence |-> sequence])
            \/ UNCHANGED toClient
      \/ /\ log' = log /\ dropped' = dropped + 1 /\ eagerDrops' = eagerDrops
         /\ UNCHANGED toClient
  BY <1>3 DEF Publish
<1>6. log' \in Seq(Sequence) /\ head' \in Nat /\ head <= head'
      /\ \A i \in 1 .. head : log'[i] = log[i]
  <2>1. CASE log' = Append(log, sequence)
    BY <1>1, <2>1, AppendProperties DEF head
  <2>2. CASE log' = log
    BY <1>1, <2>2 DEF head
  <2>3. QED BY <1>5, <2>1, <2>2
<1>7. Extended
  <2>1. generation \in Nat /\ generation' = generation
    BY <1>1
  <2>2. Len(offered) \in Nat /\ Len(offered') \in Nat /\ Len(offered) <= Len(offered')
    BY <1>1, <1>4
  <2>3. QED BY <1>1, <1>6, <2>1, <2>2 DEF Extended
<1>8. /\ \A i \in 1 .. head : log[i] \in Nat /\ head - i <= Len(offered) - log[i]
      /\ \A i, j \in 1 .. head : i <= j => j - i <= log[j] - log[i]
      /\ head - tail <= Capacity /\ tail <= head
  <2>1. \A i \in 1 .. head : log[i] \in Nat
    BY <1>1, ElementOfSeq, SequenceIsNat
  <2>2. /\ \A i \in 1 .. head : head - i <= Len(offered) - log[i]
        /\ \A i, j \in 1 .. head : i <= j => j - i <= log[j] - log[i]
        /\ head - tail <= Capacity /\ tail <= head
    BY DEF StateInv, RingKnown
  <2>3. QED BY <2>1, <2>2
<1>9. RingKnown'
  <2>4. Len(offered) \in Nat /\ head \in Nat /\ Len(offered') = Len(offered) + 1
    BY <1>1, <1>4
  <2>1. CASE log' = Append(log, sequence) /\ dropped' = dropped /\ head - tail < Capacity
             /\ eagerDrops' \in {eagerDrops, eagerDrops + 1}
    <3>1. head' = head + 1 /\ log'[head + 1] = Len(offered) + 1
      BY <1>1, <1>3, <2>1, AppendProperties DEF head
    <3>2. \A i \in 1 .. head' : head' - i <= Len(offered') - log'[i]
      <4>1. TAKE i \in 1 .. head'
      <4>2. CASE i \in 1 .. head
        <5>1. PICK number \in Nat : number = log'[i] /\ head - i <= Len(offered) - number
          BY <1>6, <1>8, <4>2
        <5>2. head' - i <= Len(offered') - number
          BY <2>4, <3>1, <4>2, <5>1
        <5>3. QED BY <5>1, <5>2
      <4>3. CASE i = head + 1
        BY <1>1, <1>4, <3>1, <4>3
      <4>4. QED BY <1>1, <3>1, <4>2, <4>3
    <3>3. \A i, j \in 1 .. head' : i <= j => j - i <= log'[j] - log'[i]
      <4>1. SUFFICES ASSUME NEW i \in 1 .. head', NEW j \in 1 .. head', i <= j
                     PROVE  j - i <= log'[j] - log'[i]
        OBVIOUS
      <4>2. CASE j \in 1 .. head
        <5>1. i \in 1 .. head
          BY <1>1, <4>1, <4>2
        <5>2. QED BY <1>6, <1>8, <4>1, <4>2, <5>1
      <4>3. CASE j = head + 1 /\ i \in 1 .. head
        <5>1. PICK h \in Nat : h = head
          BY <2>4
        <5>2. PICK number \in Nat : number = log'[i] /\ h - i <= Len(offered) - number
          BY <1>6, <1>8, <4>3, <5>1
        <5>3. PICK newest \in Nat : newest = log'[j] /\ newest = Len(offered) + 1
          BY <2>4, <3>1, <4>3
        <5>4. j = h + 1 /\ h - i <= newest - 1 - number /\ i \in Nat
          BY <2>4, <4>3, <5>1, <5>2, <5>3
        <5>5. j - i <= newest - number
          BY <5>4
        <5>6. QED BY <5>2, <5>3, <5>5
      <4>4. CASE j = head + 1 /\ i = head + 1
        BY <1>1, <3>1, <4>4
      <4>5. QED BY <1>1, <3>1, <4>1, <4>2, <4>3, <4>4
    <3>4. tail' \in 0 .. head' /\ head' - tail' <= Capacity
          /\ dropped' \in Nat /\ dropped' = Len(offered') - head' /\ eagerDrops' \in 0 .. head'
      <4>1. tail' = tail /\ tail \in Nat /\ tail <= head /\ Capacity \in Nat
        BY <1>1, <1>8
      <4>2. tail' \in 0 .. head' /\ head' - tail' <= Capacity
        BY <2>1, <2>4, <3>1, <4>1
      <4>3. dropped' \in Nat /\ dropped' = Len(offered') - head'
        BY <1>1, <1>4, <2>1, <3>1
      <4>4. eagerDrops' \in 0 .. head'
        BY <1>1, <2>1, <3>1
      <4>5. QED BY <4>2, <4>3, <4>4
    <3>5. /\ Len(offered') <= MaxRecords + 1
          /\ bridge' \in {"barrier", "loop", "terminal"} => Len(offered') <= MaxRecords
      BY <1>1, <1>4
    <3>6. QED BY <1>4, <1>6, <3>2, <3>3, <3>4, <3>5 DEF RingKnown
  <2>2. CASE log' = log /\ dropped' = dropped + 1 /\ eagerDrops' = eagerDrops
    <3>1. head' = head
      BY <2>2 DEF head
    <3>2. \A i \in 1 .. head' : head' - i <= Len(offered') - log'[i]
      <4>1. TAKE i \in 1 .. head'
      <4>2. i \in 1 .. head
        BY <3>1
      <4>3. PICK number \in Nat : number = log'[i] /\ head - i <= Len(offered) - number
        BY <1>8, <2>2, <4>2
      <4>4. head' - i <= Len(offered') - number
        BY <2>4, <3>1, <4>2, <4>3
      <4>5. QED BY <4>3, <4>4
    <3>3. \A i, j \in 1 .. head' : i <= j => j - i <= log'[j] - log'[i]
      BY <1>8, <2>2, <3>1
    <3>4. tail' \in 0 .. head' /\ head' - tail' <= Capacity
          /\ dropped' \in Nat /\ dropped' = Len(offered') - head' /\ eagerDrops' \in 0 .. head'
      BY <1>1, <1>4, <1>8, <2>2, <3>1
    <3>5. /\ Len(offered') <= MaxRecords + 1
          /\ bridge' \in {"barrier", "loop", "terminal"} => Len(offered') <= MaxRecords
      BY <1>1, <1>4
    <3>6. QED BY <1>4, <1>6, <3>2, <3>3, <3>4, <3>5 DEF RingKnown
  <2>3. QED BY <1>5, <2>1, <2>2
<1>10. BridgeKnown'
  <2>1. stopRequested \in BOOLEAN /\ urgent \in BOOLEAN
    BY DEF StateInv, BridgeKnown
  <2>2. stopRequested' \in BOOLEAN /\ urgent' \in BOOLEAN
    BY <2>1 DEF Publish
  <2>3. QED BY <2>2 DEF StateInv, BridgeKnown
<1>11. ToBridgeKnown'
  BY DEF StateInv, ToBridgeKnown, clientVars, drainVars
<1>12. ToClientKnown'
  <2>1. PICK message \in ToClientMessage : message = [type |-> "EAGER", sequence |-> sequence]
    BY <1>3 DEF ToClientMessage
  <2>2. Told(message)'
    BY <1>1, <1>3, <1>4, <2>1 DEF Told
  <2>3. UNCHANGED <<inbox, clientGeneration>> /\ (Sent(message) \/ UNCHANGED toClient)
    BY <1>5, <2>1 DEF clientVars, queueVars, flowVars
  <2>4. generation' \in 1 .. MaxGeneration
    BY <1>1
  <2>5. QED BY <1>7, <2>2, <2>3, <2>4, ToldMore
<1>13. QED
  BY <1>7, <1>9, <1>10, <1>11, <1>12, ClientUntouched DEF StateInv

LEMMA ObserveStep ==
  ASSUME StateInv, NEW kind \in {"motion", "button"}, Observe(kind)
  PROVE  StateInv'
<1>1. kind \in Kind /\ Publish(kind) /\ Len(offered) < MaxRecords /\ bridge' = bridge
      /\ UNCHANGED <<tail, generation, mode, sourceOpen, invalidAcks, finalDepth, toBridge,
                     clientVars>>
  BY DEF Observe, Kind
<1>2. Len(offered) \in Nat /\ MaxRecords \in Nat
      /\ bridge' \in {"barrier", "loop", "terminal", "waitAck", "closed"}
  BY <1>1, BoundsAre DEF StateInv, RingKnown, BridgeKnown
<1>3. QED BY <1>1, <1>2, PublishKeeps

LEMMA PublishTerminalStep ==
  ASSUME StateInv, PublishTerminal
  PROVE  StateInv'
<1>1. "terminate" \in Kind /\ Publish("terminate") /\ bridge' = "waitAck"
      /\ Len(offered) <= MaxRecords
      /\ UNCHANGED <<tail, generation, mode, sourceOpen, invalidAcks, finalDepth, toBridge,
                     clientVars>>
  BY DEF PublishTerminal, Kind, StateInv, RingKnown
<1>2. QED BY <1>1, PublishKeeps

-----------------------------------------------------------------------------
\* A message less for the bridge; an acknowledgement may have moved the tail.
LEMMA MessageTaken ==
  ASSUME ToBridgeKnown, tail \in Nat, toBridge # <<>>, toBridge' = Tail(toBridge),
         lastAcked' = lastAcked,
         \/ tail' = tail
         \/ Head(toBridge).type = "ACK" /\ tail' = Head(toBridge).consumed
  PROVE  ToBridgeKnown'
<1>1. /\ toBridge \in Seq(ToBridgeMessage) /\ Len(toBridge) \in Nat \ {0}
      /\ Len(toBridge) <= SocketLimit /\ SocketLimit \in Nat
  BY EmptySeq, BoundsAre DEF ToBridgeKnown
<1>2. /\ Head(toBridge) = toBridge[1]
      /\ toBridge' \in Seq(ToBridgeMessage) /\ Len(toBridge') = Len(toBridge) - 1
      /\ \A i \in 1 .. Len(toBridge') :
           toBridge'[i] = toBridge[i + 1] /\ i + 1 \in 1 .. Len(toBridge)
  BY <1>1, HeadTailProperties
<1>3. 1 \in 1 .. Len(toBridge) /\ Len(toBridge') <= SocketLimit
  BY <1>1, <1>2
<1>4. tail' <= lastAcked
  BY <1>2, <1>3 DEF ToBridgeKnown
<1>5. ASSUME NEW i \in 1 .. Len(toBridge'), toBridge'[i].type = "ACK"
      PROVE  /\ tail' <= toBridge'[i].consumed /\ toBridge'[i].consumed <= lastAcked
             /\ \A j \in 1 .. i :
                  toBridge'[j].type = "ACK" => toBridge'[j].consumed <= toBridge'[i].consumed
  <2>1. toBridge'[i] = toBridge[i + 1] /\ i + 1 \in 1 .. Len(toBridge)
        /\ toBridge[i + 1].type = "ACK"
    BY <1>2, <1>5
  <2>2. PICK k \in 1 .. Len(toBridge) : k = i + 1
    BY <2>1
  <2>3. /\ tail <= toBridge[k].consumed /\ toBridge[k].consumed <= lastAcked
        /\ \A j \in 1 .. k : toBridge[j].type = "ACK" => toBridge[j].consumed <= toBridge[k].consumed
    BY <2>1, <2>2 DEF ToBridgeKnown
  <2>4. tail' <= toBridge[k].consumed
    <3>1. 1 \in 1 .. k
      BY <2>2
    <3>2. QED BY <1>2, <2>3, <3>1
  <2>5. \A j \in 1 .. i : toBridge'[j] = toBridge[j + 1] /\ j + 1 \in 1 .. k
    BY <1>1, <1>2, <2>2
  <2>6. QED BY <2>1, <2>2, <2>3, <2>4, <2>5
<1>6. QED BY <1>2, <1>3, <1>4, <1>5 DEF ToBridgeKnown

LEMMA DepthIs ==
  ASSUME NEW newest \in Nat, NEW oldest \in Nat, NEW limit \in Nat,
         oldest <= newest, newest - oldest <= limit
  PROVE  newest - oldest \in -1 .. limit
  OBVIOUS

\* handle_control_message, whatever it is called from.
LEMMA MessageKeeps ==
  ASSUME StateInv, HandleMessage,
         UNCHANGED <<offered, log, dropped, eagerDrops, generation, sourceOpen, toClient,
                     clientVars>>,
         bridge' \in {"barrier", "loop", "terminal", "waitAck", "closed"},
         bridge' \in {"barrier", "loop", "terminal"} => bridge \in {"barrier", "loop", "terminal"},
         finalDepth' \in {finalDepth, head - tail'}
  PROVE  StateInv'
<1>1. /\ toBridge \in Seq(ToBridgeMessage) /\ toBridge # <<>> /\ toBridge' = Tail(toBridge)
      /\ head' = head /\ head \in Nat /\ tail \in Nat /\ Capacity \in Nat
      /\ tail <= head /\ head - tail <= Capacity
  BY BoundsAre
     DEF HandleMessage, StateInv, ToBridgeKnown, RingKnown, head
<1>2. PICK message \in ToBridgeMessage : message = Head(toBridge)
  BY <1>1, HeadTailProperties
<1>3. \/ /\ message.type = "ACK" /\ AckIsValid(message) /\ tail' = message.consumed
         /\ UNCHANGED <<mode, invalidAcks, stopRequested, urgent>>
      \/ /\ invalidAcks' = invalidAcks + 1 /\ urgent' = TRUE
         /\ UNCHANGED <<tail, mode, stopRequested>>
      \/ /\ stopRequested' = TRUE
         /\ UNCHANGED <<tail, mode, invalidAcks, urgent>>
      \/ /\ message.type \in {"SET_MODE", "START"}
         /\ mode' = IF message.type = "SET_MODE" THEN message.mode ELSE mode
         /\ UNCHANGED <<tail, stopRequested, invalidAcks, urgent>>
  BY <1>2 DEF HandleMessage
<1>4. message.type = "ACK" => message.consumed \in Nat
  BY SequenceIsNat DEF ToBridgeMessage
<1>5. /\ tail' \in Nat /\ tail' <= head /\ head - tail' <= Capacity /\ tail <= tail'
      /\ tail' = tail \/ (Head(toBridge).type = "ACK" /\ tail' = Head(toBridge).consumed)
  BY <1>1, <1>2, <1>3, <1>4 DEF AckIsValid
<1>6. RingKnown'
  <2>1. tail' \in 0 .. head' /\ head' - tail' <= Capacity
    <3>1. tail' \in Nat /\ tail' <= head /\ head - tail' <= Capacity
      BY <1>5
    <3>2. head \in Nat /\ head' = head
      BY <1>1
    <3>3. QED BY <3>1, <3>2
  <2>2. bridge' \in {"barrier", "loop", "terminal"} => Len(offered) <= MaxRecords
    BY DEF StateInv, RingKnown
  <2>3. QED BY <1>1, <2>1, <2>2 DEF StateInv, RingKnown
<1>7. BridgeKnown'
  <2>1. message.type = "SET_MODE" => message.mode \in {"eager", "hfior"}
    BY DEF ToBridgeMessage
  <2>2. /\ mode' \in {"none", "eager", "hfior"} /\ stopRequested' \in BOOLEAN
        /\ urgent' \in BOOLEAN /\ invalidAcks' \in Nat
    <3>1. /\ mode' = mode \/ (message.type = "SET_MODE" /\ mode' = message.mode)
          /\ stopRequested' \in {stopRequested, TRUE} /\ urgent' \in {urgent, TRUE}
          /\ invalidAcks' \in {invalidAcks, invalidAcks + 1}
      BY <1>3
    <3>2. /\ mode \in {"none", "eager", "hfior"} /\ stopRequested \in BOOLEAN
          /\ urgent \in BOOLEAN /\ invalidAcks \in Nat
      BY DEF StateInv, BridgeKnown
    <3>3. invalidAcks' \in Nat
      BY <3>1, <3>2
    <3>4. QED BY <2>1, <3>1, <3>2, <3>3
  <2>3. head - tail' \in -1 .. Capacity
    <3>1. tail' \in Nat /\ tail' <= head /\ head - tail' <= Capacity
      BY <1>5
    <3>2. head \in Nat /\ Capacity \in Nat
      BY <1>1
    <3>3. QED BY <3>1, <3>2, DepthIs
  <2>4. QED BY <2>2, <2>3 DEF StateInv, BridgeKnown
<1>8. ToBridgeKnown'
  <2>1. lastAcked' = lastAcked /\ ToBridgeKnown
    BY DEF clientVars, drainVars, StateInv
  <2>2. \/ tail' = tail
        \/ Head(toBridge).type = "ACK" /\ tail' = Head(toBridge).consumed
    BY <1>5
  <2>3. QED BY <1>1, <2>1, <2>2, MessageTaken
<1>9. ToClientKnown'
  BY DEF StateInv, ToClientKnown, Told, clientVars, flowVars, queueVars
<1>10. Extended
  BY <1>1, BoundsAre DEF Extended, StateInv, RingKnown, BridgeKnown
<1>11. QED
  BY <1>6, <1>7, <1>8, <1>9, <1>10, ClientUntouched DEF StateInv

LEMMA HandleControlStep ==
  ASSUME StateInv, HandleControl
  PROVE  StateInv'
<1>1. /\ HandleMessage /\ finalDepth' = finalDepth /\ bridge' \in {bridge, "terminal"}
      /\ bridge = "loop"
      /\ UNCHANGED <<offered, log, dropped, eagerDrops, generation, sourceOpen, toClient,
                     clientVars>>
  BY DEF HandleControl
<1>2. QED BY <1>1, MessageKeeps

LEMMA WaitAckMessageStep ==
  ASSUME StateInv, WaitAckMessage
  PROVE  StateInv'
<1>1. /\ HandleMessage /\ finalDepth' \in {finalDepth, head - tail'}
      /\ bridge' \in {"waitAck", "closed"}
      /\ UNCHANGED <<offered, log, dropped, eagerDrops, generation, sourceOpen, toClient,
                     clientVars>>
  BY DEF WaitAckMessage
<1>2. QED BY <1>1, MessageKeeps

-----------------------------------------------------------------------------
\* The start barrier takes a message, and answers START.
LEMMA HandleBarrierStep ==
  ASSUME StateInv, HandleBarrier
  PROVE  StateInv'
<1>1. /\ bridge = "barrier" /\ toBridge # <<>> /\ toBridge' = Tail(toBridge)
      /\ UNCHANGED <<offered, log, tail, dropped, eagerDrops, generation, sourceOpen,
                     stopRequested, invalidAcks, finalDepth, urgent, clientVars>>
      /\ bridge' \in {"barrier", "loop", "closed"}
      /\ Sent([type |-> "STARTED"]) \/ UNCHANGED toClient
      /\ \/ Head(toBridge).type = "SET_MODE" /\ mode' = Head(toBridge).mode
         \/ mode' = mode
      /\ tail \in Nat
  BY DEF HandleBarrier, ringVars, StateInv, RingKnown
<1>2. RingKnown'
  BY <1>1 DEF StateInv, RingKnown, head
<1>3. BridgeKnown'
  <2>1. Head(toBridge) \in ToBridgeMessage
    BY <1>1, HeadTailProperties DEF StateInv, ToBridgeKnown
  <2>2. Head(toBridge).type = "SET_MODE" => Head(toBridge).mode \in {"eager", "hfior"}
    BY <2>1 DEF ToBridgeMessage
  <2>3. QED BY <1>1, <2>2 DEF StateInv, BridgeKnown
<1>4. ToBridgeKnown'
  <2>1. lastAcked' = lastAcked /\ ToBridgeKnown /\ tail' = tail
    BY <1>1 DEF clientVars, drainVars, StateInv
  <2>2. QED BY <1>1, <2>1, MessageTaken
<1>5. Extended
  BY <1>1, BoundsAre DEF Extended, StateInv, RingKnown, BridgeKnown, head
<1>6. ToClientKnown'
  <2>1. PICK message \in ToClientMessage : message = [type |-> "STARTED"]
    BY DEF ToClientMessage
  <2>2. Told(message)'
    BY <2>1 DEF Told
  <2>3. UNCHANGED <<inbox, clientGeneration>> /\ (Sent(message) \/ UNCHANGED toClient)
    BY <1>1, <2>1 DEF clientVars, queueVars, flowVars
  <2>4. generation' \in 1 .. MaxGeneration
    BY <1>3 DEF BridgeKnown
  <2>5. QED BY <1>5, <2>2, <2>3, <2>4, ToldMore
<1>7. QED
  BY <1>1, <1>2, <1>3, <1>4, <1>5, <1>6, ClientUntouched DEF StateInv

\* The device goes, or comes back as the next generation.
LEMMA DeviceStep ==
  ASSUME StateInv, DeviceGone \/ Reconnect
  PROVE  StateInv'
<1>1. /\ bridge = "loop" /\ generation \in 1 .. MaxGeneration
      /\ UNCHANGED <<offered, log, tail, dropped, eagerDrops, bridge, mode, stopRequested,
                     invalidAcks, finalDepth, toBridge, clientVars>>
      /\ urgent' = TRUE /\ sourceOpen' \in BOOLEAN
      /\ \/ generation' = generation /\ generation < MaxGeneration
         \/ generation' = generation + 1 /\ ~sourceOpen
      /\ Sent([type |-> "DEVICE_STATE", generation |-> generation'])
  BY DEF DeviceGone, Reconnect, ringVars, StateInv, BridgeKnown
<1>2. generation' \in 1 .. MaxGeneration
  BY <1>1, BoundsAre DEF StateInv, BridgeKnown
<1>3. RingKnown'
  BY <1>1 DEF StateInv, RingKnown, head
<1>4. BridgeKnown'
  <2>1. ~sourceOpen' => generation' < MaxGeneration
    BY DEF DeviceGone, Reconnect
  <2>2. QED BY <1>1, <1>2, <2>1 DEF StateInv, BridgeKnown
<1>5. ToBridgeKnown'
  BY <1>1 DEF StateInv, ToBridgeKnown, clientVars, drainVars
<1>6. Extended
  BY <1>1, BoundsAre DEF Extended, StateInv, RingKnown, BridgeKnown, head
<1>7. ToClientKnown'
  <2>1. PICK message \in ToClientMessage :
          message = [type |-> "DEVICE_STATE", generation |-> generation']
    BY <1>2 DEF ToClientMessage
  <2>2. Told(message)'
    BY <1>2, <2>1, BoundsAre DEF Told
  <2>3. UNCHANGED <<inbox, clientGeneration>> /\ (Sent(message) \/ UNCHANGED toClient)
    BY <1>1, <2>1 DEF clientVars, queueVars, flowVars
  <2>4. QED BY <1>2, <1>6, <2>2, <2>3, ToldMore
<1>8. QED
  BY <1>1, <1>3, <1>4, <1>5, <1>6, <1>7, ClientUntouched DEF StateInv

\* The loop, or the barrier, ends.
LEMMA LeaveLoopStep ==
  ASSUME StateInv, LeaveLoop \/ BridgeStops
  PROVE  StateInv'
<1>1. /\ bridge \in {"barrier", "loop"} /\ bridge' = "terminal"
      /\ UNCHANGED <<ringVars, mode, generation, sourceOpen, stopRequested, invalidAcks,
                     finalDepth, socketVars, clientVars>>
  BY DEF LeaveLoop, BridgeStops
<1>2. RingKnown'
  BY <1>1 DEF StateInv, RingKnown, head, ringVars
<1>3. BridgeKnown'
  BY <1>1 DEF StateInv, BridgeKnown, socketVars
<1>4. ToBridgeKnown' /\ ToClientKnown'
  BY <1>1 DEF StateInv, ToBridgeKnown, ToClientKnown, Told, ringVars, socketVars,
              clientVars, flowVars, drainVars, queueVars
<1>5. Extended
  BY <1>1, BoundsAre DEF Extended, StateInv, RingKnown, BridgeKnown, head, ringVars
<1>6. QED
  BY <1>1, <1>2, <1>3, <1>4, <1>5, ClientUntouched DEF StateInv

\* The bridge reports the depth of its ring, and is gone.
LEMMA WaitAckOverStep ==
  ASSUME StateInv, WaitAckOver
  PROVE  StateInv'
<1>1. /\ bridge = "waitAck" /\ bridge' = "closed" /\ finalDepth' = head - tail
      /\ UNCHANGED <<ringVars, mode, generation, sourceOpen, stopRequested, invalidAcks,
                     socketVars, clientVars>>
  BY DEF WaitAckOver
<1>2. RingKnown'
  BY <1>1 DEF StateInv, RingKnown, head, ringVars
<1>3. BridgeKnown'
  <2>1. head \in Nat /\ tail \in 0 .. head /\ head - tail <= Capacity /\ Capacity \in Nat
    BY BoundsAre DEF StateInv, RingKnown, head
  <2>2. head - tail \in -1 .. Capacity
    BY <2>1
  <2>3. QED BY <1>1, <2>2 DEF StateInv, BridgeKnown, socketVars
<1>4. ToBridgeKnown' /\ ToClientKnown'
  BY <1>1 DEF StateInv, ToBridgeKnown, ToClientKnown, Told, ringVars, socketVars,
              clientVars, flowVars, drainVars, queueVars
<1>5. Extended
  BY <1>1, BoundsAre DEF Extended, StateInv, RingKnown, BridgeKnown, head, ringVars
<1>6. QED
  BY <1>1, <1>2, <1>3, <1>4, <1>5, ClientUntouched DEF StateInv

-----------------------------------------------------------------------------
\* What the client's steps leave alone keeps.
LEMMA ToBridgeKept ==
  ASSUME StateInv, UNCHANGED <<toBridge, tail, lastAcked>>
  PROVE  ToBridgeKnown'
  BY DEF StateInv, ToBridgeKnown

LEMMA ToClientKept ==
  ASSUME StateInv, UNCHANGED <<offered, generation, toClient, inbox, clientGeneration>>
  PROVE  ToClientKnown'
  BY DEF StateInv, ToClientKnown, Told

\* A message more for the bridge: an acknowledgement is the newest.
LEMMA MessageSent ==
  ASSUME StateInv, NEW message \in ToBridgeMessage, Len(toBridge) < SocketLimit,
         toBridge' = Append(toBridge, message), tail' = tail,
         lastAcked \in Nat, lastAcked' \in Nat, lastAcked <= lastAcked',
         message.type = "ACK" => message.consumed = lastAcked'
  PROVE  ToBridgeKnown'
<1>1. /\ toBridge \in Seq(ToBridgeMessage) /\ Len(toBridge) \in Nat
      /\ SocketLimit \in Nat /\ tail \in Nat /\ tail <= lastAcked
  BY BoundsAre DEF StateInv, ToBridgeKnown, RingKnown, head
<1>2. /\ toBridge' \in Seq(ToBridgeMessage) /\ Len(toBridge') = Len(toBridge) + 1
      /\ \A i \in 1 .. Len(toBridge) : toBridge'[i] = toBridge[i]
      /\ toBridge'[Len(toBridge) + 1] = message
  BY <1>1, AppendProperties
<1>3. Len(toBridge') <= SocketLimit /\ tail' <= lastAcked'
  BY <1>1, <1>2
<1>4. ASSUME NEW i \in 1 .. Len(toBridge), toBridge[i].type = "ACK"
      PROVE  /\ toBridge[i].consumed \in Nat
             /\ tail <= toBridge[i].consumed /\ toBridge[i].consumed <= lastAcked
             /\ \A j \in 1 .. i :
                  toBridge[j].type = "ACK" => toBridge[j].consumed <= toBridge[i].consumed
  <2>1. toBridge[i] \in ToBridgeMessage
    BY <1>1, ElementOfSeq
  <2>2. toBridge[i].consumed \in Nat
    BY <1>4, <2>1, SequenceIsNat DEF ToBridgeMessage
  <2>3. QED BY <1>4, <2>2 DEF StateInv, ToBridgeKnown
<1>5. ASSUME NEW i \in 1 .. Len(toBridge'), toBridge'[i].type = "ACK"
      PROVE  /\ tail' <= toBridge'[i].consumed /\ toBridge'[i].consumed <= lastAcked'
             /\ \A j \in 1 .. i :
                  toBridge'[j].type = "ACK" => toBridge'[j].consumed <= toBridge'[i].consumed
  <2>1. CASE i \in 1 .. Len(toBridge)
    <3>1. toBridge'[i] = toBridge[i] /\ toBridge[i].type = "ACK"
      BY <1>2, <1>5, <2>1
    <3>2. \A j \in 1 .. i : toBridge'[j] = toBridge[j]
      BY <1>1, <1>2, <2>1
    <3>3. PICK number \in Nat : /\ number = toBridge[i].consumed
                                /\ tail <= number /\ number <= lastAcked
      BY <1>4, <2>1, <3>1
    <3>4. number <= lastAcked'
      BY <3>3
    <3>5. QED BY <1>4, <2>1, <3>1, <3>2, <3>3, <3>4
  <2>2. CASE i = Len(toBridge) + 1
    <3>1. toBridge'[i] = message /\ message.consumed = lastAcked'
      BY <1>2, <1>5, <2>2
    <3>2. ASSUME NEW j \in 1 .. i, toBridge'[j].type = "ACK"
          PROVE  toBridge'[j].consumed <= lastAcked'
      <4>1. CASE j \in 1 .. Len(toBridge)
        <5>1. PICK number \in Nat : number = toBridge'[j].consumed /\ number <= lastAcked
          BY <1>2, <1>4, <3>2, <4>1
        <5>2. number <= lastAcked'
          BY <5>1
        <5>3. QED BY <5>1, <5>2
      <4>2. CASE j = i
        BY <3>1, <4>2
      <4>3. QED BY <1>1, <2>2, <4>1, <4>2
    <3>3. QED BY <1>1, <1>3, <3>1, <3>2
  <2>3. QED BY <1>1, <1>2, <2>1, <2>2
<1>6. QED BY <1>2, <1>3, <1>5 DEF ToBridgeKnown

\* The queue as it is, or emptied into what the frames took.
LEMMA QueueKeeps ==
  ASSUME StateInv,
         UNCHANGED <<offered, log, origin, localTail, last, gaps, reordered>>,
         lastAcked' \in 0 .. localTail,
         \A t \in Thread : drain'[t].batch = drain[t].batch,
         \/ UNCHANGED <<used, pending>>
         \/ used' = used \o pending /\ pending' = <<>>
  PROVE  CursorKnown' /\ QueueTyped' /\ HistoryKept' /\ Counted'
<1>1. CursorKnown'
  <2>1. head' = head
    BY DEF head
  <2>2. QED BY <2>1 DEF StateInv, CursorKnown
<1>2. /\ used \in Seq(Sequence) /\ pending \in Seq(Sequence)
      /\ Len(used) \in Nat /\ Len(pending) \in Nat
  BY DEF StateInv, QueueTyped
<1>3. CASE UNCHANGED <<used, pending>>
  <2>1. "main" \in Thread /\ "ingress" \in Thread
    BY DEF Thread
  <2>2. HistoryKept'
    BY <1>3, <2>1 DEF StateInv, HistoryKept
  <2>3. QueueTyped' /\ Counted'
    BY <1>3 DEF StateInv, QueueTyped, Counted
  <2>4. QED BY <1>1, <2>2, <2>3
<1>4. CASE used' = used \o pending /\ pending' = <<>>
  <2>1. /\ used' \in Seq(Sequence) /\ Len(used') = Len(used) + Len(pending)
        /\ \A i \in 1 .. Len(used) : used'[i] = used[i]
        /\ \A i \in Len(used) + 1 .. Len(used) + Len(pending) : used'[i] = pending[i - Len(used)]
    BY <1>2, <1>4, ConcatProperties
  <2>2. pending' \in Seq(Sequence) /\ Len(pending') = 0
    BY <1>4, EmptySeq
  <2>3. QueueTyped'
    BY <2>1, <2>2 DEF StateInv, QueueTyped
  <2>4. Len(used') + Len(pending') = Len(used) + Len(pending)
    BY <1>2, <2>1, <2>2
  <2>5. Counted'
    BY <2>4 DEF StateInv, Counted
  <2>6. HistoryKept'
    <3>1. SUFFICES ASSUME ~Eager, origin # -1
                   PROVE  /\ Len(used') + Len(pending') + Len(drain'["main"].batch)
                               + Len(drain'["ingress"].batch) = localTail - origin
                          /\ \A i \in 1 .. Len(used') : used'[i] = log[origin + i]
                          /\ \A i \in 1 .. Len(pending') :
                               pending'[i] = log[origin + Len(used') + i]
      BY DEF HistoryKept
    <3>2. drain'["main"].batch = drain["main"].batch
          /\ drain'["ingress"].batch = drain["ingress"].batch
      BY DEF Thread
    <3>3. /\ Len(used) + Len(pending) + Len(drain["main"].batch) + Len(drain["ingress"].batch)
               = localTail - origin
          /\ \A i \in 1 .. Len(used) : used[i] = log[origin + i]
          /\ \A i \in 1 .. Len(pending) : pending[i] = log[origin + Len(used) + i]
      BY <3>1 DEF StateInv, HistoryKept
    <3>4. ASSUME NEW i \in 1 .. Len(used')
          PROVE  used'[i] = log[origin + i]
      <4>1. CASE i \in 1 .. Len(used)
        BY <2>1, <3>3, <4>1
      <4>2. CASE i \in Len(used) + 1 .. Len(used) + Len(pending)
        <5>1. PICK j \in 1 .. Len(pending) : i = Len(used) + j
          <6>1. i - Len(used) \in 1 .. Len(pending) /\ i = Len(used) + (i - Len(used))
            BY <1>2, <4>2
          <6>2. QED BY <6>1
        <5>2. i - Len(used) = j
          BY <1>2, <5>1
        <5>3. used'[i] = pending[j]
          BY <2>1, <4>2, <5>2
        <5>4. origin + Len(used) + j = origin + i
          <6>1. origin \in Int
            BY DEF StateInv, CursorKnown, head
          <6>2. QED BY <1>2, <5>1, <6>1
        <5>5. QED BY <3>3, <5>3, <5>4
      <4>3. QED BY <1>2, <2>1, <4>1, <4>2
    <3>5. \A i \in 1 .. Len(pending') : FALSE
      BY <2>2
    <3>6. QED BY <2>4, <3>2, <3>3, <3>4, <3>5
  <2>7. QED BY <1>1, <2>3, <2>5, <2>6
<1>5. QED BY <1>3, <1>4

\* A step of the control flow: the ring is not read, and a thread that calls nothing
\* may call drain_ring.
LEMMA FlowStep ==
  ASSUME StateInv,
         UNCHANGED <<ringVars, bridgeVars, mutex, origin, localTail, lastAcked, inbox, last,
                     gaps, reordered>>,
         urgent' \in BOOLEAN, ToBridgeKnown', ToClientKnown',
         ThreadsTyped',
         \A t \in Thread :
           \/ drain'[t] = drain[t]
           \/ /\ drain[t].at = "no" /\ drain'[t].at \in {"no", "begin"}
              /\ drain'[t].batch = <<>> /\ origin # -1
              /\ drain'[t].kind = "frame" => ~Eager
              /\ drain'[t].kind = "shadow" => Eager,
         main' \in {"joinIngress", "recv", "finalRecv"} => drain'["main"].at = "no",
         ~Eager => main' \notin {"recv", "finalRecv"} /\ ingress' \notin {"recv", "recvLast"},
         origin # -1 => main' \notin Before,
         origin = -1 => /\ main' \in Before \cup {"dead"} /\ ingress' = "unstarted"
                        /\ UNCHANGED <<used, pending>>,
         \/ UNCHANGED <<used, pending>>
         \/ used' = used \o pending /\ pending' = <<>>
  PROVE  StateInv'
<1>1. RingKnown' /\ BridgeKnown'
  BY BridgeUntouched DEF StateInv
<1>2. ThreadsKnown'
  BY DEF StateInv, ThreadsKnown
<1>3. JoinKnown'
  BY DEF StateInv, JoinKnown
<1>4. \A t \in Thread : drain'[t].batch = drain[t].batch
  BY DEF StateInv, ThreadsKnown
<1>5. lastAcked' \in 0 .. localTail
  BY DEF StateInv, CursorKnown
<1>6. CursorKnown' /\ QueueTyped' /\ HistoryKept' /\ Counted'
  BY <1>4, <1>5, QueueKeeps DEF ringVars
<1>7. QED BY <1>1, <1>2, <1>3, <1>6 DEF StateInv

\* A message less for the client; it may be in a thread's hands.
LEMMA MessageReceived ==
  ASSUME StateInv, toClient # <<>>, toClient' = Tail(toClient),
         UNCHANGED <<offered, generation, clientGeneration>>,
         \/ inbox' = inbox
         \/ \E t \in Thread : inbox' = [inbox EXCEPT ![t] = <<Head(toClient)>>]
  PROVE  ToClientKnown'
<1>1. /\ toClient \in Seq(ToClientMessage) /\ Len(toClient) \in Nat \ {0}
      /\ Len(toClient) <= SocketLimit /\ SocketLimit \in Nat
      /\ inbox \in [Thread -> Seq(ToClientMessage)]
      /\ \A i \in 1 .. Len(toClient) : Told(toClient[i])
      /\ \A t \in Thread : \A i \in 1 .. Len(inbox[t]) : Told(inbox[t][i])
  BY EmptySeq, BoundsAre DEF StateInv, ToClientKnown
<1>2. /\ Head(toClient) = toClient[1] /\ Head(toClient) \in ToClientMessage
      /\ toClient' \in Seq(ToClientMessage) /\ Len(toClient') = Len(toClient) - 1
      /\ \A i \in 1 .. Len(toClient') :
           toClient'[i] = toClient[i + 1] /\ i + 1 \in 1 .. Len(toClient)
  BY <1>1, HeadTailProperties
<1>3. Len(toClient') <= SocketLimit /\ 1 \in 1 .. Len(toClient)
  BY <1>1, <1>2
<1>4. \A i \in 1 .. Len(toClient') : Told(toClient'[i])
  BY <1>1, <1>2
<1>5. PICK oldest \in ToClientMessage : oldest = Head(toClient) /\ Told(oldest)
  BY <1>1, <1>2, <1>3
<1>6. /\ inbox' \in [Thread -> Seq(ToClientMessage)]
      /\ \A t \in Thread : inbox'[t] = inbox[t] \/ inbox'[t] = <<oldest>>
  <2>1. CASE inbox' = inbox
    BY <1>1, <2>1
  <2>2. ASSUME NEW t \in Thread, inbox' = [inbox EXCEPT ![t] = <<oldest>>]
        PROVE  /\ inbox' \in [Thread -> Seq(ToClientMessage)]
               /\ \A s \in Thread : inbox'[s] = inbox[s] \/ inbox'[s] = <<oldest>>
    <3>1. inbox \in [Thread -> Seq(ToClientMessage)]
      BY <1>1
    <3>2. <<oldest>> \in Seq(ToClientMessage)
      OBVIOUS
    <3>3. QED BY <2>2, <3>1, <3>2
  <2>3. QED BY <1>5, <2>1, <2>2
<1>7. \A t \in Thread : \A i \in 1 .. Len(inbox'[t]) : Told(inbox'[t][i])
  <2>1. TAKE t \in Thread
  <2>2. CASE inbox'[t] = inbox[t]
    BY <1>1, <2>2
  <2>3. CASE inbox'[t] = <<oldest>>
    BY <1>5, <2>3
  <2>4. QED BY <1>6, <2>2, <2>3
<1>8. QED
  BY <1>2, <1>3, <1>4, <1>6, <1>7 DEF StateInv, ToClientKnown, Told

-----------------------------------------------------------------------------
\* The client's set-up.
LEMMA SetupStep ==
  ASSUME StateInv, SendSetup \/ ReceiveStarted
  PROVE  StateInv'
<1>1. /\ UNCHANGED <<ringVars, bridgeVars, urgent, step, ingress, stop, terminalSeen,
                     clientGeneration, drainVars, queueVars>>
      /\ main \in Before /\ main' \in Before \cup {"dead"}
      /\ main' \in {"mode", "start", "waitStarted", "join", "dead"}
  BY DEF SendSetup, ReceiveStarted, Before
<1>2. origin = -1
  BY <1>1 DEF StateInv, JoinKnown
<1>3. ToBridgeKnown' /\ ToClientKnown'
  <2>1. UNCHANGED <<offered, tail, generation, lastAcked, inbox, clientGeneration>>
    BY <1>1 DEF ringVars, bridgeVars, drainVars, queueVars
  <2>2. CASE SendSetup
    <3>1. /\ [type |-> "SET_MODE", mode |-> IF Eager THEN "eager" ELSE "hfior"] \in ToBridgeMessage
          /\ [type |-> "START"] \in ToBridgeMessage
      BY DEF ToBridgeMessage
    <3>2. \/ toBridge' = toBridge
          \/ \E message \in ToBridgeMessage :
               /\ toBridge' = Append(toBridge, message) /\ Len(toBridge) < SocketLimit
               /\ message.type # "ACK"
      BY <2>2, <3>1 DEF SendSetup, CanSend, ToBridge
    <3>3. lastAcked \in Nat
      BY DEF StateInv, CursorKnown, head
    <3>4. ToBridgeKnown'
      <4>1. CASE toBridge' = toBridge
        BY <2>1, <4>1, ToBridgeKept
      <4>2. CASE toBridge' # toBridge
        <5>1. PICK message \in ToBridgeMessage :
                /\ toBridge' = Append(toBridge, message) /\ Len(toBridge) < SocketLimit
                /\ message.type # "ACK"
          BY <3>2, <4>2
        <5>2. lastAcked' \in Nat /\ lastAcked <= lastAcked'
          BY <2>1, <3>3
        <5>3. QED BY <2>1, <3>3, <5>1, <5>2, MessageSent
      <4>3. QED BY <4>1, <4>2
    <3>5. ToClientKnown'
      BY <2>1, <2>2, ToClientKept DEF SendSetup
    <3>6. QED BY <3>4, <3>5
  <2>3. CASE ReceiveStarted
    <3>1. ToBridgeKnown'
      BY <2>1, <2>3, ToBridgeKept DEF ReceiveStarted
    <3>2. ToClientKnown'
      <4>1. CASE toClient' = toClient
        BY <2>1, <4>1, ToClientKept
      <4>2. CASE toClient # <<>> /\ toClient' = Tail(toClient)
        BY <2>1, <4>2, MessageReceived
      <4>3. QED BY <2>3, <4>1, <4>2 DEF ReceiveStarted
    <3>3. QED BY <3>1, <3>2
  <2>4. QED BY <2>2, <2>3
<1>4. ThreadsTyped'
  BY <1>1 DEF StateInv, ThreadsTyped, drainVars
<1>5. urgent' \in BOOLEAN
  BY <1>1 DEF StateInv, BridgeKnown
<1>6. /\ ingress' = ingress /\ ingress = "unstarted" /\ drain' = drain
      /\ UNCHANGED <<used, pending>>
      /\ UNCHANGED <<ringVars, bridgeVars, mutex, origin, localTail, lastAcked, inbox, last,
                     gaps, reordered>>
  BY <1>1, <1>2 DEF StateInv, JoinKnown, drainVars, queueVars
<1>7. main' \notin {"joinIngress", "recv", "finalRecv"}
  BY <1>1
<1>8. QED
  BY <1>1, <1>2, <1>3, <1>4, <1>5, <1>6, <1>7, FlowStep

\* The cursor begins at the head.
LEMMA JoinRingStep ==
  ASSUME StateInv, JoinRing
  PROVE  StateInv'
<1>1. /\ UNCHANGED <<ringVars, bridgeVars, socketVars, step, stop, terminalSeen,
                     clientGeneration, drain, mutex, queueVars>>
      /\ localTail' = head /\ lastAcked' = head /\ origin' = head
      /\ main = "join" /\ main' = "idle" /\ ingress' = "check"
  BY DEF JoinRing
<1>2. /\ origin = -1 /\ used = <<>> /\ pending = <<>>
      /\ \A t \in Thread : drain[t].at = "no" /\ inbox[t] = <<>>
      /\ \A t \in Thread : drain[t].batch = <<>>
  BY <1>1 DEF StateInv, JoinKnown, ThreadsKnown, Before
<1>3. /\ head \in Nat /\ head' = head /\ tail \in Nat /\ tail <= head
      /\ lastAcked \in Nat /\ lastAcked <= head
  <2>1. head \in Nat /\ head' = head /\ tail \in Nat /\ tail <= head
    BY <1>1 DEF StateInv, RingKnown, head, ringVars
  <2>2. localTail \in 0 .. head /\ lastAcked \in 0 .. localTail
    BY DEF StateInv, CursorKnown
  <2>3. QED BY <2>1, <2>2
<1>4. RingKnown' /\ BridgeKnown'
  BY <1>1, BridgeUntouched DEF StateInv, BridgeKnown, socketVars
<1>5. ToBridgeKnown'
  <2>1. toBridge' = toBridge /\ tail' = tail /\ toBridge \in Seq(ToBridgeMessage)
    BY <1>1 DEF socketVars, ringVars, StateInv, ToBridgeKnown
  <2>2. ASSUME NEW i \in 1 .. Len(toBridge), toBridge[i].type = "ACK"
        PROVE  toBridge[i].consumed <= lastAcked'
    <3>1. toBridge[i].consumed \in Nat
      <4>1. toBridge[i] \in ToBridgeMessage
        BY <2>1, ElementOfSeq
      <4>2. QED BY <2>2, <4>1, SequenceIsNat DEF ToBridgeMessage
    <3>2. toBridge[i].consumed <= lastAcked
      BY <2>2 DEF StateInv, ToBridgeKnown
    <3>3. QED BY <1>1, <1>3, <3>1, <3>2
  <2>3. tail' <= lastAcked'
    BY <1>1, <1>3, <2>1
  <2>4. QED BY <2>1, <2>2, <2>3 DEF StateInv, ToBridgeKnown
<1>6. ToClientKnown'
  BY <1>1, ToClientKept DEF ringVars, bridgeVars, socketVars, queueVars
<1>7. ThreadsTyped' /\ ThreadsKnown'
  BY <1>1, <1>2 DEF StateInv, ThreadsTyped, ThreadsKnown, queueVars
<1>8. JoinKnown'
  BY <1>1, <1>3 DEF JoinKnown, Before
<1>9. \A t \in Thread : drain'[t].batch = <<>> /\ Len(drain'[t].batch) = 0
  BY <1>1, <1>2, EmptySeq
<1>10. CursorKnown'
  <2>1. origin' \in -1 .. head' /\ localTail' \in 0 .. head' /\ lastAcked' \in 0 .. localTail'
        /\ origin' <= localTail' /\ origin' + 0 <= localTail'
    BY <1>1, <1>3
  <2>2. \A i \in 1 .. 0 : FALSE
    OBVIOUS
  <2>3. QED BY <1>9, <2>1, <2>2 DEF CursorKnown
<1>11. QueueTyped'
  BY <1>1 DEF StateInv, QueueTyped, ringVars, queueVars
<1>12. used' = <<>> /\ pending' = <<>> /\ Len(used') = 0 /\ Len(pending') = 0
       /\ Len(used) = 0 /\ Len(pending) = 0
  BY <1>1, <1>2, EmptySeq DEF queueVars
<1>13. HistoryKept'
  <2>1. Len(drain'["main"].batch) = 0 /\ Len(drain'["ingress"].batch) = 0
    BY <1>9 DEF Thread
  <2>2. 0 + 0 + 0 + 0 = localTail' - origin'
    BY <1>1, <1>3
  <2>3. QED BY <1>12, <2>1, <2>2 DEF HistoryKept
<1>14. Counted'
  <2>1. ~Eager => reordered = 0 /\ last = 0 /\ gaps = 0
    BY <1>12 DEF StateInv, Counted
  <2>2. QED BY <1>1, <1>12, <2>1 DEF Counted, queueVars
<1>15. QED
  BY <1>4, <1>5, <1>6, <1>7, <1>8, <1>10, <1>11, <1>13, <1>14 DEF StateInv

-----------------------------------------------------------------------------
\* drain_ring takes the mutex.
LEMMA DrainBeginStep ==
  ASSUME StateInv, NEW t \in Thread, DrainBegin(t)
  PROVE  StateInv'
<1>1. /\ drain[t].at = "begin" /\ mutex = "free" /\ mutex' = t
      /\ drain' = [drain EXCEPT ![t].at = IF drain[t].kind = "ack" THEN "end" ELSE "read"]
      /\ UNCHANGED <<ringVars, bridgeVars, socketVars, flowVars, origin, localTail,
                     lastAcked, queueVars>>
  BY DEF DrainBegin
<1>2. /\ drain \in [Thread -> DrainCall] /\ drain[t] \in DrainCall
      /\ \A s \in Thread : s # t => drain[s].at \notin {"read", "account", "end"}
      /\ drain[t].batch = <<>> /\ origin # -1
      /\ main \notin {"joinIngress", "recv", "finalRecv"} \/ t # "main"
  BY <1>1 DEF StateInv, ThreadsTyped, ThreadsKnown, JoinKnown, Thread
<1>3. PICK at \in {"read", "end"} :
        /\ drain'[t] = [drain[t] EXCEPT !.at = at]
        /\ \A s \in Thread : s # t => drain'[s] = drain[s]
        /\ drain' \in [Thread -> DrainCall]
  BY <1>1, <1>2 DEF DrainCall
<1>4. /\ drain'[t].at = at /\ drain'[t].kind = drain[t].kind /\ drain'[t].batch = <<>>
      /\ \A s \in Thread : drain'[s].batch = drain[s].batch /\ drain'[s].kind = drain[s].kind
  BY <1>2, <1>3 DEF DrainCall
<1>5. RingKnown' /\ BridgeKnown'
  BY <1>1, BridgeUntouched DEF StateInv, BridgeKnown, socketVars
<1>6. ToBridgeKnown' /\ ToClientKnown'
  BY <1>1, ToBridgeKept, ToClientKept DEF ringVars, bridgeVars, socketVars, flowVars, queueVars
<1>7. ThreadsTyped'
  BY <1>1, <1>3 DEF StateInv, ThreadsTyped, flowVars
<1>8. ThreadsKnown'
  <2>1. UNCHANGED <<main, ingress, inbox>>
    BY <1>1 DEF flowVars, queueVars
  <2>2. \A s \in Thread : drain'[s].at \in {"read", "account", "end"} => mutex' = s
    BY <1>1, <1>2, <1>3
  <2>3. \A s \in Thread : drain'[s].at # "account" => drain'[s].batch = <<>>
    BY <1>2, <1>3, <1>4 DEF StateInv, ThreadsKnown
  <2>4. main' \in {"joinIngress", "recv", "finalRecv"} => drain'["main"].at = "no"
    BY <1>2, <1>3, <2>1 DEF StateInv, ThreadsKnown, Thread
  <2>5. QED BY <1>4, <2>1, <2>2, <2>3, <2>4 DEF StateInv, ThreadsKnown
<1>9. JoinKnown'
  BY <1>1, <1>2 DEF StateInv, JoinKnown, flowVars
<1>10. lastAcked' \in 0 .. localTail
  BY <1>1 DEF StateInv, CursorKnown
<1>11. CursorKnown' /\ QueueTyped' /\ HistoryKept' /\ Counted'
  BY <1>1, <1>4, <1>10, QueueKeeps DEF ringVars, queueVars
<1>12. QED
  BY <1>5, <1>6, <1>7, <1>8, <1>9, <1>11 DEF StateInv

LEMMA CopyIs ==
  ASSUME NEW S, NEW s \in Seq(S), NEW n \in Nat, NEW m \in Nat, n <= m, m <= Len(s)
  PROVE  /\ SubSeq(s, n + 1, m) \in Seq(S) /\ Len(SubSeq(s, n + 1, m)) = m - n
         /\ \A i \in 1 .. m - n : SubSeq(s, n + 1, m)[i] = s[n + i]
<1>1. n + 1 \in Int /\ m \in Int /\ \A i \in n + 1 .. m : s[i] \in S
  BY ElementOfSeq
<1>2. /\ SubSeq(s, n + 1, m) \in Seq(S)
      /\ Len(SubSeq(s, n + 1, m)) = IF n + 1 <= m THEN m - (n + 1) + 1 ELSE 0
      /\ \A i \in 1 .. m - (n + 1) + 1 : SubSeq(s, n + 1, m)[i] = s[n + 1 + i - 1]
  BY <1>1, SubSeqProperties
<1>3. m - (n + 1) + 1 = m - n /\ (~(n + 1 <= m) => m - n = 0)
      /\ \A i \in 1 .. m - n : n + 1 + i - 1 = n + i
  OBVIOUS
<1>4. QED BY <1>2, <1>3

\* One batch is copied: what the cursor passes.
LEMMA DrainReadStep ==
  ASSUME StateInv, NEW t \in Thread, DrainRead(t)
  PROVE  StateInv'
<1>1. /\ drain[t].at = "read"
      /\ localTail' = Minimum(head, localTail + Batch)
      /\ drain' = [drain EXCEPT ![t].at = "account",
                                ![t].batch = SubSeq(log, localTail + 1, localTail')]
      /\ UNCHANGED <<ringVars, bridgeVars, socketVars, flowVars, mutex, origin, lastAcked,
                     queueVars>>
  BY DEF DrainRead
<1>2. /\ drain \in [Thread -> DrainCall] /\ drain[t] \in DrainCall
      /\ mutex = t /\ \A s \in Thread : s # t => drain[s].at \notin {"read", "account", "end"}
      /\ \A s \in Thread : drain[s].batch = <<>>
      /\ origin # -1 /\ (main \notin {"joinIngress", "recv", "finalRecv"} \/ t # "main")
  BY <1>1 DEF StateInv, ThreadsTyped, ThreadsKnown, JoinKnown, Thread
<1>3. /\ localTail \in Nat /\ localTail' \in Nat /\ localTail <= localTail' /\ localTail' <= head
      /\ head \in Nat /\ head' = head /\ log' = log /\ origin \in Nat /\ origin <= localTail
      /\ origin <= head
      /\ lastAcked \in Nat /\ lastAcked <= localTail /\ log \in Seq(Sequence)
  <2>1. localTail \in Nat /\ localTail <= head /\ origin \in Nat /\ origin <= localTail
        /\ lastAcked \in Nat /\ lastAcked <= localTail
    BY <1>2 DEF StateInv, CursorKnown, head
  <2>2. head \in Nat /\ head' = head /\ log' = log /\ log \in Seq(Sequence)
    BY <1>1 DEF StateInv, RingKnown, head, ringVars
  <2>3. Batch \in Nat
    BY BoundsAre
  <2>4. QED BY <1>1, <2>1, <2>2, <2>3 DEF Minimum
<1>4. PICK copied \in Seq(Sequence) :
        /\ copied = SubSeq(log, localTail + 1, localTail')
        /\ Len(copied) = localTail' - localTail
        /\ \A i \in 1 .. Len(copied) : copied[i] = log[localTail + i]
  <2>1. localTail \in Nat /\ localTail' \in Nat /\ localTail <= localTail'
        /\ localTail' <= Len(log) /\ log \in Seq(Sequence)
    BY <1>3 DEF head
  <2>2. PICK next \in Nat : next = localTail'
    BY <2>1
  <2>3. /\ SubSeq(log, localTail + 1, next) \in Seq(Sequence)
        /\ Len(SubSeq(log, localTail + 1, next)) = next - localTail
        /\ \A i \in 1 .. next - localTail : SubSeq(log, localTail + 1, next)[i] = log[localTail + i]
    <3>1. localTail <= next /\ next <= Len(log)
      BY <2>1, <2>2
    <3>2. QED BY <2>1, <3>1, CopyIs
  <2>4. QED BY <2>2, <2>3
<1>5. /\ drain' \in [Thread -> DrainCall]
      /\ drain'[t] = [drain[t] EXCEPT !.at = "account", !.batch = copied]
      /\ \A s \in Thread : s # t => drain'[s] = drain[s]
  BY <1>1, <1>2, <1>4 DEF DrainCall
<1>6. /\ drain'[t].at = "account" /\ drain'[t].batch = copied
      /\ \A s \in Thread : drain'[s].kind = drain[s].kind
      /\ \A s \in Thread : s # t => drain'[s].batch = <<>>
  BY <1>2, <1>5 DEF DrainCall
<1>7. RingKnown' /\ BridgeKnown'
  BY <1>1, BridgeUntouched DEF StateInv, BridgeKnown, socketVars
<1>8. ToBridgeKnown' /\ ToClientKnown'
  BY <1>1, ToBridgeKept, ToClientKept DEF ringVars, bridgeVars, socketVars, flowVars, queueVars
<1>9. ThreadsTyped'
  BY <1>1, <1>5 DEF StateInv, ThreadsTyped, flowVars
<1>10. ThreadsKnown'
  <2>1. UNCHANGED <<main, ingress, inbox, mutex>>
    BY <1>1 DEF flowVars, queueVars
  <2>2. \A s \in Thread : drain'[s].at \in {"read", "account", "end"} => mutex' = s
    BY <1>2, <1>5, <2>1
  <2>3. \A s \in Thread : drain'[s].at # "account" => drain'[s].batch = <<>>
    BY <1>6
  <2>4. main' \in {"joinIngress", "recv", "finalRecv"} => drain'["main"].at = "no"
    BY <1>2, <1>5, <2>1 DEF StateInv, ThreadsKnown, Thread
  <2>5. QED BY <1>6, <2>1, <2>2, <2>3, <2>4 DEF StateInv, ThreadsKnown
<1>11. JoinKnown'
  BY <1>1, <1>2 DEF StateInv, JoinKnown, flowVars
<1>12. CursorKnown'
  <2>1. origin' \in -1 .. head' /\ localTail' \in 0 .. head' /\ lastAcked' \in 0 .. localTail'
        /\ origin' <= localTail'
    BY <1>1, <1>3
  <2>2. ASSUME NEW s \in Thread
        PROVE  /\ origin' + Len(drain'[s].batch) <= localTail'
               /\ \A i \in 1 .. Len(drain'[s].batch) :
                    drain'[s].batch[i] = log'[localTail' - Len(drain'[s].batch) + i]
    <3>1. CASE s = t
      <4>1. drain'[s].batch = copied
        BY <1>6, <3>1
      <4>4. localTail' - Len(copied) = localTail
        <5>1. localTail \in Nat /\ localTail' \in Nat /\ Len(copied) = localTail' - localTail
          BY <1>3, <1>4
        <5>2. \A n, m \in Nat : m - (m - n) = n
          OBVIOUS
        <5>3. QED BY <5>1, <5>2, Zenon
      <4>2. origin' + Len(copied) <= localTail'
        BY <1>1, <1>3, <1>4
      <4>3. QED BY <1>3, <1>4, <4>1, <4>2, <4>4
    <3>2. CASE s # t
      <4>1. drain'[s].batch = <<>> /\ Len(drain'[s].batch) = 0
        BY <1>6, <3>2, EmptySeq
      <4>2. \A i \in 1 .. 0 : FALSE
        OBVIOUS
      <4>3. origin' + 0 <= localTail'
        BY <1>1, <1>3
      <4>4. QED BY <4>1, <4>2, <4>3
    <3>3. QED BY <3>1, <3>2
  <2>3. QED BY <2>1, <2>2 DEF CursorKnown
<1>13. QueueTyped' /\ Counted'
  BY <1>1 DEF StateInv, QueueTyped, Counted, ringVars, queueVars
<1>14. HistoryKept'
  <2>1. SUFFICES ASSUME ~Eager
                 PROVE  /\ Len(used) + Len(pending) + Len(drain'["main"].batch)
                             + Len(drain'["ingress"].batch) = localTail' - origin
                        /\ \A i \in 1 .. Len(used) : used[i] = log[origin + i]
                        /\ \A i \in 1 .. Len(pending) : pending[i] = log[origin + Len(used) + i]
    BY <1>1, <1>3 DEF HistoryKept, queueVars
  <2>2. /\ Len(used) + Len(pending) + Len(drain["main"].batch) + Len(drain["ingress"].batch)
             = localTail - origin
        /\ \A i \in 1 .. Len(used) : used[i] = log[origin + i]
        /\ \A i \in 1 .. Len(pending) : pending[i] = log[origin + Len(used) + i]
    BY <1>2, <2>1 DEF StateInv, HistoryKept
  <2>3. Len(drain["main"].batch) = 0 /\ Len(drain["ingress"].batch) = 0
    BY <1>2, EmptySeq DEF Thread
  <2>4. Len(used) \in Nat /\ Len(pending) \in Nat
    BY DEF StateInv, QueueTyped
  <2>5. Len(used) + Len(pending) = localTail - origin
    BY <1>3, <2>2, <2>3, <2>4
  <2>6. \/ Len(drain'["main"].batch) = Len(copied) /\ Len(drain'["ingress"].batch) = 0
        \/ Len(drain'["main"].batch) = 0 /\ Len(drain'["ingress"].batch) = Len(copied)
    BY <1>6, EmptySeq DEF Thread
  <2>7. PICK u \in Nat, p \in Nat : u = Len(used) /\ p = Len(pending) /\ u + p = localTail - origin
    BY <2>4, <2>5
  <2>8. Len(copied) = localTail' - localTail
    BY <1>4
  <2>9. u + p + Len(copied) + 0 = localTail' - origin /\ u + p + 0 + Len(copied) = localTail' - origin
    BY <1>3, <2>7, <2>8
  <2>10. Len(used) + Len(pending) + Len(drain'["main"].batch) + Len(drain'["ingress"].batch)
           = localTail' - origin
    BY <2>6, <2>7, <2>9
  <2>11. QED BY <2>2, <2>10
<1>15. QED
  BY <1>7, <1>8, <1>9, <1>10, <1>11, <1>12, <1>13, <1>14 DEF StateInv

LEMMA GapIs ==
  ASSUME NEW counted \in Nat, NEW newest \in Nat, NEW first \in Nat, NEW size \in Nat,
         NEW before \in Int, first > before, size - 1 <= newest - first
  PROVE  counted + newest - before - size \in Nat
<1>1. newest - before - size >= 0
  OBVIOUS
<1>2. QED BY <1>1

\* account_sequences of a batch whose records are numbered with at least one between:
\* what it counts, and what it takes for the last.
LEMMA AccountIs ==
  ASSUME StateInv, NEW batch \in Seq(Sequence), Account(batch),
         \A i \in 1 .. Len(batch) : batch[i] <= Len(offered),
         batch # <<>> => Len(batch) - 1 <= batch[Len(batch)] - batch[1]
  PROVE  /\ last' \in 0 .. Len(offered) /\ gaps' \in Nat /\ reordered' \in Nat
         /\ terminalSeen' \in BOOLEAN
<1>1. /\ last \in Nat /\ last <= Len(offered) /\ gaps \in Nat /\ reordered \in Nat
      /\ terminalSeen \in BOOLEAN /\ Len(offered) \in Nat
  BY DEF StateInv, QueueTyped, ThreadsTyped, RingKnown
<1>2. CASE batch = <<>>
  BY <1>1, <1>2 DEF Account
<1>3. CASE batch # <<>>
  <2>1. Len(batch) \in Nat \ {0} /\ batch[1] \in Sequence /\ batch[Len(batch)] \in Sequence
        /\ batch[Len(batch)] <= Len(offered)
    <3>1. Len(batch) \in Nat \ {0}
      BY <1>3, EmptySeq
    <3>2. 1 \in 1 .. Len(batch) /\ Len(batch) \in 1 .. Len(batch)
      BY <3>1
    <3>3. QED BY <3>1, <3>2, ElementOfSeq
  <2>2. PICK first \in Nat, newest \in Nat, size \in Nat :
          first = batch[1] /\ newest = batch[Len(batch)] /\ size = Len(batch)
    BY <2>1, SequenceIsNat
  <2>3. newest <= Len(offered) /\ size - 1 <= newest - first
    BY <1>3, <2>1, <2>2
  <2>4. PICK before \in Int : before = IF last = 0 THEN first - 1 ELSE last
    BY <1>1, <2>2
  <2>5. \/ /\ first > before /\ last' = newest /\ gaps' = gaps + newest - before - size
           /\ reordered' = reordered
        \/ /\ reordered' = reordered + 1 /\ last' = last /\ gaps' = gaps
    BY <1>3, <2>2, <2>4 DEF Account
  <2>6. terminalSeen' \in BOOLEAN
    BY <1>1, <1>3 DEF Account
  <2>7. CASE /\ first > before /\ last' = newest /\ gaps' = gaps + newest - before - size
             /\ reordered' = reordered
    <3>1. gaps + newest - before - size \in Nat
      BY <1>1, <2>3, <2>7, GapIs
    <3>2. newest \in 0 .. Len(offered)
      BY <1>1, <2>3
    <3>3. QED BY <1>1, <2>6, <2>7, <3>1, <3>2
  <2>8. CASE reordered' = reordered + 1 /\ last' = last /\ gaps' = gaps
    BY <1>1, <2>6, <2>8
  <2>9. QED BY <2>5, <2>7, <2>8
<1>4. QED BY <1>2, <1>3

\* What a thread has copied lies in the ring's history, and before its end.
LEMMA BatchIs ==
  ASSUME StateInv, NEW t \in Thread
  PROVE  /\ drain[t].batch \in Seq(Sequence)
         /\ \A i \in 1 .. Len(drain[t].batch) :
              /\ localTail - Len(drain[t].batch) + i \in 1 .. head
              /\ drain[t].batch[i] = log[localTail - Len(drain[t].batch) + i]
              /\ drain[t].batch[i] <= Len(offered)
         /\ drain[t].batch # <<>> =>
              Len(drain[t].batch) - 1 <= drain[t].batch[Len(drain[t].batch)] - drain[t].batch[1]
<1>1. drain[t].batch \in Seq(Sequence) /\ Len(drain[t].batch) \in Nat
  BY DEF StateInv, ThreadsTyped, DrainCall
<1>2. drain[t].batch # <<>> => origin # -1
  BY DEF StateInv, JoinKnown, ThreadsKnown
<1>3. /\ head \in Nat /\ localTail \in Nat /\ localTail <= head /\ origin \in Int /\ -1 <= origin
      /\ origin + Len(drain[t].batch) <= localTail
      /\ \A i \in 1 .. Len(drain[t].batch) :
           drain[t].batch[i] = log[localTail - Len(drain[t].batch) + i]
  <2>1. head \in Nat
    BY DEF StateInv, RingKnown, head
  <2>2. QED BY <2>1 DEF StateInv, CursorKnown
<1>4. PICK size \in Nat : size = Len(drain[t].batch)
  BY <1>1
<1>5. drain[t].batch # <<>> => size <= localTail /\ size \in Nat \ {0}
  BY <1>1, <1>2, <1>3, <1>4, EmptySeq
<1>6. ASSUME NEW i \in 1 .. size
      PROVE  localTail - size + i \in 1 .. head
  <2>1. size <= localTail
    BY <1>4, <1>5, <1>6, EmptySeq
  <2>2. QED BY <1>3, <2>1
<1>7. /\ log \in Seq(Sequence) /\ Len(offered) \in Nat
      /\ \A i \in 1 .. head : head - i <= Len(offered) - log[i]
      /\ \A i, j \in 1 .. head : i <= j => j - i <= log[j] - log[i]
  BY DEF StateInv, RingKnown
<1>8. ASSUME NEW i \in 1 .. head
      PROVE  log[i] \in Nat /\ log[i] <= Len(offered)
  <2>1. log[i] \in Nat
    BY <1>7, ElementOfSeq, SequenceIsNat DEF head
  <2>2. PICK number \in Nat : number = log[i] /\ head - i <= Len(offered) - number
    BY <1>7, <2>1
  <2>3. number <= Len(offered)
    BY <1>3, <1>7, <2>2
  <2>4. QED BY <2>2, <2>3
<1>9. ASSUME drain[t].batch # <<>>
      PROVE  size - 1 <= drain[t].batch[size] - drain[t].batch[1]
  <2>1. 1 \in 1 .. size /\ size \in 1 .. size
    BY <1>5, <1>9
  <2>2. PICK i \in 1 .. head, j \in 1 .. head : i = localTail - size + 1 /\ j = localTail - size + size
    BY <1>6, <2>1
  <2>3. drain[t].batch[1] = log[i] /\ drain[t].batch[size] = log[j]
    BY <1>3, <1>4, <2>1, <2>2
  <2>4. i <= j /\ j - i = size - 1
    BY <1>3, <1>5, <1>9, <2>2
  <2>5. j - i <= log[j] - log[i]
    BY <1>7, <2>4
  <2>6. QED BY <2>3, <2>4, <2>5
<1>10. QED BY <1>1, <1>3, <1>4, <1>6, <1>8, <1>9

\* The batch is queued and accounted, or under the shadow only passed.
LEMMA DrainAccountStep ==
  ASSUME StateInv, NEW t \in Thread, DrainAccount(t)
  PROVE  StateInv'
<1>1. /\ drain[t].at = "account"
      /\ IF drain[t].kind = "shadow"
           THEN UNCHANGED <<pending, last, gaps, reordered, terminalSeen>>
           ELSE pending' = pending \o drain[t].batch /\ Account(drain[t].batch)
      /\ drain' = [drain EXCEPT ![t].at = IF Len(drain[t].batch) = Batch THEN "read" ELSE "end",
                                ![t].batch = <<>>]
      /\ UNCHANGED <<ringVars, bridgeVars, socketVars, main, step, ingress, stop,
                     clientGeneration, mutex, origin, localTail, lastAcked, inbox, used>>
  BY DEF DrainAccount
<1>2. /\ drain \in [Thread -> DrainCall] /\ drain[t] \in DrainCall
      /\ mutex = t /\ \A s \in Thread : s # t => drain[s].at \notin {"read", "account", "end"}
      /\ \A s \in Thread : s # t => drain[s].batch = <<>>
      /\ origin # -1 /\ (main \notin {"joinIngress", "recv", "finalRecv"} \/ t # "main")
  BY <1>1 DEF StateInv, ThreadsTyped, ThreadsKnown, JoinKnown, Thread
<1>3. PICK at \in {"read", "end"} :
        /\ drain'[t] = [drain[t] EXCEPT !.at = at, !.batch = <<>>]
        /\ \A s \in Thread : s # t => drain'[s] = drain[s]
        /\ drain' \in [Thread -> DrainCall]
  <2>1. <<>> \in Seq(Sequence)
    BY EmptySeq
  <2>2. QED BY <1>1, <1>2, <2>1 DEF DrainCall
<1>4. /\ drain'[t].at = at
      /\ \A s \in Thread : drain'[s].kind = drain[s].kind /\ drain'[s].batch = <<>>
  <2>1. drain'[t].at = at /\ drain'[t].kind = drain[t].kind /\ drain'[t].batch = <<>>
    BY <1>2, <1>3 DEF DrainCall
  <2>2. \A s \in Thread : s # t => drain'[s].kind = drain[s].kind /\ drain'[s].batch = <<>>
    BY <1>2, <1>3
  <2>3. QED BY <2>1, <2>2
<1>5. PICK batch \in Seq(Sequence) :
        /\ batch = drain[t].batch
        /\ \A i \in 1 .. Len(batch) :
             /\ localTail - Len(batch) + i \in 1 .. head
             /\ batch[i] = log[localTail - Len(batch) + i] /\ batch[i] <= Len(offered)
        /\ batch # <<>> => Len(batch) - 1 <= batch[Len(batch)] - batch[1]
  BY BatchIs
<1>6. \/ UNCHANGED <<pending, last, gaps, reordered, terminalSeen>>
      \/ /\ pending' = pending \o batch /\ Account(batch) /\ drain[t].kind # "shadow"
  BY <1>1, <1>5
<1>7. RingKnown' /\ BridgeKnown'
  BY <1>1, BridgeUntouched DEF StateInv, BridgeKnown, socketVars
<1>8. ToBridgeKnown' /\ ToClientKnown'
  BY <1>1, ToBridgeKept, ToClientKept DEF ringVars, bridgeVars, socketVars
<1>9. /\ pending \in Seq(Sequence) /\ used \in Seq(Sequence)
      /\ Len(pending) \in Nat /\ Len(used) \in Nat /\ Len(batch) \in Nat
      /\ Len(offered') = Len(offered)
  BY <1>1 DEF StateInv, QueueTyped, ringVars
<1>10. /\ pending' \in Seq(Sequence) /\ last' \in 0 .. Len(offered) /\ gaps' \in Nat
       /\ reordered' \in Nat /\ terminalSeen' \in BOOLEAN
  <2>1. CASE UNCHANGED <<pending, last, gaps, reordered, terminalSeen>>
    BY <2>1 DEF StateInv, QueueTyped, ThreadsTyped
  <2>2. CASE pending' = pending \o batch /\ Account(batch)
    <3>1. pending' \in Seq(Sequence)
      BY <1>9, <2>2, ConcatProperties
    <3>2. QED BY <1>5, <2>2, <3>1, AccountIs
  <2>3. QED BY <1>6, <2>1, <2>2
<1>11. QueueTyped'
  BY <1>1, <1>9, <1>10 DEF QueueTyped
<1>12. ThreadsTyped'
  BY <1>1, <1>3, <1>10 DEF StateInv, ThreadsTyped
<1>13. ThreadsKnown'
  <2>1. UNCHANGED <<main, ingress, inbox, mutex>>
    BY <1>1
  <2>2. \A s \in Thread : drain'[s].at \in {"read", "account", "end"} => mutex' = s
    BY <1>2, <1>3, <2>1
  <2>3. main' \in {"joinIngress", "recv", "finalRecv"} => drain'["main"].at = "no"
    BY <1>2, <1>3, <2>1 DEF StateInv, ThreadsKnown, Thread
  <2>4. QED BY <1>4, <2>1, <2>2, <2>3 DEF StateInv, ThreadsKnown
<1>14. JoinKnown'
  BY <1>1, <1>2 DEF StateInv, JoinKnown
<1>15. CursorKnown'
  <2>1. \A s \in Thread : drain'[s].batch = <<>> /\ Len(drain'[s].batch) = 0
    BY <1>4, EmptySeq
  <2>2. /\ origin' \in -1 .. head' /\ localTail' \in 0 .. head' /\ lastAcked' \in 0 .. localTail'
        /\ origin' <= localTail' /\ origin' + 0 <= localTail'
    <3>1. origin \in Int
      BY DEF StateInv, CursorKnown, head
    <3>2. origin + 0 = origin
      BY <3>1
    <3>3. QED BY <1>1, <3>2 DEF StateInv, CursorKnown, ringVars, head
  <2>3. \A i \in 1 .. 0 : FALSE
    OBVIOUS
  <2>4. QED BY <2>1, <2>2, <2>3 DEF CursorKnown
<1>16. ASSUME ~Eager
       PROVE  /\ pending' = pending \o batch /\ Account(batch)
              /\ Len(used) + Len(pending) + Len(batch) = localTail - origin
              /\ \A i \in 1 .. Len(used) : used[i] = log[origin + i]
              /\ \A i \in 1 .. Len(pending) : pending[i] = log[origin + Len(used) + i]
              /\ \A i \in 1 .. Len(batch) : batch[i] = log[origin + Len(used) + Len(pending) + i]
  <2>1. drain[t].kind # "shadow"
    BY <1>16 DEF StateInv, ThreadsKnown
  <2>2. pending' = pending \o batch /\ Account(batch)
    BY <1>1, <1>5, <2>1
  <2>3. /\ Len(used) + Len(pending) + Len(drain["main"].batch) + Len(drain["ingress"].batch)
             = localTail - origin
        /\ \A i \in 1 .. Len(used) : used[i] = log[origin + i]
        /\ \A i \in 1 .. Len(pending) : pending[i] = log[origin + Len(used) + i]
    BY <1>2, <1>16 DEF StateInv, HistoryKept
  <2>4. \/ Len(drain["main"].batch) = Len(batch) /\ Len(drain["ingress"].batch) = 0
        \/ Len(drain["main"].batch) = 0 /\ Len(drain["ingress"].batch) = Len(batch)
    BY <1>2, <1>5, EmptySeq DEF Thread
  <2>5. PICK u \in Nat, p \in Nat, b \in Nat : u = Len(used) /\ p = Len(pending) /\ b = Len(batch)
    BY <1>9
  <2>6. u + p + b = localTail - origin
    <3>1. \/ u + p + b + 0 = localTail - origin
          \/ u + p + 0 + b = localTail - origin
      BY <2>3, <2>4, <2>5
    <3>2. u + p + b + 0 = u + p + b /\ u + p + 0 + b = u + p + b
      OBVIOUS
    <3>3. QED BY <3>1, <3>2
  <2>7. origin \in Int /\ localTail \in Int
    BY DEF StateInv, CursorKnown, head
  <2>8. \A i \in 1 .. b : localTail - b + i = origin + u + p + i
    BY <2>6, <2>7
  <2>9. QED BY <1>5, <2>2, <2>3, <2>5, <2>6, <2>8
<1>17. HistoryKept'
  <2>1. SUFFICES ASSUME ~Eager
                 PROVE  /\ Len(used) + Len(pending') + Len(drain'["main"].batch)
                             + Len(drain'["ingress"].batch) = localTail - origin
                        /\ \A i \in 1 .. Len(used) : used[i] = log[origin + i]
                        /\ \A i \in 1 .. Len(pending') : pending'[i] = log[origin + Len(used) + i]
    BY <1>1 DEF HistoryKept, ringVars
  <2>2. Len(drain'["main"].batch) = 0 /\ Len(drain'["ingress"].batch) = 0
    BY <1>4, EmptySeq DEF Thread
  <2>3. /\ Len(pending') = Len(pending) + Len(batch)
        /\ \A i \in 1 .. Len(pending) : pending'[i] = pending[i]
        /\ \A i \in Len(pending) + 1 .. Len(pending) + Len(batch) :
             pending'[i] = batch[i - Len(pending)]
    BY <1>9, <1>16, <2>1, ConcatProperties
  <2>4. Len(used) + Len(pending') + 0 + 0 = localTail - origin
    BY <1>9, <1>16, <2>1, <2>3
  <2>5. ASSUME NEW i \in 1 .. Len(pending')
        PROVE  pending'[i] = log[origin + Len(used) + i]
    <3>1. CASE i \in 1 .. Len(pending)
      BY <1>16, <2>1, <2>3, <3>1
    <3>2. CASE i \in Len(pending) + 1 .. Len(pending) + Len(batch)
      <4>1. PICK j \in 1 .. Len(batch) : j = i - Len(pending)
        <5>1. i - Len(pending) \in 1 .. Len(batch)
          BY <1>9, <3>2
        <5>2. QED BY <5>1
      <4>2. pending'[i] = log[origin + Len(used) + Len(pending) + j]
        BY <1>16, <2>1, <2>3, <3>2, <4>1
      <4>3. origin + Len(used) + Len(pending) + j = origin + Len(used) + i
        <5>1. origin \in Int
          BY DEF StateInv, CursorKnown, head
        <5>2. QED BY <1>9, <4>1, <5>1
      <4>4. QED BY <4>2, <4>3
    <3>3. QED BY <1>9, <2>3, <3>1, <3>2
  <2>6. QED BY <1>16, <2>1, <2>2, <2>4, <2>5
<1>18. Counted'
  <2>1. SUFFICES ASSUME ~Eager
                 PROVE  /\ reordered' = 0
                        /\ Len(used) + Len(pending') = 0 => last' = 0 /\ gaps' = 0
                        /\ Len(used) + Len(pending') > 0 =>
                             /\ last' = log[origin + (Len(used) + Len(pending'))]
                             /\ gaps' = last' - log[origin + 1] + 1 - (Len(used) + Len(pending'))
    BY <1>1 DEF Counted, ringVars
  <2>2. PICK seen \in Nat, size \in Nat :
          seen = Len(used) + Len(pending) /\ size = Len(batch)
    BY <1>9
  <2>3. Len(used) + Len(pending') = seen + size
    <3>1. Len(pending') = Len(pending) + Len(batch)
      BY <1>9, <1>16, <2>1, ConcatProperties
    <3>2. QED BY <1>9, <2>2, <3>1
  <2>4. /\ reordered = 0
        /\ seen = 0 => last = 0 /\ gaps = 0
        /\ seen > 0 => last = log[origin + seen] /\ gaps = last - log[origin + 1] + 1 - seen
    BY <2>1, <2>2 DEF StateInv, Counted
  <2>5. CASE batch = <<>>
    <3>1. size = 0 /\ UNCHANGED <<last, gaps, reordered>>
      BY <1>16, <2>1, <2>2, <2>5, EmptySeq DEF Account
    <3>2. seen + size = seen
      BY <3>1
    <3>3. QED BY <2>3, <2>4, <3>1, <3>2
  <2>6. CASE batch # <<>>
    <3>1. size \in Nat \ {0}
      BY <2>2, <2>6, EmptySeq
    <3>2. /\ origin \in Nat /\ head \in Nat /\ origin + seen + size <= head
      <4>1. origin \in Nat /\ localTail \in Nat /\ localTail <= head /\ head \in Nat
        BY <1>2 DEF StateInv, CursorKnown, RingKnown, head
      <4>2. seen + size = localTail - origin
        BY <1>16, <2>1, <2>2
      <4>3. QED BY <4>1, <4>2
    <3>3. PICK i \in 1 .. head, j \in 1 .. head :
            i = origin + seen + 1 /\ j = origin + seen + size
      BY <3>1, <3>2
    <3>4. batch[1] = log[i] /\ batch[size] = log[j]
      <4>1. \A k \in 1 .. size : batch[k] = log[origin + Len(used) + Len(pending) + k]
        BY <1>16, <2>1, <2>2
      <4>2. \A k \in 1 .. size : origin + Len(used) + Len(pending) + k = origin + seen + k
        BY <1>9, <2>2, <3>2
      <4>3. 1 \in 1 .. size /\ size \in 1 .. size
        BY <3>1
      <4>4. QED BY <3>3, <4>1, <4>2, <4>3
    <3>5. /\ \A k \in 1 .. head : log[k] \in Nat /\ log[k] # 0
          /\ \A k, m \in 1 .. head : k <= m => m - k <= log[m] - log[k]
      <4>1. log \in Seq(Sequence)
        BY DEF StateInv, RingKnown
      <4>2. \A k \in 1 .. head : log[k] \in Nat \ {0}
        BY <4>1, ElementOfSeq, SequenceIsNat DEF head
      <4>3. QED BY <4>2 DEF StateInv, RingKnown
    <3>6. /\ log[i] \in Nat /\ log[j] \in Nat /\ i <= j
      BY <3>1, <3>2, <3>3, <3>5
    <3>7. Account(batch)
      BY <1>16, <2>1
    <3>8. CASE seen = 0
      <4>1. last = 0 /\ gaps = 0 /\ i = origin + 1
        BY <2>4, <3>2, <3>3, <3>8
      <4>2. log[i] > log[i] - 1
        BY <3>6
      <4>3. last' = log[j] /\ gaps' = 0 + log[j] - (log[i] - 1) - size /\ reordered' = 0
        BY <2>2, <2>4, <2>6, <3>4, <3>7, <4>1, <4>2 DEF Account
      <4>4. gaps' = last' - log[origin + 1] + 1 - (seen + size)
        BY <2>2, <3>1, <3>6, <3>8, <4>1, <4>3
      <4>5. seen + size > 0 /\ origin + (seen + size) = j
        BY <3>1, <3>2, <3>3, <3>8
      <4>6. QED BY <2>3, <4>3, <4>4, <4>5
    <3>9. CASE seen > 0
      <4>1. PICK k \in 1 .. head, f \in 1 .. head : k = origin + seen /\ f = origin + 1
        BY <3>1, <3>2, <3>9
      <4>2. log[k] \in Nat /\ log[f] \in Nat /\ last = log[k] /\ gaps = last - log[f] + 1 - seen
        BY <2>4, <3>5, <3>9, <4>1
      <4>3. i - k = 1 /\ k <= i
        BY <3>2, <3>3, <4>1
      <4>4. 1 <= log[i] - log[k]
        BY <3>5, <4>3
      <4>5. log[i] > last /\ last # 0
        BY <3>5, <3>6, <4>2, <4>4
      <4>6. last' = log[j] /\ gaps' = gaps + log[j] - last - size /\ reordered' = 0
        BY <2>2, <2>4, <2>6, <3>4, <3>7, <4>5 DEF Account
      <4>7. gaps' = last' - log[f] + 1 - (seen + size)
        <5>1. PICK x \in Nat, y \in Nat, z \in Nat : x = log[f] /\ y = log[k] /\ z = log[j]
          BY <3>6, <4>2
        <5>2. gaps' = y - x + 1 - seen + z - y - size /\ last' = z
          BY <4>2, <4>6, <5>1
        <5>3. y - x + 1 - seen + z - y - size = z - x + 1 - (seen + size)
          OBVIOUS
        <5>4. QED BY <5>1, <5>2, <5>3
      <4>8. seen + size > 0 /\ origin + (seen + size) = j
        BY <3>1, <3>2, <3>3, <3>9
      <4>9. QED BY <2>3, <4>1, <4>6, <4>7, <4>8
    <3>10. QED BY <2>2, <3>8, <3>9
  <2>7. QED BY <2>5, <2>6
<1>19. QED
  BY <1>7, <1>8, <1>11, <1>12, <1>13, <1>14, <1>15, <1>17, <1>18 DEF StateInv

\* The acknowledgement, if the call makes one; the mutex is given back.
LEMMA DrainEndStep ==
  ASSUME StateInv, NEW t \in Thread, DrainEnd(t)
  PROVE  StateInv'
<1>1. /\ drain[t].at = "end" /\ main # "dead"
      /\ SendAckIfNeeded \/ UNCHANGED <<toBridge, lastAcked, main>>
      /\ mutex' = "free" /\ drain' = [drain EXCEPT ![t] = Idle]
      /\ UNCHANGED <<ringVars, bridgeVars, toClient, urgent, step, ingress, stop, terminalSeen,
                     clientGeneration, origin, localTail, queueVars>>
  BY DEF DrainEnd, Alive
<1>2. /\ drain \in [Thread -> DrainCall]
      /\ mutex = t /\ \A s \in Thread : s # t => drain[s].at \notin {"read", "account", "end"}
      /\ \A s \in Thread : drain[s].batch = <<>>
      /\ origin # -1 /\ (main \notin {"joinIngress", "recv", "finalRecv"} \/ t # "main")
  BY <1>1 DEF StateInv, ThreadsTyped, ThreadsKnown, JoinKnown, Thread
<1>3. Idle \in DrainCall /\ Idle.at = "no" /\ Idle.batch = <<>> /\ Idle.kind = "ack"
  BY EmptySeq DEF Idle, DrainCall
<1>4. /\ drain' \in [Thread -> DrainCall] /\ drain'[t] = Idle
      /\ \A s \in Thread : s # t => drain'[s] = drain[s]
      /\ \A s \in Thread : drain'[s].batch = drain[s].batch
  BY <1>1, <1>2, <1>3
<1>5. /\ localTail \in Nat /\ lastAcked \in Nat /\ lastAcked <= localTail /\ localTail <= head
      /\ head \in Nat /\ tail \in Nat /\ Len(offered) \in Nat /\ MaxRecords \in Nat
      /\ head <= Len(offered) /\ Len(offered) <= MaxRecords + 1
  <2>1. /\ head \in Nat /\ tail \in Nat /\ Len(offered) \in Nat /\ MaxRecords \in Nat
        /\ dropped \in Nat /\ dropped = Len(offered) - head /\ Len(offered) <= MaxRecords + 1
    BY BoundsAre DEF StateInv, RingKnown, head
  <2>2. head <= Len(offered)
    BY <2>1
  <2>3. localTail \in 0 .. head /\ lastAcked \in 0 .. localTail
    BY DEF StateInv, CursorKnown
  <2>4. QED BY <2>1, <2>2, <2>3
<1>6. \/ /\ UNCHANGED <<toBridge, lastAcked>> /\ main' \in {main, "dead"}
      \/ /\ toBridge' = Append(toBridge, [type |-> "ACK", generation |-> clientGeneration,
                                          consumed |-> localTail])
         /\ Len(toBridge) < SocketLimit /\ localTail # lastAcked
         /\ lastAcked' = localTail /\ main' = main
  BY <1>1 DEF SendAckIfNeeded, CanSend, ToBridge
<1>7. main' \in {main, "dead"} /\ lastAcked' \in {lastAcked, localTail}
  BY <1>6
<1>8. RingKnown' /\ BridgeKnown'
  BY <1>1, BridgeUntouched DEF StateInv, BridgeKnown
<1>9. ToClientKnown'
  BY <1>1, ToClientKept DEF ringVars, bridgeVars, queueVars
<1>10. ToBridgeKnown'
  <2>1. tail' = tail
    BY <1>1 DEF ringVars
  <2>2. CASE UNCHANGED <<toBridge, lastAcked>>
    BY <2>1, <2>2, ToBridgeKept
  <2>3. CASE /\ toBridge' = Append(toBridge, [type |-> "ACK", generation |-> clientGeneration,
                                             consumed |-> localTail])
             /\ Len(toBridge) < SocketLimit /\ localTail # lastAcked
             /\ lastAcked' = localTail
    <3>1. localTail \in Sequence
      BY <1>5, <2>3 DEF Sequence
    <3>2. clientGeneration \in 1 .. MaxGeneration
      <4>1. clientGeneration \in 1 .. generation /\ generation \in 1 .. MaxGeneration
        BY DEF StateInv, ToClientKnown, BridgeKnown
      <4>2. QED BY <4>1, BoundsAre
    <3>3. PICK message \in ToBridgeMessage :
            message = [type |-> "ACK", generation |-> clientGeneration, consumed |-> localTail]
      BY <3>1, <3>2 DEF ToBridgeMessage
    <3>4. lastAcked' \in Nat /\ lastAcked <= lastAcked' /\ message.consumed = lastAcked'
      BY <1>5, <2>3, <3>3
    <3>5. QED BY <1>5, <2>1, <2>3, <3>3, <3>4, MessageSent
  <2>4. QED BY <1>6, <2>2, <2>3
<1>11. ThreadsTyped'
  BY <1>1, <1>4, <1>7 DEF StateInv, ThreadsTyped
<1>12. ThreadsKnown'
  <2>1. UNCHANGED <<ingress, inbox>>
    BY <1>1 DEF queueVars
  <2>2. \A s \in Thread : drain'[s].at \in {"read", "account", "end"} => mutex' = s
    BY <1>2, <1>3, <1>4
  <2>3. \A s \in Thread : drain'[s].batch = <<>>
    BY <1>2, <1>4
  <2>4. main' \in {"joinIngress", "recv", "finalRecv"} => drain'["main"].at = "no"
    BY <1>2, <1>3, <1>4, <1>7 DEF StateInv, ThreadsKnown, Thread
  <2>5. \A s \in Thread : drain'[s].kind = drain[s].kind \/ drain'[s].kind = "ack"
    BY <1>3, <1>4
  <2>6. QED BY <1>7, <2>1, <2>2, <2>3, <2>4, <2>5 DEF StateInv, ThreadsKnown
<1>13. JoinKnown'
  BY <1>1, <1>2, <1>7 DEF StateInv, JoinKnown, Before
<1>14. lastAcked' \in 0 .. localTail
  BY <1>5, <1>7
<1>15. CursorKnown' /\ QueueTyped' /\ HistoryKept' /\ Counted'
  BY <1>1, <1>4, <1>14, QueueKeeps DEF ringVars, queueVars
<1>16. QED
  BY <1>8, <1>9, <1>10, <1>11, <1>12, <1>13, <1>15 DEF StateInv

LEMMA DrainStepKeeps ==
  ASSUME StateInv, NEW t \in Thread, DrainStep(t)
  PROVE  StateInv'
  BY DrainBeginStep, DrainReadStep, DrainAccountStep, DrainEndStep DEF DrainStep

-----------------------------------------------------------------------------
\* A message changes hands; only the eager policy receives any.
LEMMA ReceiveStep ==
  ASSUME StateInv, NEW t \in Thread, Receive(t)
  PROVE  StateInv'
<1>1. /\ ReceivesHere(t) /\ toClient # <<>> /\ toClient' = Tail(toClient)
      /\ inbox' = [inbox EXCEPT ![t] = <<Head(toClient)>>]
      /\ UNCHANGED <<ringVars, bridgeVars, toBridge, urgent, flowVars, drainVars, pending,
                     last, gaps, reordered, used>>
  BY DEF Receive
<1>2. Eager /\ origin # -1
  BY <1>1 DEF ReceivesHere, StateInv, ThreadsKnown, JoinKnown, Before, Thread
<1>3. RingKnown' /\ BridgeKnown'
  BY <1>1, BridgeUntouched DEF StateInv, BridgeKnown
<1>4. ToBridgeKnown'
  BY <1>1, ToBridgeKept DEF ringVars, drainVars
<1>5. ToClientKnown'
  BY <1>1, MessageReceived DEF ringVars, bridgeVars, flowVars
<1>6. ThreadsTyped' /\ ThreadsKnown' /\ JoinKnown'
  BY <1>1, <1>2 DEF StateInv, ThreadsTyped, ThreadsKnown, JoinKnown, flowVars, drainVars
<1>7. lastAcked' \in 0 .. localTail
  BY <1>1 DEF StateInv, CursorKnown, drainVars
<1>8. CursorKnown' /\ QueueTyped' /\ HistoryKept' /\ Counted'
  BY <1>1, <1>7, QueueKeeps DEF ringVars, drainVars
<1>9. QED BY <1>3, <1>4, <1>5, <1>6, <1>8 DEF StateInv

\* A message is dealt with by the thread that holds it.
LEMMA ProcessLeaves ==
  ASSUME TallyKnown, NEW t \in Thread, Process(t)
  PROVE  /\ inbox[t] # <<>> /\ (inbox' = inbox \/ inbox' = [inbox EXCEPT ![t] = <<>>])
         /\ UNCHANGED <<ringVars, bridgeVars, socketVars, main, step, ingress, stop, drainVars,
                        used>>
<1>1. CASE AccountLoad(t)
  BY <1>1 DEF AccountLoad, Holds, flowVars
<1>2. CASE AccountStore(t)
  BY <1>2 DEF AccountStore, TallyKnown, Holds
<1>3. CASE PushRecord(t)
  BY <1>3 DEF PushRecord, TallyKnown, Holds, flowVars
<1>4. CASE TakeGeneration(t)
  BY <1>4 DEF TakeGeneration, Holds
<1>5. QED BY <1>1, <1>2, <1>3, <1>4 DEF Process

\* The message is dealt with: a record is accounted and queued, or a generation is taken
\* over.
LEMMA ProcessStep ==
  ASSUME StateInv, TallyKnown, NEW t \in Thread, Process(t)
  PROVE  StateInv'
<1>1. /\ inbox[t] # <<>> /\ (inbox' = inbox \/ inbox' = [inbox EXCEPT ![t] = <<>>])
      /\ UNCHANGED <<ringVars, bridgeVars, socketVars, main, step, ingress, stop, drainVars,
                     used>>
  BY ProcessLeaves
<1>2. Eager /\ origin # -1
  BY <1>1 DEF StateInv, ThreadsKnown, JoinKnown
<1>3. inbox \in [Thread -> Seq(ToClientMessage)] /\ inbox[t] \in Seq(ToClientMessage)
      /\ Len(inbox[t]) \in Nat \ {0}
  BY <1>1, EmptySeq DEF StateInv, ToClientKnown
<1>4. PICK message \in ToClientMessage : message = Head(inbox[t]) /\ Told(message)
  <2>1. Head(inbox[t]) = inbox[t][1] /\ Head(inbox[t]) \in ToClientMessage
    BY <1>1, <1>3, HeadTailProperties
  <2>2. 1 \in 1 .. Len(inbox[t])
    BY <1>3
  <2>3. Told(inbox[t][1])
    BY <2>2 DEF StateInv, ToClientKnown
  <2>4. QED BY <2>1, <2>3
<1>5. message.type = "EAGER" =>
        message.sequence \in Sequence /\ message.sequence \in Nat
        /\ message.sequence <= Len(offered)
  BY <1>4, SequenceIsNat DEF ToClientMessage, Told
<1>6. /\ pending' \in Seq(Sequence) /\ last' \in 0 .. Len(offered) /\ gaps' \in Nat
      /\ reordered' \in Nat /\ terminalSeen' \in BOOLEAN
      /\ clientGeneration' \in 1 .. generation
  <2>1. CASE AccountLoad(t)
    BY <2>1 DEF AccountLoad, flowVars, StateInv, QueueTyped, ThreadsTyped, ToClientKnown
  <2>2. CASE AccountStore(t)
    <3>1. tally[t].at # "load" /\ message.type = "EAGER"
      BY <1>4, <2>2 DEF AccountStore, TallyKnown, Holds
    <3>2. PICK sequence \in Nat : sequence = message.sequence /\ sequence <= Len(offered)
      BY <1>5, <3>1
    <3>3. PICK base \in Nat, seen \in Nat, wrong \in Nat :
            base = tally[t].last /\ seen = tally[t].gaps /\ wrong = tally[t].reordered
      BY DEF TallyKnown
    <3>4. PICK before \in Int : before = (IF base = 0 THEN sequence - 1 ELSE base)
      <4>1. (IF base = 0 THEN sequence - 1 ELSE base) \in Int
        BY <3>2, <3>3
      <4>2. QED BY <4>1
    <3>5. /\ \/ /\ sequence > before + 1
                /\ \E counted \in {seen, gaps} : gaps' = counted + sequence - before - 1
                /\ last' = sequence /\ UNCHANGED reordered
             \/ sequence = before + 1 /\ last' = sequence /\ UNCHANGED <<gaps, reordered>>
             \/ /\ sequence <= before
                /\ \E counted \in {wrong, reordered} : reordered' = counted + 1
                /\ UNCHANGED <<last, gaps>>
      BY <1>4, <2>2, <3>2, <3>3, <3>4 DEF AccountStore
    <3>6. /\ last \in 0 .. Len(offered) /\ gaps \in Nat /\ reordered \in Nat
          /\ Len(offered) \in Nat
      BY DEF StateInv, QueueTyped, RingKnown
    <3>7. last' \in 0 .. Len(offered) /\ gaps' \in Nat /\ reordered' \in Nat
      <4>1. CASE /\ sequence > before + 1 /\ last' = sequence /\ UNCHANGED reordered
                 /\ \E counted \in {seen, gaps} : gaps' = counted + sequence - before - 1
        <5>1. PICK counted \in Nat : gaps' = counted + sequence - before - 1
          BY <3>3, <3>6, <4>1
        <5>2. sequence > before + 1
          BY <4>1
        <5>3. counted + sequence - before - 1 \in Nat
          BY <5>2
        <5>4. QED BY <3>2, <3>6, <4>1, <5>1, <5>3
      <4>2. CASE sequence = before + 1 /\ last' = sequence /\ UNCHANGED <<gaps, reordered>>
        BY <3>2, <3>6, <4>2
      <4>3. CASE /\ sequence <= before /\ UNCHANGED <<last, gaps>>
                 /\ \E counted \in {wrong, reordered} : reordered' = counted + 1
        BY <3>3, <3>6, <4>3
      <4>4. QED BY <3>5, <4>1, <4>2, <4>3
    <3>8. /\ terminalSeen' \in BOOLEAN
          /\ UNCHANGED <<pending, clientGeneration>>
      BY <2>2 DEF AccountStore
    <3>9. QED BY <3>7, <3>8 DEF StateInv, QueueTyped, ToClientKnown
  <2>3. CASE PushRecord(t)
    <3>1. tally[t].at # "load" /\ message.type = "EAGER"
      BY <1>4, <2>3 DEF PushRecord, TallyKnown, Holds
    <3>2. pending' = Append(pending, message.sequence) /\ pending \in Seq(Sequence)
      BY <1>4, <2>3 DEF PushRecord, StateInv, QueueTyped
    <3>3. pending' \in Seq(Sequence)
      BY <1>5, <3>1, <3>2, AppendProperties
    <3>4. UNCHANGED <<last, gaps, reordered, terminalSeen, clientGeneration>>
      BY <2>3 DEF PushRecord, flowVars
    <3>5. QED BY <3>3, <3>4 DEF StateInv, QueueTyped, ThreadsTyped, ToClientKnown
  <2>4. CASE TakeGeneration(t)
    <3>1. message.type = "DEVICE_STATE" /\ clientGeneration' = message.generation
          /\ UNCHANGED <<pending, last, gaps, reordered, terminalSeen>>
      BY <1>4, <2>4 DEF TakeGeneration, Holds
    <3>2. message.generation \in 1 .. MaxGeneration /\ message.generation <= generation
      BY <1>4, <3>1 DEF ToClientMessage, Told
    <3>3. generation \in Nat /\ MaxGeneration \in Nat
      BY BoundsAre DEF StateInv, BridgeKnown
    <3>4. clientGeneration' \in 1 .. generation
      BY <3>1, <3>2, <3>3
    <3>5. QED BY <3>1, <3>4 DEF StateInv, QueueTyped, ThreadsTyped
  <2>5. QED BY <2>1, <2>2, <2>3, <2>4 DEF Process
<1>7. RingKnown' /\ BridgeKnown'
  BY <1>1, BridgeUntouched DEF StateInv, BridgeKnown, socketVars
<1>8. ToBridgeKnown'
  BY <1>1, ToBridgeKept DEF ringVars, socketVars, drainVars
<1>9. inbox' \in [Thread -> Seq(ToClientMessage)]
      /\ \A s \in Thread : inbox'[s] = inbox[s] \/ inbox'[s] = <<>>
  <2>1. <<>> \in Seq(ToClientMessage)
    BY EmptySeq
  <2>2. QED BY <1>1, <1>3, <2>1
<1>10. ToClientKnown'
  <2>1. ASSUME NEW s \in Thread, NEW i \in 1 .. Len(inbox'[s])
        PROVE  Told(inbox'[s][i])
    <3>1. inbox'[s] = inbox[s]
      BY <1>9, EmptySeq
    <3>2. QED BY <3>1 DEF StateInv, ToClientKnown
  <2>2. UNCHANGED <<offered, generation, toClient>>
    BY <1>1 DEF ringVars, bridgeVars, socketVars
  <2>3. QED BY <1>6, <1>9, <2>1, <2>2 DEF StateInv, ToClientKnown, Told
<1>11. ThreadsTyped' /\ ThreadsKnown' /\ JoinKnown'
  BY <1>1, <1>2, <1>6 DEF StateInv, ThreadsTyped, ThreadsKnown, JoinKnown, drainVars
<1>12. CursorKnown'
  <2>1. head' = head /\ UNCHANGED <<log, drain, origin, localTail, lastAcked>>
    BY <1>1 DEF head, ringVars, drainVars
  <2>2. QED BY <2>1 DEF StateInv, CursorKnown
<1>13. QueueTyped' /\ HistoryKept' /\ Counted'
  BY <1>1, <1>2, <1>6 DEF StateInv, QueueTyped, HistoryKept, Counted, ringVars
<1>14. QED
  BY <1>7, <1>8, <1>10, <1>11, <1>12, <1>13 DEF StateInv

-----------------------------------------------------------------------------
\* A thread that is elsewhere calls drain_ring, or goes on without.
LEMMA CallStarts ==
  ASSUME StateInv, NEW t \in Thread, NEW call \in DrainCall,
         call.at \in {"no", "begin"}, call.batch = <<>>,
         call.kind = "frame" => ~Eager, call.kind = "shadow" => Eager,
         drain[t].at = "no", origin # -1, drain' = [drain EXCEPT ![t] = call]
  PROVE  /\ drain' \in [Thread -> DrainCall] /\ drain'[t] = call
         /\ \A s \in Thread : s # t => drain'[s] = drain[s]
         /\ \A s \in Thread :
              \/ drain'[s] = drain[s]
              \/ /\ drain[s].at = "no" /\ drain'[s].at \in {"no", "begin"}
                 /\ drain'[s].batch = <<>> /\ origin # -1
                 /\ drain'[s].kind = "frame" => ~Eager
                 /\ drain'[s].kind = "shadow" => Eager
<1>1. drain \in [Thread -> DrainCall]
  BY DEF StateInv, ThreadsTyped
<1>2. drain' \in [Thread -> DrainCall] /\ drain'[t] = call
      /\ \A s \in Thread : s # t => drain'[s] = drain[s]
  BY <1>1
<1>3. QED BY <1>2

LEMMA CallIs ==
  ASSUME NEW kind \in {"frame", "shadow", "ack"}, NEW ack \in BOOLEAN
  PROVE  /\ Call(kind, ack) \in DrainCall /\ Call(kind, ack).at = "begin"
         /\ Call(kind, ack).kind = kind /\ Call(kind, ack).batch = <<>>
  BY EmptySeq DEF Call, DrainCall

LEMMA IdleIs ==
  Idle \in DrainCall /\ Idle.at = "no" /\ Idle.kind = "ack" /\ Idle.batch = <<>>
  BY EmptySeq DEF Idle, DrainCall

-----------------------------------------------------------------------------
\* The ingress thread's turns.
LEMMA IngressStep ==
  ASSUME StateInv, IngressCheck \/ IngressPoll \/ IngressUrgent \/ IngressReceiveOver
  PROVE  StateInv'
<1>1. /\ UNCHANGED <<ringVars, bridgeVars, toBridge, toClient, main, step, stop,
                     clientGeneration, mutex, origin, localTail, lastAcked, inbox, pending,
                     last, gaps, reordered, used>>
      /\ ingress \in {"check", "poll", "recv", "recvLast"}
      /\ ingress' \in {"check", "poll", "recv", "recvLast", "done"}
      /\ ingress' \in {"recv", "recvLast"} => Eager
      /\ urgent' \in {urgent, FALSE}
      /\ terminalSeen' = terminalSeen \/ IngressReceiveOver
      /\ drain' = drain \/ IngressUrgent
  <2>1. CASE IngressCheck
    BY <2>1 DEF IngressCheck, socketVars, drainVars, queueVars
  <2>2. CASE IngressPoll
    BY <2>2 DEF IngressPoll, socketVars, drainVars, queueVars
  <2>3. CASE IngressUrgent
    BY <2>3 DEF IngressUrgent, queueVars
  <2>4. CASE IngressReceiveOver
    BY <2>4 DEF IngressReceiveOver, ReceiveOver, ReceivesHere, socketVars, drainVars, queueVars
  <2>5. QED BY <2>1, <2>2, <2>3, <2>4
<1>2. origin # -1 /\ main' \notin Before /\ main' = main
  BY <1>1 DEF StateInv, JoinKnown
<1>3. /\ drain' \in [Thread -> DrainCall] /\ drain'["main"] = drain["main"]
      /\ \A s \in Thread :
           \/ drain'[s] = drain[s]
           \/ /\ drain[s].at = "no" /\ drain'[s].at \in {"no", "begin"}
              /\ drain'[s].batch = <<>> /\ origin # -1
              /\ drain'[s].kind = "frame" => ~Eager
              /\ drain'[s].kind = "shadow" => Eager
  <2>1. CASE drain' = drain
    BY <2>1 DEF StateInv, ThreadsTyped
  <2>2. CASE IngressUrgent
    <3>1. /\ ~Eager /\ drain["ingress"].at = "no"
          /\ drain' = [drain EXCEPT !["ingress"] = Call("frame", TRUE)]
      BY <2>2 DEF IngressUrgent, IngressFree
    <3>2. PICK call \in DrainCall :
            call = Call("frame", TRUE) /\ call.at = "begin" /\ call.kind = "frame"
            /\ call.batch = <<>>
      BY CallIs
    <3>3. "ingress" \in Thread /\ "main" \in Thread /\ "main" # "ingress"
      BY DEF Thread
    <3>4. QED BY <1>2, <3>1, <3>2, <3>3, CallStarts
  <2>3. QED BY <1>1, <2>1, <2>2
<1>4. urgent' \in BOOLEAN
  BY <1>1 DEF StateInv, BridgeKnown
<1>5. ToBridgeKnown' /\ ToClientKnown'
  BY <1>1, ToBridgeKept, ToClientKept DEF ringVars, bridgeVars
<1>6. ThreadsTyped'
  <2>1. terminalSeen' \in BOOLEAN
    <3>1. CASE IngressReceiveOver
      BY <3>1 DEF IngressReceiveOver, ReceiveOver
    <3>2. QED BY <1>1, <3>1 DEF StateInv, ThreadsTyped
  <2>2. QED BY <1>1, <1>3, <2>1 DEF StateInv, ThreadsTyped
<1>7. main' \in {"joinIngress", "recv", "finalRecv"} => drain'["main"].at = "no"
  BY <1>2, <1>3 DEF StateInv, ThreadsKnown
<1>8. ~Eager => main' \notin {"recv", "finalRecv"} /\ ingress' \notin {"recv", "recvLast"}
  BY <1>1, <1>2 DEF StateInv, ThreadsKnown
<1>9. QED
  BY <1>1, <1>2, <1>3, <1>4, <1>5, <1>6, <1>7, <1>8, FlowStep

-----------------------------------------------------------------------------
\* A step of a frame: what its plan says.
LEMMA FrameStepKeeps ==
  ASSUME StateInv, FrameStep
  PROVE  StateInv'
<1>1. /\ drain["main"].at = "no" /\ main = "frame"
      /\ \/ step = Len(Plan) /\ step' = 1 /\ main' = "idle"
         \/ step # Len(Plan) /\ step' = step + 1 /\ main' = main
      /\ \/ UNCHANGED <<used, pending>>
         \/ used' = used \o pending /\ pending' = <<>>
      /\ UNCHANGED <<ringVars, bridgeVars, socketVars, ingress, stop, terminalSeen,
                     clientGeneration, mutex, origin, localTail, lastAcked, inbox, last,
                     gaps, reordered>>
  BY DEF FrameStep, MainFree
<1>2. origin # -1 /\ main' \notin Before
  BY <1>1 DEF StateInv, JoinKnown, Before
<1>3. step \in 1 .. Len(Plan) /\ step' \in 1 .. Len(Plan)
  <2>1. step \in 1 .. Len(Plan) /\ Len(Plan) \in Nat \ {0}
    BY PlanIs DEF StateInv, ThreadsTyped
  <2>2. QED BY <1>1, <2>1
<1>4. PICK call \in DrainCall :
        /\ drain' = [drain EXCEPT !["main"] = call]
        /\ call.at \in {"no", "begin"} /\ call.batch = <<>>
        /\ call.kind = "frame" => ~Eager
        /\ call.kind = "shadow" => Eager
  <2> DEFINE what == Plan[step]
  <2>1. \/ what \in {"drain", "drainAck", "shadow"}
        \/ what \notin {"drain", "drainAck", "shadow"}
    OBVIOUS
  <2>2. drain' = [drain EXCEPT !["main"] =
                   CASE what = "drain"    -> Call("frame", FALSE)
                     [] what = "drainAck" -> Call("frame", Critical)
                     [] what = "shadow"   -> Call("shadow", TRUE)
                     [] AcksNow(what)     -> Call("ack", TRUE)
                     [] OTHER             -> Idle]
    BY DEF FrameStep
  <2>3. (what \in {"drain", "drainAck"} => ~Eager) /\ (what = "shadow" => Eager)
    BY <1>3, PlanIs
  <2>4. \/ what = "drain" /\ drain' = [drain EXCEPT !["main"] = Call("frame", FALSE)]
        \/ what = "drainAck" /\ drain' = [drain EXCEPT !["main"] = Call("frame", Critical)]
        \/ what = "shadow" /\ drain' = [drain EXCEPT !["main"] = Call("shadow", TRUE)]
        \/ drain' = [drain EXCEPT !["main"] = Call("ack", TRUE)]
        \/ drain' = [drain EXCEPT !["main"] = Idle]
    <3>1. CASE what = "drain"
      <4>1. ~AcksNow(what)
        BY <3>1 DEF AcksNow
      <4>2. QED BY <2>2, <3>1, <4>1
    <3>2. CASE what = "drainAck"
      <4>1. ~AcksNow(what)
        BY <3>2 DEF AcksNow
      <4>2. QED BY <2>2, <3>2, <4>1
    <3>3. CASE what = "shadow"
      <4>1. ~AcksNow(what)
        BY <3>3 DEF AcksNow
      <4>2. QED BY <2>2, <3>3, <4>1
    <3>4. CASE what \notin {"drain", "drainAck", "shadow"} /\ AcksNow(what)
      BY <2>2, <3>4
    <3>5. CASE what \notin {"drain", "drainAck", "shadow"} /\ ~AcksNow(what)
      BY <2>2, <3>5
    <3>6. QED BY <2>1, <3>1, <3>2, <3>3, <3>4, <3>5
  <2>5. Critical \in BOOLEAN
    BY DEF Critical
  <2>6. CASE what = "drain" /\ drain' = [drain EXCEPT !["main"] = Call("frame", FALSE)]
    BY <2>3, <2>6, CallIs
  <2>7. CASE what = "drainAck" /\ drain' = [drain EXCEPT !["main"] = Call("frame", Critical)]
    BY <2>3, <2>5, <2>7, CallIs
  <2>8. CASE what = "shadow" /\ drain' = [drain EXCEPT !["main"] = Call("shadow", TRUE)]
    BY <2>3, <2>8, CallIs
  <2>9. CASE drain' = [drain EXCEPT !["main"] = Call("ack", TRUE)]
    BY <2>9, CallIs
  <2>10. CASE drain' = [drain EXCEPT !["main"] = Idle]
    BY <2>10, IdleIs
  <2>11. QED BY <2>4, <2>6, <2>7, <2>8, <2>9, <2>10
<1>5. "main" \in Thread
  BY DEF Thread
<1>6. /\ drain' \in [Thread -> DrainCall]
      /\ \A s \in Thread :
           \/ drain'[s] = drain[s]
           \/ /\ drain[s].at = "no" /\ drain'[s].at \in {"no", "begin"}
              /\ drain'[s].batch = <<>> /\ origin # -1
              /\ drain'[s].kind = "frame" => ~Eager
              /\ drain'[s].kind = "shadow" => Eager
  BY <1>1, <1>2, <1>4, <1>5, CallStarts
<1>7. urgent' \in BOOLEAN
  BY <1>1 DEF StateInv, BridgeKnown, socketVars
<1>8. ToBridgeKnown' /\ ToClientKnown'
  BY <1>1, ToBridgeKept, ToClientKept DEF ringVars, bridgeVars, socketVars
<1>9. ThreadsTyped'
  BY <1>1, <1>3, <1>6 DEF StateInv, ThreadsTyped
<1>10. main' \notin {"joinIngress", "recv", "finalRecv"} /\ ingress' = ingress
  BY <1>1
<1>11. ~Eager => main' \notin {"recv", "finalRecv"} /\ ingress' \notin {"recv", "recvLast"}
  BY <1>10 DEF StateInv, ThreadsKnown
<1>12. UNCHANGED <<ringVars, bridgeVars, mutex, origin, localTail, lastAcked, inbox, last,
                   gaps, reordered>>
  BY <1>1
<1>13. QED
  BY <1>1, <1>2, <1>6, <1>7, <1>8, <1>9, <1>10, <1>11, <1>12, FlowStep

\* The main thread outside its frames: between two of them, and at its shutdown.
MainTurn ==
  StartFrame \/ LeaveFrames \/ ShutdownTurn \/ StopIngress \/ JoinIngress
    \/ MainReceiveOver \/ Exit

LEMMA MainStep ==
  ASSUME StateInv, MainTurn
  PROVE  StateInv'
<1>1. /\ UNCHANGED <<ringVars, bridgeVars, toClient, step, ingress, clientGeneration, mutex,
                     origin, localTail, lastAcked, inbox, pending, last, gaps, reordered, used>>
      /\ main \in {"idle", "shutdown", "joinIngress", "recv", "finalRecv", "final"}
      /\ main' \in {"frame", "shutdown", "recv", "joinIngress", "finalRecv", "final", "exit"}
      /\ drain["main"].at = "no"
      /\ main' \in {"recv", "finalRecv"} => Eager
      /\ urgent' \in {urgent, TRUE} /\ stop' \in {stop, TRUE}
      /\ terminalSeen' = terminalSeen \/ MainReceiveOver
      /\ toBridge' = toBridge \/ LeaveFrames
  <2>1. CASE StartFrame
    BY <2>1 DEF StartFrame, MainFree, socketVars, drainVars, queueVars
  <2>2. CASE LeaveFrames
    BY <2>2 DEF LeaveFrames, MainFree, drainVars, queueVars
  <2>3. CASE ShutdownTurn
    BY <2>3 DEF ShutdownTurn, MainFree, socketVars, queueVars
  <2>4. CASE StopIngress
    BY <2>4 DEF StopIngress, MainFree, drainVars, queueVars
  <2>5. CASE JoinIngress
    <3>1. drain["main"].at = "no"
      BY <2>5 DEF JoinIngress, StateInv, ThreadsKnown
    <3>2. QED BY <2>5, <3>1 DEF JoinIngress, socketVars, queueVars
  <2>6. CASE MainReceiveOver
    <3>1. main \in {"recv", "finalRecv"}
      BY <2>6 DEF MainReceiveOver, ReceiveOver, ReceivesHere
    <3>2. drain["main"].at = "no"
      BY <3>1 DEF StateInv, ThreadsKnown
    <3>3. QED BY <2>6, <3>1, <3>2 DEF MainReceiveOver, socketVars, queueVars
  <2>7. CASE Exit
    BY <2>7 DEF Exit, MainFree, socketVars, drainVars, queueVars
  <2>8. QED BY <2>1, <2>2, <2>3, <2>4, <2>5, <2>6, <2>7 DEF MainTurn
<1>2. origin # -1 /\ main' \notin Before
  BY <1>1 DEF StateInv, JoinKnown, Before
<1>3. \/ drain' = drain
      \/ /\ \/ drain' = [drain EXCEPT !["main"] = Call("frame", TRUE)] /\ ~Eager
            \/ drain' = [drain EXCEPT !["main"] = Call("shadow", TRUE)] /\ Eager
         /\ main' \notin {"joinIngress", "recv", "finalRecv"}
  <2>1. CASE ShutdownTurn
    BY <2>1 DEF ShutdownTurn
  <2>2. CASE JoinIngress
    BY <2>2 DEF JoinIngress
  <2>3. CASE MainReceiveOver
    <3>1. main \in {"recv", "finalRecv"}
      BY <2>3 DEF MainReceiveOver, ReceiveOver, ReceivesHere
    <3>2. Eager
      BY <3>1 DEF StateInv, ThreadsKnown
    <3>3. QED BY <2>3, <3>2 DEF MainReceiveOver
  <2>4. CASE StartFrame \/ LeaveFrames \/ StopIngress \/ Exit
    BY <2>4 DEF StartFrame, LeaveFrames, StopIngress, Exit, drainVars
  <2>5. QED BY <2>1, <2>2, <2>3, <2>4 DEF MainTurn
<1>4. /\ drain' \in [Thread -> DrainCall]
      /\ \A s \in Thread :
           \/ drain'[s] = drain[s]
           \/ /\ drain[s].at = "no" /\ drain'[s].at \in {"no", "begin"}
              /\ drain'[s].batch = <<>> /\ origin # -1
              /\ drain'[s].kind = "frame" => ~Eager
              /\ drain'[s].kind = "shadow" => Eager
  <2>1. "main" \in Thread
    BY DEF Thread
  <2>2. CASE drain' = drain
    BY <2>2 DEF StateInv, ThreadsTyped
  <2>3. CASE drain' = [drain EXCEPT !["main"] = Call("frame", TRUE)] /\ ~Eager
    <3>1. PICK call \in DrainCall : /\ call = Call("frame", TRUE) /\ call.at = "begin"
                                    /\ call.kind = "frame" /\ call.batch = <<>>
      BY CallIs
    <3>2. QED BY <1>1, <1>2, <2>1, <2>3, <3>1, CallStarts
  <2>4. CASE drain' = [drain EXCEPT !["main"] = Call("shadow", TRUE)] /\ Eager
    <3>1. PICK call \in DrainCall : /\ call = Call("shadow", TRUE) /\ call.at = "begin"
                                    /\ call.kind = "shadow" /\ call.batch = <<>>
      BY CallIs
    <3>2. QED BY <1>1, <1>2, <2>1, <2>4, <3>1, CallStarts
  <2>5. QED BY <1>3, <2>2, <2>3, <2>4
<1>5. urgent' \in BOOLEAN
  BY <1>1 DEF StateInv, BridgeKnown
<1>6. ToClientKnown'
  BY <1>1, ToClientKept DEF ringVars, bridgeVars
<1>7. ToBridgeKnown'
  <2>1. tail' = tail /\ lastAcked' = lastAcked
    BY <1>1 DEF ringVars
  <2>2. CASE toBridge' = toBridge
    BY <2>1, <2>2, ToBridgeKept
  <2>3. CASE toBridge' # toBridge
    <3>1. toBridge' = Append(toBridge, [type |-> "STOP"]) /\ Len(toBridge) < SocketLimit
      BY <1>1, <2>3 DEF LeaveFrames, CanSend, ToBridge
    <3>2. PICK message \in ToBridgeMessage : message = [type |-> "STOP"] /\ message.type # "ACK"
      <4>1. [type |-> "STOP"] \in ToBridgeMessage /\ [type |-> "STOP"].type # "ACK"
        BY DEF ToBridgeMessage
      <4>2. QED BY <4>1
    <3>3. lastAcked \in Nat /\ lastAcked' \in Nat /\ lastAcked <= lastAcked'
      BY <2>1 DEF StateInv, CursorKnown, head
    <3>4. QED BY <2>1, <3>1, <3>2, <3>3, MessageSent
  <2>4. QED BY <2>2, <2>3
<1>8. ThreadsTyped'
  <2>1. terminalSeen' \in BOOLEAN
    <3>1. CASE MainReceiveOver
      BY <3>1 DEF MainReceiveOver, ReceiveOver
    <3>2. QED BY <1>1, <3>1 DEF StateInv, ThreadsTyped
  <2>2. QED BY <1>1, <1>4, <2>1 DEF StateInv, ThreadsTyped
<1>9. main' \in {"joinIngress", "recv", "finalRecv"} => drain'["main"].at = "no"
  BY <1>1, <1>3
<1>10. ~Eager => main' \notin {"recv", "finalRecv"} /\ ingress' \notin {"recv", "recvLast"}
  BY <1>1 DEF StateInv, ThreadsKnown
<1>11. QED
  BY <1>1, <1>2, <1>4, <1>5, <1>6, <1>7, <1>8, <1>9, <1>10, FlowStep

-----------------------------------------------------------------------------
\* The two programs share nothing but the socket, the eventfd and the ring.
LEMMA BridgeLeaves ==
  ASSUME Bridge
  PROVE  UNCHANGED clientVars
<1>1. CASE \E kind \in {"motion", "button"} : Observe(kind)
  BY <1>1 DEF Observe
<1>2. CASE DeviceGone \/ HandleBarrier \/ HandleControl \/ Reconnect
  BY <1>2 DEF DeviceGone, HandleBarrier, HandleControl, Reconnect
<1>3. CASE LeaveLoop \/ BridgeStops \/ PublishTerminal \/ WaitAckMessage \/ WaitAckOver
  BY <1>3 DEF LeaveLoop, BridgeStops, PublishTerminal, WaitAckMessage, WaitAckOver
<1>4. QED BY <1>1, <1>2, <1>3 DEF Bridge, BridgeControl

LEMMA InitTally ==
  ASSUME Init
  PROVE  TallyKnown
<1>1. Fresh \in [at : {"load", "store", "push"}, last : Nat, gaps : Nat, reordered : Nat]
      /\ Fresh.at = "load"
  BY DEF Fresh
<1>2. QED BY <1>1 DEF Init, TallyKnown

\* Only a thread that holds a record loads the statistics and stores them.
LEMMA TallyStep ==
  ASSUME StateInv, TallyKnown, [Next]_vars
  PROVE  TallyKnown'
<1> DEFINE Tally == [at : {"load", "store", "push"}, last : Nat, gaps : Nat, reordered : Nat]
<1>1. tally \in [Thread -> Tally] /\ inbox \in [Thread -> Seq(ToClientMessage)]
      /\ Fresh \in Tally /\ Fresh.at = "load"
  BY DEF StateInv, ToClientKnown, TallyKnown, Fresh
<1>2. CASE UNCHANGED <<inbox, tally>>
  BY <1>2 DEF TallyKnown, Holds
<1>3. ASSUME NEW t \in Thread, NEW call \in Tally, tally' = [tally EXCEPT ![t] = call],
             inbox' = inbox \/ (inbox' = [inbox EXCEPT ![t] = <<>>] /\ call.at = "load"),
             call.at # "load" => Holds(t, "EAGER")
      PROVE  TallyKnown'
  <2>1. tally' \in [Thread -> Tally] /\ tally'[t] = call
        /\ \A s \in Thread : s # t => tally'[s] = tally[s] /\ inbox'[s] = inbox[s]
    BY <1>1, <1>3
  <2>2. ASSUME NEW s \in Thread, tally'[s].at # "load"
        PROVE  Holds(s, "EAGER") /\ inbox'[s] = inbox[s]
    BY <1>3, <2>1, <2>2 DEF TallyKnown
  <2>3. QED BY <2>1, <2>2 DEF TallyKnown, Holds
<1>4. ASSUME NEW t \in Thread, Receive(t)
      PROVE  TallyKnown'
  <2>1. inbox[t] = <<>> /\ tally' = tally /\ \A s \in Thread : s # t => inbox'[s] = inbox[s]
    BY <1>1, <1>4 DEF Receive
  <2>2. tally[t].at = "load"
    BY <2>1 DEF TallyKnown, Holds
  <2>3. QED BY <2>1, <2>2 DEF TallyKnown, Holds
<1>5. ASSUME NEW t \in Thread, Process(t)
      PROVE  TallyKnown'
  <2>1. CASE AccountLoad(t)
    <3>1. PICK call \in Tally : call = [at |-> "store", last |-> last, gaps |-> gaps,
                                        reordered |-> reordered]
      <4>1. last \in Nat /\ gaps \in Nat /\ reordered \in Nat
        BY DEF StateInv, QueueTyped
      <4>2. [at |-> "store", last |-> last, gaps |-> gaps, reordered |-> reordered] \in Tally
        BY <4>1
      <4>3. QED BY <4>2
    <3>2. tally' = [tally EXCEPT ![t] = call] /\ inbox' = inbox /\ Holds(t, "EAGER")
      BY <2>1, <3>1 DEF AccountLoad
    <3>3. QED BY <1>3, <3>2
  <2>2. CASE AccountStore(t)
    <3>1. PICK call \in Tally : call = [Fresh EXCEPT !.at = "push"]
      BY DEF Fresh
    <3>2. tally' = [tally EXCEPT ![t] = call] /\ inbox' = inbox /\ Holds(t, "EAGER")
      BY <2>2, <3>1 DEF AccountStore, TallyKnown
    <3>3. QED BY <1>3, <3>2
  <2>3. CASE PushRecord(t)
    <3>1. tally' = [tally EXCEPT ![t] = Fresh] /\ inbox' = [inbox EXCEPT ![t] = <<>>]
      BY <2>3 DEF PushRecord
    <3>2. QED BY <1>1, <1>3, <3>1
  <2>4. CASE TakeGeneration(t)
    <3>1. Holds(t, "DEVICE_STATE") /\ inbox' = [inbox EXCEPT ![t] = <<>>] /\ tally' = tally
      BY <2>4 DEF TakeGeneration
    <3>2. tally[t].at = "load"
      BY <3>1 DEF TallyKnown, Holds
    <3>3. tally' = [tally EXCEPT ![t] = tally[t]]
      BY <1>1, <3>1
    <3>4. QED BY <1>1, <1>3, <3>1, <3>2, <3>3
  <2>5. QED BY <1>5, <2>1, <2>2, <2>3, <2>4 DEF Process
<1>6. ASSUME NEW t \in Thread, DrainStep(t)
      PROVE  UNCHANGED <<inbox, tally>>
  BY <1>6 DEF DrainStep, DrainBegin, DrainRead, DrainAccount, DrainEnd, queueVars
<1>7. "main" \in Thread /\ "ingress" \in Thread
  BY DEF Thread
<1>8. CASE Bridge \/ UNCHANGED vars
  <2>1. UNCHANGED clientVars
    BY <1>8, BridgeLeaves DEF vars
  <2>2. QED BY <1>2, <2>1 DEF clientVars, queueVars
<1>9. CASE Ingress
  <2>1. CASE IngressCheck \/ IngressPoll \/ IngressUrgent \/ IngressReceiveOver
    BY <1>2, <2>1 DEF IngressCheck, IngressPoll, IngressUrgent, IngressReceiveOver, queueVars
  <2>2. QED BY <1>2, <1>4, <1>5, <1>6, <1>7, <1>9, <2>1 DEF Ingress
<1>10. CASE Main
  <2>1. CASE SendSetup \/ ReceiveStarted \/ JoinRing \/ FrameStep
    BY <1>2, <2>1 DEF SendSetup, ReceiveStarted, JoinRing, FrameStep, queueVars
  <2>2. CASE MainTurn
    BY <1>2, <2>2 DEF MainTurn, StartFrame, LeaveFrames, ShutdownTurn, StopIngress, JoinIngress,
                      MainReceiveOver, Exit, queueVars
  <2>3. QED BY <1>2, <1>4, <1>5, <1>6, <1>7, <1>10, <2>1, <2>2 DEF Main, MainTurn
<1>11. QED BY <1>8, <1>9, <1>10 DEF Next, Over

LEMMA NextStateInv ==
  ASSUME StateInv, TallyKnown, [Next]_vars
  PROVE  StateInv'
<1>1. CASE Bridge
  <2>1. CASE \E kind \in {"motion", "button"} : Observe(kind)
    BY <2>1, ObserveStep
  <2>2. CASE DeviceGone \/ Reconnect
    BY <2>2, DeviceStep
  <2>3. CASE HandleBarrier \/ HandleControl \/ LeaveLoop \/ BridgeStops \/ PublishTerminal
             \/ WaitAckMessage \/ WaitAckOver
    BY <2>3, HandleBarrierStep, HandleControlStep, LeaveLoopStep, PublishTerminalStep,
       WaitAckMessageStep, WaitAckOverStep
  <2>4. QED BY <1>1, <2>1, <2>2, <2>3 DEF Bridge, BridgeControl
<1>2. ASSUME NEW t \in Thread, Receive(t) \/ Process(t) \/ DrainStep(t)
      PROVE  StateInv'
  BY <1>2, ReceiveStep, ProcessStep, DrainStepKeeps
<1>3. "main" \in Thread /\ "ingress" \in Thread
  BY DEF Thread
<1>4. CASE Ingress
  BY <1>2, <1>3, <1>4, IngressStep DEF Ingress
<1>5. CASE Main
  BY <1>2, <1>3, <1>5, SetupStep, JoinRingStep, FrameStepKeeps, MainStep DEF Main, MainTurn
<1>6. CASE UNCHANGED vars
  <2>1. UNCHANGED <<ringVars, bridgeVars, socketVars, clientVars>>
    BY <1>6 DEF vars
  <2>2. RingKnown' /\ BridgeKnown'
    BY <2>1, BridgeUntouched DEF StateInv, BridgeKnown, socketVars
  <2>3. ToBridgeKnown' /\ ToClientKnown'
    BY <2>1, ToBridgeKept, ToClientKept
       DEF ringVars, bridgeVars, socketVars, clientVars, flowVars, drainVars, queueVars
  <2>4. Extended
    BY <2>1, BoundsAre
       DEF Extended, StateInv, RingKnown, BridgeKnown, head, ringVars, bridgeVars
  <2>5. QED BY <2>1, <2>2, <2>3, <2>4, ClientUntouched DEF StateInv
<1>7. QED BY <1>1, <1>4, <1>5, <1>6 DEF Next, Over

\* SessionInv holds of every reachable state.
THEOREM SessionInvariant == Spec => []SessionInv
<1>1. Init => SessionInv
  BY InitSession, InitTally DEF SessionInv
<1>2. SessionInv /\ [Next]_vars => SessionInv'
  BY NextStateInv, TallyStep DEF SessionInv
<1>3. QED BY <1>1, <1>2, PTL DEF Spec

LEMMA StateInvariant == Spec => []StateInv
<1>1. SessionInv => StateInv
  BY DEF SessionInv
<1>2. QED BY <1>1, SessionInvariant, PTL

-----------------------------------------------------------------------------
\* What is on its way and what each thread is doing is of its type, and the counts are
\* within their limits: the ring within its capacity, the cursor within the ring, the
\* acknowledgement within the cursor.
THEOREM SessionTypeCorrect == Spec => []TypeOK
<1>1. SessionInv => TypeOK
  BY DEF SessionInv, StateInv, TallyKnown, RingKnown, BridgeKnown, ToBridgeKnown, ToClientKnown,
         ThreadsTyped, CursorKnown, QueueTyped, DrainCall, TypeOK
<1>2. QED BY <1>1, SessionInvariant, PTL

\* Although both threads acknowledge, the bridge gets their acknowledgements in order,
\* none behind its tail and none ahead of what was copied (send_ack_if_needed).
THEOREM AcksReachBridgeInOrder == Spec => []AcksInOrder
<1>1. StateInv => AcksInOrder
  <2>1. SUFFICES ASSUME StateInv, NEW i \in 1 .. Len(toBridge), toBridge[i].type = "ACK"
                 PROVE  /\ toBridge[i].consumed \in tail .. localTail
                        /\ \A j \in 1 .. i : toBridge[j].type = "ACK" =>
                             toBridge[j].consumed <= toBridge[i].consumed
    BY DEF AcksInOrder
  <2>2. toBridge[i] \in ToBridgeMessage
    BY <2>1, ElementOfSeq DEF StateInv, ToBridgeKnown
  <2>3. toBridge[i].consumed \in Nat
    BY <2>1, <2>2, SequenceIsNat DEF ToBridgeMessage
  <2>4. /\ tail <= toBridge[i].consumed /\ toBridge[i].consumed <= lastAcked
        /\ \A j \in 1 .. i :
             toBridge[j].type = "ACK" => toBridge[j].consumed <= toBridge[i].consumed
    BY <2>1 DEF StateInv, ToBridgeKnown
  <2>5. lastAcked \in 0 .. localTail /\ localTail \in Nat /\ tail \in Nat
    BY <2>1 DEF StateInv, CursorKnown, RingKnown, head
  <2>6. toBridge[i].consumed \in tail .. localTail
    <3>1. PICK number \in Nat : number = toBridge[i].consumed
      BY <2>3
    <3>2. tail <= number /\ number <= lastAcked
      BY <2>4, <3>1
    <3>3. number \in tail .. localTail
      BY <2>5, <3>2
    <3>4. QED BY <3>1, <3>3
  <2>7. QED BY <2>4, <2>6
<1>2. QED BY <1>1, StateInvariant, PTL

-----------------------------------------------------------------------------
\* At most one thread has a batch in its hands, which ends where the cursor is.
LEMMA CopiedIs ==
  ASSUME StateInv
  PROVE  /\ Copied \in Seq(Sequence)
         /\ Len(Copied) = Len(drain["main"].batch) + Len(drain["ingress"].batch)
         /\ \A i \in 1 .. Len(Copied) : Copied[i] = log[localTail - Len(Copied) + i]
<1>1. "main" \in Thread /\ "ingress" \in Thread /\ "main" # "ingress"
  BY DEF Thread
<1>2. PICK a \in Seq(Sequence), b \in Seq(Sequence) :
        a = drain["main"].batch /\ b = drain["ingress"].batch
  BY <1>1, BatchIs
<1>3. Copied = a \o b
  BY <1>2 DEF Copied
<1>4. /\ \A i \in 1 .. Len(a) : a[i] = log[localTail - Len(a) + i]
      /\ \A i \in 1 .. Len(b) : b[i] = log[localTail - Len(b) + i]
  BY <1>1, <1>2, BatchIs
<1>5. a = <<>> \/ b = <<>>
  <2>1. a # <<>> => mutex = "main"
    BY <1>1, <1>2 DEF StateInv, ThreadsKnown
  <2>2. b # <<>> => mutex = "ingress"
    BY <1>1, <1>2 DEF StateInv, ThreadsKnown
  <2>3. QED BY <1>1, <2>1, <2>2
<1>6. Len(a) \in Nat /\ Len(b) \in Nat
  OBVIOUS
<1>7. CASE a = <<>>
  <2>1. Copied = b /\ Len(a) = 0
    BY <1>3, <1>7, ConcatEmptySeq, EmptySeq
  <2>2. QED BY <1>2, <1>4, <1>6, <2>1
<1>8. CASE b = <<>>
  <2>1. Copied = a /\ Len(b) = 0
    BY <1>3, <1>8, ConcatEmptySeq, EmptySeq
  <2>2. QED BY <1>2, <1>4, <1>6, <2>1
<1>9. QED BY <1>5, <1>7, <1>8

\* The frames take the published history in order, each record once: what they took,
\* what is queued and what is being queued is what the cursor has passed, although two
\* threads drain the ring (drain_ring, and the queue it shares with the frames).
THEOREM FramesTakeTheHistory == Spec => []QueueKeepsHistory
<1>1. StateInv => QueueKeepsHistory
  <2>1. SUFFICES ASSUME StateInv, ~Eager
                 PROVE  used \o pending \o Copied = Drained
    BY DEF QueueKeepsHistory
  <2>2. /\ used \in Seq(Sequence) /\ pending \in Seq(Sequence) /\ Copied \in Seq(Sequence)
        /\ Len(used) \in Nat /\ Len(pending) \in Nat /\ Len(Copied) \in Nat
        /\ Len(Copied) = Len(drain["main"].batch) + Len(drain["ingress"].batch)
        /\ \A i \in 1 .. Len(Copied) : Copied[i] = log[localTail - Len(Copied) + i]
    <3>1. /\ Copied \in Seq(Sequence)
          /\ Len(Copied) = Len(drain["main"].batch) + Len(drain["ingress"].batch)
          /\ \A i \in 1 .. Len(Copied) : Copied[i] = log[localTail - Len(Copied) + i]
      BY <2>1, CopiedIs
    <3>2. Len(Copied) \in Nat
      <4>1. \A s \in Seq(Sequence) : Len(s) \in Nat
        OBVIOUS
      <4>2. QED BY <3>1, <4>1, Zenon
    <3>3. /\ used \in Seq(Sequence) /\ pending \in Seq(Sequence)
          /\ Len(used) \in Nat /\ Len(pending) \in Nat
      BY <2>1 DEF StateInv, QueueTyped
    <3>4. QED BY <3>1, <3>2, <3>3
  <2>3. CASE origin = -1
    <3>1. used = <<>> /\ pending = <<>>
      BY <2>1, <2>3 DEF StateInv, JoinKnown
    <3>2. drain["main"].batch = <<>> /\ drain["ingress"].batch = <<>>
      BY <2>1, <2>3 DEF StateInv, JoinKnown, ThreadsKnown, Thread
    <3>3. <<>> \o <<>> = <<>>
      BY EmptySeq, ConcatEmptySeq
    <3>4. QED BY <2>3, <3>1, <3>2, <3>3 DEF Copied, Drained
  <2>4. CASE origin # -1
    <3>1. /\ origin \in Nat /\ localTail \in Nat /\ origin <= localTail
          /\ localTail <= Len(log) /\ log \in Seq(Sequence)
      BY <2>1, <2>4 DEF StateInv, CursorKnown, RingKnown, head
    <3>2. /\ Len(used) + Len(pending) + Len(drain["main"].batch) + Len(drain["ingress"].batch)
               = localTail - origin
          /\ \A i \in 1 .. Len(used) : used[i] = log[origin + i]
          /\ \A i \in 1 .. Len(pending) : pending[i] = log[origin + Len(used) + i]
      BY <2>1, <2>4 DEF StateInv, HistoryKept
    <3>3. PICK u \in Nat, p \in Nat, c \in Nat :
            u = Len(used) /\ p = Len(pending) /\ c = Len(Copied)
      BY <2>2
    <3>4. u + p + c = localTail - origin
      <4>1. PICK a \in Nat, b \in Nat :
              a = Len(drain["main"].batch) /\ b = Len(drain["ingress"].batch)
        <5>1. \A t \in Thread : Len(drain[t].batch) \in Nat
          BY <2>1, BatchIs
        <5>2. QED BY <5>1 DEF Thread
      <4>2. u + p + a + b = localTail - origin /\ c = a + b
        BY <2>2, <3>2, <3>3, <4>1
      <4>3. QED BY <4>2
    <3>5. PICK taken \in Seq(Sequence) :
            /\ taken = used \o pending /\ Len(taken) = u + p
            /\ \A i \in 1 .. u : taken[i] = used[i]
            /\ \A i \in u + 1 .. u + p : taken[i] = pending[i - u]
      <4>1. /\ used \o pending \in Seq(Sequence) /\ Len(used \o pending) = Len(used) + Len(pending)
            /\ \A i \in 1 .. Len(used) + Len(pending) :
                 (used \o pending)[i] = IF i <= Len(used) THEN used[i]
                                                         ELSE pending[i - Len(used)]
        BY <2>2, ConcatProperties
      <4>2. PICK taken \in Seq(Sequence) : taken = used \o pending
        BY <4>1
      <4>3. /\ Len(taken) = u + p
            /\ \A i \in 1 .. u + p : taken[i] = IF i <= u THEN used[i] ELSE pending[i - u]
        BY <3>3, <4>1, <4>2
      <4>4. (\A i \in 1 .. u : taken[i] = used[i])
            /\ (\A i \in u + 1 .. u + p : taken[i] = pending[i - u])
        BY <4>3
      <4>5. QED BY <4>2, <4>3, <4>4
    <3>6. PICK all \in Seq(Sequence) :
            /\ all = taken \o Copied /\ Len(all) = u + p + c
            /\ \A i \in 1 .. u + p : all[i] = taken[i]
            /\ \A i \in u + p + 1 .. u + p + c : all[i] = Copied[i - (u + p)]
      <4>1. /\ taken \o Copied \in Seq(Sequence) /\ Len(taken \o Copied) = Len(taken) + Len(Copied)
            /\ \A i \in 1 .. Len(taken) + Len(Copied) :
                 (taken \o Copied)[i] = IF i <= Len(taken) THEN taken[i]
                                                          ELSE Copied[i - Len(taken)]
        <5>1. taken \in Seq(Sequence) /\ Copied \in Seq(Sequence)
          BY <2>2
        <5>2. QED BY <5>1, ConcatProperties
      <4>2. PICK all \in Seq(Sequence) : all = taken \o Copied
        BY <4>1
      <4>3. /\ Len(all) = u + p + c
            /\ \A i \in 1 .. u + p + c :
                 all[i] = IF i <= u + p THEN taken[i] ELSE Copied[i - (u + p)]
        BY <3>3, <3>5, <4>1, <4>2
      <4>4. (\A i \in 1 .. u + p : all[i] = taken[i])
            /\ (\A i \in u + p + 1 .. u + p + c : all[i] = Copied[i - (u + p)])
        BY <4>3
      <4>5. QED BY <4>2, <4>3, <4>4
    <3>7. ASSUME NEW i \in 1 .. u + p + c
          PROVE  all[i] = log[origin + i]
      <4>1. CASE i \in 1 .. u
        BY <3>2, <3>3, <3>5, <3>6, <4>1
      <4>2. CASE i \in u + 1 .. u + p
        <5>1. PICK j \in 1 .. p : j = i - u
          <6>1. i - u \in 1 .. p
            BY <4>2
          <6>2. QED BY <6>1
        <5>2. all[i] = pending[j]
          BY <3>5, <3>6, <4>2, <5>1
        <5>3. pending[j] = log[origin + u + j]
          BY <3>2, <3>3
        <5>4. origin + u + j = origin + i
          BY <3>1, <5>1
        <5>5. QED BY <5>2, <5>3, <5>4
      <4>3. CASE i \in u + p + 1 .. u + p + c
        <5>1. PICK j \in 1 .. c : j = i - (u + p)
          <6>1. i - (u + p) \in 1 .. c
            BY <4>3
          <6>2. QED BY <6>1
        <5>2. all[i] = Copied[j]
          BY <3>6, <4>3, <5>1
        <5>3. Copied[j] = log[localTail - c + j]
          BY <2>2, <3>3
        <5>4. localTail - c + j = origin + i
          BY <3>1, <3>4, <5>1
        <5>5. QED BY <5>2, <5>3, <5>4
      <4>4. QED BY <4>1, <4>2, <4>3
    <3>8. PICK part \in Seq(Sequence) :
            /\ part = SubSeq(log, origin + 1, localTail) /\ Len(part) = localTail - origin
            /\ \A i \in 1 .. localTail - origin : part[i] = log[origin + i]
      <4>1. /\ SubSeq(log, origin + 1, localTail) \in Seq(Sequence)
            /\ Len(SubSeq(log, origin + 1, localTail)) = localTail - origin
            /\ \A i \in 1 .. localTail - origin :
                 SubSeq(log, origin + 1, localTail)[i] = log[origin + i]
        BY <3>1, CopyIs
      <4>2. QED BY <4>1
    <3>9. all = part
      BY <3>4, <3>6, <3>7, <3>8, SeqEqual
    <3>10. QED BY <2>4, <3>5, <3>6, <3>8, <3>9 DEF Drained
  <2>5. QED BY <2>3, <2>4
<1>2. QED BY <1>1, StateInvariant, PTL

-----------------------------------------------------------------------------
\* n records of an ascending sequence, and the numbers between the first and the last
\* that are not among them.
LEMMA MissingAre ==
  ASSUME NEW n \in Nat \ {0}, NEW f \in [1 .. n -> Nat], NEW others,
         \A i, j \in 1 .. n : i < j => f[i] < f[j],
         others \cap (f[1] .. f[n]) = {}
  PROVE  Cardinality((f[1] .. f[n]) \ ({f[i] : i \in 1 .. n} \cup others))
           = f[n] - f[1] + 1 - n
<1> DEFINE seen == {f[i] : i \in 1 .. n}
<1> DEFINE span == f[1] .. f[n]
<1>1. 1 \in 1 .. n /\ n \in 1 .. n /\ f[1] \in Nat /\ f[n] \in Nat
  OBVIOUS
<1>2. \A i \in 1 .. n : f[1] <= f[i] /\ f[i] <= f[n] /\ f[i] \in Nat
  <2>1. TAKE i \in 1 .. n
  <2>2. f[i] \in Nat
    OBVIOUS
  <2>3. f[1] <= f[i]
    <3>1. i = 1 \/ f[1] < f[i]
      BY <1>1
    <3>2. QED BY <1>1, <2>2, <3>1
  <2>4. f[i] <= f[n]
    <3>1. i = n \/ f[i] < f[n]
      BY <1>1
    <3>2. QED BY <1>1, <2>2, <3>1
  <2>5. QED BY <2>2, <2>3, <2>4
<1>3. seen \in SUBSET span
  BY <1>1, <1>2
<1>4. IsFiniteSet(span) /\ Cardinality(span) = f[n] - f[1] + 1
  <2>1. f[1] <= f[n]
    BY <1>1, <1>2
  <2>2. ~(f[1] > f[n]) /\ f[1] \in Int /\ f[n] \in Int
    BY <1>1, <2>1
  <2>3. QED BY <2>2, FS_Interval
<1>5. IsFiniteSet(seen) /\ Cardinality(seen) = n
  <2>1. f \in Bijection(1 .. n, seen)
    <3>1. f \in [1 .. n -> seen]
      OBVIOUS
    <3>2. \A i, j \in 1 .. n : f[i] = f[j] => i = j
      <4>1. SUFFICES ASSUME NEW i \in 1 .. n, NEW j \in 1 .. n, i # j
                     PROVE  f[i] # f[j]
        OBVIOUS
      <4>2. f[i] \in Nat /\ f[j] \in Nat
        OBVIOUS
      <4>3. i < j \/ j < i
        BY <4>1
      <4>4. QED BY <4>2, <4>3
    <3>3. \A number \in seen : \E i \in 1 .. n : f[i] = number
      OBVIOUS
    <3>4. QED BY <3>1, <3>2, <3>3, Fun_IsBij
  <2>2. ExistsBijection(1 .. n, seen)
    BY <2>1 DEF ExistsBijection
  <2>3. 1 \in Int /\ n \in Int /\ ~(1 > n) /\ n - 1 + 1 = n
    OBVIOUS
  <2>4. IsFiniteSet(1 .. n) /\ Cardinality(1 .. n) = n
    BY <2>3, FS_Interval
  <2>5. QED BY <2>2, <2>4, FS_Bijection
<1>6. span \ (seen \cup others) = span \ seen
  OBVIOUS
<1>7. Cardinality(span \ seen) = Cardinality(span) - Cardinality(seen)
  <2>1. span \cap seen = seen
    BY <1>3
  <2>2. Cardinality(span \ seen) = Cardinality(span) - Cardinality(span \cap seen)
    BY <1>4, <1>5, FS_Difference
  <2>3. QED BY <2>1, <2>2
<1>8. Cardinality(span \ (seen \cup others)) = f[n] - f[1] + 1 - n
  <2>1. PICK size \in Int : size = f[n] - f[1] + 1 /\ Cardinality(span) = size
    BY <1>1, <1>4
  <2>2. Cardinality(span \ (seen \cup others)) = size - n
    BY <1>5, <1>6, <1>7, <2>1
  <2>3. QED BY <2>1, <2>2
<1>9. QED BY <1>8

\* The gaps the client counts are the records the full ring dropped in the span it has
\* seen, and it sees none out of order (account_sequences).
THEOREM GapsAreTheDrops == Spec => []GapsAreDrops
<1>1. StateInv => GapsAreDrops
  <2>1. SUFFICES ASSUME StateInv, ~Eager, last # 0
                 PROVE  /\ reordered = 0
                        /\ gaps = Cardinality((log[origin + 1] .. last)
                                               \ {log[i] : i \in 1 .. head})
    BY DEF GapsAreDrops
  <2>2. PICK seen \in Nat : seen = Len(used) + Len(pending)
    <3>1. Len(used) \in Nat /\ Len(pending) \in Nat
      BY <2>1 DEF StateInv, QueueTyped
    <3>2. QED BY <3>1
  <2>3. /\ reordered = 0
        /\ seen = 0 => last = 0
        /\ seen > 0 => last = log[origin + seen] /\ gaps = last - log[origin + 1] + 1 - seen
    BY <2>1, <2>2 DEF StateInv, Counted
  <2>4. seen > 0 /\ seen \in Nat \ {0}
    BY <2>1, <2>3
  <2>5. origin # -1
    <3>1. origin = -1 => Len(used) = 0 /\ Len(pending) = 0
      BY <2>1, EmptySeq DEF StateInv, JoinKnown
    <3>2. QED BY <2>2, <2>4, <3>1
  <2>6. origin \in Nat /\ head \in Nat /\ origin + seen <= head
    <3>1. origin \in Nat /\ localTail \in Nat /\ localTail <= head /\ head \in Nat
      BY <2>1, <2>5 DEF StateInv, CursorKnown, RingKnown, head
    <3>2. PICK a \in Nat, b \in Nat :
            a = Len(drain["main"].batch) /\ b = Len(drain["ingress"].batch)
      <4>1. \A t \in Thread : Len(drain[t].batch) \in Nat
        BY <2>1, BatchIs
      <4>2. QED BY <4>1 DEF Thread
    <3>3. seen + a + b = localTail - origin
      BY <2>1, <2>2, <2>5, <3>2 DEF StateInv, HistoryKept
    <3>4. QED BY <3>1, <3>3
  <2>7. /\ \A i \in 1 .. head : log[i] \in Nat
        /\ \A i, j \in 1 .. head : i <= j => j - i <= log[j] - log[i]
    <3>1. log \in Seq(Sequence)
      BY <2>1 DEF StateInv, RingKnown
    <3>2. \A i \in 1 .. head : log[i] \in Nat
      BY <3>1, ElementOfSeq, SequenceIsNat DEF head
    <3>3. QED BY <2>1, <3>2 DEF StateInv, RingKnown
  <2>8. \A i, j \in 1 .. head : i < j => log[i] < log[j]
    <3>1. SUFFICES ASSUME NEW i \in 1 .. head, NEW j \in 1 .. head, i < j
                   PROVE  log[i] < log[j]
      OBVIOUS
    <3>2. PICK x \in Nat, y \in Nat : x = log[i] /\ y = log[j] /\ j - i <= y - x
      BY <2>7, <3>1
    <3>3. x < y
      BY <3>1, <3>2
    <3>4. QED BY <3>2, <3>3
  <2>9. \A i \in 1 .. seen : origin + i \in 1 .. head
    BY <2>6
  <2>10. PICK f \in [1 .. seen -> Nat] : \A i \in 1 .. seen : f[i] = log[origin + i]
    <3>1. [i \in 1 .. seen |-> log[origin + i]] \in [1 .. seen -> Nat]
      BY <2>7, <2>9
    <3>2. QED BY <3>1
  <2>11. \A i, j \in 1 .. seen : i < j => f[i] < f[j]
    <3>1. SUFFICES ASSUME NEW i \in 1 .. seen, NEW j \in 1 .. seen, i < j
                   PROVE  f[i] < f[j]
      OBVIOUS
    <3>2. origin + i < origin + j
      BY <2>6, <3>1
    <3>3. QED BY <2>8, <2>9, <2>10, <3>2
  <2> DEFINE Elsewhere == {i \in 1 .. head : i <= origin \/ origin + seen < i}
  <2> DEFINE others == {log[i] : i \in Elsewhere}
  <2>12. {log[i] : i \in 1 .. head} = {f[i] : i \in 1 .. seen} \cup others
    <3>1. ASSUME NEW i \in 1 .. head, i \notin Elsewhere
          PROVE  \E j \in 1 .. seen : log[i] = f[j]
      <4>1. i - origin \in 1 .. seen /\ origin + (i - origin) = i
        BY <2>6, <3>1
      <4>2. QED BY <2>10, <4>1
    <3>2. \A i \in 1 .. seen : \E j \in 1 .. head : f[i] = log[j]
      BY <2>9, <2>10
    <3>3. QED BY <3>1, <3>2
  <2>13. others \cap (f[1] .. f[seen]) = {}
    <3>1. SUFFICES ASSUME NEW i \in Elsewhere, log[i] \in f[1] .. f[seen]
                   PROVE  FALSE
      OBVIOUS
    <3>2. PICK first \in 1 .. head, final \in 1 .. head :
            first = origin + 1 /\ final = origin + seen
      BY <2>4, <2>6
    <3>3. f[1] = log[first] /\ f[seen] = log[final]
      BY <2>4, <2>10, <3>2
    <3>4. i < first \/ final < i
      BY <2>6, <3>2
    <3>5. log[i] < log[first] \/ log[final] < log[i]
      BY <2>8, <3>4
    <3>6. log[i] \in Nat /\ log[first] \in Nat /\ log[final] \in Nat
      BY <2>7
    <3>7. QED BY <3>1, <3>3, <3>5, <3>6
  <2> HIDE DEF others, Elsewhere
  <2>14. Cardinality((f[1] .. f[seen]) \ ({f[i] : i \in 1 .. seen} \cup others))
           = f[seen] - f[1] + 1 - seen
    BY <2>4, <2>11, <2>13, MissingAre
  <2>15. f[1] = log[origin + 1] /\ f[seen] = last
    BY <2>3, <2>4, <2>10
  <2>16. QED BY <2>3, <2>4, <2>12, <2>14, <2>15
<1>2. QED BY <1>1, StateInvariant, PTL

-----------------------------------------------------------------------------
\* The session is the observation stream: offered, accepted, received and reclaimed.

LEMMA StreamStart ==
  ASSUME Init
  PROVE  Stream!StreamInit
  BY EmptySeq DEF Init, Stream!StreamInit, Drained

\* What the cursor has passed does not change with what is published.
LEMMA DrainedKeeps ==
  ASSUME StateInv, UNCHANGED <<origin, localTail>>,
         \/ log' = log
         \/ \E sequence \in Sequence : log' = Append(log, sequence)
  PROVE  Drained' = Drained
<1>1. CASE log' = log
  BY <1>1 DEF Drained
<1>2. CASE origin = -1
  BY <1>2 DEF Drained
<1>3. ASSUME NEW sequence \in Sequence, log' = Append(log, sequence), origin # -1
      PROVE  Drained' = Drained
  <2>1. /\ origin \in Nat /\ localTail \in Nat /\ origin <= localTail
        /\ localTail <= Len(log) /\ log \in Seq(Sequence) /\ Len(log) \in Nat
    BY <1>3 DEF StateInv, CursorKnown, RingKnown, head
  <2>2. PICK next \in Seq(Sequence) :
          /\ next = log' /\ Len(next) = Len(log) + 1
          /\ \A i \in 1 .. Len(log) : next[i] = log[i]
    BY <1>3, <2>1, AppendProperties
  <2>3. /\ SubSeq(log, origin + 1, localTail) \in Seq(Sequence)
        /\ Len(SubSeq(log, origin + 1, localTail)) = localTail - origin
        /\ \A i \in 1 .. localTail - origin :
             SubSeq(log, origin + 1, localTail)[i] = log[origin + i]
    BY <2>1, CopyIs
  <2>4. /\ SubSeq(next, origin + 1, localTail) \in Seq(Sequence)
        /\ Len(SubSeq(next, origin + 1, localTail)) = localTail - origin
        /\ \A i \in 1 .. localTail - origin :
             SubSeq(next, origin + 1, localTail)[i] = next[origin + i]
    <3>1. localTail <= Len(next)
      BY <2>1, <2>2
    <3>2. QED BY <2>1, <3>1, CopyIs
  <2>5. \A i \in 1 .. localTail - origin : origin + i \in 1 .. Len(log)
    BY <2>1
  <2>6. SubSeq(log, origin + 1, localTail) = SubSeq(next, origin + 1, localTail)
    <3>1. \A i \in 1 .. localTail - origin :
            SubSeq(log, origin + 1, localTail)[i] = SubSeq(next, origin + 1, localTail)[i]
      BY <2>2, <2>3, <2>4, <2>5
    <3>2. PICK a \in Seq(Sequence), b \in Seq(Sequence) :
            /\ a = SubSeq(log, origin + 1, localTail) /\ b = SubSeq(next, origin + 1, localTail)
            /\ Len(a) = localTail - origin /\ Len(b) = localTail - origin
      BY <2>3, <2>4
    <3>3. Len(a) = Len(b) /\ \A i \in 1 .. Len(a) : a[i] = b[i]
      BY <3>1, <3>2
    <3>4. a = b
      BY <3>3, SeqEqual
    <3>5. QED BY <3>2, <3>4
  <2>7. QED BY <1>3, <2>2, <2>6 DEF Drained
<1>4. QED BY <1>1, <1>2, <1>3

\* What was received reaches to the cursor.
LEMMA DrainedReaches ==
  ASSUME StateInv, origin # -1
  PROVE  origin + Len(Drained) = localTail
<1>1. /\ origin \in Nat /\ localTail \in Nat /\ origin <= localTail
      /\ localTail <= Len(log) /\ log \in Seq(Sequence)
  BY DEF StateInv, CursorKnown, RingKnown, head
<1>2. Len(SubSeq(log, origin + 1, localTail)) = localTail - origin
  BY <1>1, CopyIs
<1>3. Len(Drained) = localTail - origin
  BY <1>2 DEF Drained
<1>4. QED BY <1>1, <1>3

\* A publication accepts the newest record or drops it.
LEMMA PublishRefines ==
  ASSUME StateInv, NEW kind \in Kind, Publish(kind), UNCHANGED <<tail, clientVars>>,
         Len(offered) <= MaxRecords
  PROVE  Stream!Accept \/ Stream!DropNewest
<1>1. /\ Len(offered) \in Nat /\ log \in Seq(Sequence) /\ head = Len(log) /\ head \in Nat
      /\ tail \in Nat /\ head - tail <= Capacity /\ Capacity \in Nat
      /\ offered \in Seq([kind : Kind, generation : 1 .. MaxGeneration])
      /\ generation \in 1 .. MaxGeneration
  BY BoundsAre DEF StateInv, RingKnown, BridgeKnown, head
<1>2. Len(offered') = Len(offered) + 1
  <2>1. [kind |-> kind, generation |-> generation]
          \in [kind : Kind, generation : 1 .. MaxGeneration]
    BY <1>1
  <2>2. QED BY <1>1, <2>1, AppendProperties DEF Publish
<1>3. Len(offered) + 1 \in Sequence
  BY <1>1, BoundsAre DEF Sequence
<1>4. UNCHANGED <<origin, localTail>>
  BY DEF clientVars, drainVars
<1>5. CASE head - tail < Capacity
  <2>1. log' = Append(log, Len(offered) + 1)
    BY <1>5 DEF Publish
  <2>2. Drained' = Drained
    BY <1>3, <1>4, <2>1, DrainedKeeps
  <2>3. QED BY <1>1, <1>2, <1>4, <1>5, <2>1, <2>2 DEF Stream!Accept
<1>6. CASE ~(head - tail < Capacity)
  <2>1. log' = log /\ head - tail = Capacity
    BY <1>1, <1>6 DEF Publish
  <2>2. Drained' = Drained
    BY <1>4, <2>1, DrainedKeeps
  <2>3. QED BY <1>1, <1>2, <1>4, <2>1, <2>2 DEF Stream!DropNewest
<1>7. QED BY <1>5, <1>6

\* An acknowledgement that passes the test gives back what the client has.
LEMMA MessageRefines ==
  ASSUME StateInv, HandleMessage, UNCHANGED <<offered, log, clientVars>>
  PROVE  Stream!StreamNext \/ UNCHANGED Stream!streamVars
<1>1. UNCHANGED <<Len(offered), log, origin, Drained>>
  BY DEF clientVars, drainVars, Drained
<1>2. CASE tail' = tail
  BY <1>1, <1>2 DEF Stream!streamVars
<1>3. CASE tail' # tail
  <2>1. toBridge \in Seq(ToBridgeMessage) /\ toBridge # <<>>
    BY DEF StateInv, ToBridgeKnown, HandleMessage
  <2>2. Head(toBridge) = toBridge[1] /\ 1 \in 1 .. Len(toBridge)
        /\ toBridge[1] \in ToBridgeMessage
    BY <2>1, HeadTailProperties, EmptySeq
  <2>3. toBridge[1].type = "ACK" /\ tail' = toBridge[1].consumed
    BY <1>3, <2>2 DEF HandleMessage
  <2>4. PICK position \in Nat \ {0} : position = toBridge[1].consumed
    BY <2>2, <2>3, SequenceIsNat DEF ToBridgeMessage
  <2>5. tail <= position /\ position <= lastAcked
    BY <2>2, <2>3, <2>4 DEF StateInv, ToBridgeKnown
  <2>6. /\ lastAcked \in Nat /\ localTail \in Nat /\ lastAcked <= localTail /\ localTail <= head
        /\ head \in Nat /\ tail \in Nat /\ log \in Seq(Sequence)
    BY DEF StateInv, CursorKnown, RingKnown, head
  <2>7. origin # -1
    <3>1. localTail # 0
      BY <2>5, <2>6
    <3>2. QED BY <3>1 DEF StateInv, JoinKnown
  <2>8. origin + Len(Drained) = localTail
    BY <2>7, DrainedReaches
  <2>9. position \in tail .. localTail /\ position \in 0 .. Len(log)
    BY <2>5, <2>6 DEF head
  <2>10. Stream!Reclaim(position)
    BY <1>1, <2>3, <2>4, <2>7, <2>8, <2>9
       DEF Stream!Reclaim, Stream!Joined, Stream!ReadPosition
  <2>11. QED BY <2>9, <2>10 DEF Stream!StreamNext
<1>4. QED BY <1>2, <1>3

\* The consumer joins at the newest record.
LEMMA JoinRefines ==
  ASSUME StateInv, JoinRing
  PROVE  Stream!Join
<1>1. origin = -1
  BY DEF JoinRing, StateInv, JoinKnown, Before
<1>2. head \in Nat /\ head' = head /\ origin' = head /\ localTail' = head
      /\ UNCHANGED <<offered, log, tail>>
  BY DEF JoinRing, ringVars, head, StateInv, RingKnown
<1>3. Drained' = <<>> /\ Drained = <<>>
  <2>1. head + 1 \in Int /\ head \in Int /\ head < head + 1 /\ head # -1
    BY <1>2
  <2>2. SubSeq(log', head + 1, head) = <<>>
    BY <2>1, SubSeqEmpty
  <2>3. QED BY <1>1, <1>2, <2>1, <2>2 DEF Drained
<1>4. QED BY <1>1, <1>2, <1>3 DEF Stream!Join, Stream!Joined, head

LEMMA StepIs ==
  ASSUME NEW n \in Nat, NEW m \in Nat, NEW limit \in Nat, n <= m, m <= limit, m # n
  PROVE  m - n \in 1 .. limit /\ n + (m - n) = m
  OBVIOUS

LEMMA AdjacentIs ==
  ASSUME NEW S, NEW s \in Seq(S), NEW n \in Nat, NEW k \in Nat, NEW m \in Nat,
         n <= k, k <= m, m <= Len(s)
  PROVE  SubSeq(s, n + 1, k) \o SubSeq(s, k + 1, m) = SubSeq(s, n + 1, m)
<1>1. n + 1 \in 1 .. Len(s) + 1 /\ k \in (n + 1) - 1 .. Len(s) /\ m \in k .. Len(s)
  OBVIOUS
<1>2. QED BY <1>1, ConcatAdjacentSubSeq

\* A batch is what comes next.
LEMMA ReadRefines ==
  ASSUME StateInv, NEW t \in Thread, DrainRead(t)
  PROVE  Stream!StreamNext \/ UNCHANGED Stream!streamVars
<1>1. UNCHANGED <<offered, log, tail, origin>>
      /\ localTail' = Minimum(head, localTail + Batch)
  BY DEF DrainRead, ringVars
<1>2. origin # -1
  BY DEF DrainRead, StateInv, JoinKnown
<1>3. /\ origin \in Nat /\ localTail \in Nat /\ origin <= localTail /\ localTail <= head
      /\ head \in Nat /\ head = Len(log) /\ log \in Seq(Sequence) /\ Batch \in Nat
  BY <1>2, BoundsAre DEF StateInv, CursorKnown, RingKnown, head
<1>4. localTail' \in Nat /\ localTail <= localTail' /\ localTail' <= head
  BY <1>1, <1>3 DEF Minimum
<1>5. origin + Len(Drained) = localTail
  BY <1>2, DrainedReaches
<1>6. CASE localTail' = localTail
  BY <1>1, <1>6 DEF Stream!streamVars, Drained
<1>7. CASE localTail' # localTail
  <2>1. /\ localTail \in Nat /\ localTail' \in Nat /\ Len(log) \in Nat
        /\ localTail <= localTail' /\ localTail' <= Len(log) /\ localTail' # localTail
    BY <1>3, <1>4, <1>7
  <2>2. PICK n \in 1 .. Len(log) : localTail + n = localTail'
    <3>1. localTail' - localTail \in 1 .. Len(log)
          /\ localTail + (localTail' - localTail) = localTail'
      BY <2>1, StepIs
    <3>2. QED BY <3>1
  <2>3. Drained' = Drained \o SubSeq(log, localTail + 1, localTail + n)
    <3>1. PICK next \in Nat : next = localTail'
      BY <2>1
    <3>2. localTail <= next /\ next <= Len(log) /\ origin <= localTail /\ log \in Seq(Sequence)
          /\ origin \in Nat /\ localTail \in Nat
      BY <1>3, <2>1, <3>1
    <3>3. SubSeq(log, origin + 1, localTail) \o SubSeq(log, localTail + 1, next)
            = SubSeq(log, origin + 1, next)
      BY <3>2, AdjacentIs
    <3>4. QED BY <1>1, <1>2, <2>2, <3>1, <3>3 DEF Drained
  <2>4. Stream!Deliver(n)
    <3>1. localTail + n <= Len(log)
      BY <1>3, <1>4, <2>2
    <3>2. QED
      BY <1>1, <1>2, <1>5, <2>3, <3>1
         DEF Stream!Deliver, Stream!Joined, Stream!ReadPosition
  <2>5. QED BY <2>4 DEF Stream!StreamNext
<1>8. QED BY <1>6, <1>7

\* The other steps move nothing the stream can see.
LEMMA SessionInternal ==
  ASSUME UNCHANGED <<offered, log, tail, origin, localTail>>
  PROVE  UNCHANGED Stream!streamVars
  BY DEF Stream!streamVars, Drained

LEMMA SessionStepRefines ==
  ASSUME StateInv, [Next]_vars
  PROVE  Stream!StreamNext \/ UNCHANGED Stream!streamVars
<1>1. Len(offered) \in Nat /\ MaxRecords \in Nat
      /\ (bridge = "terminal" => Len(offered) <= MaxRecords)
  BY BoundsAre DEF StateInv, RingKnown
<1>2. CASE Bridge
  <2>1. ASSUME NEW kind \in {"motion", "button"}, Observe(kind)
        PROVE  Stream!StreamNext
    <3>1. kind \in Kind /\ Publish(kind) /\ UNCHANGED <<tail, clientVars>>
          /\ Len(offered) <= MaxRecords
      BY <1>1, <2>1 DEF Observe, Kind
    <3>2. QED BY <3>1, PublishRefines DEF Stream!StreamNext
  <2>2. CASE PublishTerminal
    <3>1. "terminate" \in Kind /\ Publish("terminate") /\ UNCHANGED <<tail, clientVars>>
          /\ Len(offered) <= MaxRecords
      BY <1>1, <2>2 DEF PublishTerminal, Kind
    <3>2. QED BY <3>1, PublishRefines DEF Stream!StreamNext
  <2>3. CASE HandleControl \/ WaitAckMessage
    <3>1. HandleMessage /\ UNCHANGED <<offered, log, clientVars>>
      BY <2>3 DEF HandleControl, WaitAckMessage
    <3>2. QED BY <3>1, MessageRefines
  <2>4. CASE HandleBarrier \/ DeviceGone \/ Reconnect \/ LeaveLoop \/ BridgeStops
             \/ WaitAckOver
    <3>1. UNCHANGED <<offered, log, tail, origin, localTail>>
      BY <2>4 DEF HandleBarrier, DeviceGone, Reconnect, LeaveLoop, BridgeStops, WaitAckOver,
                  ringVars, clientVars, drainVars
    <3>2. QED BY <3>1, SessionInternal
  <2>5. QED BY <1>2, <2>1, <2>2, <2>3, <2>4 DEF Bridge, BridgeControl
<1>3. ASSUME NEW t \in Thread, Receive(t) \/ Process(t) \/ DrainStep(t)
      PROVE  Stream!StreamNext \/ UNCHANGED Stream!streamVars
  <2>1. CASE DrainRead(t)
    BY <2>1, ReadRefines
  <2>2. CASE Receive(t) \/ Process(t) \/ DrainBegin(t) \/ DrainAccount(t) \/ DrainEnd(t)
    <3>1. UNCHANGED <<offered, log, tail, origin, localTail>>
      BY <2>2 DEF Receive, Process, AccountLoad, AccountStore, PushRecord, TakeGeneration,
                  DrainBegin, DrainAccount, DrainEnd, ringVars, drainVars
    <3>2. QED BY <3>1, SessionInternal
  <2>3. QED BY <1>3, <2>1, <2>2 DEF DrainStep
<1>4. "main" \in Thread /\ "ingress" \in Thread
  BY DEF Thread
<1>5. CASE Ingress
  <2>1. CASE IngressCheck \/ IngressPoll \/ IngressUrgent \/ IngressReceiveOver
    <3>1. UNCHANGED <<offered, log, tail, origin, localTail>>
      BY <2>1 DEF IngressCheck, IngressPoll, IngressUrgent, IngressReceiveOver, ringVars,
                  drainVars
    <3>2. QED BY <3>1, SessionInternal
  <2>2. QED BY <1>3, <1>4, <1>5, <2>1 DEF Ingress
<1>6. CASE Main
  <2>1. CASE JoinRing
    BY <2>1, JoinRefines DEF Stream!StreamNext
  <2>2. CASE SendSetup \/ ReceiveStarted \/ FrameStep \/ MainTurn
    <3>1. UNCHANGED <<offered, log, tail, origin, localTail>>
      BY <2>2 DEF SendSetup, ReceiveStarted, FrameStep, MainTurn, StartFrame, LeaveFrames,
                  ShutdownTurn, StopIngress, JoinIngress, MainReceiveOver, Exit, ringVars,
                  drainVars
    <3>2. QED BY <3>1, SessionInternal
  <2>3. QED BY <1>3, <1>4, <1>6, <2>1, <2>2 DEF Main, MainTurn
<1>7. CASE UNCHANGED vars
  <2>1. UNCHANGED <<offered, log, tail, origin, localTail>>
    BY <1>7 DEF vars, ringVars, clientVars, drainVars
  <2>2. QED BY <2>1, SessionInternal
<1>8. QED BY <1>2, <1>5, <1>6, <1>7 DEF Next, Over

\* The bridge and the two threads of the client, under every policy, with their
\* messages, reconnects and shutdowns, are the observation stream.
THEOREM SessionImplementsStream == Spec => ImplementsStream
<1>1. Init => Stream!StreamInit
  BY StreamStart
<1>2. StateInv /\ [Next]_vars => [Stream!StreamNext]_Stream!streamVars
  BY SessionStepRefines
<1>3. QED
  BY <1>1, <1>2, StateInvariant, PTL DEF Spec, ImplementsStream, Stream!StreamSpec
=============================================================================
