----------------------------- MODULE GameProofs -----------------------------
(***************************************************************************)
(* Proofs about GameClient, for every capacity, every mode and window, and *)
(* every bound on records and streams.                                     *)
(*                                                                         *)
(* GameInv is inductive and needs no assumption.  It says what is on its   *)
(* way in the two queues (a stream is only granted to a client that waits  *)
(* for it, and has given back the one before), that the cursor is in the   *)
(* client's own stream, and that a stream without a drop has no gap.       *)
(*                                                                         *)
(* For each action a lemma says what it changes (...Effect) and another    *)
(* that it preserves GameInv (...Step).                                    *)
(***************************************************************************)
EXTENDS GameClient, SequenceTheorems, FiniteSetTheorems, TLAPS

-----------------------------------------------------------------------------
Request ==
  [type : {"get_stream", "destroy"}]
    \cup [type : {"acknowledge"}, generation : Nat \ {0}, consumed : Nat]

Client ==
  [stream : BOOLEAN, active : BOOLEAN, faulted : BOOLEAN, generation : Nat, localTail : Nat,
   acknowledgedTail : Nat, expected : Nat, sequenceErrors : Nat]

\* What TypeOK leaves open.
Typed ==
  /\ requests \in Seq(Request)
  /\ client \in Client
  /\ snapshot \in Nat

Pending(type) == \E i \in 1 .. Len(requests) : requests[i].type = type

\* What is asked for comes last and is waited for; the stream before is given back
\* just before it, and acknowledgements come before that.
RequestsOrdered ==
  \A i \in 1 .. Len(requests) :
    /\ requests[i].type = "get_stream" => i = Len(requests) /\ pc = "roundtrip"
    /\ requests[i].type = "destroy" =>
         \A j \in i + 1 .. Len(requests) : requests[j].type = "get_stream"

\* Acknowledgements are of streams there have been, and of the client's own stream
\* not beyond what it has noted as acknowledged.
AcksKnown ==
  \A i \in 1 .. Len(requests) :
    requests[i].type = "acknowledge" =>
      /\ requests[i].generation <= streams
      /\ client.generation = streams => requests[i].consumed <= client.acknowledgedTail

\* The lease is with the client, or will be given back before another is asked for.
LeaseHeld ==
  /\ granted # 0 /\ ~Pending("destroy") => client.stream /\ ~Pending("get_stream")
  /\ client.stream /\ pc # "roundtrip" => ~Pending("destroy") /\ ~Pending("get_stream")
  /\ client.generation # 0 => client.stream

\* The client is in the newest stream or in none, and in none while it connects.
GenerationKnown ==
  /\ client.generation \in {0, streams}
  /\ pc = "roundtrip" => client.generation = 0 /\ client.stream
  /\ client.active => client.generation # 0 /\ ~client.faulted

\* News of a new stream waits only for a client that connects, and the stream is
\* untouched until then.
EventsKnown ==
  /\ "active" \in Range(events) =>
       /\ streams # 0 /\ tail = 0 /\ pc = "roundtrip" /\ requests = <<>>
  /\ events # <<>> /\ Last(events) = "active" => granted # 0

\* Records are numbered in order; without a drop there is no gap.
LogOrdered ==
  /\ \A i \in 1 .. Len(log) : log[i] < nextSequence
  /\ \A i, j \in 1 .. Len(log) : i < j => log[i] < log[j]
  /\ dropped = 0 => /\ \A i \in 1 .. Len(log) - 1 : log[i + 1] = log[i] + 1
                    /\ log # <<>> => nextSequence = log[Len(log)] + 1
  /\ streams = 0 => log = <<>> /\ nextSequence = 1

\* A read in progress is of the client's stream; what was read of it has no gap,
\* and the record expected next is the one after it.
CursorKnown ==
  /\ pc \in {"earlyCopy", "lateCopy"} =>
       Usable(client) /\ snapshot \in client.localTail .. Len(log)
  /\ client.generation # 0 =>
       /\ \A i \in 1 .. client.localTail - 1 : log[i + 1] = log[i] + 1
       /\ \/ client.expected = 0
          \/ client.localTail >= 1 /\ client.expected = log[client.localTail] + 1

\* Whoever measures has a stream, until the frame loop sees that it has not.
MeasuringUsable ==
  measuring /\ pc \notin {"earlyFailed", "lateFailed", "end"} => Usable(client)

GameInv ==
  /\ TypeOK
  /\ Typed
  /\ RequestsOrdered
  /\ AcksKnown
  /\ LeaseHeld
  /\ GenerationKnown
  /\ EventsKnown
  /\ LogOrdered
  /\ CursorKnown
  /\ MeasuringUsable
  /\ NoSequenceErrors
  /\ RevocationPending

-----------------------------------------------------------------------------
LEMMA BoundsNat ==
  /\ Capacity \in Nat \ {0} /\ MotionCapacity \in Nat
  /\ MaxSequence \in Nat /\ MaxStreams \in Nat
  BY GameAssumption DEF GameAssumption

\* What an error leaves of the client.
LEMMA FaultedFields ==
  ASSUME NEW c \in Client
  PROVE  /\ Faulted(c) \in Client
         /\ ~Faulted(c).active /\ Faulted(c).faulted
         /\ Faulted(c).stream = c.stream /\ Faulted(c).generation = c.generation
         /\ Faulted(c).localTail = c.localTail
         /\ Faulted(c).acknowledgedTail = c.acknowledgedTail
         /\ Faulted(c).expected = c.expected /\ Faulted(c).sequenceErrors = c.sequenceErrors
  BY DEF Client, Faulted

\* What the start of a stream makes of the client.
LEMMA OpenedFields ==
  ASSUME NEW c \in Client, streams \in Nat, tail \in Nat,
         NEW opened, opened = StreamEvent(c, "active")
  PROVE  /\ opened \in Client
         /\ opened.active /\ ~opened.faulted
         /\ opened.stream = c.stream /\ opened.generation = streams
         /\ opened.localTail = tail /\ opened.acknowledgedTail = tail
         /\ opened.expected = 0 /\ opened.sequenceErrors = c.sequenceErrors
  BY DEF Client, StreamEvent

\* Without a new stream there is nothing in the queue that opens one.
LEMMA DispatchedWithoutActive ==
  ASSUME TypeOK, "active" \notin Range(events), NEW c
  PROVE  Dispatched(c) = IF events = <<>> THEN c ELSE Faulted(c)
<1>1. events # <<>> => Last(events) \in Range(events)
  BY EmptySeq, RangeEquality DEF TypeOK, Last
<1>2. QED BY <1>1 DEF Dispatched, StreamEvent

\* With one the client has it, and still has it if nothing came after that.
LEMMA DispatchedWithActive ==
  ASSUME TypeOK, "active" \in Range(events), NEW c \in Client,
         NEW opened, opened = StreamEvent(c, "active")
  PROVE  /\ Last(events) = "active" => Dispatched(c) = opened
         /\ Last(events) # "active" => Dispatched(c) = Faulted(opened)
<1>1. streams \in Nat /\ tail \in Nat /\ events # <<>>
  BY BoundsNat, RangeEquality, EmptySeq DEF TypeOK
<1>2. StreamEvent(opened, "active") = opened
  BY <1>1, OpenedFields DEF StreamEvent, Client
<1>3. QED BY <1>1, <1>2 DEF Dispatched, StreamEvent

\* One more event in the queue.
LEMMA EventAdded ==
  ASSUME TypeOK, NEW e \in {"active", "denied", "overflow", "revoked"},
         events' = Append(events, e)
  PROVE  /\ events' \in Seq({"active", "denied", "overflow", "revoked"})
         /\ events' # <<>> /\ Last(events') = e
         /\ Range(events') = Range(events) \cup {e}
         /\ \A x : (\E i \in 1 .. Len(events) : events[i] = x) \/ x = e
                     => \E i \in 1 .. Len(events') : events'[i] = x
<1> DEFINE E == {"active", "denied", "overflow", "revoked"}
<1>1. events \in Seq(E) /\ Len(events) \in Nat
  BY DEF TypeOK
<1>2. /\ events' \in Seq(E) /\ events' # <<>> /\ Len(events') = Len(events) + 1
      /\ \A i \in 1 .. Len(events) : events'[i] = events[i]
      /\ events'[Len(events) + 1] = e
  BY <1>1, AppendProperties
<1>3. Last(events') = e
  BY <1>1, <1>2 DEF Last
<1> HIDE DEF E
<1>4. /\ Range(events) = {events[i] : i \in 1 .. Len(events)}
      /\ Range(events') = {events'[i] : i \in 1 .. Len(events')}
  BY <1>1, <1>2, LenProperties DEF Range
<1>5. Range(events') = Range(events) \cup {e}
  BY <1>1, <1>2, <1>4
<1>6. \A x : (\E i \in 1 .. Len(events) : events[i] = x) \/ x = e
               => \E i \in 1 .. Len(events') : events'[i] = x
  BY <1>1, <1>2
<1>7. QED BY <1>2, <1>3, <1>5, <1>6 DEF E

\* The request that is taken, and those that stay.
LEMMA RequestTaken ==
  ASSUME Typed, requests # <<>>, requests' = Tail(requests)
  PROVE  /\ Len(requests) \in Nat \ {0}
         /\ Head(requests) = requests[1] /\ requests[1] \in Request
         /\ requests' \in Seq(Request) /\ Len(requests') = Len(requests) - 1
         /\ \A i \in 1 .. Len(requests') :
              requests'[i] = requests[i + 1] /\ i + 1 \in 1 .. Len(requests)
<1>1. requests \in Seq(Request) /\ Len(requests) \in Nat \ {0}
  BY EmptySeq DEF Typed
<1>2. QED BY <1>1, HeadTailProperties

\* What is pending after the oldest request was taken.
LEMMA PendingTaken ==
  ASSUME Typed, requests # <<>>, requests' = Tail(requests), NEW type
  PROVE  /\ Pending(type)' => Pending(type)
         /\ Pending(type) => Pending(type)' \/ requests[1].type = type
<1>1. /\ Len(requests) \in Nat \ {0} /\ Len(requests') = Len(requests) - 1
      /\ \A i \in 1 .. Len(requests') :
           requests'[i] = requests[i + 1] /\ i + 1 \in 1 .. Len(requests)
  BY RequestTaken
<1>2. Pending(type)' => Pending(type)
  BY <1>1 DEF Pending
<1>3. ASSUME NEW i \in 1 .. Len(requests), requests[i].type = type, i # 1
      PROVE  Pending(type)'
  <2>1. i - 1 \in 1 .. Len(requests') /\ requests'[i - 1] = requests[i - 1 + 1]
    BY <1>1, <1>3
  <2>2. i - 1 + 1 = i
    BY <1>1
  <2>3. requests'[i - 1].type = type
    BY <1>3, <2>1, <2>2
  <2>4. QED BY <2>1, <2>3 DEF Pending
<1>4. ASSUME Pending(type), ~Pending(type)'
      PROVE  requests[1].type = type
  <2>1. PICK i \in 1 .. Len(requests) : requests[i].type = type
    BY <1>4 DEF Pending
  <2>2. i = 1
    BY <1>3, <1>4, <2>1
  <2>3. QED BY <2>1, <2>2
<1>5. QED BY <1>2, <1>4

\* One more request.
LEMMA RequestAdded ==
  ASSUME Typed, NEW request \in Request, requests' = Append(requests, request)
  PROVE  /\ Len(requests) \in Nat
         /\ requests' \in Seq(Request) /\ Len(requests') = Len(requests) + 1
         /\ \A i \in 1 .. Len(requests) : requests'[i] = requests[i]
         /\ requests'[Len(requests) + 1] = request
         /\ \A type : Pending(type)' <=> Pending(type) \/ request.type = type
<1>1. Len(requests) \in Nat /\ requests \in Seq(Request)
  BY DEF Typed
<1>2. /\ requests' \in Seq(Request) /\ Len(requests') = Len(requests) + 1
      /\ \A i \in 1 .. Len(requests) : requests'[i] = requests[i]
      /\ requests'[Len(requests) + 1] = request
  BY <1>1, AppendProperties
<1>3. \A type : Pending(type)' <=> Pending(type) \/ request.type = type
  BY <1>1, <1>2 DEF Pending
<1>4. QED BY <1>1, <1>2, <1>3

\* The requests of a connection attempt.
LEMMA RequestsOfConnect ==
  ASSUME Typed,
         requests' = requests \o (IF client.stream THEN <<[type |-> "destroy"]>> ELSE <<>>)
                              \o <<[type |-> "get_stream"]>>
  PROVE  /\ Len(requests) \in Nat /\ requests' \in Seq(Request)
         /\ Len(requests') = Len(requests) + (IF client.stream THEN 2 ELSE 1)
         /\ \A i \in 1 .. Len(requests) : requests'[i] = requests[i]
         /\ client.stream => requests'[Len(requests) + 1] = [type |-> "destroy"]
         /\ requests'[Len(requests')] = [type |-> "get_stream"]
<1> DEFINE last == <<[type |-> "get_stream"]>>
<1> DEFINE first == requests \o (IF client.stream THEN <<[type |-> "destroy"]>> ELSE <<>>)
<1>1. requests \in Seq(Request) /\ Len(requests) \in Nat
  BY DEF Typed
<1>2. [type |-> "destroy"] \in Request /\ [type |-> "get_stream"] \in Request
  BY DEF Request
<1>3. /\ <<[type |-> "destroy"]>> \in Seq(Request) /\ Len(<<[type |-> "destroy"]>>) = 1
      /\ <<[type |-> "destroy"]>>[1] = [type |-> "destroy"]
      /\ <<[type |-> "get_stream"]>> \in Seq(Request) /\ Len(<<[type |-> "get_stream"]>>) = 1
      /\ <<[type |-> "get_stream"]>>[1] = [type |-> "get_stream"]
      /\ <<>> \in Seq(Request) /\ Len(<<>>) = 0
  BY <1>2
<1>4. /\ first \in Seq(Request)
      /\ Len(first) = Len(requests) + (IF client.stream THEN 1 ELSE 0)
      /\ \A i \in 1 .. Len(requests) : first[i] = requests[i]
      /\ client.stream => first[Len(requests) + 1] = [type |-> "destroy"]
  <2>1. CASE client.stream
    BY <1>1, <1>3, <2>1, ConcatProperties
  <2>2. CASE ~client.stream
    BY <1>1, <1>3, <2>2, ConcatProperties
  <2>3. QED BY <2>1, <2>2
<1>5. requests' = first \o last /\ last \in Seq(Request) /\ Len(last) = 1
      /\ last[1] = [type |-> "get_stream"] /\ Len(first) \in Nat
  BY <1>3, <1>4
<1> HIDE DEF first, last
<1>6. /\ requests' \in Seq(Request) /\ Len(requests') = Len(first) + 1
      /\ \A i \in 1 .. Len(first) : requests'[i] = first[i]
      /\ requests'[Len(first) + 1] = [type |-> "get_stream"]
  <2>1. /\ first \o last \in Seq(Request) /\ Len(first \o last) = Len(first) + Len(last)
        /\ \A i \in 1 .. Len(first) + Len(last) :
             (first \o last)[i] = IF i <= Len(first) THEN first[i] ELSE last[i - Len(first)]
    BY <1>4, <1>5, ConcatProperties
  <2>2. (first \o last)[Len(first) + 1] = last[(Len(first) + 1) - Len(first)]
    BY <1>5, <2>1
  <2>3. (Len(first) + 1) - Len(first) = 1
    BY <1>5
  <2>4. \A i \in 1 .. Len(first) : (first \o last)[i] = first[i]
    BY <1>5, <2>1
  <2>5. (first \o last)[Len(first) + 1] = [type |-> "get_stream"]
    BY <1>5, <2>2, <2>3
  <2>6. QED BY <1>5, <2>1, <2>4, <2>5
<1>7. CASE client.stream
  <2>1. Len(first) = Len(requests) + 1 /\ Len(requests) + 1 \in 1 .. Len(first)
    BY <1>1, <1>4, <1>7
  <2>2. QED BY <1>1, <1>4, <1>6, <1>7, <2>1
<1>8. CASE ~client.stream
  <2>1. Len(first) = Len(requests)
    BY <1>1, <1>4, <1>8
  <2>2. QED BY <1>1, <1>4, <1>6, <1>8, <2>1
<1>9. QED BY <1>7, <1>8

-----------------------------------------------------------------------------
\* Division of a position by the capacity, as the provers need it spelled out.
LEMMA DivMod ==
  ASSUME NEW C \in Nat \ {0}, NEW p \in Nat
  PROVE  p = (C * (p \div C)) + (p % C) /\ p \div C \in Int /\ p % C \in 0 .. C - 1
  BY SMT

LEMMA Multiple ==
  ASSUME NEW C \in Nat \ {0}, NEW d \in Int, d >= 1
  PROVE  C * d >= C
  BY SMT

\* Positions in one slot are a whole number of capacities apart.
LEMMA SlotsDiffer ==
  ASSUME NEW C \in Nat \ {0}, NEW p \in Nat, NEW q \in Nat, p < q, q - p < C
  PROVE  p % C # q % C
<1> SUFFICES ASSUME p % C = q % C PROVE FALSE OBVIOUS
<1> DEFINE a == p \div C
<1> DEFINE b == q \div C
<1> DEFINE r == p % C
<1>1. a \in Int /\ b \in Int /\ r \in 0 .. C - 1 /\ p = (C * a) + r /\ q = (C * b) + r
  BY DivMod
<1> HIDE DEF a, b, r
<1>2. q - p = C * (b - a)
  BY <1>1
<1>3. b - a >= 1 => C * (b - a) >= C
  BY <1>1, Multiple
<1>4. b - a <= 0 => C * (b - a) <= 0
  BY <1>1
<1>5. QED BY <1>1, <1>2, <1>3, <1>4

\* A position that has not given its room back still has its record in its slot.
LEMMA SlotIsRecord ==
  ASSUME TypeOK, NEW p \in Nat, tail <= p, p < Len(log)
  PROVE  SlotAt(p) = log[p + 1]
<1> DEFINE writes == {i \in 1 .. Len(log) : (i - 1) % Capacity = p % Capacity}
<1>1. /\ Len(log) \in Nat /\ tail \in Nat /\ Len(log) - tail <= Capacity
      /\ Capacity \in Nat \ {0}
  BY BoundsNat DEF TypeOK
<1>2. p + 1 \in writes
  BY <1>1
<1>3. \A j \in writes : j <= p + 1
  <2>1. SUFFICES ASSUME NEW j \in writes, j > p + 1 PROVE FALSE
    BY <1>1
  <2>2. j - 1 \in Nat /\ p < j - 1 /\ j - 1 - p < Capacity
    BY <1>1, <2>1
  <2>3. p % Capacity # (j - 1) % Capacity
    BY <1>1, <2>2, SlotsDiffer
  <2>4. QED BY <2>1, <2>3
<1>4. SlotAt(p) = log[CHOOSE i \in writes : \A j \in writes : j <= i]
  BY <1>2 DEF SlotAt
<1> DEFINE newest == CHOOSE i \in writes : \A j \in writes : j <= i
<1>5. newest \in writes /\ \A j \in writes : j <= newest
  BY <1>2, <1>3
<1>6. newest = p + 1
  <2>1. newest <= p + 1 /\ p + 1 <= newest
    BY <1>2, <1>3, <1>5
  <2>2. newest \in Int
    BY <1>5
  <2>3. QED BY <2>1, <2>2
<1>7. QED BY <1>4, <1>6

\* What a read finds between its cursor and the head is the history of the stream.
LEMMA BatchIsNext ==
  ASSUME TypeOK, Typed, client.generation = streams, snapshot \in client.localTail .. Len(log)
  PROVE  /\ Batch \in Seq(Sequence) /\ Len(Batch) = snapshot - client.localTail
         /\ \A i \in 1 .. Len(Batch) :
              Batch[i] = log[client.localTail + i] /\ client.localTail + i \in 1 .. Len(log)
<1>1. /\ client.localTail \in Nat /\ snapshot \in Nat /\ Len(log) \in Nat /\ tail \in Nat
      /\ tail <= client.localTail /\ client.localTail <= snapshot /\ snapshot <= Len(log)
  BY DEF TypeOK, Typed, Client
<1>2. \A i \in 1 .. snapshot - client.localTail :
        /\ SlotAt(client.localTail + i - 1) = log[client.localTail + i]
        /\ client.localTail + i \in 1 .. Len(log)
  <2>1. TAKE i \in 1 .. snapshot - client.localTail
  <2>2. /\ client.localTail + i - 1 \in Nat /\ tail <= client.localTail + i - 1
        /\ client.localTail + i - 1 < Len(log)
        /\ client.localTail + i \in 1 .. Len(log)
        /\ client.localTail + i - 1 + 1 = client.localTail + i
    BY <1>1
  <2>3. QED BY <2>2, SlotIsRecord
<1>3. \A k \in 1 .. Len(log) : log[k] \in Sequence
  BY ElementOfSeq DEF TypeOK
<1>4. snapshot - client.localTail \in Nat
  BY <1>1
<1>5. \A i \in 1 .. snapshot - client.localTail :
        SlotAt(client.localTail + i - 1) \in Sequence
  BY <1>2, <1>3
<1>6. Batch \in Seq(Sequence) /\ Len(Batch) = snapshot - client.localTail
  BY <1>4, <1>5 DEF Batch
<1>7. \A i \in 1 .. snapshot - client.localTail :
        Batch[i] = SlotAt(client.localTail + i - 1)
  BY DEF Batch
<1>8. QED BY <1>2, <1>6, <1>7

\* Without a drop the batch passes the check of its sequence numbers.
LEMMA NoDropInSequence ==
  ASSUME GameInv, pc \in {"earlyCopy", "lateCopy"}, dropped = 0
  PROVE  InSequence(Batch)
<1>1. /\ client.generation = streams /\ streams # 0
      /\ snapshot \in client.localTail .. Len(log)
      /\ client.localTail \in Nat /\ Len(log) \in Nat
  BY BoundsNat DEF GameInv, TypeOK, Typed, Client, CursorKnown, GenerationKnown, Usable
<1>2. /\ Len(Batch) \in Nat
      /\ \A i \in 1 .. Len(Batch) :
           Batch[i] = log[client.localTail + i] /\ client.localTail + i \in 1 .. Len(log)
  BY <1>1, BatchIsNext DEF GameInv
<1>3. \A k \in 1 .. Len(log) : log[k] \in Nat \ {0}
  <2>1. log \in Seq(Sequence) /\ Sequence \subseteq Nat \ {0}
    BY BoundsNat DEF GameInv, TypeOK, Sequence
  <2>2. QED BY <2>1, ElementOfSeq
<1>4. \A k \in 1 .. Len(log) - 1 : log[k + 1] = log[k] + 1
  BY DEF GameInv, LogOrdered
<1>5. ASSUME NEW i \in 1 .. Len(Batch), i > 1
      PROVE  Batch[i] = Batch[i - 1] + 1
  <2>1. client.localTail + (i - 1) \in 1 .. Len(log) - 1 /\ i - 1 \in 1 .. Len(Batch)
    BY <1>1, <1>2, <1>5
  <2>2. (client.localTail + (i - 1)) + 1 = client.localTail + i
    BY <1>1, <1>2
  <2>3. log[(client.localTail + (i - 1)) + 1] = log[client.localTail + (i - 1)] + 1
    BY <1>4, <2>1
  <2>4. QED BY <1>2, <2>1, <2>2, <2>3
<1>6. ASSUME 1 \in 1 .. Len(Batch)
      PROVE  client.expected \in {0, Batch[1]}
  <2>1. CASE client.expected = 0
    BY <2>1
  <2>2. CASE client.expected # 0
    <3>1. client.localTail \in 1 .. Len(log) - 1 /\ client.expected = log[client.localTail] + 1
      BY <1>1, <1>2, <1>6, <2>2 DEF GameInv, CursorKnown
    <3>2. log[client.localTail + 1] = log[client.localTail] + 1
      BY <1>4, <3>1
    <3>3. QED BY <1>2, <1>6, <3>1, <3>2
  <2>3. QED BY <2>1, <2>2
<1>7. \A i \in 1 .. Len(Batch) : Batch[i] # 0
  BY <1>2, <1>3
<1>8. QED BY <1>2, <1>5, <1>6, <1>7 DEF InSequence

-----------------------------------------------------------------------------
\* What Observe changes: the ring has room for the record, or the drop is counted.
LEMMA ObserveEffect ==
  ASSUME GameInv, Observe
  PROVE  /\ UNCHANGED <<granted, streams, tail, requests, client, snapshot, pc, mode, captured,
                        measuring, integrity, measuredFrom, early, late, used>>
         /\ granted # 0 /\ granted = streams /\ client.generation \in Nat
         /\ nextSequence \in Sequence /\ nextSequence' = nextSequence + 1
         /\ client.localTail \in Nat
         /\ log' \in Seq(Sequence) /\ Len(log) \in Nat /\ Len(log') \in Nat
         /\ \A i \in 1 .. Len(log) : log[i] \in Nat /\ log[i] < nextSequence /\ log'[i] = log[i]
         /\ \/ /\ Len(log') = Len(log) + 1 /\ log'[Len(log) + 1] = nextSequence
               /\ Len(log) - tail < Capacity /\ dropped' = dropped
            \/ log' = log /\ dropped' = dropped + 1
         /\ events' \in Seq({"active", "denied", "overflow", "revoked"})
         /\ "active" \in Range(events') => "active" \in Range(events)
         /\ (\E i \in 1 .. Len(events) : events[i] = "revoked")
              => \E i \in 1 .. Len(events') : events'[i] = "revoked"
<1>1. /\ UNCHANGED <<granted, streams, tail, requests, client, snapshot, pc, mode, captured,
                     measuring, integrity, measuredFrom, early, late, used>>
      /\ granted # 0 /\ granted = streams /\ client.generation \in Nat
      /\ nextSequence \in Sequence /\ nextSequence' = nextSequence + 1
      /\ client.localTail \in Nat
  BY BoundsNat DEF GameInv, TypeOK, Typed, Client, Observe, loopVars, batchVars, Sequence
<1>2. /\ log' \in Seq(Sequence) /\ Len(log) \in Nat /\ Len(log') \in Nat
      /\ \A i \in 1 .. Len(log) : log[i] \in Nat /\ log[i] < nextSequence /\ log'[i] = log[i]
      /\ \/ /\ Len(log') = Len(log) + 1 /\ log'[Len(log) + 1] = nextSequence
            /\ Len(log) - tail < Capacity /\ dropped' = dropped
         \/ log' = log /\ dropped' = dropped + 1
  <2>1. /\ log \in Seq(Sequence) /\ Len(log) \in Nat
        /\ \A i \in 1 .. Len(log) : log[i] \in Nat /\ log[i] < nextSequence
    <3>1. log \in Seq(Sequence) /\ Sequence \subseteq Nat
      BY BoundsNat DEF GameInv, TypeOK, Sequence
    <3>2. Len(log) \in Nat /\ \A i \in 1 .. Len(log) : log[i] \in Nat
      <4>1. \A i \in 1 .. Len(log) : log[i] \in Sequence
        BY <3>1, ElementOfSeq
      <4>2. \A i \in 1 .. Len(log) : log[i] \in Nat
        BY <3>1, <4>1
      <4>3. Len(log) \in Nat
        BY <3>1
      <4>4. QED BY <4>2, <4>3
    <3>3. \A i \in 1 .. Len(log) : log[i] < nextSequence
      BY DEF GameInv, LogOrdered
    <3>4. QED BY <3>1, <3>2, <3>3
  <2>2. CASE Len(log) - tail < Capacity
    <3>1. log' = Append(log, nextSequence) /\ dropped' = dropped
      BY <2>2 DEF Observe
    <3>2. QED BY <1>1, <2>1, <2>2, <3>1, AppendProperties
  <2>3. CASE ~(Len(log) - tail < Capacity)
    BY <2>1, <2>3 DEF Observe
  <2>4. QED BY <2>2, <2>3
<1>3. /\ events' \in Seq({"active", "denied", "overflow", "revoked"})
      /\ "active" \in Range(events') => "active" \in Range(events)
      /\ (\E i \in 1 .. Len(events) : events[i] = "revoked")
           => \E i \in 1 .. Len(events') : events'[i] = "revoked"
  <2>1. CASE events' = events
    BY <2>1 DEF GameInv, TypeOK
  <2>2. CASE events' = Append(events, "overflow")
    BY <2>2, EventAdded DEF GameInv
  <2>3. QED BY <2>1, <2>2 DEF Observe
<1>4. QED
  BY <1>1, <1>2, <1>3

\* GameInv is preserved by Observe: a record is the newest, or dropped and counted.
LEMMA ObserveStep ==
  ASSUME GameInv, Observe
  PROVE  GameInv'
<1>1. TypeOK'
  <2>1. /\ dropped' \in Nat /\ nextSequence' \in 1 .. MaxSequence + 1
        /\ tail \in 0 .. Len(log') /\ Len(log') - tail <= Capacity /\ Len(log) <= Len(log')
    <3>1. /\ dropped \in Nat /\ tail \in 0 .. Len(log) /\ Len(log) - tail <= Capacity
          /\ Capacity \in Nat
      BY BoundsNat DEF GameInv, TypeOK
    <3>2. nextSequence' \in 1 .. MaxSequence + 1
      BY ObserveEffect, BoundsNat DEF Sequence
    <3>3. CASE log' = log /\ dropped' = dropped + 1
      BY ObserveEffect, <3>1, <3>2, <3>3
    <3>4. CASE Len(log') = Len(log) + 1 /\ Len(log) - tail < Capacity /\ dropped' = dropped
      BY ObserveEffect, <3>1, <3>2, <3>4
    <3>5. QED BY ObserveEffect, <3>3, <3>4
  <2>2. client.generation = streams => client.localTail <= Len(log')
    <3>1. client.generation = streams => client.localTail <= Len(log)
      BY DEF GameInv, TypeOK
    <3>2. client.localTail \in Nat /\ Len(log) \in Nat /\ Len(log') \in Nat
      BY ObserveEffect
    <3>3. QED BY <2>1, <3>1, <3>2
  <2>3. log' \in Seq(Sequence) /\ events' \in Seq({"active", "denied", "overflow", "revoked"})
    BY ObserveEffect
  <2>4. UNCHANGED <<granted, streams, tail, requests, client, snapshot, pc, mode, captured,
                    measuring, integrity, measuredFrom, early, late, used>>
    BY ObserveEffect
  <2>5. QED BY <2>1, <2>2, <2>3, <2>4 DEF GameInv, TypeOK
<1>2. Typed'
  BY ObserveEffect DEF GameInv, Typed
<1>3. RequestsOrdered'
  BY ObserveEffect DEF GameInv, RequestsOrdered
<1>4. AcksKnown'
  BY ObserveEffect DEF GameInv, AcksKnown
<1>5. LeaseHeld'
  BY ObserveEffect DEF GameInv, LeaseHeld, Pending
<1>6. GenerationKnown'
  BY ObserveEffect DEF GameInv, GenerationKnown
<1>7. EventsKnown'
  BY ObserveEffect DEF GameInv, EventsKnown
<1>8. LogOrdered'
  <2>1. nextSequence \in Nat /\ dropped \in Nat
    BY ObserveEffect, BoundsNat DEF Sequence, GameInv, TypeOK
  <2>2. \A i \in 1 .. Len(log) : log[i] < nextSequence'
    BY ObserveEffect, <2>1
  <2>3. CASE log' = log /\ dropped' = dropped + 1
    BY ObserveEffect, <2>1, <2>2, <2>3 DEF GameInv, LogOrdered
  <2>4. CASE dropped' = dropped /\ Len(log') = Len(log) + 1 /\ log'[Len(log) + 1] = nextSequence
    <3>1. \A i \in 1 .. Len(log') : log'[i] < nextSequence'
      BY ObserveEffect, <2>1, <2>2, <2>4
    <3>2. \A i, j \in 1 .. Len(log') : i < j => log'[i] < log'[j]
      <4>1. /\ Len(log) \in Nat
            /\ \A i \in 1 .. Len(log) : log'[i] = log[i] /\ log[i] < nextSequence
        BY ObserveEffect, BoundsNat
      <4>2. \A i, j \in 1 .. Len(log) : i < j => log[i] < log[j]
        BY DEF GameInv, LogOrdered
      <4>3. SUFFICES ASSUME NEW i \in 1 .. Len(log'), NEW j \in 1 .. Len(log'), i < j
                     PROVE  log'[i] < log'[j]
        OBVIOUS
      <4>4. i \in 1 .. Len(log)
        BY <2>4, <4>1, <4>3
      <4>5. CASE j \in 1 .. Len(log)
        BY <4>1, <4>2, <4>3, <4>4, <4>5
      <4>6. CASE j = Len(log) + 1
        BY <2>4, <4>1, <4>4, <4>6
      <4>7. QED BY <2>4, <4>1, <4>5, <4>6
    <3>3. dropped' = 0 => \A i \in 1 .. Len(log') - 1 : log'[i + 1] = log'[i] + 1
      <4>1. SUFFICES ASSUME dropped = 0, NEW i \in 1 .. Len(log)
                     PROVE  log'[i + 1] = log'[i] + 1
        BY ObserveEffect, <2>4
      <4>2. CASE i = Len(log)
        <5>1. log # <<>>
          BY <4>2, EmptySeq
        <5>2. QED BY ObserveEffect, <2>4, <4>1, <4>2, <5>1 DEF GameInv, LogOrdered
      <4>3. CASE i # Len(log)
        <5>1. i \in 1 .. Len(log) - 1 /\ i + 1 \in 1 .. Len(log)
          BY ObserveEffect, <4>1, <4>3
        <5>2. log[i + 1] = log[i] + 1
          BY <2>4, <4>1, <5>1 DEF GameInv, LogOrdered
        <5>3. QED BY ObserveEffect, <4>1, <5>1, <5>2
      <4>4. QED BY <4>2, <4>3
    <3>4. QED BY ObserveEffect, <2>4, <3>1, <3>2, <3>3 DEF GameInv, LogOrdered
  <2>5. QED BY ObserveEffect, <2>3, <2>4
<1>9. CursorKnown'
  <2>1. client.generation # 0 => client.localTail <= Len(log)
    BY DEF GameInv, TypeOK, GenerationKnown
  <2>2. Len(log) <= Len(log')
    BY ObserveEffect
  <2>3. client.generation # 0 => \A i \in 1 .. client.localTail : log'[i] = log[i]
    BY ObserveEffect, <2>1
  <2>4. client.generation # 0 => \A i \in 1 .. client.localTail - 1 :
          i \in 1 .. client.localTail /\ i + 1 \in 1 .. client.localTail
    BY ObserveEffect
  <2>5. client.generation # 0 =>
          /\ \A i \in 1 .. client.localTail - 1 : log'[i + 1] = log'[i] + 1
          /\ \/ client.expected = 0
             \/ client.localTail >= 1 /\ client.expected = log'[client.localTail] + 1
    BY ObserveEffect, <2>3, <2>4 DEF GameInv, CursorKnown
  <2>6. pc \in {"earlyCopy", "lateCopy"} =>
          Usable(client) /\ snapshot \in client.localTail .. Len(log')
    BY ObserveEffect, <2>2 DEF GameInv, CursorKnown, Typed
  <2>7. QED BY ObserveEffect, <2>5, <2>6 DEF CursorKnown, Usable
<1>10. MeasuringUsable'
  BY ObserveEffect DEF GameInv, MeasuringUsable, Usable
<1>11. NoSequenceErrors'
  BY ObserveEffect DEF GameInv, NoSequenceErrors
<1>12. RevocationPending'
  BY ObserveEffect DEF GameInv, RevocationPending, Usable
<1>13. QED
  BY <1>1, <1>2, <1>3, <1>4, <1>5, <1>6, <1>7, <1>8, <1>9, <1>10, <1>11, <1>12
     DEF GameInv

\* What Revoke changes.
LEMMA RevokeEffect ==
  ASSUME GameInv, Revoke
  PROVE  /\ UNCHANGED <<streams, log, tail, dropped, nextSequence, requests, client, snapshot, pc,
                        mode, captured, measuring, integrity, measuredFrom, early, late, used>>
         /\ granted # 0 /\ granted' = 0
         /\ events' \in Seq({"active", "denied", "overflow", "revoked"})
         /\ events' # <<>> /\ Last(events') # "active"
         /\ "active" \in Range(events') => "active" \in Range(events)
         /\ \E i \in 1 .. Len(events') : events'[i] = "revoked"
<1>1. /\ UNCHANGED <<streams, log, tail, dropped, nextSequence, requests, client, snapshot, pc,
                     mode, captured, measuring, integrity, measuredFrom, early, late, used>>
      /\ granted # 0 /\ granted' = 0
  BY DEF Revoke, loopVars, batchVars
<1>2. /\ events' \in Seq({"active", "denied", "overflow", "revoked"})
      /\ events' # <<>> /\ Last(events') # "active"
      /\ "active" \in Range(events') => "active" \in Range(events)
      /\ \E i \in 1 .. Len(events') : events'[i] = "revoked"
  BY EventAdded DEF GameInv, Revoke
<1>3. QED
  BY <1>1, <1>2

\* GameInv is preserved by Revoke: the news is in the queue.
LEMMA RevokeStep ==
  ASSUME GameInv, Revoke
  PROVE  GameInv'
<1>1. TypeOK'
  BY RevokeEffect DEF GameInv, TypeOK
<1>2. Typed'
  BY RevokeEffect DEF GameInv, Typed
<1>3. RequestsOrdered'
  BY RevokeEffect DEF GameInv, RequestsOrdered
<1>4. AcksKnown'
  BY RevokeEffect DEF GameInv, AcksKnown
<1>5. LeaseHeld'
  BY RevokeEffect DEF GameInv, LeaseHeld, Pending
<1>6. GenerationKnown'
  BY RevokeEffect DEF GameInv, GenerationKnown
<1>7. EventsKnown'
  BY RevokeEffect DEF GameInv, EventsKnown
<1>8. LogOrdered'
  BY RevokeEffect DEF GameInv, LogOrdered
<1>9. CursorKnown'
  BY RevokeEffect DEF GameInv, CursorKnown, Usable
<1>10. MeasuringUsable'
  BY RevokeEffect DEF GameInv, MeasuringUsable, Usable
<1>11. NoSequenceErrors'
  BY RevokeEffect DEF GameInv, NoSequenceErrors
<1>12. RevocationPending'
  BY RevokeEffect DEF GameInv, RevocationPending, Usable
<1>13. QED
  BY <1>1, <1>2, <1>3, <1>4, <1>5, <1>6, <1>7, <1>8, <1>9, <1>10, <1>11, <1>12
     DEF GameInv

\* What the answer to get_stream changes: nothing else is on its way, and the
\* client is in no stream.
LEMMA GetStreamEffect ==
  ASSUME GameInv, requests # <<>>, Head(requests).type = "get_stream",
         HandleRequest
  PROVE  /\ Len(requests) \in Nat \ {0} /\ requests[1].type = "get_stream"
         /\ requests[1] \in Request
         /\ requests' \in Seq(Request) /\ Len(requests') = Len(requests) - 1
         /\ \A i \in 1 .. Len(requests') :
              requests'[i] = requests[i + 1] /\ i + 1 \in 1 .. Len(requests)
         /\ requests' = <<>> /\ Len(requests') = 0 /\ pc = "roundtrip" /\ granted = 0
         /\ client.generation = 0 /\ client.stream /\ ~client.active
         /\ streams \in Nat
         /\ UNCHANGED <<nextSequence, client, snapshot, pc, mode, captured, measuring, integrity,
                        measuredFrom, early, late, used>>
         /\ AnswerGetStream
         /\ \/ /\ granted' = streams + 1 /\ streams' = streams + 1 /\ streams + 1 <= MaxStreams
               /\ log' = <<>> /\ Len(log') = 0 /\ tail' = 0 /\ dropped' = 0
               /\ events' \in Seq({"active", "denied", "overflow", "revoked"})
               /\ events' # <<>>
            \/ /\ UNCHANGED <<granted, streams, log, tail, dropped>>
               /\ events' \in Seq({"active", "denied", "overflow", "revoked"})
               /\ events' # <<>> /\ Last(events') # "active"
               /\ "active" \in Range(events') => "active" \in Range(events)
<1>1. /\ Len(requests) \in Nat \ {0} /\ requests[1].type = "get_stream" /\ requests[1] \in Request
      /\ requests' \in Seq(Request) /\ Len(requests') = Len(requests) - 1
      /\ \A i \in 1 .. Len(requests') :
           requests'[i] = requests[i + 1] /\ i + 1 \in 1 .. Len(requests)
  BY RequestTaken DEF GameInv, HandleRequest
<1>2. /\ requests' = <<>> /\ Len(requests') = 0 /\ pc = "roundtrip" /\ granted = 0
      /\ client.generation = 0 /\ client.stream /\ ~client.active
      /\ streams \in Nat
  <2>1. pc = "roundtrip" /\ Len(requests) = 1
    BY <1>1 DEF GameInv, RequestsOrdered
  <2>2. ~Pending("destroy") /\ Pending("get_stream")
    <3>1. \A i \in 1 .. Len(requests) : i = 1
      BY <2>1
    <3>2. 1 \in 1 .. Len(requests)
      BY <1>1
    <3>3. requests[1].type # "destroy"
      BY <1>1
    <3>4. QED BY <1>1, <3>1, <3>2, <3>3 DEF Pending
  <2>3. Len(requests') = 0 /\ requests' = <<>>
    <3>1. Len(requests') = 0
      BY <1>1, <2>1
    <3>2. QED BY <1>1, <3>1, EmptySeq
  <2>4. granted = 0 /\ client.generation = 0 /\ client.stream /\ ~client.active
    BY <2>1, <2>2 DEF GameInv, LeaseHeld, GenerationKnown
  <2>5. streams \in Nat
    BY BoundsNat DEF GameInv, TypeOK
  <2>6. QED BY <2>1, <2>3, <2>4, <2>5
<1>3. /\ UNCHANGED <<nextSequence, client, snapshot, pc, mode, captured, measuring, integrity,
                     measuredFrom, early, late, used>>
      /\ AnswerGetStream
  BY DEF HandleRequest, loopVars, batchVars
<1>4. \/ /\ granted' = streams + 1 /\ streams' = streams + 1 /\ streams + 1 <= MaxStreams
         /\ log' = <<>> /\ Len(log') = 0 /\ tail' = 0 /\ dropped' = 0
         /\ events' \in Seq({"active", "denied", "overflow", "revoked"})
         /\ events' # <<>>
      \/ /\ UNCHANGED <<granted, streams, log, tail, dropped>>
         /\ events' \in Seq({"active", "denied", "overflow", "revoked"})
         /\ events' # <<>> /\ Last(events') # "active"
         /\ "active" \in Range(events') => "active" \in Range(events)
  <2>1. CASE /\ streams < MaxStreams /\ granted' = streams + 1 /\ streams' = granted'
             /\ log' = <<>> /\ tail' = 0 /\ dropped' = 0 /\ events' = Append(events, "active")
    BY <1>2, <2>1, EventAdded, EmptySeq, BoundsNat DEF GameInv
  <2>2. CASE /\ events' = Append(events, "denied")
             /\ UNCHANGED <<granted, streams, log, tail, dropped>>
    BY <2>2, EventAdded DEF GameInv
  <2>3. QED BY <1>3, <2>1, <2>2 DEF AnswerGetStream
<1>5. QED
  BY <1>1, <1>2, <1>3, <1>4

\* GameInv is preserved by GetStream: the stream before has been given back.
LEMMA GetStreamStep ==
  ASSUME GameInv, requests # <<>>, Head(requests).type = "get_stream",
         HandleRequest
  PROVE  GameInv'
<1>1. TypeOK'
  <2>1. log' \in Seq(Sequence) /\ tail' \in 0 .. Len(log') /\ Len(log') - tail' <= Capacity
    <3>1. log \in Seq(Sequence) /\ tail \in 0 .. Len(log) /\ Len(log) - tail <= Capacity
      BY DEF GameInv, TypeOK
    <3>2. <<>> \in Seq(Sequence) /\ 0 \in 0 .. 0 /\ 0 - 0 <= Capacity
      BY EmptySeq, BoundsNat
    <3>3. CASE log' = <<>> /\ Len(log') = 0 /\ tail' = 0
      <4>1. log' \in Seq(Sequence)
        BY <3>2, <3>3
      <4>2. QED BY <3>3, <4>1, BoundsNat
    <3>4. CASE UNCHANGED <<log, tail>>
      BY <3>1, <3>4
    <3>5. QED BY GetStreamEffect, <3>3, <3>4
  <2>2. /\ granted' \in {0, streams'} /\ streams' \in 0 .. MaxStreams /\ dropped' \in Nat
        /\ client.generation \in 0 .. streams'
        /\ client.generation = streams' => UNCHANGED <<streams, log, tail>>
    <3>1. /\ granted \in {0, streams} /\ streams \in 0 .. MaxStreams /\ dropped \in Nat
          /\ client.generation = 0 /\ MaxStreams \in Nat
      BY GetStreamEffect, BoundsNat DEF GameInv, TypeOK
    <3>2. CASE /\ granted' = streams + 1 /\ streams' = streams + 1 /\ streams + 1 <= MaxStreams
               /\ dropped' = 0
      BY <3>1, <3>2
    <3>3. CASE UNCHANGED <<granted, streams, log, tail, dropped>>
      BY <3>1, <3>3
    <3>4. QED BY GetStreamEffect, <3>2, <3>3
  <2>3. QED BY GetStreamEffect, <2>1, <2>2 DEF GameInv, TypeOK
<1>2. Typed'
  BY GetStreamEffect DEF GameInv, Typed
<1>3. RequestsOrdered'
  BY GetStreamEffect DEF GameInv, RequestsOrdered
<1>4. AcksKnown'
  <2>1. \A i \in 1 .. Len(requests') : FALSE
    BY GetStreamEffect
  <2>2. QED BY <2>1 DEF AcksKnown
<1>5. LeaseHeld'
  <2>1. \A i \in 1 .. Len(requests') : FALSE
    BY GetStreamEffect
  <2>2. ~Pending("destroy")' /\ ~Pending("get_stream")'
    BY <2>1 DEF Pending
  <2>3. QED BY GetStreamEffect, <2>2 DEF LeaseHeld
<1>6. GenerationKnown'
  BY GetStreamEffect DEF GameInv, GenerationKnown
<1>7. EventsKnown'
  <2>1. requests' = <<>> /\ pc' = "roundtrip"
    BY GetStreamEffect
  <2>2. streams + 1 # 0 /\ granted = 0 /\ "active" \in Range(events) => requests = <<>>
    BY GetStreamEffect DEF GameInv, EventsKnown
  <2>3. requests # <<>>
    OBVIOUS
  <2>4. QED BY GetStreamEffect, <2>1, <2>2, <2>3 DEF EventsKnown
<1>8. LogOrdered'
  BY GetStreamEffect DEF GameInv, LogOrdered
<1>9. CursorKnown'
  BY GetStreamEffect DEF GameInv, CursorKnown, Usable
<1>10. MeasuringUsable'
  BY GetStreamEffect DEF GameInv, MeasuringUsable, Usable
<1>11. NoSequenceErrors'
  BY GetStreamEffect DEF GameInv, NoSequenceErrors
<1>12. RevocationPending'
  BY GetStreamEffect DEF GameInv, RevocationPending, Usable
<1>13. QED
  BY <1>1, <1>2, <1>3, <1>4, <1>5, <1>6, <1>7, <1>8, <1>9, <1>10, <1>11, <1>12
     DEF GameInv

\* What an acknowledgement changes: the tail follows, within the ring and behind
\* what the client has noted.
LEMMA TakeAcknowledgeEffect ==
  ASSUME GameInv, requests # <<>>, Head(requests).type = "acknowledge",
         HandleRequest
  PROVE  /\ Len(requests) \in Nat \ {0} /\ requests[1].type = "acknowledge"
         /\ requests[1] \in Request
         /\ requests' \in Seq(Request) /\ Len(requests') = Len(requests) - 1
         /\ \A i \in 1 .. Len(requests') :
              requests'[i] = requests[i + 1] /\ i + 1 \in 1 .. Len(requests)
         /\ UNCHANGED <<granted, streams, log, dropped, events, nextSequence, client, snapshot, pc,
                        mode, captured, measuring, integrity, measuredFrom, early, late, used>>
         /\ tail' = IF requests[1].generation = granted
                         /\ requests[1].consumed \in tail .. Len(log)
                      THEN requests[1].consumed ELSE tail
         /\ tail' \in 0 .. Len(log) /\ Len(log) - tail' <= Capacity
         /\ client.generation = streams => tail' <= client.acknowledgedTail
         /\ "active" \notin Range(events)
         /\ \A type \in {"destroy", "get_stream"} : Pending(type)' <=> Pending(type)
<1>1. /\ Len(requests) \in Nat \ {0} /\ requests[1].type = "acknowledge" /\ requests[1] \in Request
      /\ requests' \in Seq(Request) /\ Len(requests') = Len(requests) - 1
      /\ \A i \in 1 .. Len(requests') :
           requests'[i] = requests[i + 1] /\ i + 1 \in 1 .. Len(requests)
  BY RequestTaken DEF GameInv, HandleRequest
<1>2. /\ UNCHANGED <<granted, streams, log, dropped, events, nextSequence, client, snapshot, pc,
                     mode, captured, measuring, integrity, measuredFrom, early, late, used>>
      /\ tail' = IF requests[1].generation = granted
                      /\ requests[1].consumed \in tail .. Len(log)
                   THEN requests[1].consumed ELSE tail
  BY RequestTaken DEF GameInv, HandleRequest, TakeAcknowledge, loopVars, batchVars
<1>3. /\ tail' \in 0 .. Len(log) /\ Len(log) - tail' <= Capacity
      /\ client.generation = streams => tail' <= client.acknowledgedTail
      /\ "active" \notin Range(events)
  <2>1. requests[1].generation \in Nat \ {0} /\ requests[1].consumed \in Nat
    BY <1>1 DEF Request
  <2>2. granted \in {0, streams} /\ tail \in 0 .. Len(log) /\ Len(log) - tail <= Capacity
        /\ Len(log) \in Nat
    BY DEF GameInv, TypeOK
  <2>3. /\ client.generation = streams => tail <= client.acknowledgedTail
        /\ requests[1].generation = granted /\ client.generation = streams
             => requests[1].consumed <= client.acknowledgedTail
    <3>1. client.generation = streams => tail <= client.acknowledgedTail
      BY DEF GameInv, TypeOK
    <3>2. client.generation = streams => requests[1].consumed <= client.acknowledgedTail
      <4>1. 1 \in 1 .. Len(requests) /\ requests[1].type = "acknowledge"
        BY <1>1
      <4>2. \A i \in 1 .. Len(requests) :
              requests[i].type = "acknowledge" /\ client.generation = streams
                => requests[i].consumed <= client.acknowledgedTail
        BY DEF GameInv, AcksKnown
      <4>3. QED BY <4>1, <4>2
    <3>3. QED BY <2>1, <2>2, <3>1, <3>2
  <2>4. "active" \notin Range(events)
    BY DEF GameInv, EventsKnown
  <2>5. CASE requests[1].generation = granted /\ requests[1].consumed \in tail .. Len(log)
    <3>1. tail' = requests[1].consumed
      BY <1>2, <2>5
    <3>2. QED BY <2>1, <2>2, <2>3, <2>4, <2>5, <3>1, BoundsNat
  <2>6. CASE ~(requests[1].generation = granted /\ requests[1].consumed \in tail .. Len(log))
    BY <1>2, <2>2, <2>3, <2>4, <2>6
  <2>7. QED BY <2>5, <2>6
<1>4. \A type \in {"destroy", "get_stream"} : Pending(type)' <=> Pending(type)
  BY <1>1, PendingTaken DEF GameInv, HandleRequest
<1>5. QED
  BY <1>1, <1>2, <1>3, <1>4

\* GameInv is preserved by TakeAcknowledge: the tail stays behind what the client has noted.
LEMMA TakeAcknowledgeStep ==
  ASSUME GameInv, requests # <<>>, Head(requests).type = "acknowledge",
         HandleRequest
  PROVE  GameInv'
<1>1. TypeOK'
  BY TakeAcknowledgeEffect DEF GameInv, TypeOK
<1>2. Typed'
  BY TakeAcknowledgeEffect DEF GameInv, Typed
<1>3. RequestsOrdered'
  <2>1. \A i \in 1 .. Len(requests) :
          /\ requests[i].type = "get_stream" => i = Len(requests) /\ pc = "roundtrip"
          /\ requests[i].type = "destroy" =>
               \A j \in i + 1 .. Len(requests) : requests[j].type = "get_stream"
    BY DEF GameInv, RequestsOrdered
  <2>2. ASSUME NEW i \in 1 .. Len(requests'), requests'[i].type = "get_stream"
        PROVE  i = Len(requests') /\ pc' = "roundtrip"
    <3>1. i + 1 \in 1 .. Len(requests) /\ requests[i + 1].type = "get_stream"
      BY TakeAcknowledgeEffect, <2>2
    <3>2. i + 1 = Len(requests) /\ pc = "roundtrip"
      BY <2>1, <3>1
    <3>3. QED BY TakeAcknowledgeEffect, <3>2
  <2>3. ASSUME NEW i \in 1 .. Len(requests'), requests'[i].type = "destroy",
               NEW j \in i + 1 .. Len(requests')
        PROVE  requests'[j].type = "get_stream"
    <3>1. i + 1 \in 1 .. Len(requests) /\ requests[i + 1].type = "destroy"
      BY TakeAcknowledgeEffect, <2>3
    <3>2. j \in 1 .. Len(requests') /\ j + 1 \in i + 1 + 1 .. Len(requests)
      BY TakeAcknowledgeEffect, <2>3
    <3>3. requests[j + 1].type = "get_stream"
      BY <2>1, <3>1, <3>2
    <3>4. QED BY TakeAcknowledgeEffect, <3>2, <3>3
  <2>4. QED BY <2>2, <2>3 DEF RequestsOrdered
<1>4. AcksKnown'
  BY TakeAcknowledgeEffect DEF GameInv, AcksKnown
<1>5. LeaseHeld'
  BY TakeAcknowledgeEffect DEF GameInv, LeaseHeld
<1>6. GenerationKnown'
  BY TakeAcknowledgeEffect DEF GameInv, GenerationKnown
<1>7. EventsKnown'
  BY TakeAcknowledgeEffect DEF GameInv, EventsKnown
<1>8. LogOrdered'
  BY TakeAcknowledgeEffect DEF GameInv, LogOrdered
<1>9. CursorKnown'
  BY TakeAcknowledgeEffect DEF GameInv, CursorKnown, Usable
<1>10. MeasuringUsable'
  BY TakeAcknowledgeEffect DEF GameInv, MeasuringUsable, Usable
<1>11. NoSequenceErrors'
  BY TakeAcknowledgeEffect DEF GameInv, NoSequenceErrors
<1>12. RevocationPending'
  BY TakeAcknowledgeEffect DEF GameInv, RevocationPending, Usable
<1>13. QED
  BY <1>1, <1>2, <1>3, <1>4, <1>5, <1>6, <1>7, <1>8, <1>9, <1>10, <1>11, <1>12
     DEF GameInv

\* What destroy changes: the client has left the stream.
LEMMA DestroyEffect ==
  ASSUME GameInv, requests # <<>>, Head(requests).type = "destroy",
         HandleRequest
  PROVE  /\ Len(requests) \in Nat \ {0} /\ requests[1].type = "destroy"
         /\ requests[1] \in Request
         /\ requests' \in Seq(Request) /\ Len(requests') = Len(requests) - 1
         /\ \A i \in 1 .. Len(requests') :
              requests'[i] = requests[i + 1] /\ i + 1 \in 1 .. Len(requests)
         /\ UNCHANGED <<streams, log, tail, dropped, events, nextSequence, client, snapshot, pc,
                        mode, captured, measuring, integrity, measuredFrom, early, late, used>>
         /\ granted' = 0
         /\ Pending("destroy") /\ (client.stream => pc = "roundtrip") /\ client.generation = 0
         /\ ~client.active /\ "active" \notin Range(events)
         /\ (events # <<>> => Last(events) # "active")
         /\ \A type : Pending(type)' => Pending(type)
<1>1. /\ Len(requests) \in Nat \ {0} /\ requests[1].type = "destroy" /\ requests[1] \in Request
      /\ requests' \in Seq(Request) /\ Len(requests') = Len(requests) - 1
      /\ \A i \in 1 .. Len(requests') :
           requests'[i] = requests[i + 1] /\ i + 1 \in 1 .. Len(requests)
  BY RequestTaken DEF GameInv, HandleRequest
<1>2. /\ UNCHANGED <<streams, log, tail, dropped, events, nextSequence, client, snapshot, pc,
                     mode, captured, measuring, integrity, measuredFrom, early, late, used>>
      /\ granted' = 0
  BY DEF HandleRequest, loopVars, batchVars
<1>3. /\ Pending("destroy") /\ (client.stream => pc = "roundtrip") /\ client.generation = 0
      /\ ~client.active /\ "active" \notin Range(events)
      /\ (events # <<>> => Last(events) # "active")
  <2>1. Pending("destroy")
    BY <1>1 DEF Pending
  <2>2. (client.stream => pc = "roundtrip") /\ client.generation = 0 /\ ~client.active
    BY <2>1 DEF GameInv, LeaseHeld, GenerationKnown
  <2>3. "active" \notin Range(events)
    BY DEF GameInv, EventsKnown
  <2>4. events # <<>> => Last(events) \in Range(events)
    BY EmptySeq, RangeEquality DEF GameInv, TypeOK, Last
  <2>5. QED BY <2>1, <2>2, <2>3, <2>4
<1>4. \A type : Pending(type)' => Pending(type)
  BY PendingTaken DEF GameInv, HandleRequest
<1>5. QED
  BY <1>1, <1>2, <1>3, <1>4

\* GameInv is preserved by Destroy: the client is in no stream.
LEMMA DestroyStep ==
  ASSUME GameInv, requests # <<>>, Head(requests).type = "destroy",
         HandleRequest
  PROVE  GameInv'
<1>1. TypeOK'
  BY DestroyEffect DEF GameInv, TypeOK
<1>2. Typed'
  BY DestroyEffect DEF GameInv, Typed
<1>3. RequestsOrdered'
  <2>1. \A i \in 1 .. Len(requests) :
          /\ requests[i].type = "get_stream" => i = Len(requests) /\ pc = "roundtrip"
          /\ requests[i].type = "destroy" =>
               \A j \in i + 1 .. Len(requests) : requests[j].type = "get_stream"
    BY DEF GameInv, RequestsOrdered
  <2>2. ASSUME NEW i \in 1 .. Len(requests'), requests'[i].type = "get_stream"
        PROVE  i = Len(requests') /\ pc' = "roundtrip"
    <3>1. i + 1 \in 1 .. Len(requests) /\ requests[i + 1].type = "get_stream"
      BY DestroyEffect, <2>2
    <3>2. i + 1 = Len(requests) /\ pc = "roundtrip"
      BY <2>1, <3>1
    <3>3. QED BY DestroyEffect, <3>2
  <2>3. ASSUME NEW i \in 1 .. Len(requests'), requests'[i].type = "destroy",
               NEW j \in i + 1 .. Len(requests')
        PROVE  requests'[j].type = "get_stream"
    <3>1. i + 1 \in 1 .. Len(requests) /\ requests[i + 1].type = "destroy"
      BY DestroyEffect, <2>3
    <3>2. j \in 1 .. Len(requests') /\ j + 1 \in i + 1 + 1 .. Len(requests)
      BY DestroyEffect, <2>3
    <3>3. requests[j + 1].type = "get_stream"
      BY <2>1, <3>1, <3>2
    <3>4. QED BY DestroyEffect, <3>2, <3>3
  <2>4. QED BY <2>2, <2>3 DEF RequestsOrdered
<1>4. AcksKnown'
  BY DestroyEffect DEF GameInv, AcksKnown
<1>5. LeaseHeld'
  BY DestroyEffect DEF GameInv, LeaseHeld
<1>6. GenerationKnown'
  BY DestroyEffect DEF GameInv, GenerationKnown
<1>7. EventsKnown'
  BY DestroyEffect DEF GameInv, EventsKnown
<1>8. LogOrdered'
  BY DestroyEffect DEF GameInv, LogOrdered
<1>9. CursorKnown'
  BY DestroyEffect DEF GameInv, CursorKnown, Usable
<1>10. MeasuringUsable'
  BY DestroyEffect DEF GameInv, MeasuringUsable, Usable
<1>11. NoSequenceErrors'
  BY DestroyEffect DEF GameInv, NoSequenceErrors
<1>12. RevocationPending'
  BY DestroyEffect DEF GameInv, RevocationPending, Usable
<1>13. QED
  BY <1>1, <1>2, <1>3, <1>4, <1>5, <1>6, <1>7, <1>8, <1>9, <1>10, <1>11, <1>12
     DEF GameInv

\* GameInv is preserved by Loop: the frame loop moves on.
LEMMA LoopStep ==
  ASSUME GameInv, \/ BeginFrame \/ SkipConnect \/ CheckReady \/ ReadFailed \/ SkipRead
         \/ CheckSize \/ Apply \/ SkipAcknowledge \/ EndFrame
  PROVE  GameInv'
<1>1. TypeOK'
  <2>1. CASE Apply
    <3>1. (IF mode = "eager" THEN early \o late ELSE late) \in Seq(Sequence)
      BY ConcatProperties DEF GameInv, TypeOK
    <3>2. used' \in Seq(Sequence) /\ Len(used) \in Nat /\ Len(used') \in Nat
          /\ Len(used) <= Len(used')
      BY <2>1, <3>1, ConcatProperties DEF GameInv, TypeOK, Apply
    <3>3. measuredFrom \in 0 .. Len(used')
      BY <3>2 DEF GameInv, TypeOK
    <3>4. QED
      BY <2>1, <3>2, <3>3 DEF GameInv, TypeOK, ClientPC, Apply, compositorVars, wireVars
  <2>2. CASE BeginFrame
    BY <2>2, EmptySeq DEF GameInv, TypeOK, ClientPC, BeginFrame, compositorVars, wireVars
  <2>3. CASE CheckReady
    <3>1. measuredFrom' \in 0 .. Len(used)
      BY <2>3 DEF GameInv, TypeOK, CheckReady
    <3>2. QED
      BY <2>3, <3>1
         DEF GameInv, TypeOK, ClientPC, CheckReady, compositorVars, wireVars, batchVars
  <2>4. CASE ReadFailed \/ EndFrame \/ CheckSize
    BY <2>4 DEF GameInv, TypeOK, ClientPC, ReadFailed, EndFrame, CheckSize, compositorVars,
       wireVars, loopVars, batchVars
  <2>5. CASE SkipConnect \/ SkipRead \/ SkipAcknowledge
    BY <2>5 DEF GameInv, TypeOK, ClientPC, SkipConnect, SkipRead, SkipAcknowledge,
       compositorVars, wireVars, loopVars, batchVars
  <2>6. QED BY <2>1, <2>2, <2>3, <2>4, <2>5
<1>2. Typed'
  BY DEF GameInv, TypeOK, Typed, Client, BeginFrame, SkipConnect, CheckReady, ReadFailed,
     SkipRead, CheckSize, Apply, SkipAcknowledge, EndFrame, compositorVars, wireVars,
     loopVars, batchVars
<1>3. RequestsOrdered'
  BY DEF GameInv, TypeOK, RequestsOrdered, BeginFrame, SkipConnect, CheckReady, ReadFailed,
     SkipRead, CheckSize, Apply, SkipAcknowledge, EndFrame, compositorVars, wireVars,
     loopVars, batchVars
<1>4. AcksKnown'
  BY DEF GameInv, TypeOK, AcksKnown, BeginFrame, SkipConnect, CheckReady, ReadFailed,
     SkipRead, CheckSize, Apply, SkipAcknowledge, EndFrame, compositorVars, wireVars,
     loopVars, batchVars
<1>5. LeaseHeld'
  BY DEF GameInv, TypeOK, LeaseHeld, Pending, BeginFrame, SkipConnect, CheckReady,
     ReadFailed, SkipRead, CheckSize, Apply, SkipAcknowledge, EndFrame, compositorVars,
     wireVars, loopVars, batchVars
<1>6. GenerationKnown'
  BY DEF GameInv, TypeOK, GenerationKnown, BeginFrame, SkipConnect, CheckReady, ReadFailed,
     SkipRead, CheckSize, Apply, SkipAcknowledge, EndFrame, compositorVars, wireVars,
     loopVars, batchVars
<1>7. EventsKnown'
  BY DEF GameInv, TypeOK, EventsKnown, BeginFrame, SkipConnect, CheckReady, ReadFailed,
     SkipRead, CheckSize, Apply, SkipAcknowledge, EndFrame, compositorVars, wireVars,
     loopVars, batchVars
<1>8. LogOrdered'
  BY DEF GameInv, TypeOK, LogOrdered, BeginFrame, SkipConnect, CheckReady, ReadFailed,
     SkipRead, CheckSize, Apply, SkipAcknowledge, EndFrame, compositorVars, wireVars,
     loopVars, batchVars
<1>9. CursorKnown'
  BY DEF GameInv, TypeOK, CursorKnown, Usable, BeginFrame, SkipConnect, CheckReady,
     ReadFailed, SkipRead, CheckSize, Apply, SkipAcknowledge, EndFrame, compositorVars,
     wireVars, loopVars, batchVars
<1>10. MeasuringUsable'
  BY DEF GameInv, TypeOK, MeasuringUsable, Usable, BeginFrame, SkipConnect, CheckReady,
     ReadFailed, SkipRead, CheckSize, Apply, SkipAcknowledge, EndFrame, compositorVars,
     wireVars, loopVars, batchVars
<1>11. NoSequenceErrors'
  BY DEF GameInv, TypeOK, NoSequenceErrors, BeginFrame, SkipConnect, CheckReady, ReadFailed,
     SkipRead, CheckSize, Apply, SkipAcknowledge, EndFrame, compositorVars, wireVars,
     loopVars, batchVars
<1>12. RevocationPending'
  BY DEF GameInv, TypeOK, RevocationPending, Usable, BeginFrame, SkipConnect, CheckReady,
     ReadFailed, SkipRead, CheckSize, Apply, SkipAcknowledge, EndFrame, compositorVars,
     wireVars, loopVars, batchVars
<1>13. QED
  BY <1>1, <1>2, <1>3, <1>4, <1>5, <1>6, <1>7, <1>8, <1>9, <1>10, <1>11, <1>12
     DEF GameInv

\* What Connect changes: the requests it sends come after all others of the old
\* stream.
LEMMA ConnectEffect ==
  ASSUME GameInv, Connect
  PROVE  /\ UNCHANGED <<granted, streams, log, tail, dropped, nextSequence, snapshot, mode,
                        captured, measuring, integrity, measuredFrom, early, late, used>>
         /\ pc = "connect" /\ pc' = "roundtrip" /\ events' = <<>> /\ ~Usable(client)
         /\ client' \in Client /\ client'.stream /\ ~client'.active /\ ~client'.faulted
         /\ client'.generation = 0 /\ client'.localTail = 0 /\ client'.acknowledgedTail = 0
         /\ client'.expected = 0 /\ client'.sequenceErrors = client.sequenceErrors
         /\ Len(requests) \in Nat /\ requests' \in Seq(Request)
         /\ Len(requests') = Len(requests) + (IF client.stream THEN 2 ELSE 1)
         /\ \A i \in 1 .. Len(requests) : requests'[i] = requests[i]
         /\ client.stream => requests'[Len(requests) + 1].type = "destroy"
         /\ requests'[Len(requests')].type = "get_stream"
         /\ \A i \in 1 .. Len(requests) : requests[i].type # "get_stream"
         /\ client.stream => \A i \in 1 .. Len(requests) : requests[i].type # "destroy"
         /\ Range(events') = {} /\ Len(events') = 0
         /\ events' \in Seq({"active", "denied", "overflow", "revoked"})
         /\ streams \in Nat /\ (streams = 0 => tail = 0 /\ log = <<>> /\ Len(log) = 0)
<1>1. /\ UNCHANGED <<granted, streams, log, tail, dropped, nextSequence, snapshot, mode,
                     captured, measuring, integrity, measuredFrom, early, late, used>>
      /\ pc = "connect" /\ pc' = "roundtrip" /\ events' = <<>> /\ ~Usable(client)
  BY DEF Connect, compositorVars, loopVars, batchVars
<1>2. /\ client' \in Client /\ client'.stream /\ ~client'.active /\ ~client'.faulted
      /\ client'.generation = 0 /\ client'.localTail = 0 /\ client'.acknowledgedTail = 0
      /\ client'.expected = 0 /\ client'.sequenceErrors = client.sequenceErrors
  BY DEF GameInv, Typed, Connect, Disconnected, Client
<1>3. /\ Len(requests) \in Nat /\ requests' \in Seq(Request)
      /\ Len(requests') = Len(requests) + (IF client.stream THEN 2 ELSE 1)
      /\ \A i \in 1 .. Len(requests) : requests'[i] = requests[i]
      /\ client.stream => requests'[Len(requests) + 1].type = "destroy"
      /\ requests'[Len(requests')].type = "get_stream"
  <2>1. requests' = requests \o (IF client.stream THEN <<[type |-> "destroy"]>> ELSE <<>>)
                             \o <<[type |-> "get_stream"]>>
    BY DEF Connect
  <2>2. /\ Len(requests) \in Nat /\ requests' \in Seq(Request)
        /\ Len(requests') = Len(requests) + (IF client.stream THEN 2 ELSE 1)
        /\ \A i \in 1 .. Len(requests) : requests'[i] = requests[i]
        /\ client.stream => requests'[Len(requests) + 1] = [type |-> "destroy"]
        /\ requests'[Len(requests')] = [type |-> "get_stream"]
    BY <2>1, RequestsOfConnect DEF GameInv
  <2>3. [type |-> "destroy"].type = "destroy" /\ [type |-> "get_stream"].type = "get_stream"
    OBVIOUS
  <2>4. QED BY <2>2, <2>3
<1>4. /\ \A i \in 1 .. Len(requests) : requests[i].type # "get_stream"
      /\ client.stream => \A i \in 1 .. Len(requests) : requests[i].type # "destroy"
  BY <1>1 DEF GameInv, RequestsOrdered, LeaseHeld, Pending
<1>5. Range(events') = {} /\ Len(events') = 0
      /\ events' \in Seq({"active", "denied", "overflow", "revoked"})
  BY <1>1, EmptySeq DEF Range
<1>6. streams \in Nat /\ (streams = 0 => tail = 0 /\ log = <<>> /\ Len(log) = 0)
  BY BoundsNat, EmptySeq DEF GameInv, TypeOK, LogOrdered
<1>7. QED
  BY <1>1, <1>2, <1>3, <1>4, <1>5, <1>6

\* GameInv is preserved by Connect: the stream there was is given back first.
LEMMA ConnectStep ==
  ASSUME GameInv, Connect
  PROVE  GameInv'
<1>1. TypeOK'
  <2>1. client'.active \in BOOLEAN /\ client'.faulted \in BOOLEAN
    BY ConnectEffect DEF Client
  <2>2. client'.generation \in 0 .. streams
    BY ConnectEffect
  <2>3. client'.generation = streams =>
          /\ tail <= client'.acknowledgedTail /\ client'.acknowledgedTail <= client'.localTail
          /\ client'.localTail <= Len(log)
    BY ConnectEffect
  <2>4. pc' \in ClientPC
    BY ConnectEffect DEF ClientPC
  <2>5. QED BY ConnectEffect, <2>1, <2>2, <2>3, <2>4 DEF GameInv, TypeOK
<1>2. Typed'
  BY ConnectEffect DEF GameInv, Typed
<1>3. RequestsOrdered'
  <2>1. CASE client.stream
    <3>1. \A i \in 1 .. Len(requests') :
            i \in 1 .. Len(requests) \/ i = Len(requests) + 1 \/ i = Len(requests')
      BY ConnectEffect, <2>1
    <3>2. \A i \in 1 .. Len(requests') :
            /\ requests'[i].type = "get_stream" => i = Len(requests')
            /\ requests'[i].type = "destroy" => i = Len(requests) + 1
      BY ConnectEffect, <2>1, <3>1
    <3>3. \A j \in Len(requests) + 1 + 1 .. Len(requests') : j = Len(requests')
      BY ConnectEffect, <2>1
    <3>4. QED BY ConnectEffect, <3>2, <3>3 DEF RequestsOrdered
  <2>2. CASE ~client.stream
    <3>1. \A i \in 1 .. Len(requests') : i \in 1 .. Len(requests) \/ i = Len(requests')
      BY ConnectEffect, <2>2
    <3>2. \A i \in 1 .. Len(requests') :
            requests'[i].type = "get_stream" => i = Len(requests')
      BY ConnectEffect, <3>1
    <3>3. ASSUME NEW i \in 1 .. Len(requests'), requests'[i].type = "destroy",
                 NEW j \in i + 1 .. Len(requests')
          PROVE  requests'[j].type = "get_stream"
      <4>1. i \in 1 .. Len(requests) /\ requests[i].type = "destroy"
        BY ConnectEffect, <3>1, <3>3
      <4>2. CASE j = Len(requests')
        BY ConnectEffect, <4>2
      <4>3. CASE j # Len(requests')
        <5>1. j \in i + 1 .. Len(requests) /\ j \in 1 .. Len(requests)
          <6>1. Len(requests') = Len(requests) + 1 /\ Len(requests) \in Nat
            BY ConnectEffect, <2>2
          <6>2. QED BY <3>3, <4>1, <4>3, <6>1
        <5>2. QED BY ConnectEffect, <4>1, <5>1 DEF GameInv, RequestsOrdered
      <4>4. QED BY <4>2, <4>3
    <3>4. QED BY ConnectEffect, <3>2, <3>3 DEF RequestsOrdered
  <2>3. QED BY <2>1, <2>2
<1>4. AcksKnown'
  <2>1. \A i \in 1 .. Len(requests') : requests'[i].type = "acknowledge" =>
          i \in 1 .. Len(requests) /\ requests'[i] = requests[i]
    BY ConnectEffect
  <2>2. \A i \in 1 .. Len(requests) : requests[i].type = "acknowledge" =>
          requests[i].generation <= streams /\ requests[i].generation \in Nat \ {0}
    BY ElementOfSeq DEF GameInv, AcksKnown, Typed, Request
  <2>3. QED BY ConnectEffect, <2>1, <2>2 DEF AcksKnown
<1>5. LeaseHeld'
  <2>1. /\ Pending("destroy") => Pending("destroy")'
        /\ client.stream => Pending("destroy")'
    <3>1. \A i \in 1 .. Len(requests) : i \in 1 .. Len(requests')
      BY ConnectEffect
    <3>2. client.stream => Len(requests) + 1 \in 1 .. Len(requests')
      BY ConnectEffect
    <3>3. QED BY ConnectEffect, <3>1, <3>2 DEF Pending
  <2>2. QED BY ConnectEffect, <2>1 DEF GameInv, LeaseHeld
<1>6. GenerationKnown'
  BY ConnectEffect DEF GameInv, GenerationKnown
<1>7. EventsKnown'
  BY ConnectEffect DEF GameInv, EventsKnown
<1>8. LogOrdered'
  BY ConnectEffect DEF GameInv, LogOrdered
<1>9. CursorKnown'
  BY ConnectEffect DEF GameInv, CursorKnown, Usable
<1>10. MeasuringUsable'
  BY ConnectEffect DEF GameInv, MeasuringUsable, Usable
<1>11. NoSequenceErrors'
  BY ConnectEffect DEF GameInv, NoSequenceErrors
<1>12. RevocationPending'
  BY ConnectEffect DEF GameInv, RevocationPending, Usable
<1>13. QED
  BY <1>1, <1>2, <1>3, <1>4, <1>5, <1>6, <1>7, <1>8, <1>9, <1>10, <1>11, <1>12
     DEF GameInv

\* What ConnectFails changes: only destroy is sent, if there was a stream.
LEMMA ConnectFailsEffect ==
  ASSUME GameInv, ConnectFails
  PROVE  /\ UNCHANGED <<granted, streams, log, tail, dropped, nextSequence, snapshot, mode,
                        captured, measuring, integrity, measuredFrom, early, late, used>>
         /\ pc = "connect" /\ pc' = "ready" /\ events' = <<>> /\ ~Usable(client)
         /\ client' \in Client /\ ~client'.stream /\ ~client'.active /\ client'.faulted
         /\ client'.generation = 0 /\ client'.localTail = 0 /\ client'.acknowledgedTail = 0
         /\ client'.expected = 0 /\ client'.sequenceErrors = client.sequenceErrors
         /\ requests' \in Seq(Request)
         /\ \/ ~client.stream /\ requests' = requests
            \/ /\ client.stream
               /\ Len(requests) \in Nat /\ Len(requests') = Len(requests) + 1
               /\ \A i \in 1 .. Len(requests) : requests'[i] = requests[i]
               /\ requests'[Len(requests) + 1].type = "destroy"
               /\ Pending("destroy")'
         /\ \A i \in 1 .. Len(requests) : requests[i].type # "get_stream"
         /\ client.stream => \A i \in 1 .. Len(requests) : requests[i].type # "destroy"
         /\ Range(events') = {} /\ Len(events') = 0
         /\ events' \in Seq({"active", "denied", "overflow", "revoked"})
         /\ streams \in Nat /\ (streams = 0 => tail = 0 /\ log = <<>> /\ Len(log) = 0)
<1>1. /\ UNCHANGED <<granted, streams, log, tail, dropped, nextSequence, snapshot, mode,
                     captured, measuring, integrity, measuredFrom, early, late, used>>
      /\ pc = "connect" /\ pc' = "ready" /\ events' = <<>> /\ ~Usable(client)
  BY DEF ConnectFails, compositorVars, loopVars, batchVars
<1>2. /\ client' \in Client /\ ~client'.stream /\ ~client'.active /\ client'.faulted
      /\ client'.generation = 0 /\ client'.localTail = 0 /\ client'.acknowledgedTail = 0
      /\ client'.expected = 0 /\ client'.sequenceErrors = client.sequenceErrors
  BY DEF GameInv, Typed, ConnectFails, Disconnected, Faulted, Client
<1>3. /\ requests' \in Seq(Request)
      /\ \/ ~client.stream /\ requests' = requests
         \/ /\ client.stream
            /\ Len(requests) \in Nat /\ Len(requests') = Len(requests) + 1
            /\ \A i \in 1 .. Len(requests) : requests'[i] = requests[i]
            /\ requests'[Len(requests) + 1].type = "destroy"
            /\ Pending("destroy")'
  <2>1. CASE client.stream
    <3>1. requests' = Append(requests, [type |-> "destroy"]) /\ [type |-> "destroy"] \in Request
      BY <2>1 DEF ConnectFails, Request
    <3>2. QED BY <2>1, <3>1, RequestAdded DEF GameInv
  <2>2. CASE ~client.stream
    BY <2>2 DEF ConnectFails, GameInv, Typed
  <2>3. QED BY <2>1, <2>2
<1>4. /\ \A i \in 1 .. Len(requests) : requests[i].type # "get_stream"
      /\ client.stream => \A i \in 1 .. Len(requests) : requests[i].type # "destroy"
  BY <1>1 DEF GameInv, RequestsOrdered, LeaseHeld, Pending
<1>5. Range(events') = {} /\ Len(events') = 0
      /\ events' \in Seq({"active", "denied", "overflow", "revoked"})
  BY <1>1, EmptySeq DEF Range
<1>6. streams \in Nat /\ (streams = 0 => tail = 0 /\ log = <<>> /\ Len(log) = 0)
  BY BoundsNat, EmptySeq DEF GameInv, TypeOK, LogOrdered
<1>7. QED
  BY <1>1, <1>2, <1>3, <1>4, <1>5, <1>6

\* GameInv is preserved by ConnectFails: the stream there was is given back.
LEMMA ConnectFailsStep ==
  ASSUME GameInv, ConnectFails
  PROVE  GameInv'
<1>1. TypeOK'
  <2>1. client'.active \in BOOLEAN /\ client'.faulted \in BOOLEAN
    BY ConnectFailsEffect DEF Client
  <2>2. client'.generation \in 0 .. streams
    BY ConnectFailsEffect
  <2>3. client'.generation = streams =>
          /\ tail <= client'.acknowledgedTail /\ client'.acknowledgedTail <= client'.localTail
          /\ client'.localTail <= Len(log)
    BY ConnectFailsEffect
  <2>4. pc' \in ClientPC
    BY ConnectFailsEffect DEF ClientPC
  <2>5. QED BY ConnectFailsEffect, <2>1, <2>2, <2>3, <2>4 DEF GameInv, TypeOK
<1>2. Typed'
  BY ConnectFailsEffect DEF GameInv, Typed
<1>3. RequestsOrdered'
  <2>1. CASE requests' = requests
    BY ConnectFailsEffect, <2>1 DEF GameInv, RequestsOrdered
  <2>2. CASE requests' # requests
    <3>1. \A i \in 1 .. Len(requests') : i \in 1 .. Len(requests) \/ i = Len(requests) + 1
      BY ConnectFailsEffect, <2>2
    <3>2. \A i \in 1 .. Len(requests') :
            /\ requests'[i].type # "get_stream"
            /\ requests'[i].type = "destroy" => i = Len(requests')
      BY ConnectFailsEffect, <2>2, <3>1
    <3>3. \A j \in Len(requests') + 1 .. Len(requests') : FALSE
      BY ConnectFailsEffect, <2>2
    <3>4. QED BY <3>2, <3>3 DEF RequestsOrdered
  <2>3. QED BY <2>1, <2>2
<1>4. AcksKnown'
  <2>1. \A i \in 1 .. Len(requests') : requests'[i].type = "acknowledge" =>
          i \in 1 .. Len(requests) /\ requests'[i] = requests[i]
    BY ConnectFailsEffect
  <2>2. \A i \in 1 .. Len(requests) : requests[i].type = "acknowledge" =>
          requests[i].generation <= streams /\ requests[i].generation \in Nat \ {0}
    BY ElementOfSeq DEF GameInv, AcksKnown, Typed, Request
  <2>3. QED BY ConnectFailsEffect, <2>1, <2>2 DEF AcksKnown
<1>5. LeaseHeld'
  <2>1. ~client.stream => (Pending("destroy") <=> Pending("destroy")')
    BY ConnectFailsEffect DEF Pending
  <2>2. QED BY ConnectFailsEffect, <2>1 DEF GameInv, LeaseHeld
<1>6. GenerationKnown'
  BY ConnectFailsEffect DEF GameInv, GenerationKnown
<1>7. EventsKnown'
  BY ConnectFailsEffect DEF GameInv, EventsKnown
<1>8. LogOrdered'
  BY ConnectFailsEffect DEF GameInv, LogOrdered
<1>9. CursorKnown'
  BY ConnectFailsEffect DEF GameInv, CursorKnown, Usable
<1>10. MeasuringUsable'
  BY ConnectFailsEffect DEF GameInv, MeasuringUsable, Usable
<1>11. NoSequenceErrors'
  BY ConnectFailsEffect DEF GameInv, NoSequenceErrors
<1>12. RevocationPending'
  BY ConnectFailsEffect DEF GameInv, RevocationPending, Usable
<1>13. QED
  BY <1>1, <1>2, <1>3, <1>4, <1>5, <1>6, <1>7, <1>8, <1>9, <1>10, <1>11, <1>12
     DEF GameInv

\* What FinishConnect changes: the client is in no stream, or at the tail of the
\* new one, which is untouched.
LEMMA FinishConnectEffect ==
  ASSUME GameInv, FinishConnect
  PROVE  /\ UNCHANGED <<granted, streams, log, tail, dropped, nextSequence, requests, snapshot, mode,
                        captured, measuring, integrity, measuredFrom, early, late, used>>
         /\ pc = "roundtrip" /\ pc' = "ready" /\ events' = <<>> /\ requests = <<>>
         /\ client' = Dispatched(client) /\ Len(requests) = 0
         /\ client \in Client /\ client.generation = 0 /\ ~client.active /\ client.stream
         /\ ~measuring /\ streams \in Nat /\ tail \in Nat
         /\ client' \in Client /\ client'.stream
         /\ client'.sequenceErrors = client.sequenceErrors
         /\ \/ client'.generation = 0 /\ ~client'.active /\ "active" \notin Range(events)
               /\ UNCHANGED <<client.localTail, client.acknowledgedTail, client.expected>>
            \/ /\ "active" \in Range(events) /\ streams # 0
               /\ client'.generation = streams
               /\ client'.localTail = tail /\ client'.acknowledgedTail = tail
               /\ client'.expected = 0 /\ tail = 0
               /\ client'.active => ~client'.faulted /\ granted = streams
         /\ Range(events') = {} /\ Len(events') = 0
         /\ events' \in Seq({"active", "denied", "overflow", "revoked"})
<1>1. /\ UNCHANGED <<granted, streams, log, tail, dropped, nextSequence, requests, snapshot, mode,
                     captured, measuring, integrity, measuredFrom, early, late, used>>
      /\ pc = "roundtrip" /\ pc' = "ready" /\ events' = <<>> /\ requests = <<>>
      /\ client' = Dispatched(client) /\ Len(requests) = 0
  BY EmptySeq DEF FinishConnect, compositorVars, loopVars, batchVars
<1>2. /\ client \in Client /\ client.generation = 0 /\ ~client.active /\ client.stream
      /\ ~measuring /\ streams \in Nat /\ tail \in Nat
  BY <1>1, BoundsNat DEF GameInv, TypeOK, Typed, GenerationKnown, MeasuringUsable, Usable
<1>3. /\ client' \in Client /\ client'.stream
      /\ client'.sequenceErrors = client.sequenceErrors
      /\ \/ client'.generation = 0 /\ ~client'.active /\ "active" \notin Range(events)
            /\ UNCHANGED <<client.localTail, client.acknowledgedTail, client.expected>>
         \/ /\ "active" \in Range(events) /\ streams # 0
            /\ client'.generation = streams
            /\ client'.localTail = tail /\ client'.acknowledgedTail = tail
            /\ client'.expected = 0 /\ tail = 0
            /\ client'.active => ~client'.faulted /\ granted = streams
  <2>1. CASE "active" \notin Range(events)
    <3>1. client' = client \/ client' = Faulted(client)
      BY <1>1, <2>1, DispatchedWithoutActive DEF GameInv
    <3>2. QED BY <1>2, <2>1, <3>1, FaultedFields
  <2>2. CASE "active" \in Range(events)
    <3> DEFINE opened == StreamEvent(client, "active")
    <3>1. /\ opened \in Client /\ opened.active /\ ~opened.faulted /\ opened.stream
          /\ opened.generation = streams /\ opened.localTail = tail
          /\ opened.acknowledgedTail = tail /\ opened.expected = 0
          /\ opened.sequenceErrors = client.sequenceErrors
      BY <1>2, OpenedFields
    <3>2. /\ Last(events) = "active" => client' = opened
          /\ Last(events) # "active" => client' = Faulted(opened)
      BY <1>1, <1>2, <2>2, DispatchedWithActive DEF GameInv
    <3> HIDE DEF opened
    <3>3. streams # 0 /\ tail = 0 /\ events # <<>>
      BY <2>2 DEF GameInv, EventsKnown, Range
    <3>4. Last(events) = "active" => granted = streams
      BY <3>3 DEF GameInv, EventsKnown, TypeOK
    <3>5. QED BY <1>2, <2>2, <3>1, <3>2, <3>3, <3>4, FaultedFields
  <2>3. QED BY <2>1, <2>2
<1>4. Range(events') = {} /\ Len(events') = 0
      /\ events' \in Seq({"active", "denied", "overflow", "revoked"})
  BY <1>1, EmptySeq DEF Range
<1>5. QED
  BY <1>1, <1>2, <1>3, <1>4

\* GameInv is preserved by FinishConnect: the client begins at the tail of a new stream.
LEMMA FinishConnectStep ==
  ASSUME GameInv, FinishConnect
  PROVE  GameInv'
<1>1. TypeOK'
  <2>1. client'.active \in BOOLEAN /\ client'.faulted \in BOOLEAN
        /\ client'.generation \in 0 .. streams
    BY FinishConnectEffect DEF Client
  <2>2. client'.generation = streams =>
          /\ tail <= client'.acknowledgedTail /\ client'.acknowledgedTail <= client'.localTail
          /\ client'.localTail <= Len(log)
    BY FinishConnectEffect DEF GameInv, TypeOK
  <2>3. pc' \in ClientPC
    BY FinishConnectEffect DEF ClientPC
  <2>4. QED BY FinishConnectEffect, <2>1, <2>2, <2>3 DEF GameInv, TypeOK
<1>2. Typed'
  BY FinishConnectEffect DEF GameInv, Typed
<1>3. RequestsOrdered'
  BY FinishConnectEffect DEF RequestsOrdered
<1>4. AcksKnown'
  BY FinishConnectEffect DEF AcksKnown
<1>5. LeaseHeld'
  BY FinishConnectEffect DEF LeaseHeld, Pending
<1>6. GenerationKnown'
  BY FinishConnectEffect DEF GameInv, GenerationKnown
<1>7. EventsKnown'
  BY FinishConnectEffect DEF GameInv, EventsKnown
<1>8. LogOrdered'
  BY FinishConnectEffect DEF GameInv, LogOrdered
<1>9. CursorKnown'
  BY FinishConnectEffect DEF CursorKnown
<1>10. MeasuringUsable'
  BY FinishConnectEffect DEF GameInv, MeasuringUsable, Usable
<1>11. NoSequenceErrors'
  BY FinishConnectEffect DEF GameInv, NoSequenceErrors
<1>12. RevocationPending'
  BY FinishConnectEffect DEF GameInv, RevocationPending, Usable
<1>13. QED
  BY <1>1, <1>2, <1>3, <1>4, <1>5, <1>6, <1>7, <1>8, <1>9, <1>10, <1>11, <1>12
     DEF GameInv

\* What ReadHead changes: the client is as it was, or has an error.
LEMMA ReadHeadEffect ==
  ASSUME GameInv, ReadHead
  PROVE  /\ UNCHANGED <<granted, streams, log, tail, dropped, nextSequence, requests, mode, captured,
                        measuring, integrity, measuredFrom, early, late, used>>
         /\ pc \in {"early", "late"} /\ Usable(client) /\ snapshot' = Len(log)
         /\ pc' = IF Usable(client') THEN Copying[pc] ELSE Failing[pc]
         /\ client \in Client /\ client.generation # 0 /\ client.generation = streams
         /\ Len(log) \in Nat
         /\ pc' \in {"earlyCopy", "lateCopy", "earlyFailed", "lateFailed"}
         /\ (pc' \in {"earlyCopy", "lateCopy"} => Usable(client'))
         /\ \/ client' = client /\ events' = events
            \/ client' = client /\ events = <<>> /\ events' = <<>>
            \/ client' = Faulted(client) /\ events' = <<>>
         /\ client' \in Client /\ client'.stream = client.stream
         /\ client'.generation = client.generation
         /\ client'.localTail = client.localTail
         /\ client'.acknowledgedTail = client.acknowledgedTail
         /\ client'.expected = client.expected /\ client'.sequenceErrors = client.sequenceErrors
         /\ client'.active => client' = client
         /\ ~Usable(client') => client'.faulted
         /\ events' \in Seq({"active", "denied", "overflow", "revoked"})
         /\ "active" \in Range(events') => "active" \in Range(events)
         /\ events' # <<>> => events' = events
<1>1. /\ UNCHANGED <<granted, streams, log, tail, dropped, nextSequence, requests, mode, captured,
                     measuring, integrity, measuredFrom, early, late, used>>
      /\ pc \in {"early", "late"} /\ Usable(client) /\ snapshot' = Len(log)
      /\ pc' = IF Usable(client') THEN Copying[pc] ELSE Failing[pc]
      /\ client \in Client /\ client.generation # 0 /\ client.generation = streams
      /\ Len(log) \in Nat
  BY DEF GameInv, Typed, TypeOK, GenerationKnown, Usable, ReadHead, compositorVars, loopVars,
     batchVars
<1>2. pc' \in {"earlyCopy", "lateCopy", "earlyFailed", "lateFailed"}
      /\ (pc' \in {"earlyCopy", "lateCopy"} => Usable(client'))
  BY <1>1 DEF Copying, Failing
<1>3. /\ \/ client' = client /\ events' = events
         \/ client' = client /\ events = <<>> /\ events' = <<>>
         \/ client' = Faulted(client) /\ events' = <<>>
  <2>1. CASE pc = "early" /\ client' = Dispatched(client) /\ events' = <<>>
    <3>1. "active" \notin Range(events)
      BY <2>1 DEF GameInv, EventsKnown
    <3>2. QED BY <2>1, <3>1, DispatchedWithoutActive DEF GameInv
  <2>2. CASE UNCHANGED <<client, events>>
    BY <2>2
  <2>3. QED BY <2>1, <2>2 DEF ReadHead
<1>4. /\ client' \in Client /\ client'.stream = client.stream
      /\ client'.generation = client.generation
      /\ client'.localTail = client.localTail
      /\ client'.acknowledgedTail = client.acknowledgedTail
      /\ client'.expected = client.expected /\ client'.sequenceErrors = client.sequenceErrors
      /\ client'.active => client' = client
      /\ ~Usable(client') => client'.faulted
  BY <1>1, <1>3, FaultedFields DEF Usable
<1>5. /\ events' \in Seq({"active", "denied", "overflow", "revoked"})
      /\ "active" \in Range(events') => "active" \in Range(events)
      /\ events' # <<>> => events' = events
  <2>1. CASE events' = events
    BY <2>1 DEF GameInv, TypeOK
  <2>2. CASE events' = <<>>
    <3>1. <<>> \in Seq({"active", "denied", "overflow", "revoked"}) /\ Range(<<>>) = {}
      BY EmptySeq DEF Range
    <3>2. QED BY <2>2, <3>1
  <2>3. QED BY <1>3, <2>1, <2>2
<1>6. QED
  BY <1>1, <1>2, <1>3, <1>4, <1>5

\* GameInv is preserved by ReadHead: a usable client was told nothing, or is not
\* usable any more.
LEMMA ReadHeadStep ==
  ASSUME GameInv, ReadHead
  PROVE  GameInv'
<1>1. TypeOK'
  <2>1. client'.active \in BOOLEAN /\ client'.faulted \in BOOLEAN
    BY ReadHeadEffect DEF Client
  <2>2. pc' \in ClientPC
    BY ReadHeadEffect DEF ClientPC
  <2>3. QED BY ReadHeadEffect, <2>1, <2>2 DEF GameInv, TypeOK
<1>2. Typed'
  BY ReadHeadEffect DEF GameInv, Typed
<1>3. RequestsOrdered'
  <2>1. \A i \in 1 .. Len(requests) : requests[i].type # "get_stream"
    BY ReadHeadEffect DEF GameInv, RequestsOrdered
  <2>2. QED BY ReadHeadEffect, <2>1 DEF GameInv, RequestsOrdered
<1>4. AcksKnown'
  BY ReadHeadEffect DEF GameInv, AcksKnown
<1>5. LeaseHeld'
  BY ReadHeadEffect DEF GameInv, LeaseHeld, Pending
<1>6. GenerationKnown'
  BY ReadHeadEffect, FaultedFields DEF GameInv, GenerationKnown
<1>7. EventsKnown'
  BY ReadHeadEffect DEF GameInv, EventsKnown
<1>8. LogOrdered'
  BY ReadHeadEffect DEF GameInv, LogOrdered
<1>9. CursorKnown'
  <2>1. client.localTail \in Nat /\ client.localTail <= Len(log)
    BY ReadHeadEffect DEF GameInv, TypeOK, Client
  <2>2. QED BY ReadHeadEffect, <2>1 DEF GameInv, CursorKnown
<1>10. MeasuringUsable'
  <2>1. pc' \in {"earlyFailed", "lateFailed"} \/ Usable(client')
    BY ReadHeadEffect
  <2>2. QED BY <2>1 DEF MeasuringUsable
<1>11. NoSequenceErrors'
  BY ReadHeadEffect DEF GameInv, NoSequenceErrors
<1>12. RevocationPending'
  <2>1. SUFFICES ASSUME Usable(client'), client'.generation # granted
                 PROVE  \E i \in 1 .. Len(events') : events'[i] = "revoked"
    BY ReadHeadEffect DEF RevocationPending
  <2>2. client' = client /\ \E i \in 1 .. Len(events) : events[i] = "revoked"
    BY ReadHeadEffect, <2>1 DEF GameInv, RevocationPending, Usable
  <2>3. events # <<>>
    BY <2>2, EmptySeq
  <2>4. ~Faulted(client).active
    BY ReadHeadEffect, FaultedFields
  <2>5. events' = events
    BY ReadHeadEffect, <2>1, <2>3, <2>4 DEF Usable
  <2>6. QED BY <2>2, <2>5
<1>13. QED
  BY <1>1, <1>2, <1>3, <1>4, <1>5, <1>6, <1>7, <1>8, <1>9, <1>10, <1>11, <1>12
     DEF GameInv

\* What ReadCopy changes: the batch is the history from the cursor to the snapshot.
LEMMA ReadCopyEffect ==
  ASSUME GameInv, ReadCopy
  PROVE  /\ UNCHANGED <<granted, streams, log, tail, dropped, nextSequence, requests, events, snapshot,
                        mode, captured, measuring, integrity, measuredFrom>>
         /\ pc \in {"earlyCopy", "lateCopy"} /\ dropped = 0 /\ pc' \in {"size", "apply"}
         /\ client \in Client /\ Usable(client) /\ client.generation = streams /\ streams # 0
         /\ snapshot \in client.localTail .. Len(log) /\ Len(log) \in Nat
         /\ client.localTail \in Nat
         /\ Batch \in Seq(Sequence) /\ Len(Batch) = snapshot - client.localTail
         /\ \A i \in 1 .. Len(Batch) :
              Batch[i] = log[client.localTail + i] /\ client.localTail + i \in 1 .. Len(log)
         /\ Batch = <<>> => Len(Batch) = 0 /\ snapshot = client.localTail
         /\ Batch # <<>> => /\ Last(Batch) = log[snapshot] /\ Last(Batch) \in Nat
                            /\ snapshot \in 1 .. Len(log)
         /\ client' \in Client /\ client'.stream = client.stream /\ client'.active = client.active
         /\ client'.faulted = client.faulted /\ client'.generation = client.generation
         /\ client'.localTail = snapshot
         /\ client'.acknowledgedTail = client.acknowledgedTail
         /\ client'.expected = IF Batch = <<>> THEN client.expected ELSE log[snapshot] + 1
         /\ client'.sequenceErrors = client.sequenceErrors
         /\ early' \in Seq(Sequence) /\ late' \in Seq(Sequence) /\ used' \in Seq(Sequence)
         /\ Len(used) <= Len(used') /\ Len(used) \in Nat /\ Len(used') \in Nat
<1>1. /\ UNCHANGED <<granted, streams, log, tail, dropped, nextSequence, requests, events, snapshot,
                     mode, captured, measuring, integrity, measuredFrom>>
      /\ pc \in {"earlyCopy", "lateCopy"} /\ dropped = 0 /\ pc' \in {"size", "apply"}
      /\ client \in Client /\ Usable(client) /\ client.generation = streams /\ streams # 0
      /\ snapshot \in client.localTail .. Len(log) /\ Len(log) \in Nat
      /\ client.localTail \in Nat
  <2>1. /\ UNCHANGED <<granted, streams, log, tail, dropped, nextSequence, requests, events,
                       snapshot, mode, captured, measuring, integrity, measuredFrom>>
        /\ pc \in {"earlyCopy", "lateCopy"} /\ dropped = 0 /\ pc' \in {"size", "apply"}
    BY DEF ReadCopy, MayCopy, compositorVars, wireVars, loopVars
  <2>2. client \in Client /\ Len(log) \in Nat
    BY DEF GameInv, TypeOK, Typed
  <2>3. Usable(client) /\ client.generation = streams /\ streams # 0
    <3>1. Usable(client)
      BY <2>1 DEF GameInv, CursorKnown
    <3>2. QED BY <3>1 DEF GameInv, GenerationKnown, Usable
  <2>4. snapshot \in client.localTail .. Len(log)
    BY <2>1, <2>3 DEF GameInv, CursorKnown
  <2>5. client.localTail \in Nat
    BY <2>2 DEF Client
  <2>6. QED BY <2>1, <2>2, <2>3, <2>4, <2>5
<1>2. /\ Batch \in Seq(Sequence) /\ Len(Batch) = snapshot - client.localTail
      /\ \A i \in 1 .. Len(Batch) :
           Batch[i] = log[client.localTail + i] /\ client.localTail + i \in 1 .. Len(log)
  BY <1>1, BatchIsNext DEF GameInv
<1>3. /\ Batch = <<>> => Len(Batch) = 0 /\ snapshot = client.localTail
      /\ Batch # <<>> => /\ Last(Batch) = log[snapshot] /\ Last(Batch) \in Nat
                         /\ snapshot \in 1 .. Len(log)
  <2>1. Len(Batch) \in Nat /\ snapshot \in Nat /\ snapshot = client.localTail + Len(Batch)
    BY <1>1, <1>2
  <2>2. CASE Batch = <<>>
    <3>1. Len(Batch) = 0
      BY <2>2, EmptySeq
    <3>2. QED BY <1>1, <2>1, <2>2, <3>1
  <2>3. CASE Batch # <<>>
    <3>1. Len(Batch) \in Nat \ {0}
      BY <1>2, <2>3, EmptySeq
    <3>2. Batch[Len(Batch)] = log[snapshot] /\ snapshot \in 1 .. Len(log)
      BY <1>2, <2>1, <3>1
    <3>3. Batch[Len(Batch)] \in Nat
      BY <1>2, <3>1, ElementOfSeq, BoundsNat DEF Sequence
    <3>4. QED BY <2>3, <3>2, <3>3 DEF Last
  <2>4. QED BY <2>2, <2>3
<1>4. /\ client' \in Client /\ client'.stream = client.stream /\ client'.active = client.active
      /\ client'.faulted = client.faulted /\ client'.generation = client.generation
      /\ client'.localTail = snapshot
      /\ client'.acknowledgedTail = client.acknowledgedTail
      /\ client'.expected = IF Batch = <<>> THEN client.expected ELSE log[snapshot] + 1
      /\ client'.sequenceErrors = client.sequenceErrors
  <2>1. client' = Advanced
    BY DEF ReadCopy
  <2>2. snapshot \in Nat /\ client.expected \in Nat
    BY <1>1 DEF GameInv, Typed, Client
  <2> DEFINE expected == IF Batch = <<>> THEN client.expected ELSE Last(Batch) + 1
  <2>3. expected \in Nat
        /\ expected = IF Batch = <<>> THEN client.expected ELSE log[snapshot] + 1
    BY <1>3, <2>2
  <2>4. client' = [client EXCEPT !.localTail = snapshot, !.expected = expected]
    BY <1>1, <2>1 DEF Advanced, Client
  <2> HIDE DEF expected
  <2>5. QED BY <1>1, <2>2, <2>3, <2>4 DEF Client
<1>5. early' \in Seq(Sequence) /\ late' \in Seq(Sequence) /\ used' \in Seq(Sequence)
      /\ Len(used) <= Len(used') /\ Len(used) \in Nat /\ Len(used') \in Nat
  <2>1. used' = used \/ used' = used \o Batch
    BY DEF ReadCopy
  <2>2. used \in Seq(Sequence) /\ used \o Batch \in Seq(Sequence)
        /\ Len(used \o Batch) = Len(used) + Len(Batch) /\ Len(used) \in Nat /\ Len(Batch) \in Nat
    <3>1. used \in Seq(Sequence)
      BY DEF GameInv, TypeOK
    <3>2. Batch \in Seq(Sequence)
      BY <1>2
    <3>3. /\ used \o Batch \in Seq(Sequence)
          /\ Len(used \o Batch) = Len(used) + Len(Batch)
      BY <3>1, <3>2, ConcatProperties
    <3>4. Len(used) \in Nat /\ Len(Batch) \in Nat
      BY <3>1, <3>2
    <3>5. QED BY <3>3, <3>4
  <2>3. early' \in Seq(Sequence) /\ late' \in Seq(Sequence)
    BY <1>2 DEF ReadCopy, GameInv, TypeOK
  <2>4. CASE used' = used
    BY <2>2, <2>3, <2>4
  <2>5. CASE used' = used \o Batch
    BY <2>2, <2>3, <2>5
  <2>6. QED BY <2>1, <2>4, <2>5
<1>6. QED
  BY <1>1, <1>2, <1>3, <1>4, <1>5

\* GameInv is preserved by ReadCopy: the batch is the history from the cursor to the snapshot.
LEMMA ReadCopyStep ==
  ASSUME GameInv, ReadCopy
  PROVE  GameInv'
<1>1. TypeOK'
  <2>1. client'.active \in BOOLEAN /\ client'.faulted \in BOOLEAN
        /\ client'.generation \in 0 .. streams
    BY ReadCopyEffect DEF Client, GameInv, TypeOK
  <2>2. /\ tail <= client'.acknowledgedTail /\ client'.acknowledgedTail <= client'.localTail
        /\ client'.localTail <= Len(log)
    <3>1. tail <= client.acknowledgedTail /\ client.acknowledgedTail <= client.localTail
          /\ tail \in Nat /\ client.acknowledgedTail \in Nat /\ client.localTail \in Nat
      BY ReadCopyEffect DEF GameInv, TypeOK, Typed, Client
    <3>2. client'.localTail = snapshot /\ snapshot \in client.localTail .. Len(log)
          /\ client'.acknowledgedTail = client.acknowledgedTail /\ Len(log) \in Nat
      BY ReadCopyEffect
    <3>3. QED BY <3>1, <3>2
  <2>3. pc' \in ClientPC /\ measuredFrom \in 0 .. Len(used')
    <3>1. measuredFrom \in 0 .. Len(used)
      BY DEF GameInv, TypeOK
    <3>2. Len(used) <= Len(used') /\ Len(used) \in Nat /\ Len(used') \in Nat
      BY ReadCopyEffect
    <3>3. pc' \in ClientPC
      BY ReadCopyEffect DEF ClientPC
    <3>4. QED BY <3>1, <3>2, <3>3
  <2>4. QED BY ReadCopyEffect, <2>1, <2>2, <2>3 DEF GameInv, TypeOK
<1>2. Typed'
  BY ReadCopyEffect DEF GameInv, Typed
<1>3. RequestsOrdered'
  <2>1. \A i \in 1 .. Len(requests) : requests[i].type # "get_stream"
    BY ReadCopyEffect DEF GameInv, RequestsOrdered
  <2>2. QED BY ReadCopyEffect, <2>1 DEF GameInv, RequestsOrdered
<1>4. AcksKnown'
  BY ReadCopyEffect DEF GameInv, AcksKnown
<1>5. LeaseHeld'
  BY ReadCopyEffect DEF GameInv, LeaseHeld, Pending
<1>6. GenerationKnown'
  BY ReadCopyEffect DEF GameInv, GenerationKnown
<1>7. EventsKnown'
  BY ReadCopyEffect DEF GameInv, EventsKnown
<1>8. LogOrdered'
  BY ReadCopyEffect DEF GameInv, LogOrdered
<1>9. CursorKnown'
  <2>1. \A i \in 1 .. snapshot - 1 : i \in 1 .. Len(log) - 1
    BY ReadCopyEffect
  <2>2. \A i \in 1 .. snapshot - 1 : log[i + 1] = log[i] + 1
    BY ReadCopyEffect, <2>1 DEF GameInv, LogOrdered
  <2>3. \/ client'.expected = 0
        \/ client'.localTail >= 1 /\ client'.expected = log[client'.localTail] + 1
    BY ReadCopyEffect DEF GameInv, CursorKnown
  <2>4. QED BY ReadCopyEffect, <2>2, <2>3 DEF CursorKnown
<1>10. MeasuringUsable'
  BY ReadCopyEffect DEF GameInv, MeasuringUsable, Usable
<1>11. NoSequenceErrors'
  BY ReadCopyEffect DEF GameInv, NoSequenceErrors
<1>12. RevocationPending'
  BY ReadCopyEffect DEF GameInv, RevocationPending, Usable
<1>13. QED
  BY <1>1, <1>2, <1>3, <1>4, <1>5, <1>6, <1>7, <1>8, <1>9, <1>10, <1>11, <1>12
     DEF GameInv

\* What ReadRefused changes: a drop is an error, and no sequence number is one.
LEMMA ReadRefusedEffect ==
  ASSUME GameInv, ReadRefused
  PROVE  /\ UNCHANGED <<granted, streams, log, tail, dropped, nextSequence, requests, events, snapshot,
                        mode, captured, measuring, integrity, measuredFrom, early, late, used>>
         /\ pc \in {"earlyCopy", "lateCopy"} /\ pc' \in {"earlyFailed", "lateFailed"}
         /\ client \in Client
         /\ client' = [Faulted(client) EXCEPT !.sequenceErrors = @]
         /\ client' \in Client /\ ~client'.active /\ client'.faulted
         /\ client'.stream = client.stream /\ client'.generation = client.generation
         /\ client'.localTail = client.localTail
         /\ client'.acknowledgedTail = client.acknowledgedTail
         /\ client'.expected = client.expected /\ client'.sequenceErrors = client.sequenceErrors
<1>1. /\ UNCHANGED <<granted, streams, log, tail, dropped, nextSequence, requests, events, snapshot,
                     mode, captured, measuring, integrity, measuredFrom, early, late, used>>
      /\ pc \in {"earlyCopy", "lateCopy"} /\ pc' \in {"earlyFailed", "lateFailed"}
      /\ client \in Client
  BY DEF GameInv, Typed, ReadRefused, compositorVars, wireVars, loopVars, batchVars, Failing
<1>2. client' = [Faulted(client) EXCEPT !.sequenceErrors = @]
  <2>1. ~MayCopy
    BY <1>1, NoDropInSequence DEF ReadRefused, MayCopy
  <2>2. QED BY <2>1 DEF ReadRefused
<1>3. /\ client' \in Client /\ ~client'.active /\ client'.faulted
      /\ client'.stream = client.stream /\ client'.generation = client.generation
      /\ client'.localTail = client.localTail
      /\ client'.acknowledgedTail = client.acknowledgedTail
      /\ client'.expected = client.expected /\ client'.sequenceErrors = client.sequenceErrors
  BY <1>1, <1>2 DEF Faulted, Client
<1>4. QED
  BY <1>1, <1>2, <1>3

\* GameInv is preserved by ReadRefused: a read is refused for a drop, never for
\* a sequence error.
LEMMA ReadRefusedStep ==
  ASSUME GameInv, ReadRefused
  PROVE  GameInv'
<1>1. TypeOK'
  <2>1. client'.active \in BOOLEAN /\ client'.faulted \in BOOLEAN
    BY ReadRefusedEffect DEF Client
  <2>2. pc' \in ClientPC
    BY ReadRefusedEffect DEF ClientPC
  <2>3. QED BY ReadRefusedEffect, <2>1, <2>2 DEF GameInv, TypeOK
<1>2. Typed'
  BY ReadRefusedEffect DEF GameInv, Typed
<1>3. RequestsOrdered'
  <2>1. \A i \in 1 .. Len(requests) : requests[i].type # "get_stream"
    BY ReadRefusedEffect DEF GameInv, RequestsOrdered
  <2>2. QED BY ReadRefusedEffect, <2>1 DEF GameInv, RequestsOrdered
<1>4. AcksKnown'
  BY ReadRefusedEffect DEF GameInv, AcksKnown
<1>5. LeaseHeld'
  BY ReadRefusedEffect DEF GameInv, LeaseHeld, Pending
<1>6. GenerationKnown'
  BY ReadRefusedEffect DEF GameInv, GenerationKnown
<1>7. EventsKnown'
  BY ReadRefusedEffect DEF GameInv, EventsKnown
<1>8. LogOrdered'
  BY ReadRefusedEffect DEF GameInv, LogOrdered
<1>9. CursorKnown'
  BY ReadRefusedEffect DEF GameInv, CursorKnown, Usable
<1>10. MeasuringUsable'
  BY ReadRefusedEffect DEF GameInv, MeasuringUsable, Usable
<1>11. NoSequenceErrors'
  BY ReadRefusedEffect DEF GameInv, NoSequenceErrors
<1>12. RevocationPending'
  BY ReadRefusedEffect DEF GameInv, RevocationPending, Usable
<1>13. QED
  BY <1>1, <1>2, <1>3, <1>4, <1>5, <1>6, <1>7, <1>8, <1>9, <1>10, <1>11, <1>12
     DEF GameInv

\* What Acknowledge changes: the cursor is noted and sent, and perhaps not flushed.
LEMMA AcknowledgeEffect ==
  ASSUME GameInv, Acknowledge
  PROVE  /\ UNCHANGED <<granted, streams, log, tail, dropped, nextSequence, events, snapshot, mode,
                        captured, measuring, measuredFrom, early, late, used>>
         /\ pc = "ack" /\ Usable(client) /\ client \in Client
         /\ client.generation = streams /\ streams \in Nat \ {0} /\ client.localTail \in Nat
         /\ pc' \in {"next", "end"} /\ integrity' \in BOOLEAN
         /\ Len(requests) \in Nat /\ requests' \in Seq(Request) /\ Len(requests') = Len(requests) + 1
         /\ \A i \in 1 .. Len(requests) : requests'[i] = requests[i]
         /\ requests'[Len(requests) + 1].type = "acknowledge"
         /\ requests'[Len(requests) + 1].generation = streams
         /\ requests'[Len(requests) + 1].consumed = client.localTail
         /\ \A type \in {"destroy", "get_stream"} : Pending(type)' <=> Pending(type)
         /\ client' \in Client /\ client'.stream = client.stream
         /\ client'.generation = client.generation /\ client'.localTail = client.localTail
         /\ client'.acknowledgedTail = client.localTail
         /\ client'.expected = client.expected /\ client'.sequenceErrors = client.sequenceErrors
         /\ \/ client'.active = client.active /\ client'.faulted = client.faulted
            \/ ~client'.active /\ client'.faulted /\ pc' = "end"
<1>1. /\ UNCHANGED <<granted, streams, log, tail, dropped, nextSequence, events, snapshot, mode,
                     captured, measuring, measuredFrom, early, late, used>>
      /\ pc = "ack" /\ Usable(client) /\ client \in Client
      /\ client.generation = streams /\ streams \in Nat \ {0} /\ client.localTail \in Nat
      /\ pc' \in {"next", "end"} /\ integrity' \in BOOLEAN
  BY BoundsNat DEF GameInv, Typed, TypeOK, GenerationKnown, Usable, Client, Acknowledge,
     compositorVars, batchVars
<1>2. /\ Len(requests) \in Nat /\ requests' \in Seq(Request) /\ Len(requests') = Len(requests) + 1
      /\ \A i \in 1 .. Len(requests) : requests'[i] = requests[i]
      /\ requests'[Len(requests) + 1].type = "acknowledge"
      /\ requests'[Len(requests) + 1].generation = streams
      /\ requests'[Len(requests) + 1].consumed = client.localTail
      /\ \A type \in {"destroy", "get_stream"} : Pending(type)' <=> Pending(type)
  <2> DEFINE request == [type |-> "acknowledge", generation |-> client.generation,
                         consumed |-> client.localTail]
  <2>1. request \in Request /\ requests' = Append(requests, request)
    BY <1>1 DEF Acknowledge, Request
  <2>2. request.type = "acknowledge" /\ request.generation = streams
        /\ request.consumed = client.localTail
    BY <1>1
  <2> HIDE DEF request
  <2>3. QED BY <2>1, <2>2, RequestAdded DEF GameInv
<1>3. /\ client' \in Client /\ client'.stream = client.stream
      /\ client'.generation = client.generation /\ client'.localTail = client.localTail
      /\ client'.acknowledgedTail = client.localTail
      /\ client'.expected = client.expected /\ client'.sequenceErrors = client.sequenceErrors
      /\ \/ client'.active = client.active /\ client'.faulted = client.faulted
         \/ ~client'.active /\ client'.faulted /\ pc' = "end"
  <2>1. PICK acknowledged : acknowledged = [client EXCEPT !.acknowledgedTail = client.localTail]
    OBVIOUS
  <2>2. /\ acknowledged \in Client /\ acknowledged.stream = client.stream
        /\ acknowledged.generation = client.generation
        /\ acknowledged.localTail = client.localTail
        /\ acknowledged.acknowledgedTail = client.localTail
        /\ acknowledged.expected = client.expected
        /\ acknowledged.sequenceErrors = client.sequenceErrors
        /\ acknowledged.active = client.active /\ acknowledged.faulted = client.faulted
    BY <1>1, <2>1 DEF Client
  <2>3. \/ client' = acknowledged
        \/ client' = Faulted(acknowledged) /\ pc' = "end"
    BY <2>1 DEF Acknowledge
  <2>4. QED BY <2>2, <2>3, FaultedFields
<1>4. QED
  BY <1>1, <1>2, <1>3

\* GameInv is preserved by Acknowledge: the acknowledgement is the newest
\* request, and the cursor its limit.
LEMMA AcknowledgeStep ==
  ASSUME GameInv, Acknowledge
  PROVE  GameInv'
<1>1. TypeOK'
  <2>1. client'.active \in BOOLEAN /\ client'.faulted \in BOOLEAN
    BY AcknowledgeEffect DEF Client
  <2>2. tail <= client.localTail /\ client.localTail <= client.localTail
        /\ client.localTail <= Len(log)
    <3>1. client \in Client /\ client.generation = streams
      BY AcknowledgeEffect
    <3>2. /\ tail <= client.acknowledgedTail /\ client.acknowledgedTail <= client.localTail
          /\ client.localTail <= Len(log) /\ tail \in Nat
      BY <3>1 DEF GameInv, TypeOK
    <3>3. client.acknowledgedTail \in Nat /\ client.localTail \in Nat
      BY <3>1 DEF Client
    <3>4. QED BY <3>2, <3>3
  <2>3. pc' \in ClientPC
    BY AcknowledgeEffect DEF ClientPC
  <2>4. QED BY AcknowledgeEffect, <2>1, <2>2, <2>3 DEF GameInv, TypeOK
<1>2. Typed'
  BY AcknowledgeEffect DEF GameInv, Typed
<1>3. RequestsOrdered'
  <2>1. \A i \in 1 .. Len(requests) : requests[i].type \notin {"get_stream", "destroy"}
    BY AcknowledgeEffect
       DEF GameInv, RequestsOrdered, LeaseHeld, GenerationKnown, Usable, Pending
  <2>2. \A i \in 1 .. Len(requests') : requests'[i].type \notin {"get_stream", "destroy"}
    BY AcknowledgeEffect, <2>1
  <2>3. QED BY <2>2 DEF RequestsOrdered
<1>4. AcksKnown'
  <2>1. client.acknowledgedTail <= client.localTail /\ client.acknowledgedTail \in Nat
    BY AcknowledgeEffect DEF GameInv, TypeOK, Client
  <2>2. \A i \in 1 .. Len(requests) : requests[i].type = "acknowledge" =>
          requests[i].generation <= streams /\ requests[i].consumed <= client.acknowledgedTail
            /\ requests[i].consumed \in Nat
    BY AcknowledgeEffect, ElementOfSeq DEF GameInv, AcksKnown, Typed, Request
  <2>3. ASSUME NEW i \in 1 .. Len(requests'), requests'[i].type = "acknowledge"
        PROVE  requests'[i].generation <= streams /\ requests'[i].consumed <= client.localTail
    <3>1. CASE i = Len(requests) + 1
      BY AcknowledgeEffect, <3>1
    <3>2. CASE i # Len(requests) + 1
      <4>1. i \in 1 .. Len(requests)
        BY AcknowledgeEffect, <2>3, <3>2
      <4>2. QED BY AcknowledgeEffect, <2>1, <2>2, <2>3, <4>1
    <3>3. QED BY <3>1, <3>2
  <2>4. QED BY AcknowledgeEffect, <2>3 DEF AcksKnown
<1>5. LeaseHeld'
  BY AcknowledgeEffect DEF GameInv, LeaseHeld
<1>6. GenerationKnown'
  BY AcknowledgeEffect DEF GameInv, GenerationKnown
<1>7. EventsKnown'
  BY AcknowledgeEffect DEF GameInv, EventsKnown
<1>8. LogOrdered'
  BY AcknowledgeEffect DEF GameInv, LogOrdered
<1>9. CursorKnown'
  BY AcknowledgeEffect DEF GameInv, CursorKnown, Usable
<1>10. MeasuringUsable'
  BY AcknowledgeEffect DEF GameInv, MeasuringUsable, Usable
<1>11. NoSequenceErrors'
  BY AcknowledgeEffect DEF GameInv, NoSequenceErrors
<1>12. RevocationPending'
  BY AcknowledgeEffect DEF GameInv, RevocationPending, Usable
<1>13. QED
  BY <1>1, <1>2, <1>3, <1>4, <1>5, <1>6, <1>7, <1>8, <1>9, <1>10, <1>11, <1>12
     DEF GameInv

-----------------------------------------------------------------------------
\* GameInv holds at the start.
LEMMA InitGameInv ==
  ASSUME Init
  PROVE  GameInv
<1>1. /\ granted = 0 /\ streams = 0 /\ log = <<>> /\ tail = 0 /\ dropped = 0
      /\ nextSequence = 1 /\ requests = <<>> /\ events = <<>> /\ snapshot = 0
      /\ pc = "poll" /\ mode \in Modes /\ captured \in BOOLEAN /\ measuring = FALSE
      /\ integrity = TRUE /\ early = <<>> /\ late = <<>> /\ used = <<>> /\ measuredFrom = 0
      /\ Len(log) = 0 /\ Len(requests) = 0 /\ Len(events) = 0 /\ Len(used) = 0
  BY EmptySeq DEF Init
<1>2. /\ client \in Client /\ client.active = FALSE /\ client.faulted = FALSE
      /\ client.stream = FALSE /\ client.generation = 0 /\ client.localTail = 0
      /\ client.acknowledgedTail = 0 /\ client.expected = 0 /\ client.sequenceErrors = 0
  BY DEF Init, Disconnected, Client
<1>3. \A i \in 1 .. 0 : FALSE
  OBVIOUS
<1>4. <<>> \in Seq(Sequence) /\ <<>> \in Seq({"active", "denied", "overflow", "revoked"})
      /\ <<>> \in Seq(Request) /\ Range(<<>>) = {}
  BY EmptySeq DEF Range
<1>5. TypeOK
  <2>1. pc \in ClientPC
    BY <1>1 DEF ClientPC
  <2>2. /\ log \in Seq(Sequence) /\ early \in Seq(Sequence) /\ late \in Seq(Sequence)
        /\ used \in Seq(Sequence) /\ events \in Seq({"active", "denied", "overflow", "revoked"})
    BY <1>1, <1>4
  <2>3. /\ streams \in 0 .. MaxStreams /\ tail \in 0 .. Len(log) /\ Len(log) - tail <= Capacity
        /\ dropped \in Nat /\ nextSequence \in 1 .. MaxSequence + 1
        /\ measuredFrom \in 0 .. Len(used)
    BY <1>1, BoundsNat
  <2>4. client.active \in BOOLEAN /\ client.faulted \in BOOLEAN
    BY <1>2 DEF Client
  <2>5. /\ client.generation \in 0 .. streams
        /\ tail <= client.acknowledgedTail /\ client.acknowledgedTail <= client.localTail
        /\ client.localTail <= Len(log)
    BY <1>1, <1>2
  <2>6. captured \in BOOLEAN /\ measuring \in BOOLEAN /\ integrity \in BOOLEAN
    BY <1>1, Zenon
  <2>7. granted \in {0, streams} /\ mode \in Modes
    BY <1>1
  <2>8. QED BY <2>1, <2>2, <2>3, <2>4, <2>5, <2>6, <2>7 DEF TypeOK
<1>6. Typed
  <2>1. requests \in Seq(Request) /\ snapshot \in Nat
    BY <1>1, <1>4
  <2>2. QED BY <1>2, <2>1 DEF Typed
<1>7. RequestsOrdered /\ AcksKnown /\ LeaseHeld
  BY <1>1, <1>2, <1>3 DEF RequestsOrdered, AcksKnown, LeaseHeld
<1>8. GenerationKnown
  BY <1>1, <1>2 DEF GenerationKnown
<1>9. EventsKnown
  BY <1>1, <1>4 DEF EventsKnown
<1>10. LogOrdered
  BY <1>1, <1>3 DEF LogOrdered
<1>11. CursorKnown /\ MeasuringUsable /\ NoSequenceErrors /\ RevocationPending
  BY <1>1, <1>2 DEF CursorKnown, MeasuringUsable, NoSequenceErrors, RevocationPending, Usable
<1>12. QED
  BY <1>5, <1>6, <1>7, <1>8, <1>9, <1>10, <1>11 DEF GameInv

\* What the compositor takes from the queue is one of the three requests.
LEMMA RequestKinds ==
  ASSUME Typed, requests # <<>>
  PROVE  Head(requests).type \in {"get_stream", "acknowledge", "destroy"}
<1>1. requests \in Seq(Request)
  BY DEF Typed
<1>2. Head(requests) \in Request
  BY <1>1, HeadTailProperties
<1>3. QED BY <1>2 DEF Request

\* A step that changes nothing keeps GameInv.
LEMMA StutterGameInv ==
  ASSUME GameInv, UNCHANGED vars
  PROVE  GameInv'
BY DEF vars, compositorVars, wireVars, loopVars, batchVars, GameInv, TypeOK, Typed,
   RequestsOrdered, AcksKnown, LeaseHeld, Pending, GenerationKnown, EventsKnown, LogOrdered,
   CursorKnown, MeasuringUsable, NoSequenceErrors, RevocationPending, Usable

\* GameInv is preserved by every step.
LEMMA NextGameInv ==
  ASSUME GameInv, [Next]_vars
  PROVE  GameInv'
<1>1. CASE UNCHANGED vars \/ Over
  BY <1>1, StutterGameInv DEF Over
<1>2. CASE Observe
  BY <1>2, ObserveStep
<1>3. CASE Revoke
  BY <1>3, RevokeStep
<1>4. CASE HandleRequest
  <2>1. requests # <<>>
    BY <1>4 DEF HandleRequest
  <2>2. Head(requests).type \in {"get_stream", "acknowledge", "destroy"}
    BY <2>1, RequestKinds DEF GameInv
  <2>3. QED BY <1>4, <2>1, <2>2, GetStreamStep, TakeAcknowledgeStep, DestroyStep
<1>5. CASE \/ BeginFrame \/ SkipConnect \/ CheckReady \/ ReadFailed \/ SkipRead
           \/ CheckSize \/ Apply \/ SkipAcknowledge \/ EndFrame
  BY <1>5, LoopStep
<1>6. CASE Connect \/ ConnectFails \/ FinishConnect
  BY <1>6, ConnectStep, ConnectFailsStep, FinishConnectStep
<1>7. CASE ReadHead \/ ReadCopy \/ ReadRefused
  BY <1>7, ReadHeadStep, ReadCopyStep, ReadRefusedStep
<1>8. CASE Acknowledge
  BY <1>8, AcknowledgeStep
<1>9. QED
  BY <1>1, <1>2, <1>3, <1>4, <1>5, <1>6, <1>7, <1>8 DEF Next, Compositor, Game

\* The queues, the lease, the cursor and the history agree, whatever the compositor
\* takes back and whenever the client connects (hfior_game_client_connect,
\* hfior_game_client_read, hfior_game_client_acknowledge).
THEOREM GameInvariant == Spec => []GameInv
<1>1. Init => GameInv
  BY InitGameInv
<1>2. GameInv /\ [Next]_vars => GameInv'
  BY NextGameInv
<1>3. QED BY <1>1, <1>2, PTL DEF Spec

\* The cursor stays between what was acknowledged and the head of its own stream,
\* which never holds more than its ring.
THEOREM GameTypeCorrect == Spec => []TypeOK
<1>1. GameInv => TypeOK
  BY DEF GameInv
<1>2. QED BY <1>1, GameInvariant, PTL

\* The client never reports a reordering of an honest producer: a loss is a drop by
\* the time the sequence numbers are looked at.
THEOREM LossIsReportedAsDrop == Spec => []NoSequenceErrors
<1>1. GameInv => NoSequenceErrors
  BY DEF GameInv
<1>2. QED BY <1>1, GameInvariant, PTL

\* A client that still uses a stream that was taken back has the news in its queue.
THEOREM RevocationReachesClient == Spec => []RevocationPending
<1>1. GameInv => RevocationPending
  BY DEF GameInv
<1>2. QED BY <1>1, GameInvariant, PTL

=============================================================================
