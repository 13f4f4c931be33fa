----------------------------- MODULE RingProofs -----------------------------
(***************************************************************************)
(* Proofs about Ring, for every capacity, every batch and pass budget and  *)
(* every bound on the counters, in both ways of reclaiming capacity.       *)
(*                                                                         *)
(* RingInv is inductive: one lemma per action, one step per conjunct.  The *)
(* heart of it is that the unread positions tail .. head - 1 span less     *)
(* than one capacity while the producer writes, so the slot it writes is   *)
(* none of theirs (IndexInjective), and that every acknowledgement still   *)
(* in flight lies between the tail and what the cursor has read.           *)
(***************************************************************************)
EXTENDS Ring, SequenceTheorems, TLAPS

\* Moving the subtracted position forward never enlarges a distance.
LEMMA DistanceShrinks ==
  ASSUME NEW a \in Int, NEW b \in Int, NEW c \in Int, NEW d \in Int,
         a - b <= d, b <= c
  PROVE  a - c <= d
OBVIOUS

\* Division of a position by the capacity, as the provers need it spelled out.
LEMMA DivMod ==
  ASSUME NEW C \in Nat \ {0}, NEW p \in Nat
  PROVE  p = (C * (p \div C)) + (p % C) /\ p \div C \in Int /\ p % C \in 0 .. C - 1
  BY SMT

\* A positive multiple of the capacity is at least the capacity.
LEMMA Multiple ==
  ASSUME NEW C \in Nat \ {0}, NEW d \in Int, d >= 1
  PROVE  C * d >= C
  BY SMT

\* Two positions less than one capacity apart have different slots: what makes
\* position & (capacity - 1) safe for the producer and the reader at once.
LEMMA IndexInjective ==
  ASSUME NEW p \in Nat, NEW q \in Nat, p < q, q - p < Capacity
  PROVE  Index(p) # Index(q)
<1> SUFFICES ASSUME Index(p) = Index(q) PROVE FALSE OBVIOUS
<1> DEFINE a == p \div Capacity
<1> DEFINE b == q \div Capacity
<1> DEFINE r == p % Capacity
<1>1. /\ a \in Int /\ b \in Int /\ r \in 0 .. Capacity - 1
      /\ p = (Capacity * a) + r /\ q = (Capacity * b) + r
  BY DivMod, CapacityAssumption DEF Index
<1> HIDE DEF a, b, r
<1>2. q - p = Capacity * (b - a)
  BY <1>1, CapacityAssumption
<1>3. b - a >= 1 => Capacity * (b - a) >= Capacity
  BY <1>1, CapacityAssumption, Multiple
<1>4. b - a <= 0 => Capacity * (b - a) <= 0
  BY <1>1, CapacityAssumption
<1> QED BY <1>1, <1>2, <1>3, <1>4, CapacityAssumption

\* Every position has a slot.
LEMMA IndexInSlots ==
  ASSUME NEW p \in Nat
  PROVE  Index(p) \in Slots
  BY DivMod, CapacityAssumption DEF Index, Slots

\* RingInv is preserved by ClaimSequence: a claimed sequence number is
\* accounted to the record in flight.
LEMMA ClaimSequenceStep ==
  ASSUME RingInv, ClaimSequence
  PROVE  RingInv'
<1>1. TypeOK'
  BY BoundsAssumption DEF RingInv, TypeOK, cursorVars, callVars, Record,
     ClaimSequence
<1>2. PositionsOrdered'
  BY DEF RingInv, PositionsOrdered, cursorVars, callVars, ClaimSequence
<1>3. AcksOrdered'
  BY DEF RingInv, AcksOrdered, cursorVars, callVars, ClaimSequence
<1>4. ProducerConsistent'
  BY DEF RingInv, TypeOK, ProducerConsistent, InFlight, ClaimSequence
<1>5. CopyConsistent'
  BY DEF RingInv, CopyConsistent, cursorVars, callVars, ClaimSequence
<1>6. UnreadIntact'
  BY DEF RingInv, UnreadIntact, ClaimSequence
<1>7. HistoryExact'
  BY DEF RingInv, HistoryExact, cursorVars, callVars, ClaimSequence
<1>8. DropsLeaveGaps'
  <2>1. (nextSequence - 1 = head + dropped + InFlight)'
    BY DEF RingInv, TypeOK, DropsLeaveGaps, ClaimSequence, InFlight
  <2>2. \A i \in 1 .. Len(log) : log[i] \in Nat
    BY ElementOfSeq, BoundsAssumption DEF RingInv, TypeOK, Record
  <2>3. log' = log /\ nextSequence' = nextSequence + 1 /\ nextSequence \in Nat
    BY DEF RingInv, TypeOK, ClaimSequence
  <2>4. QED
    BY <2>1, <2>2, <2>3 DEF RingInv, DropsLeaveGaps
<1>9. QED BY <1>1, <1>2, <1>3, <1>4, <1>5, <1>6, <1>7, <1>8 DEF RingInv

\* RingInv is preserved by DropNewest: a drop moves no position and no slot.
LEMMA DropNewestStep ==
  ASSUME RingInv, DropNewest
  PROVE  RingInv'
<1>1. TypeOK'
  BY DEF RingInv, TypeOK, cursorVars, callVars, DropNewest
<1>2. PositionsOrdered'
  BY DEF RingInv, PositionsOrdered, cursorVars, callVars, DropNewest
<1>3. AcksOrdered'
  BY DEF RingInv, AcksOrdered, cursorVars, callVars, DropNewest
<1>4. ProducerConsistent'
  BY DEF RingInv, TypeOK, ProducerConsistent, DropsLeaveGaps, InFlight,
     DropNewest
<1>5. CopyConsistent'
  BY DEF RingInv, CopyConsistent, cursorVars, callVars, DropNewest
<1>6. UnreadIntact'
  BY DEF RingInv, UnreadIntact, DropNewest
<1>7. HistoryExact'
  BY DEF RingInv, HistoryExact, cursorVars, callVars, DropNewest
<1>8. DropsLeaveGaps'
  BY DEF RingInv, TypeOK, DropsLeaveGaps, InFlight, DropNewest
<1>9. QED BY <1>1, <1>2, <1>3, <1>4, <1>5, <1>6, <1>7, <1>8 DEF RingInv

\* RingInv is preserved by BeginWrite: the slot about to be written is not one
\* of the unread ones, because the unread positions span less than one
\* capacity.
LEMMA BeginWriteStep ==
  ASSUME RingInv, BeginWrite
  PROVE  RingInv'
<1>1. TypeOK'
  BY DEF RingInv, TypeOK, cursorVars, callVars, Slot, BeginWrite
<1>2. PositionsOrdered'
  BY DEF RingInv, PositionsOrdered, cursorVars, callVars, BeginWrite
<1>3. AcksOrdered'
  BY DEF RingInv, AcksOrdered, cursorVars, callVars, BeginWrite
<1>4. ProducerConsistent'
  BY CapacityAssumption DEF RingInv, TypeOK, ProducerConsistent, InFlight,
     RingIsFull, BeginWrite
<1>5. CopyConsistent'
  BY DEF RingInv, CopyConsistent, cursorVars, callVars, BeginWrite
<1>6. UnreadIntact'
  <2>1. SUFFICES ASSUME NEW p \in tail .. head - 1
                 PROVE  slots'[Index(p)] = log[p + 1]
    BY DEF BeginWrite, UnreadIntact
  <2>2. head \in Nat /\ tail \in Nat /\ p \in Nat /\ p < head /\ head - p < Capacity
    BY CapacityAssumption DEF RingInv, TypeOK, BeginWrite, RingIsFull
  <2>3. Index(p) # Index(head)
    BY <2>2, IndexInjective
  <2>4. slots'[Index(p)] = slots[Index(p)]
    BY <2>2, <2>3, IndexInSlots DEF RingInv, TypeOK, BeginWrite
  <2>5. QED
    BY <2>4 DEF RingInv, UnreadIntact
<1>7. HistoryExact'
  BY DEF RingInv, HistoryExact, cursorVars, callVars, BeginWrite
<1>8. DropsLeaveGaps'
  BY DEF RingInv, DropsLeaveGaps, InFlight, BeginWrite
<1>9. QED BY <1>1, <1>2, <1>3, <1>4, <1>5, <1>6, <1>7, <1>8 DEF RingInv

\* RingInv is preserved by Commit: the new record becomes the last unread one.
LEMMA CommitStep ==
  ASSUME RingInv, Commit
  PROVE  RingInv'
<1>1. /\ log' \in Seq(Record) /\ Len(log') = head + 1
      /\ \A i \in 1 .. head : log'[i] = log[i]
      /\ log'[head + 1] = record
  <2>1. record \in Record
    BY DEF RingInv, TypeOK, ProducerConsistent, DropsLeaveGaps, InFlight, Commit, Empty, Record
  <2>2. log \in Seq(Record) /\ Len(log) = head /\ log' = Append(log, record)
    BY DEF RingInv, TypeOK, ProducerConsistent, Commit
  <2>3. QED BY <2>1, <2>2, AppendProperties
<1>2. /\ head \in Nat /\ nextSequence' = nextSequence /\ producerPC' = "idle"
      /\ \A i \in 1 .. head : log[i] \in Nat /\ log[i] < record
      /\ \A i \in 1 .. head + 1 : log'[i] < nextSequence'
  <2>1. \A i \in 1 .. head : log[i] \in Nat /\ log[i] < record
    BY ElementOfSeq, BoundsAssumption
       DEF RingInv, TypeOK, ProducerConsistent, Commit, Record, InFlight
  <2>2. /\ nextSequence' = nextSequence /\ record = nextSequence - 1
        /\ nextSequence \in Nat /\ head \in Nat /\ producerPC' = "idle"
    BY DEF RingInv, TypeOK, ProducerConsistent, Commit
  <2>3. \A i \in 1 .. head + 1 : i \in 1 .. head \/ i = head + 1
    BY <2>2
  <2>4. \A i \in 1 .. head : log'[i] < nextSequence'
    BY <1>1, <2>1, <2>2
  <2>5. QED BY <1>1, <2>1, <2>2, <2>3, <2>4
<1>3. TypeOK'
  BY <1>1, IndexInSlots DEF RingInv, TypeOK, cursorVars, callVars, Slot,
     Empty, Commit
<1>4. PositionsOrdered'
  BY CapacityAssumption DEF RingInv, TypeOK, PositionsOrdered,
     ProducerConsistent, cursorVars, callVars, Commit
<1>5. AcksOrdered'
  BY DEF RingInv, AcksOrdered, cursorVars, callVars, Commit
<1>6. ProducerConsistent'
  BY <1>1, <1>2 DEF RingInv, TypeOK, ProducerConsistent, InFlight, Commit
<1>7. CopyConsistent'
  <2>1. head' = head + 1 /\ head \in Nat /\ limit \in Nat /\ localTail \in Nat /\ Len(out) \in Nat
    BY DEF RingInv, TypeOK, Commit
  <2>2. UNCHANGED <<consumerPC, limit, room, passes, out, localTail, received, origin>>
    BY DEF Commit, cursorVars, callVars
  <2>3. consumerPC = "copy" => \A i \in 1 .. Len(out) : out[i] = log'[localTail + i]
    BY <1>1, <2>1 DEF RingInv, CopyConsistent
  <2>4. QED
    BY <2>1, <2>2, <2>3 DEF RingInv, CopyConsistent
<1>8. UnreadIntact'
  <2>1. SUFFICES ASSUME NEW p \in tail .. head
                 PROVE  slots'[Index(p)] = log'[p + 1]
    <3>1. head' - 1 = head /\ tail' = tail
      BY DEF RingInv, TypeOK, Commit
    <3>2. QED BY <3>1 DEF UnreadIntact
  <2>2. CASE p = head
    BY <1>1, <2>2, IndexInSlots DEF RingInv, TypeOK, Commit
  <2>3. CASE p # head
    <3>1. head \in Nat /\ tail \in Nat /\ p \in Nat /\ p < head /\ head - p < Capacity
      BY <2>3, CapacityAssumption DEF RingInv, TypeOK, Commit, ProducerConsistent
    <3>2. slots'[Index(p)] = slots[Index(p)]
      BY <3>1, IndexInjective, IndexInSlots DEF RingInv, TypeOK, Commit
    <3>3. QED
      BY <1>1, <3>1, <3>2 DEF RingInv, UnreadIntact
  <2>4. QED BY <2>2, <2>3
<1>9. HistoryExact'
  <2>1. origin + Len(received) <= head /\ origin \in Int /\ (Len(received) > 0 => origin >= 0)
    BY DEF RingInv, TypeOK, PositionsOrdered, HistoryExact, CopyConsistent
  <2>2. QED
  BY <1>1, <2>1 DEF RingInv, TypeOK, HistoryExact, Commit, cursorVars, callVars
<1>10. DropsLeaveGaps'
  <2>1. \A i \in 1 .. head - 1 : log[i] < log[i + 1]
    BY DEF RingInv, ProducerConsistent, DropsLeaveGaps
  <2>2. \A i \in 1 .. head : log'[i] < log'[i + 1]
    BY <1>1, <1>2, <2>1
  <2>3. (nextSequence - 1 = head + dropped + InFlight)'
    BY DEF RingInv, TypeOK, DropsLeaveGaps, Commit, InFlight
  <2>4. QED
    BY <1>1, <1>2, <2>2, <2>3 DEF DropsLeaveGaps
<1>11. QED BY <1>3, <1>4, <1>5, <1>6, <1>7, <1>8, <1>9, <1>10 DEF RingInv

\* RingInv is preserved by HandleAck: the tail moves to what the oldest
\* acknowledgement reports.
LEMMA HandleAckStep ==
  ASSUME RingInv, HandleAck
  PROVE  RingInv'
<1>1. /\ Len(acks) \in Nat \ {0} /\ Head(acks) = acks[1] /\ Head(acks) \in Ack
      /\ Tail(acks) \in Seq(Ack) /\ Len(Tail(acks)) = Len(acks) - 1
      /\ \A i \in 1 .. Len(Tail(acks)) : Tail(acks)[i] = acks[i + 1]
  BY HeadTailProperties, EmptySeq DEF RingInv, TypeOK, HandleAck
<1>2. /\ tail <= acks[1].consumed /\ acks[1].consumed <= acknowledgedTail
      /\ \A i \in 1 .. Len(acks) : acks[1].consumed <= acks[i].consumed /\ acks[i].consumed <= acknowledgedTail
                                   /\ tail <= acks[i].consumed
      /\ acks[1].consumed \in Nat
  <2>1. 1 \in 1 .. Len(acks) /\ acks[1] \in Ack /\ Len(acks) \in Nat
    BY <1>1
  <2>2. acks[1].consumed \in Nat
    BY <2>1 DEF Ack
  <2>3. \A i \in 1 .. Len(acks) : tail <= acks[i].consumed /\ acks[i].consumed <= acknowledgedTail
    BY DEF RingInv, AcksOrdered
  <2>4. \A i \in 1 .. Len(acks) : 1 < i => acks[1].consumed <= acks[i].consumed
    BY <2>1 DEF RingInv, AcksOrdered
  <2>5. \A i \in 1 .. Len(acks) : acks[1].consumed <= acks[i].consumed
    <3>1. TAKE i \in 1 .. Len(acks)
    <3>2. CASE i = 1
      BY <2>2, <3>2
    <3>3. CASE i # 1
      BY <2>1, <2>4, <3>3
    <3>4. QED BY <3>2, <3>3
  <2>6. QED BY <2>1, <2>2, <2>3, <2>5
<1>3. acks' = Tail(acks) /\ tail' \in {tail, acks[1].consumed}
  BY <1>1 DEF HandleAck
<1>4. TypeOK'
  <2>1. acks' \in Seq(Ack)
    BY <1>1, <1>3
  <2>2. tail \in Nat /\ invalidAcks \in Nat
    BY DEF RingInv, TypeOK
  <2>3. tail' \in Nat
    BY <1>2, <1>3, <2>2
  <2>4. invalidAcks' \in Nat
    BY <2>2 DEF HandleAck
  <2>5. QED BY <2>1, <2>3, <2>4 DEF RingInv, TypeOK, HandleAck, cursorVars, callVars
<1>5. PositionsOrdered'
  <2>1. tail' \in Nat /\ tail <= tail' /\ tail' <= localTail
    BY <1>1, <1>2, <1>3 DEF RingInv, TypeOK, PositionsOrdered, AcksOrdered
  <2>2. head - tail' <= Capacity
    <3>1. head \in Int /\ tail \in Int /\ head - tail <= Capacity
      BY DEF RingInv, TypeOK, PositionsOrdered
    <3>2. tail' \in Int /\ tail <= tail' /\ Capacity \in Int
      BY <2>1, CapacityAssumption
    <3>3. QED BY <3>1, <3>2, DistanceShrinks
  <2>3. QED
    BY <2>1, <2>2 DEF RingInv, PositionsOrdered, HandleAck, cursorVars, callVars
<1>6. AcksOrdered'
  <2>1. \A i \in 1 .. Len(acks') : acks'[i] = acks[i + 1] /\ i + 1 \in 1 .. Len(acks)
    BY <1>1, <1>3
  <2>2. \A i, j \in 1 .. Len(acks') : i < j => acks'[i].consumed <= acks'[j].consumed
    BY <1>1, <2>1 DEF RingInv, AcksOrdered
  <2>3. \A i \in 1 .. Len(acks') : tail' <= acks'[i].consumed /\ acks'[i].consumed <= acknowledgedTail
    BY <1>2, <1>3, <2>1
  <2>4. consumerPC # "detached" /\ ~writable
    BY <1>1 DEF RingInv, AcksOrdered, HandleAck
  <2>5. QED
    BY <1>2, <1>3, <2>2, <2>3, <2>4 DEF RingInv, AcksOrdered, TypeOK, HandleAck, cursorVars, callVars
<1>7. ProducerConsistent'
  BY DEF RingInv, ProducerConsistent, InFlight, HandleAck
<1>8. CopyConsistent'
  BY DEF RingInv, CopyConsistent, cursorVars, callVars, HandleAck
<1>9. UnreadIntact'
  BY <1>2, <1>3 DEF RingInv, TypeOK, UnreadIntact, HandleAck
<1>10. HistoryExact'
  BY DEF RingInv, HistoryExact, cursorVars, callVars, HandleAck
<1>11. DropsLeaveGaps'
  BY DEF RingInv, DropsLeaveGaps, InFlight, HandleAck
<1>12. QED BY <1>4, <1>5, <1>6, <1>7, <1>8, <1>9, <1>10, <1>11 DEF RingInv

\* RingInv is preserved by Reconnect: only the generation changes.
LEMMA ReconnectStep ==
  ASSUME RingInv, Reconnect
  PROVE  RingInv'
<1>1. TypeOK'
  BY BoundsAssumption DEF RingInv, TypeOK, cursorVars, callVars, Reconnect
<1>2. PositionsOrdered'
  BY DEF RingInv, PositionsOrdered, cursorVars, callVars, Reconnect
<1>3. AcksOrdered'
  BY DEF RingInv, AcksOrdered, cursorVars, callVars, Reconnect
<1>4. ProducerConsistent'
  BY DEF RingInv, ProducerConsistent, InFlight, Reconnect
<1>5. CopyConsistent'
  BY DEF RingInv, CopyConsistent, cursorVars, callVars, Reconnect
<1>6. UnreadIntact'
  BY DEF RingInv, UnreadIntact, Reconnect
<1>7. HistoryExact'
  BY DEF RingInv, HistoryExact, cursorVars, callVars, Reconnect
<1>8. DropsLeaveGaps'
  BY DEF RingInv, DropsLeaveGaps, InFlight, Reconnect
<1>9. QED BY <1>1, <1>2, <1>3, <1>4, <1>5, <1>6, <1>7, <1>8 DEF RingInv

\* RingInv is preserved by CursorInit: the cursor starts between the tail and
\* the head.
LEMMA CursorInitStep ==
  ASSUME RingInv, NEW atHead \in BOOLEAN,
         CursorInit(atHead)
  PROVE  RingInv'
<1>1. TypeOK'
  BY DEF RingInv, TypeOK, producerVars, CursorInit
<1>2. PositionsOrdered'
  BY DEF RingInv, TypeOK, PositionsOrdered, AcksOrdered, producerVars,
     CursorInit
<1>3. AcksOrdered'
  BY DEF RingInv, TypeOK, AcksOrdered, producerVars, CursorInit
<1>4. ProducerConsistent'
  BY DEF RingInv, ProducerConsistent, producerVars, InFlight, CursorInit
<1>5. CopyConsistent'
  BY DEF RingInv, TypeOK, CopyConsistent, CursorInit
<1>6. UnreadIntact'
  BY DEF RingInv, UnreadIntact, producerVars, CursorInit
<1>7. HistoryExact'
  BY DEF RingInv, TypeOK, CopyConsistent, HistoryExact, CursorInit
<1>8. DropsLeaveGaps'
  BY DEF RingInv, DropsLeaveGaps, producerVars, InFlight, CursorInit
<1>9. QED BY <1>1, <1>2, <1>3, <1>4, <1>5, <1>6, <1>7, <1>8 DEF RingInv

\* RingInv is preserved by BeginLatch: a call fixes its budgets.
LEMMA BeginLatchStep ==
  ASSUME RingInv, NEW maxRecords \in 1 .. MaxBatch, NEW maxPasses \in 1 .. MaxPasses,
         BeginLatch(maxRecords, maxPasses)
  PROVE  RingInv'
<1>1. TypeOK'
  BY DEF RingInv, TypeOK, producerVars, cursorVars, BeginLatch
<1>2. PositionsOrdered'
  BY DEF RingInv, PositionsOrdered, producerVars, cursorVars, BeginLatch
<1>3. AcksOrdered'
  BY DEF RingInv, AcksOrdered, producerVars, cursorVars, BeginLatch
<1>4. ProducerConsistent'
  BY DEF RingInv, ProducerConsistent, producerVars, InFlight, BeginLatch
<1>5. CopyConsistent'
  BY DEF RingInv, CopyConsistent, cursorVars, BeginLatch
<1>6. UnreadIntact'
  BY DEF RingInv, UnreadIntact, producerVars, BeginLatch
<1>7. HistoryExact'
  BY DEF RingInv, HistoryExact, producerVars, cursorVars, BeginLatch
<1>8. DropsLeaveGaps'
  BY DEF RingInv, DropsLeaveGaps, producerVars, InFlight, BeginLatch
<1>9. QED BY <1>1, <1>2, <1>3, <1>4, <1>5, <1>6, <1>7, <1>8 DEF RingInv

\* RingInv is preserved by Snapshot: the snapshot ends at or before the head
\* and is never refused.
LEMMA SnapshotStep ==
  ASSUME RingInv, Snapshot
  PROVE  RingInv'
<1>1. TypeOK'
  BY DEF RingInv, TypeOK, producerVars, cursorVars, Minimum, Snapshot
<1>2. PositionsOrdered'
  BY CapacityAssumption DEF RingInv, TypeOK, PositionsOrdered, producerVars,
     cursorVars, ImpossibleDepth, Snapshot
<1>3. AcksOrdered'
  BY DEF RingInv, AcksOrdered, producerVars, cursorVars, Snapshot
<1>4. ProducerConsistent'
  BY DEF RingInv, ProducerConsistent, producerVars, InFlight, Snapshot
<1>5. CopyConsistent'
  BY DEF RingInv, TypeOK, PositionsOrdered, CopyConsistent, producerVars,
     cursorVars, Minimum, Snapshot
<1>6. UnreadIntact'
  BY DEF RingInv, UnreadIntact, producerVars, Snapshot
<1>7. HistoryExact'
  BY DEF RingInv, HistoryExact, producerVars, cursorVars, Snapshot
<1>8. DropsLeaveGaps'
  BY DEF RingInv, DropsLeaveGaps, producerVars, InFlight, Snapshot
<1>9. QED BY <1>1, <1>2, <1>3, <1>4, <1>5, <1>6, <1>7, <1>8 DEF RingInv

\* RingInv is preserved by CopySlot: the slot copied is an unread one, so it
\* holds its record.
LEMMA CopySlotStep ==
  ASSUME RingInv, CopySlot
  PROVE  RingInv'
<1> DEFINE position == localTail + Len(out)
<1>1. /\ position \in Nat /\ localTail \in Nat /\ Len(out) \in Nat /\ position < limit /\ limit <= head
      /\ tail <= localTail /\ head \in Nat /\ tail \in Nat /\ position \in tail .. head - 1
  BY DEF RingInv, TypeOK, PositionsOrdered, CopyConsistent, CopySlot
<1>2. slots[Index(position)] \in Slot /\ slots[Index(position)] = log[position + 1]
  BY <1>1, IndexInSlots DEF RingInv, TypeOK, UnreadIntact
<1>3. /\ out' \in Seq(Slot) /\ Len(out') = Len(out) + 1
      /\ \A i \in 1 .. Len(out) : out'[i] = out[i]
      /\ out'[Len(out) + 1] = log[position + 1]
  BY <1>1, <1>2, AppendProperties DEF RingInv, TypeOK, CopySlot
<1>4. TypeOK'
  BY <1>3 DEF RingInv, TypeOK, CopySlot, producerVars, cursorVars
<1>5. PositionsOrdered'
  BY DEF RingInv, PositionsOrdered, producerVars, cursorVars, CopySlot
<1>6. AcksOrdered'
  BY DEF RingInv, AcksOrdered, producerVars, cursorVars, CopySlot
<1>7. ProducerConsistent'
  BY DEF RingInv, ProducerConsistent, producerVars, InFlight, CopySlot
<1>8. CopyConsistent'
  <2>1. \A i \in 1 .. Len(out') : out'[i] = log[localTail + i]
    <3>1. \A i \in 1 .. Len(out') : i \in 1 .. Len(out) \/ i = Len(out) + 1
      BY <1>1, <1>3
    <3>2. \A i \in 1 .. Len(out) : out[i] = log[localTail + i]
      BY DEF RingInv, CopyConsistent, CopySlot
    <3>3. out'[Len(out) + 1] = log[localTail + (Len(out) + 1)]
      BY <1>1, <1>3
    <3>4. QED BY <1>3, <3>1, <3>2, <3>3
  <2>2. localTail + Len(out') <= limit
    BY <1>1, <1>3 DEF RingInv, TypeOK
  <2>3. QED
    BY <2>1, <2>2 DEF RingInv, CopyConsistent, CopySlot, producerVars, cursorVars
<1>9. UnreadIntact'
  BY DEF RingInv, UnreadIntact, producerVars, CopySlot
<1>10. HistoryExact'
  BY DEF RingInv, HistoryExact, producerVars, cursorVars, CopySlot
<1>11. DropsLeaveGaps'
  BY DEF RingInv, DropsLeaveGaps, producerVars, InFlight, CopySlot
<1>12. QED BY <1>4, <1>5, <1>6, <1>7, <1>8, <1>9, <1>10, <1>11 DEF RingInv

\* RingInv is preserved by FinishPass: the batch extends the received history.
LEMMA FinishPassStep ==
  ASSUME RingInv, FinishPass
  PROVE  RingInv'
<1>1. /\ received' \in Seq(Slot) /\ Len(received') = Len(received) + Len(out)
      /\ \A i \in 1 .. Len(received) : received'[i] = received[i]
      /\ \A i \in 1 .. Len(out) : received'[Len(received) + i] = out[i]
      /\ Len(out) \in Nat /\ Len(received) \in Nat
  BY ConcatProperties DEF RingInv, TypeOK, FinishPass
<1>2. out' \in Seq(Slot)
  BY EmptySeq DEF FinishPass
<1>3. limit = localTail + Len(out) /\ limit <= head /\ Len(out) <= room /\ passes > 0 /\ origin \in Nat /\ localTail = origin + Len(received)
  BY <1>1 DEF RingInv, TypeOK, FinishPass, CopyConsistent, HistoryExact
<1>a. /\ head \in Int /\ tail \in Int /\ localTail \in Int /\ limit \in Int
      /\ acknowledgedTail \in Int /\ tail <= localTail /\ localTail <= limit
      /\ limit <= head /\ head - tail <= Capacity /\ consumerPC = "copy"
      /\ acknowledgedTail <= localTail
      /\ Capacity \in Int
  BY <1>3, CapacityAssumption DEF RingInv, TypeOK, PositionsOrdered, AcksOrdered, FinishPass
<1>b. /\ localTail' = limit /\ head' = head /\ acks' = acks /\ consumerPC' = "recheck"
      /\ writable => tail' = limit /\ acknowledgedTail' = limit
      /\ ~writable => tail' = tail /\ acknowledgedTail' = acknowledgedTail
      /\ writable' = writable
  BY DEF FinishPass, producerVars
<1>4. TypeOK'
  <2>1. tail' \in Nat /\ acknowledgedTail' \in Nat
    BY <1>a, <1>b DEF RingInv, TypeOK
  <2>2. writable' \in BOOLEAN
    BY <1>b DEF RingInv, TypeOK
  <2>3. QED
    <3>1. passes' \in 0 .. MaxPasses /\ room' \in 0 .. MaxBatch
      BY <1>1, <1>3, BoundsAssumption DEF RingInv, TypeOK, FinishPass
    <3>2. received' \in Seq(Slot) /\ out' \in Seq(Slot) /\ acks' \in Seq(Ack)
      BY <1>1, <1>2, <1>b DEF RingInv, TypeOK
    <3>3. /\ consumerPC' = "recheck" /\ localTail' = limit /\ limit' = limit
          /\ UNCHANGED <<cursorGeneration, origin>>
      BY DEF FinishPass
    <3>4. UNCHANGED producerVars
      BY DEF FinishPass
    <3>5. QED BY <2>1, <2>2, <3>1, <3>2, <3>3, <3>4 DEF RingInv, TypeOK, producerVars
<1>5. PositionsOrdered'
  <2>1. tail' \in Int /\ tail <= tail' /\ tail' <= limit
    BY <1>a, <1>b
  <2>2. head - tail' <= Capacity
    BY <1>a, <2>1, DistanceShrinks
  <2>3. QED
    BY <1>a, <1>b, <2>1, <2>2 DEF PositionsOrdered
<1>6. AcksOrdered'
  <2>1. CASE writable
    <3>1. acks' = <<>> /\ Len(acks') = 0
      BY <1>b, <2>1, EmptySeq DEF RingInv, AcksOrdered
    <3>2. QED
      BY <1>a, <1>b, <2>1, <3>1 DEF AcksOrdered
  <2>2. CASE ~writable
    BY <1>a, <1>b, <2>2 DEF RingInv, AcksOrdered
  <2>3. QED BY <2>1, <2>2
<1>7. ProducerConsistent'
  <2>1. tail' >= tail /\ tail' \in Nat /\ (producerPC = "writing" => head - tail' < Capacity)
    <3>1. /\ limit \in Nat /\ tail \in Nat /\ head \in Nat /\ (tail' = tail \/ (tail' = limit /\ tail <= limit))
      BY <1>1, <1>3 DEF RingInv, TypeOK, AcksOrdered, FinishPass
    <3>2. QED
      BY <3>1, CapacityAssumption DEF RingInv, ProducerConsistent
  <2>2. QED
  BY <2>1 DEF RingInv, TypeOK, ProducerConsistent, FinishPass, producerVars, InFlight
<1>8. CopyConsistent'
  BY DEF RingInv, CopyConsistent, FinishPass
<1>9. UnreadIntact'
  BY DEF RingInv, TypeOK, PositionsOrdered, UnreadIntact, producerVars,
     FinishPass
<1>10. HistoryExact'
  <2>1. \A i \in 1 .. Len(received') : received'[i] = log[origin + i]
    <3>1. SUFFICES ASSUME NEW i \in 1 .. Len(received'), i > Len(received) PROVE received'[i] = log[origin + i]
      BY <1>1 DEF RingInv, HistoryExact
    <3> DEFINE j == i - Len(received)
    <3>2. j \in 1 .. Len(out) /\ i = Len(received) + j /\ localTail + j = origin + i
      BY <1>1, <1>3, <3>1
    <3>3. out[j] = log[localTail + j]
      BY <3>2 DEF RingInv, CopyConsistent, FinishPass
    <3>4. QED BY <1>1, <3>2, <3>3
  <2>2. localTail' = origin' + Len(received') /\ log' = log /\ origin' = origin
    BY <1>1, <1>3 DEF RingInv, TypeOK, FinishPass, producerVars
  <2>3. QED
    BY <2>1, <2>2 DEF HistoryExact
<1>11. DropsLeaveGaps'
  BY DEF RingInv, DropsLeaveGaps, producerVars, InFlight, FinishPass
<1>12. QED BY <1>4, <1>5, <1>6, <1>7, <1>8, <1>9, <1>10, <1>11 DEF RingInv

\* RingInv is preserved by Recheck: only the call's control state moves.
LEMMA RecheckStep ==
  ASSUME RingInv, Recheck
  PROVE  RingInv'
<1>1. TypeOK'
  BY DEF RingInv, TypeOK, producerVars, cursorVars, Recheck
<1>2. PositionsOrdered'
  BY DEF RingInv, PositionsOrdered, producerVars, cursorVars, Recheck
<1>3. AcksOrdered'
  BY DEF RingInv, AcksOrdered, producerVars, cursorVars, Recheck
<1>4. ProducerConsistent'
  BY DEF RingInv, ProducerConsistent, producerVars, InFlight, Recheck
<1>5. CopyConsistent'
  BY DEF RingInv, CopyConsistent, cursorVars, Recheck
<1>6. UnreadIntact'
  BY DEF RingInv, UnreadIntact, producerVars, Recheck
<1>7. HistoryExact'
  BY DEF RingInv, HistoryExact, producerVars, cursorVars, Recheck
<1>8. DropsLeaveGaps'
  BY DEF RingInv, DropsLeaveGaps, producerVars, InFlight, Recheck
<1>9. QED BY <1>1, <1>2, <1>3, <1>4, <1>5, <1>6, <1>7, <1>8 DEF RingInv

\* RingInv is preserved by SendAck: the new acknowledgement reports the most
\* progress of all in flight.
LEMMA SendAckStep ==
  ASSUME RingInv, SendAck
  PROVE  RingInv'
<1> DEFINE ack == [generation |-> cursorGeneration, consumed |-> localTail]
<1>1. ack \in Ack
  BY DEF RingInv, TypeOK, Ack
<1>2. /\ acks' \in Seq(Ack) /\ Len(acks') = Len(acks) + 1
      /\ \A i \in 1 .. Len(acks) : acks'[i] = acks[i]
      /\ acks'[Len(acks) + 1] = ack /\ Len(acks) \in Nat
  BY <1>1, AppendProperties DEF RingInv, TypeOK, SendAck
<1>3. TypeOK'
  BY <1>2 DEF RingInv, TypeOK, SendAck, producerVars, callVars
<1>4. PositionsOrdered'
  BY DEF RingInv, PositionsOrdered, producerVars, callVars, SendAck
<1>5. AcksOrdered'
  <2>1. \A i \in 1 .. Len(acks') : i \in 1 .. Len(acks) \/ i = Len(acks) + 1
    BY <1>2
  <2>2. /\ tail \in Nat /\ localTail \in Nat /\ acknowledgedTail \in Nat /\ acknowledgedTail <= localTail /\ tail <= localTail
    BY DEF RingInv, TypeOK, AcksOrdered, PositionsOrdered, SendAck
  <2>3. \A i \in 1 .. Len(acks) : acks[i].consumed \in Nat /\ tail <= acks[i].consumed /\ acks[i].consumed <= localTail
    <3>1. \A i \in 1 .. Len(acks) : acks[i] \in Ack
      BY ElementOfSeq DEF RingInv, TypeOK
    <3>2. \A i \in 1 .. Len(acks) : acks[i].consumed \in Nat
      BY <3>1 DEF Ack
    <3>3. QED BY <2>2, <3>2 DEF RingInv, AcksOrdered
  <2>4. acks'[Len(acks) + 1].consumed = localTail
    BY <1>2
  <2>5. \A i \in 1 .. Len(acks') : tail <= acks'[i].consumed /\ acks'[i].consumed <= localTail
    BY <1>2, <2>1, <2>2, <2>3, <2>4
  <2>6. ASSUME NEW i \in 1 .. Len(acks'), NEW j \in 1 .. Len(acks'), i < j
        PROVE  acks'[i].consumed <= acks'[j].consumed
    <3>1. i \in 1 .. Len(acks)
      BY <1>2, <2>1, <2>6
    <3>2. CASE j \in 1 .. Len(acks)
      BY <1>2, <2>6, <3>1, <3>2 DEF RingInv, AcksOrdered
    <3>3. CASE j = Len(acks) + 1
      BY <1>2, <2>3, <2>4, <3>1, <3>3
    <3>4. QED BY <2>1, <3>2, <3>3
  <2>7. QED
    BY <2>2, <2>5, <2>6 DEF AcksOrdered, SendAck, producerVars, callVars
<1>6. ProducerConsistent'
  BY DEF RingInv, ProducerConsistent, producerVars, InFlight, SendAck
<1>7. CopyConsistent'
  BY DEF RingInv, CopyConsistent, callVars, SendAck
<1>8. UnreadIntact'
  BY DEF RingInv, UnreadIntact, producerVars, SendAck
<1>9. HistoryExact'
  BY DEF RingInv, HistoryExact, producerVars, SendAck
<1>10. DropsLeaveGaps'
  BY DEF RingInv, DropsLeaveGaps, producerVars, InFlight, SendAck
<1>11. QED BY <1>3, <1>4, <1>5, <1>6, <1>7, <1>8, <1>9, <1>10 DEF RingInv

\* RingInv is preserved by AdoptGeneration: only the cursor's generation moves.
LEMMA AdoptGenerationStep ==
  ASSUME RingInv, AdoptGeneration
  PROVE  RingInv'
<1>1. TypeOK'
  BY DEF RingInv, TypeOK, producerVars, callVars, AdoptGeneration
<1>2. PositionsOrdered'
  BY DEF RingInv, PositionsOrdered, producerVars, callVars, AdoptGeneration
<1>3. AcksOrdered'
  BY DEF RingInv, AcksOrdered, producerVars, callVars, AdoptGeneration
<1>4. ProducerConsistent'
  BY DEF RingInv, ProducerConsistent, producerVars, InFlight, AdoptGeneration
<1>5. CopyConsistent'
  BY DEF RingInv, CopyConsistent, callVars, AdoptGeneration
<1>6. UnreadIntact'
  BY DEF RingInv, UnreadIntact, producerVars, AdoptGeneration
<1>7. HistoryExact'
  BY DEF RingInv, HistoryExact, producerVars, AdoptGeneration
<1>8. DropsLeaveGaps'
  BY DEF RingInv, DropsLeaveGaps, producerVars, InFlight, AdoptGeneration
<1>9. QED BY <1>1, <1>2, <1>3, <1>4, <1>5, <1>6, <1>7, <1>8 DEF RingInv

\* RingInv is preserved by BeginLatest: only the call's control state moves.
LEMMA BeginLatestStep ==
  ASSUME RingInv, BeginLatest
  PROVE  RingInv'
<1>1. TypeOK'
  BY DEF RingInv, TypeOK, producerVars, cursorVars, BeginLatest
<1>2. PositionsOrdered'
  BY DEF RingInv, PositionsOrdered, producerVars, cursorVars, BeginLatest
<1>3. AcksOrdered'
  BY DEF RingInv, AcksOrdered, producerVars, cursorVars, BeginLatest
<1>4. ProducerConsistent'
  BY DEF RingInv, ProducerConsistent, producerVars, InFlight, BeginLatest
<1>5. CopyConsistent'
  BY DEF RingInv, TypeOK, CopyConsistent, producerVars, cursorVars, BeginLatest
<1>6. UnreadIntact'
  BY DEF RingInv, UnreadIntact, producerVars, BeginLatest
<1>7. HistoryExact'
  BY DEF RingInv, HistoryExact, producerVars, cursorVars, BeginLatest
<1>8. DropsLeaveGaps'
  BY DEF RingInv, DropsLeaveGaps, producerVars, InFlight, BeginLatest
<1>9. QED BY <1>1, <1>2, <1>3, <1>4, <1>5, <1>6, <1>7, <1>8 DEF RingInv

\* RingInv is preserved by ReadLatest: the peeked slot goes to the caller's
\* buffer and nowhere else.
LEMMA ReadLatestStep ==
  ASSUME RingInv, ReadLatest
  PROVE  RingInv'
<1>1. TypeOK'
  BY IndexInSlots DEF RingInv, TypeOK, CopyConsistent, producerVars,
     cursorVars, ReadLatest
<1>2. PositionsOrdered'
  BY DEF RingInv, PositionsOrdered, producerVars, cursorVars, ReadLatest
<1>3. AcksOrdered'
  BY DEF RingInv, AcksOrdered, producerVars, cursorVars, ReadLatest
<1>4. ProducerConsistent'
  BY DEF RingInv, ProducerConsistent, producerVars, InFlight, ReadLatest
<1>5. CopyConsistent'
  BY DEF RingInv, CopyConsistent, cursorVars, ReadLatest
<1>6. UnreadIntact'
  BY DEF RingInv, UnreadIntact, producerVars, ReadLatest
<1>7. HistoryExact'
  BY DEF RingInv, HistoryExact, producerVars, cursorVars, ReadLatest
<1>8. DropsLeaveGaps'
  BY DEF RingInv, DropsLeaveGaps, producerVars, InFlight, ReadLatest
<1>9. QED BY <1>1, <1>2, <1>3, <1>4, <1>5, <1>6, <1>7, <1>8 DEF RingInv

-----------------------------------------------------------------------------
\* The zeroed mapping satisfies the invariant.
LEMMA InitRingInv ==
  ASSUME Init
  PROVE  RingInv
<1>1. TypeOK
  BY EmptySeq, BoundsAssumption DEF Init, TypeOK, Slot, Slots, Empty, Torn, Record
<1>2. PositionsOrdered /\ AcksOrdered /\ ProducerConsistent /\ CopyConsistent
  BY EmptySeq, CapacityAssumption
     DEF Init, PositionsOrdered, AcksOrdered, ProducerConsistent, CopyConsistent
<1>3. UnreadIntact /\ HistoryExact /\ DropsLeaveGaps
  BY EmptySeq DEF Init, UnreadIntact, HistoryExact, DropsLeaveGaps, InFlight
<1>4. QED BY <1>1, <1>2, <1>3 DEF RingInv

\* A stuttering step changes nothing RingInv speaks of.
LEMMA StutterRingInv ==
  ASSUME RingInv, UNCHANGED vars
  PROVE  RingInv'
  BY DEF RingInv, TypeOK, PositionsOrdered, AcksOrdered, ProducerConsistent,
         CopyConsistent, UnreadIntact, HistoryExact, DropsLeaveGaps, InFlight,
         vars, producerVars, cursorVars, callVars

\* Every step of either thread preserves RingInv.
LEMMA NextRingInv ==
  ASSUME RingInv, [Next]_vars
  PROVE  RingInv'
<1>1. CASE ClaimSequence
  BY <1>1, ClaimSequenceStep
<1>2. CASE DropNewest
  BY <1>2, DropNewestStep
<1>3. CASE BeginWrite
  BY <1>3, BeginWriteStep
<1>4. CASE Commit
  BY <1>4, CommitStep
<1>5. CASE HandleAck
  BY <1>5, HandleAckStep
<1>6. CASE Reconnect
  BY <1>6, ReconnectStep
<1>7. CASE \E atHead \in BOOLEAN : CursorInit(atHead)
  BY <1>7, CursorInitStep
<1>8. CASE \E maxRecords \in 1 .. MaxBatch, maxPasses \in 1 .. MaxPasses :
            BeginLatch(maxRecords, maxPasses)
  BY <1>8, BeginLatchStep
<1>9. CASE Snapshot
  BY <1>9, SnapshotStep
<1>10. CASE CopySlot
  BY <1>10, CopySlotStep
<1>11. CASE FinishPass
  BY <1>11, FinishPassStep
<1>12. CASE Recheck
  BY <1>12, RecheckStep
<1>13. CASE SendAck
  BY <1>13, SendAckStep
<1>14. CASE AdoptGeneration
  BY <1>14, AdoptGenerationStep
<1>15. CASE BeginLatest
  BY <1>15, BeginLatestStep
<1>16. CASE ReadLatest
  BY <1>16, ReadLatestStep
<1>17. CASE UNCHANGED vars
  BY <1>17, StutterRingInv
<1>18. QED
  BY <1>1, <1>2, <1>3, <1>4, <1>5, <1>6, <1>7, <1>8, <1>9,
     <1>10, <1>11, <1>12, <1>13, <1>14, <1>15, <1>16, <1>17 DEF Next, Producer, Consumer

\* The inductive invariant holds in every behaviour of the two threads.
THEOREM RingInvariant == Spec => []RingInv
<1>1. Init => RingInv
  BY InitRingInv
<1>2. RingInv /\ [Next]_vars => RingInv'
  BY NextRingInv
<1>3. QED
  BY <1>1, <1>2, PTL DEF Spec

\* Type correctness of the ring, the cursor and the messages between them.
THEOREM TypeCorrect == Spec => []TypeOK
<1>1. RingInv => TypeOK
  BY DEF RingInv
<1>2. QED
  BY <1>1, RingInvariant, PTL

\* Tail, cursor and head keep their order and stay within one capacity, so
\* hfior_ring_read_snapshot never fails on a cursor of this library.
THEOREM PositionsAlwaysOrdered == Spec => []PositionsOrdered
<1>1. RingInv => PositionsOrdered
  BY DEF RingInv
<1>2. QED
  BY <1>1, RingInvariant, PTL

\* hfior_ring_publish never overwrites an unread slot.
THEOREM NeverOverwrites == Spec => []UnreadIntact
<1>1. RingInv => UnreadIntact
  BY DEF RingInv
<1>2. QED
  BY <1>1, RingInvariant, PTL

\* The drains return the published history in order, each record once, none torn.
THEOREM HistoryAlwaysExact == Spec => []HistoryExact
<1>1. RingInv => HistoryExact
  BY DEF RingInv
<1>2. QED
  BY <1>1, RingInvariant, PTL

\* Every sequence number missing from the ring is a counted drop.
THEOREM DropsAlwaysLeaveGaps == Spec => []DropsLeaveGaps
<1>1. RingInv => DropsLeaveGaps
  BY DEF RingInv
<1>2. QED
  BY <1>1, RingInvariant, PTL

\* The slots still to be copied are unread and the slot being written is beyond
\* them by less than a capacity.
LEMMA NoRaceFromInv ==
  ASSUME RingInv
  PROVE  NoRace
<1>1. SUFFICES ASSUME producerPC = "writing", consumerPC = "copy",
                      NEW p \in localTail + Len(out) .. limit - 1
               PROVE  Index(p) # Index(head)
  BY DEF NoRace
<1>2. /\ head \in Nat /\ tail \in Nat /\ localTail \in Nat /\ limit \in Nat
      /\ Len(out) \in Nat /\ limit <= head /\ tail <= localTail
      /\ head - tail < Capacity
  BY <1>1 DEF RingInv, TypeOK, PositionsOrdered, ProducerConsistent, CopyConsistent
<1>3. p \in Nat /\ p < head /\ head - p < Capacity
  BY <1>2, CapacityAssumption
<1>4. QED
  BY <1>2, <1>3, IndexInjective

\* No data race on a slot between publication and the draining reader.
THEOREM NeverRaces == Spec => []NoRace
<1>1. RingInv => NoRace
  BY NoRaceFromInv
<1>2. QED
  BY <1>1, RingInvariant, PTL

\* An acknowledgement on its way lies between the tail and the head.
LEMMA RejectedStep ==
  ASSUME RingInv, HandleAck, invalidAcks' # invalidAcks
  PROVE  Head(acks).generation # generation
<1>1. /\ Len(acks) \in Nat \ {0} /\ Head(acks) = acks[1] /\ acks[1] \in Ack
  BY HeadTailProperties, EmptySeq DEF RingInv, TypeOK, HandleAck
<1>2. /\ acks[1].consumed \in Int /\ head \in Int /\ tail \in Int /\ Capacity \in Int
      /\ tail <= acks[1].consumed /\ acks[1].consumed <= head /\ head - tail <= Capacity
  <2>1. /\ acks[1].consumed \in Nat /\ head \in Nat /\ tail \in Nat
        /\ localTail \in Nat /\ acknowledgedTail \in Nat
    BY <1>1 DEF RingInv, TypeOK, Ack
  <2>2. tail <= acks[1].consumed /\ acks[1].consumed <= acknowledgedTail
    BY <1>1 DEF RingInv, AcksOrdered
  <2>3. acknowledgedTail <= localTail /\ localTail <= head /\ head - tail <= Capacity
    BY DEF RingInv, AcksOrdered, PositionsOrdered
  <2>4. QED
    BY <2>1, <2>2, <2>3, CapacityAssumption
<1>3. head - acks[1].consumed <= Capacity
  BY <1>2, DistanceShrinks
<1>4. ~AckIsValid(acks[1])
  BY <1>1 DEF HandleAck
<1>5. QED
  BY <1>1, <1>2, <1>3, <1>4 DEF AckIsValid

\* The bounds tests of the bridge never refuse an honest cursor: what is
\* refused is refused for its generation.
THEOREM OnlyStaleRejected == Spec => RejectedOnlyStale
<1>1. RingInv /\ [Next]_vars =>
        [invalidAcks' # invalidAcks => Head(acks).generation # generation]_vars
  <2>1. SUFFICES ASSUME RingInv, Next, invalidAcks' # invalidAcks
                 PROVE  Head(acks).generation # generation
    OBVIOUS
  <2>2. HandleAck
    BY <2>1 DEF Next, Producer, Consumer, producerVars, cursorVars, callVars,
       ClaimSequence, DropNewest, BeginWrite, Commit, Reconnect, CursorInit,
       BeginLatch, Snapshot, CopySlot, FinishPass, Recheck, SendAck,
       AdoptGeneration, BeginLatest, ReadLatest
  <2>3. QED
    BY <2>1, <2>2, RejectedStep
<1>2. QED
  BY <1>1, RingInvariant, PTL DEF Spec, RejectedOnlyStale

\* A sent acknowledgement is the newest on its way, and it reports all of the
\* cursor's progress.
LEMMA SendAckLoss ==
  ASSUME RingInv, SendAck
  PROVE  (NewestAckCurrent /\ AckLossCounted)'
<1> DEFINE ack == [generation |-> cursorGeneration, consumed |-> localTail]
<1>1. acks \in Seq(Ack) /\ ack \in Ack /\ acks' = Append(acks, ack)
  BY DEF RingInv, TypeOK, Ack, SendAck
<1>2. Len(acks') = Len(acks) + 1 /\ acks'[Len(acks) + 1] = ack /\ acks' # <<>>
  BY <1>1, AppendProperties, EmptySeq
<1>3. acknowledgedTail' = localTail
  BY DEF SendAck
<1>4. QED
  BY <1>2, <1>3 DEF NewestAckCurrent, AckLossCounted

\* The bridge takes the oldest acknowledgement: the newest is still on its way,
\* or it was this one, which moved the tail or was refused and counted.
LEMMA HandleAckLoss ==
  ASSUME RingInv, NewestAckCurrent, AckLossCounted, HandleAck
  PROVE  (NewestAckCurrent /\ AckLossCounted)'
<1>1. /\ Len(acks) \in Nat \ {0} /\ Head(acks) = acks[1] /\ acks # <<>>
      /\ acks' = Tail(acks) /\ Len(acks') = Len(acks) - 1 /\ acks' \in Seq(Ack)
      /\ \A i \in 1 .. Len(acks') : acks'[i] = acks[i + 1]
  BY HeadTailProperties, EmptySeq DEF RingInv, TypeOK, HandleAck
<1>2. /\ acks[Len(acks)].consumed = acknowledgedTail
      /\ UNCHANGED <<writable, consumerPC, acknowledgedTail, origin>>
      /\ acknowledgedTail \in Nat /\ invalidAcks \in Nat
  BY <1>1 DEF RingInv, TypeOK, NewestAckCurrent, HandleAck, cursorVars, callVars
<1>3. CASE acks' # <<>>
  <2>1. Len(acks') \in Nat \ {0}
    BY <1>1, <1>3, EmptySeq
  <2>2. acks'[Len(acks')] = acks[Len(acks)]
    BY <1>1, <2>1
  <2>3. QED
    BY <1>2, <1>3, <2>2 DEF NewestAckCurrent, AckLossCounted
<1>4. CASE acks' = <<>>
  <2>1. Len(acks) = 1
    <3>1. Len(acks') = 0
      BY <1>4
    <3>2. QED BY <1>1, <3>1
  <2>2. NewestAckCurrent'
    BY <1>4 DEF NewestAckCurrent
  <2>3. CASE tail' = Head(acks).consumed
    BY <1>1, <1>2, <2>1, <2>2, <2>3 DEF AckLossCounted
  <2>4. CASE invalidAcks' = invalidAcks + 1
    BY <1>2, <2>2, <2>4 DEF AckLossCounted
  <2>5. QED
    BY <2>3, <2>4 DEF HandleAck
<1>5. QED BY <1>3, <1>4

\* Every other step moves neither an acknowledgement nor a position that these
\* two speak of, or starts the cursor where it counts as acknowledged.
LEMMA OtherStepsLoss ==
  ASSUME RingInv, NewestAckCurrent, AckLossCounted, [Next]_vars, ~SendAck, ~HandleAck
  PROVE  (NewestAckCurrent /\ AckLossCounted)'
<1>1. CASE \E atHead \in BOOLEAN : CursorInit(atHead)
  <2>1. acks = <<>> /\ acks' = <<>>
    BY <1>1 DEF RingInv, AcksOrdered, CursorInit
  <2>2. acknowledgedTail' = origin'
    BY <1>1 DEF CursorInit
  <2>3. QED
    BY <2>1, <2>2 DEF NewestAckCurrent, AckLossCounted
<1>2. CASE FinishPass /\ writable
  <2>1. acks' = <<>> /\ writable'
    BY <1>2 DEF RingInv, AcksOrdered, FinishPass, producerVars
  <2>2. QED
    BY <2>1 DEF NewestAckCurrent, AckLossCounted
<1>3. CASE FinishPass /\ ~writable
  <2>1. /\ UNCHANGED <<writable, acks, tail, acknowledgedTail, invalidAcks, origin>>
        /\ consumerPC = "copy"
    BY <1>3 DEF FinishPass, producerVars
  <2>2. QED
    BY <2>1 DEF NewestAckCurrent, AckLossCounted
<1>4. CASE ~FinishPass /\ ~\E atHead \in BOOLEAN : CursorInit(atHead)
  <2>1. UNCHANGED <<writable, acks, tail, acknowledgedTail, invalidAcks, origin>>
    BY <1>4 DEF Next, Producer, Consumer, vars, producerVars, cursorVars, callVars,
       ClaimSequence, DropNewest, BeginWrite, Commit, Reconnect, BeginLatch, Snapshot,
       CopySlot, Recheck, AdoptGeneration, BeginLatest, ReadLatest
  <2>2. consumerPC' # "detached" => consumerPC # "detached"
    BY <1>4 DEF Next, Producer, Consumer, vars, producerVars, cursorVars, callVars,
       ClaimSequence, DropNewest, BeginWrite, Commit, Reconnect, BeginLatch, Snapshot,
       CopySlot, Recheck, AdoptGeneration, BeginLatest, ReadLatest
  <2>3. QED
    BY <2>1, <2>2 DEF NewestAckCurrent, AckLossCounted
<1>5. QED BY <1>1, <1>2, <1>3, <1>4

\* Room that is not on its way back was refused with a count, or skipped by a
\* cursor that began at the head: nothing else takes capacity away for good.
THEOREM AckLossAlwaysCounted == Spec => []AckLossCounted
<1>1. Init => NewestAckCurrent /\ AckLossCounted
  BY DEF Init, NewestAckCurrent, AckLossCounted
<1>2. RingInv /\ (NewestAckCurrent /\ AckLossCounted) /\ [Next]_vars
        => (NewestAckCurrent /\ AckLossCounted)'
  BY SendAckLoss, HandleAckLoss, OtherStepsLoss
<1>3. QED
  BY <1>1, <1>2, RingInvariant, PTL DEF Spec

\* A record the consumer has not acknowledged is still in its slot when
\* hfior_cursor_latest_committed copies it.
LEMMA ReadLatestExact ==
  ASSUME RingInv, ReadLatest, acknowledgedTail < limit
  PROVE  out' = <<log[limit]>>
<1>1. consumerPC = "peek" /\ out' = <<slots[Index(limit - 1)]>>
  BY DEF ReadLatest
<1>2. limit \in 1 .. head /\ consumerPC # "detached"
  BY <1>1 DEF RingInv, CopyConsistent
<1>3. tail <= acknowledgedTail
  BY <1>2 DEF RingInv, AcksOrdered
<1>4. limit - 1 \in tail .. head - 1
  BY <1>2, <1>3 DEF RingInv, TypeOK
<1>5. slots[Index(limit - 1)] = log[(limit - 1) + 1]
  BY <1>4 DEF RingInv, UnreadIntact
<1>6. (limit - 1) + 1 = limit
  BY <1>2 DEF RingInv, TypeOK
<1>7. QED
  BY <1>1, <1>5, <1>6

\* The newest-state query returns the record it looked at while the consumer
\* has not acknowledged it.
THEOREM LatestExact == Spec => LatestExactWhileUnacked
<1>1. RingInv /\ [Next]_vars =>
        [consumerPC = "peek" /\ consumerPC' # "peek" /\ acknowledgedTail < limit
           => out' = <<log[limit]>>]_vars
  <2>1. SUFFICES ASSUME RingInv, Next, consumerPC = "peek", consumerPC' # "peek",
                        acknowledgedTail < limit
                 PROVE  out' = <<log[limit]>>
    OBVIOUS
  <2>2. ReadLatest
    BY <2>1 DEF Next, Producer, Consumer, cursorVars, callVars,
       ClaimSequence, DropNewest, BeginWrite, Commit, HandleAck, Reconnect, CursorInit,
       BeginLatch, Snapshot, CopySlot, FinishPass, Recheck, SendAck,
       AdoptGeneration, BeginLatest
  <2>3. QED
    BY <2>1, <2>2, ReadLatestExact
<1>2. QED
  BY <1>1, RingInvariant, PTL DEF Spec, LatestExactWhileUnacked

-----------------------------------------------------------------------------
\* The ring implements the observation stream.

\* hfior_initialize_mapping gives the empty stream.
LEMMA RefinementInit ==
  ASSUME Init
  PROVE  Stream!StreamInit
BY DEF Init, Stream!StreamInit, InFlight, Empty

\* Dropping the newest record disposes of it; the stream is full.
LEMMA DropNewestRefines ==
  ASSUME RingInv, DropNewest
  PROVE  Stream!DropNewest
<1>1. /\ head \in Nat /\ tail \in Nat /\ Capacity \in Nat /\ Len(log) = head
      /\ head - tail <= Capacity /\ head - tail >= Capacity
      /\ nextSequence \in Nat
  BY CapacityAssumption DEF RingInv, TypeOK, PositionsOrdered, ProducerConsistent,
     DropNewest, RingIsFull
<1>2. InFlight = 1 /\ InFlight' = 0
  BY DEF DropNewest, InFlight
<1>3. QED
  BY <1>1, <1>2 DEF DropNewest, Stream!DropNewest, cursorVars, callVars

\* A commit accepts the record; there was room.
LEMMA CommitRefines ==
  ASSUME RingInv, Commit
  PROVE  Stream!Accept
<1>1. /\ head \in Nat /\ tail \in Nat /\ Len(log) = head /\ head - tail < Capacity
      /\ nextSequence \in Nat /\ record = nextSequence - 1
  BY DEF RingInv, TypeOK, ProducerConsistent, Commit
<1>2. InFlight = 1 /\ InFlight' = 0
  BY DEF Commit, InFlight
<1>3. QED
  BY <1>1, <1>2 DEF Commit, Stream!Accept, cursorVars, callVars

\* A validated acknowledgement reclaims what the consumer already has.
LEMMA HandleAckRefines ==
  ASSUME RingInv, HandleAck
  PROVE  Stream!StreamNext \/ UNCHANGED Stream!streamVars
<1>1. /\ Len(acks) \in Nat \ {0} /\ Head(acks) = acks[1] /\ acks[1] \in Ack
  BY HeadTailProperties, EmptySeq DEF RingInv, TypeOK, HandleAck
<1>2. UNCHANGED <<nextSequence - 1 - InFlight, log, origin, received>>
  BY DEF HandleAck, InFlight, cursorVars, callVars
<1>3. CASE tail' = tail
  BY <1>2, <1>3 DEF Stream!streamVars
<1>4. CASE tail' = acks[1].consumed
  <2>1. origin # -1 /\ localTail = origin + Len(received)
    BY <1>1 DEF RingInv, HistoryExact, CopyConsistent, AcksOrdered, HandleAck
  <2>2. /\ acks[1].consumed \in Nat /\ tail \in Nat /\ localTail \in Nat /\ head \in Nat
        /\ tail <= acks[1].consumed /\ acks[1].consumed <= localTail
        /\ localTail <= head /\ Len(log) = head
    <3>1. 1 \in 1 .. Len(acks) /\ acks[1] \in Ack
      BY <1>1
    <3>2. acks[1].consumed \in Nat
      BY <3>1 DEF Ack
    <3>3. tail <= acks[1].consumed /\ acks[1].consumed <= acknowledgedTail
          /\ acknowledgedTail <= localTail
      BY <3>1 DEF RingInv, AcksOrdered
    <3>4. tail \in Nat /\ localTail \in Nat /\ head \in Nat /\ acknowledgedTail \in Nat
      BY DEF RingInv, TypeOK
    <3>5. consumerPC # "detached"
      BY <1>1 DEF RingInv, AcksOrdered, HandleAck
    <3>6. localTail <= head /\ Len(log) = head
      BY <3>5 DEF RingInv, PositionsOrdered, ProducerConsistent
    <3>7. QED BY <3>2, <3>3, <3>4, <3>6
  <2>3. acks[1].consumed \in 0 .. Len(log) /\ acks[1].consumed \in tail .. localTail
    BY <2>2
  <2>4. Stream!Reclaim(acks[1].consumed)
    BY <1>2, <1>4, <2>1, <2>3 DEF Stream!Reclaim, Stream!Joined, Stream!ReadPosition
  <2>5. QED
    BY <2>3, <2>4 DEF Stream!StreamNext
<1>5. QED
  BY <1>1, <1>3, <1>4 DEF HandleAck

\* A cursor joins at the tail or at the head.
LEMMA CursorInitRefines ==
  ASSUME RingInv, NEW atHead \in BOOLEAN, CursorInit(atHead)
  PROVE  Stream!Join
<1>1. Len(log) = head /\ origin = -1 /\ InFlight' = InFlight
  BY DEF RingInv, ProducerConsistent, CopyConsistent, CursorInit, producerVars, InFlight
<1>2. QED
  BY <1>1 DEF CursorInit, Stream!Join, Stream!Joined, producerVars

\* A batch is the next stretch of the published history.
LEMMA BatchIsHistory ==
  ASSUME RingInv, FinishPass
  PROVE  out = SubSeq(log, localTail + 1, localTail + Len(out))
<1>1. /\ out \in Seq(Slot) /\ Len(out) \in Nat /\ localTail \in Nat
      /\ log \in Seq(Record) /\ Len(log) = head /\ localTail + Len(out) <= head
      /\ \A i \in 1 .. Len(out) : out[i] = log[localTail + i]
  BY DEF RingInv, TypeOK, CopyConsistent, ProducerConsistent, FinishPass
<1>2. log \in Seq(Slot)
  BY <1>1, ElementOfSeq, SeqDef DEF Slot
<1> DEFINE first == localTail + 1
<1> DEFINE last == localTail + Len(out)
<1>3. /\ SubSeq(log, first, last) \in Seq(Slot)
      /\ Len(SubSeq(log, first, last)) = Len(out)
      /\ \A i \in 1 .. Len(out) : SubSeq(log, first, last)[i] = log[localTail + i]
  <2>1. first \in Int /\ last \in Int /\ last - first + 1 = Len(out)
    BY <1>1
  <2>2. \A i \in first .. last : log[i] \in Slot
    BY <1>1, <1>2, ElementOfSeq
  <2>3. \A i \in 1 .. Len(out) : first + i - 1 = localTail + i
    BY <1>1
  <2> HIDE DEF first, last
  <2>4. /\ SubSeq(log, first, last) \in Seq(Slot)
        /\ Len(SubSeq(log, first, last)) = IF first <= last THEN last - first + 1 ELSE 0
        /\ \A i \in 1 .. last - first + 1 : SubSeq(log, first, last)[i] = log[first + i - 1]
    BY <2>1, <2>2, SubSeqProperties
  <2>5. Len(SubSeq(log, first, last)) = Len(out)
    BY <1>1, <2>1, <2>4
  <2>6. \A i \in 1 .. Len(out) : SubSeq(log, first, last)[i] = log[localTail + i]
    <3>1. \A i \in 1 .. Len(out) : SubSeq(log, first, last)[i] = log[first + i - 1]
      BY <2>1, <2>4
    <3>2. QED BY <2>3, <3>1
  <2>7. QED
    BY <2>4, <2>5, <2>6
<1>4. QED
  BY <1>1, <1>3, SeqEqual

\* A finished pass delivers its batch; a writable drain reclaims it too; an
\* empty one changes nothing the stream can see.
LEMMA FinishPassRefines ==
  ASSUME RingInv, FinishPass
  PROVE  Stream!StreamNext \/ UNCHANGED Stream!streamVars
<1>1. /\ Len(out) \in Nat /\ localTail \in Nat /\ head \in Nat /\ Len(log) = head
      /\ limit = localTail + Len(out) /\ limit <= head
      /\ origin # -1 /\ localTail = origin + Len(received)
      /\ writable => tail = localTail
  <2>1. writable => tail = localTail
    BY DEF RingInv, AcksOrdered
  <2>2. QED
    BY <2>1 DEF RingInv, TypeOK, CopyConsistent, ProducerConsistent, HistoryExact, FinishPass
<1>2. UNCHANGED <<nextSequence - 1 - InFlight, log, origin>>
  BY DEF FinishPass, producerVars, InFlight
<1>3. received' = received \o SubSeq(log, localTail + 1, localTail + Len(out))
  BY BatchIsHistory DEF FinishPass
<1>4. CASE Len(out) = 0
  <2>1. out = <<>>
    BY <1>4, EmptySeq DEF RingInv, TypeOK
  <2>2. received' = received
    BY <2>1, ConcatEmptySeq DEF RingInv, TypeOK, FinishPass
  <2>3. tail' = tail
    BY <1>1, <1>4 DEF FinishPass
  <2>4. QED
    BY <1>2, <2>2, <2>3 DEF Stream!streamVars
<1>5. CASE Len(out) # 0
  <2>1. Len(out) \in 1 .. Len(log)
    BY <1>1, <1>5
  <2>2. CASE writable
    <3>1. tail' = localTail + Len(out)
      BY <1>1, <2>2 DEF FinishPass
    <3>2. Stream!DeliverAndReclaim(Len(out))
      BY <1>1, <1>2, <1>3, <3>1
         DEF Stream!DeliverAndReclaim, Stream!Joined, Stream!ReadPosition
    <3>3. QED
      BY <2>1, <3>2 DEF Stream!StreamNext
  <2>3. CASE ~writable
    <3>1. tail' = tail
      BY <2>3 DEF FinishPass
    <3>2. Stream!Deliver(Len(out))
      BY <1>1, <1>2, <1>3, <3>1 DEF Stream!Deliver, Stream!Joined, Stream!ReadPosition
    <3>3. QED
      BY <2>1, <3>2 DEF Stream!StreamNext
  <2>4. QED BY <2>2, <2>3
<1>6. QED BY <1>4, <1>5

\* The other steps move nothing the stream can see.
LEMMA InternalSteps ==
  ASSUME RingInv,
         \/ ClaimSequence \/ BeginWrite \/ Reconnect
         \/ \E maxRecords \in 1 .. MaxBatch, maxPasses \in 1 .. MaxPasses :
              BeginLatch(maxRecords, maxPasses)
         \/ Snapshot \/ CopySlot \/ Recheck \/ SendAck \/ AdoptGeneration
         \/ BeginLatest \/ ReadLatest \/ UNCHANGED vars
  PROVE  UNCHANGED Stream!streamVars
<1>1. UNCHANGED <<log, origin, received, tail>>
  BY DEF ClaimSequence, BeginWrite, Reconnect, BeginLatch, Snapshot, CopySlot,
     Recheck, SendAck, AdoptGeneration, BeginLatest, ReadLatest, vars,
     producerVars, cursorVars, callVars
<1>2. nextSequence \in Nat
  BY DEF RingInv, TypeOK
<1>3. nextSequence' - 1 - InFlight' = nextSequence - 1 - InFlight
  BY <1>2 DEF ClaimSequence, BeginWrite, Reconnect, BeginLatch, Snapshot, CopySlot,
     Recheck, SendAck, AdoptGeneration, BeginLatest, ReadLatest, vars,
     producerVars, cursorVars, callVars, InFlight
<1>4. QED
  BY <1>1, <1>3 DEF Stream!streamVars

\* Every behaviour of the two threads and the socket is a behaviour of the
\* observation stream.
THEOREM RingImplementsStream == Spec => ImplementsStream
<1>1. Init => Stream!StreamInit
  BY RefinementInit
<1>2. RingInv /\ [Next]_vars => [Stream!StreamNext]_Stream!streamVars
  <2>1. SUFFICES ASSUME RingInv, [Next]_vars
                 PROVE  Stream!StreamNext \/ UNCHANGED Stream!streamVars
    OBVIOUS
  <2>2. CASE DropNewest
    BY <2>1, <2>2, DropNewestRefines DEF Stream!StreamNext
  <2>3. CASE Commit
    BY <2>1, <2>3, CommitRefines DEF Stream!StreamNext
  <2>4. CASE HandleAck
    BY <2>1, <2>4, HandleAckRefines
  <2>5. CASE \E atHead \in BOOLEAN : CursorInit(atHead)
    BY <2>1, <2>5, CursorInitRefines DEF Stream!StreamNext
  <2>6. CASE FinishPass
    BY <2>1, <2>6, FinishPassRefines
  <2>7. CASE \/ ClaimSequence \/ BeginWrite \/ Reconnect
             \/ \E maxRecords \in 1 .. MaxBatch, maxPasses \in 1 .. MaxPasses :
                  BeginLatch(maxRecords, maxPasses)
             \/ Snapshot \/ CopySlot \/ Recheck \/ SendAck \/ AdoptGeneration
             \/ BeginLatest \/ ReadLatest \/ UNCHANGED vars
    BY <2>1, <2>7, InternalSteps
  <2>8. QED
    BY <2>1, <2>2, <2>3, <2>4, <2>5, <2>6, <2>7 DEF Next, Producer, Consumer
<1>3. QED
  BY <1>1, <1>2, RingInvariant, PTL DEF Spec, ImplementsStream, Stream!StreamSpec

=============================================================================
