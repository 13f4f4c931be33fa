-------------------------------- MODULE Ring --------------------------------
(***************************************************************************)
(* The shared-memory ring of src/common.c and the cursor library of        *)
(* src/policy.c, at the granularity of the atomic accesses: one producer   *)
(* thread and one consumer thread interleave between any two of them.      *)
(*                                                                         *)
(* A record is its sequence number, which is all the properties tell       *)
(* apart.  The 32-byte copy into or out of a slot is not atomic: a slot    *)
(* holds Torn from the first to the last byte the producer writes, and a   *)
(* reader that looks meanwhile gets Torn.  Head is published with release  *)
(* and read with acquire, so the interleaving of these steps is also the   *)
(* order in which the other thread sees them.                              *)
(*                                                                         *)
(* Capacity is reclaimed in one of two ways: a read-only consumer sends    *)
(* ACK messages that the bridge validates, or the consumer shares the      *)
(* writable mapping and moves the tail itself (writable, hfior_ring_drain).*)
(***************************************************************************)
EXTENDS Integers, Sequences

CONSTANTS
  Capacity,       \* metadata.capacity
  MaxBatch,       \* bound: the largest max_records of one call
  MaxPasses,      \* bound: the largest max_passes of one stable latch
  MaxSequence,    \* bound: records offered to the ring
  MaxGeneration   \* bound: device generations

ASSUME CapacityAssumption == Capacity \in Nat \ {0}
ASSUME BoundsAssumption ==
  /\ MaxBatch \in Nat \ {0}
  /\ MaxPasses \in Nat \ {0}
  /\ MaxSequence \in Nat
  /\ MaxGeneration \in Nat \ {0}

VARIABLES
  \* the mapping
  head, nextSequence, dropped, generation, tail, slots,
  writable,          \* how the consumer has it: hfior_ring_drain, or a cursor and ACKs
  \* the producer thread
  producerPC,        \* "idle", "claimed" (has a sequence), "writing" (a slot)
  record,            \* the record being published
  invalidAcks,       \* bridge->stats.invalid_acknowledgements
  \* the control socket, client to bridge
  acks,
  \* the consumer thread and its hfior_cursor
  consumerPC,        \* "detached", "idle", "snapshot", "copy", "recheck", "peek", "failed"
  localTail, acknowledgedTail, cursorGeneration,
  limit,             \* end of the snapshot being copied
  room, passes,      \* what is left of max_records and max_passes
  out,               \* the caller's buffer, this pass
  \* history: every record published, and every record returned by a drain
  log, received, origin

producerVars == <<head, nextSequence, dropped, generation, slots, writable,
                  producerPC, record, invalidAcks, log>>
cursorVars   == <<localTail, acknowledgedTail, cursorGeneration, received, origin>>
callVars     == <<consumerPC, limit, room, passes, out>>
vars == <<producerVars, tail, acks, cursorVars, callVars>>

Empty == 0       \* a slot of the zeroed mapping; no record has sequence 0
Torn  == -1      \* a slot, or a copy of one, that is partly written

\* records[position & (capacity - 1)]: the capacity is a power of two, so the mask
\* is this modulus.
Index(position) == position % Capacity
Slots == 0 .. Capacity - 1

Minimum(a, b) == IF a <= b THEN a ELSE b

-----------------------------------------------------------------------------
\* hfior_initialize_mapping, before a client has a cursor.
Init ==
  /\ head = 0 /\ tail = 0 /\ nextSequence = 1 /\ dropped = 0 /\ generation = 1
  /\ slots = [i \in Slots |-> Empty] /\ writable \in BOOLEAN
  /\ producerPC = "idle" /\ record = Empty /\ invalidAcks = 0
  /\ acks = <<>>
  /\ consumerPC = "detached"
  /\ localTail = 0 /\ acknowledgedTail = 0 /\ cursorGeneration = 1
  /\ limit = 0 /\ room = 0 /\ passes = 0 /\ out = <<>>
  /\ log = <<>> /\ received = <<>> /\ origin = -1

-----------------------------------------------------------------------------
\* The producer thread.

\* The caller takes the next sequence number before it knows whether the
\* record will fit, so a record that is dropped leaves a gap.
ClaimSequence ==
  /\ producerPC = "idle"
  /\ nextSequence <= MaxSequence
  /\ record' = nextSequence
  /\ nextSequence' = nextSequence + 1
  /\ producerPC' = "claimed"
  /\ UNCHANGED <<writable, head, dropped, generation, slots, invalidAcks, log, tail, acks,
                 cursorVars, callVars>>

\* (variant for the mutation runs) The boundary is off by one.
RingIsFullLate == head - tail > Capacity

RingIsFull == head - tail >= Capacity

\* (variant) A drop gives its sequence number back.
DropNewestReusing ==
  /\ producerPC = "claimed"
  /\ RingIsFull
  /\ dropped' = dropped + 1
  /\ nextSequence' = nextSequence - 1
  /\ producerPC' = "idle"
  /\ record' = Empty
  /\ UNCHANGED <<writable, head, generation, slots, invalidAcks, log, tail, acks,
                 cursorVars, callVars>>

\* The ring is full: the newest record, this one, is dropped.
DropNewest ==
  /\ producerPC = "claimed"
  /\ RingIsFull
  /\ dropped' = dropped + 1
  /\ producerPC' = "idle"
  /\ record' = Empty
  /\ UNCHANGED <<writable, head, nextSequence, generation, slots, invalidAcks, log, tail,
                 acks, cursorVars, callVars>>

\* (variant) The head is released before the copy is complete.
BeginWritePublished ==
  /\ producerPC = "claimed"
  /\ ~RingIsFull
  /\ slots' = [slots EXCEPT ![Index(head)] = Torn]
  /\ head' = head + 1
  /\ log' = Append(log, record)
  /\ producerPC' = "writing"
  /\ UNCHANGED <<writable, nextSequence, dropped, generation, record, invalidAcks, tail,
                 acks, cursorVars, callVars>>

\* There is room: the copy into the slot begins.
BeginWrite ==
  /\ producerPC = "claimed"
  /\ ~RingIsFull
  /\ slots' = [slots EXCEPT ![Index(head)] = Torn]
  /\ producerPC' = "writing"
  /\ UNCHANGED <<writable, head, nextSequence, dropped, generation, record, invalidAcks,
                 log, tail, acks, cursorVars, callVars>>

\* The copy is complete and the new head is released.
Commit ==
  /\ producerPC = "writing"
  /\ slots' = [slots EXCEPT ![Index(head)] = record]
  /\ head' = head + 1
  /\ log' = Append(log, record)
  /\ producerPC' = "idle"
  /\ record' = Empty
  /\ UNCHANGED <<writable, nextSequence, dropped, generation, invalidAcks, tail, acks,
                 cursorVars, callVars>>

\* (variant) An acknowledgement of everything published is refused.
AckIsValidStrict(ack) ==
  /\ ack.generation = generation
  /\ ack.consumed >= tail
  /\ ack.consumed < head

\* The test the bridge makes on an acknowledgement before it moves the tail.
AckIsValid(ack) ==
  /\ ack.generation = generation
  /\ ack.consumed >= tail
  /\ ack.consumed <= head
  /\ head - ack.consumed <= Capacity

\* (variant) A refused acknowledgement is not counted.
HandleAckUncounted ==
  /\ producerPC = "idle"
  /\ acks # <<>>
  /\ acks' = Tail(acks)
  /\ IF AckIsValid(Head(acks)) THEN tail' = Head(acks).consumed ELSE UNCHANGED tail
  /\ UNCHANGED <<writable, head, nextSequence, dropped, generation, slots, producerPC,
                 record, invalidAcks, log, cursorVars, callVars>>

\* The bridge is one thread: it reads the socket between publications.
HandleAck ==
  /\ producerPC = "idle"
  /\ acks # <<>>
  /\ acks' = Tail(acks)
  /\ IF AckIsValid(Head(acks))
       THEN tail' = Head(acks).consumed /\ UNCHANGED invalidAcks
       ELSE invalidAcks' = invalidAcks + 1 /\ UNCHANGED tail
  /\ UNCHANGED <<writable, head, nextSequence, dropped, generation, slots, producerPC,
                 record, log, cursorVars, callVars>>

\* The source device came back: same ring, next generation.
Reconnect ==
  /\ producerPC = "idle"
  /\ generation < MaxGeneration
  /\ generation' = generation + 1
  /\ UNCHANGED <<writable, head, nextSequence, dropped, slots, producerPC, record,
                 invalidAcks, log, tail, acks, cursorVars, callVars>>

Producer ==
  \/ ClaimSequence \/ DropNewest \/ BeginWrite \/ Commit
  \/ HandleAck \/ Reconnect

-----------------------------------------------------------------------------
\* The consumer thread.

\* hfior_cursor_init: at the acknowledged tail or, on request, at the head.
CursorInit(beginAtCurrentHead) ==
  /\ consumerPC = "detached"
  /\ writable => ~beginAtCurrentHead
  /\ localTail' = IF beginAtCurrentHead THEN head ELSE tail
  /\ acknowledgedTail' = localTail'
  /\ cursorGeneration' = generation
  /\ origin' = localTail'
  /\ consumerPC' = "idle"
  /\ UNCHANGED <<producerVars, tail, acks, received, limit, room, passes, out>>

\* hfior_cursor_drain is a latch of one pass; hfior_cursor_stable_latch has
\* up to max_passes.
BeginLatch(maxRecords, maxPasses) ==
  /\ consumerPC = "idle"
  /\ writable => maxPasses = 1
  /\ room' = maxRecords
  /\ passes' = maxPasses
  /\ consumerPC' = "snapshot"
  /\ UNCHANGED <<producerVars, tail, acks, cursorVars, limit, out>>

\* hfior_ring_read_snapshot refuses a head its cursor cannot have come from.
ImpossibleDepth == localTail > head \/ head - localTail > Capacity

\* (variant) The newest record is left for the next pass.
SnapshotButOne ==
  /\ consumerPC = "snapshot"
  /\ consumerPC' = "copy"
  /\ limit' = localTail + (IF head > localTail THEN Minimum(head - localTail - 1, room) ELSE 0)
  /\ out' = <<>>
  /\ UNCHANGED <<producerVars, tail, acks, cursorVars, room, passes>>

\* The head is acquired once; the copy goes no further than this snapshot.
Snapshot ==
  /\ consumerPC = "snapshot"
  /\ consumerPC' = IF ~writable /\ ImpossibleDepth THEN "failed" ELSE "copy"
  /\ limit' = localTail + Minimum(head - localTail, room)
  /\ out' = <<>>
  /\ UNCHANGED <<producerVars, tail, acks, cursorVars, room, passes>>

CopySlot ==
  /\ consumerPC = "copy"
  /\ localTail + Len(out) < limit
  /\ out' = Append(out, slots[Index(localTail + Len(out))])
  /\ UNCHANGED <<producerVars, tail, acks, cursorVars, consumerPC, limit, room, passes>>

\* (variant) The cursor moves to the head of now, not of the snapshot.
FinishPassAtHead ==
  /\ consumerPC = "copy"
  /\ localTail + Len(out) = limit
  /\ localTail' = head
  /\ received' = received \o out
  /\ out' = <<>>
  /\ room' = room - Len(out)
  /\ passes' = passes - 1
  /\ consumerPC' = "recheck"
  /\ IF writable
       THEN tail' = head /\ acknowledgedTail' = head
       ELSE UNCHANGED <<tail, acknowledgedTail>>
  /\ UNCHANGED <<producerVars, acks, cursorGeneration, origin, limit>>

\* The batch is returned and the cursor moves; a writable drain also releases
\* the tail.
FinishPass ==
  /\ consumerPC = "copy"
  /\ localTail + Len(out) = limit
  /\ localTail' = limit
  /\ received' = received \o out
  /\ out' = <<>>
  /\ room' = room - Len(out)
  /\ passes' = passes - 1
  /\ consumerPC' = "recheck"
  /\ IF writable
       THEN tail' = limit /\ acknowledgedTail' = limit
       ELSE UNCHANGED <<tail, acknowledgedTail>>
  /\ UNCHANGED <<producerVars, acks, cursorGeneration, origin, limit>>

\* (variant) The pass budget is not tested.
RecheckUnlimited ==
  /\ consumerPC = "recheck"
  /\ consumerPC' = IF head # localTail /\ room > 0 THEN "snapshot" ELSE "idle"
  /\ UNCHANGED <<producerVars, tail, acks, cursorVars, limit, room, passes, out>>

\* A latch goes round again only while the head has moved and both budgets last.
Recheck ==
  /\ consumerPC = "recheck"
  /\ consumerPC' = IF head # localTail /\ passes > 0 /\ room > 0
                     THEN "snapshot" ELSE "idle"
  /\ UNCHANGED <<producerVars, tail, acks, cursorVars, limit, room, passes, out>>

\* (variant) The acknowledgement reports the published head.
SendAckHead ==
  /\ consumerPC = "idle"
  /\ ~writable
  /\ localTail # acknowledgedTail
  /\ acks' = Append(acks, [generation |-> cursorGeneration, consumed |-> head])
  /\ acknowledgedTail' = localTail
  /\ UNCHANGED <<producerVars, tail, localTail, cursorGeneration, received, origin, callVars>>

\* (variant) The acknowledgement is sent while the batch is still being copied.
SendAckEarly ==
  /\ consumerPC = "copy"
  /\ ~writable
  /\ limit # acknowledgedTail
  /\ acks' = Append(acks, [generation |-> cursorGeneration, consumed |-> limit])
  /\ acknowledgedTail' = limit
  /\ UNCHANGED <<producerVars, tail, localTail, cursorGeneration, received, origin, callVars>>

\* hfior_cursor_ack, when there is progress to report.
SendAck ==
  /\ consumerPC = "idle"
  /\ ~writable
  /\ localTail # acknowledgedTail
  /\ acks' = Append(acks, [generation |-> cursorGeneration, consumed |-> localTail])
  /\ acknowledgedTail' = localTail
  /\ UNCHANGED <<producerVars, tail, localTail, cursorGeneration, received, origin, callVars>>

\* The application learns the new generation from a DEVICE_STATE message and
\* stores it in its cursor.
AdoptGeneration ==
  /\ consumerPC = "idle"
  /\ cursorGeneration # generation
  /\ cursorGeneration' = generation
  /\ UNCHANGED <<producerVars, tail, acks, localTail, acknowledgedTail, received,
                 origin, callVars>>

\* hfior_cursor_latest_committed loads the head and tests it against the tail,
\* and only later copies the slot below it.
BeginLatest ==
  /\ consumerPC = "idle"
  /\ ~writable
  /\ head # 0
  /\ head >= tail /\ head - tail <= Capacity
  /\ limit' = head
  /\ consumerPC' = "peek"
  /\ UNCHANGED <<producerVars, tail, acks, cursorVars, room, passes, out>>

\* (variant) The slot is taken at the head, not below it.
ReadLatestAtHead ==
  /\ consumerPC = "peek"
  /\ out' = <<slots[Index(limit)]>>
  /\ consumerPC' = "idle"
  /\ UNCHANGED <<producerVars, tail, acks, cursorVars, limit, room, passes>>

\* The slot is copied whatever became of it since.
ReadLatest ==
  /\ consumerPC = "peek"
  /\ out' = <<slots[Index(limit - 1)]>>
  /\ consumerPC' = "idle"
  /\ UNCHANGED <<producerVars, tail, acks, cursorVars, limit, room, passes>>

Consumer ==
  \/ \E atHead \in BOOLEAN : CursorInit(atHead)
  \/ \E maxRecords \in 1 .. MaxBatch, maxPasses \in 1 .. MaxPasses :
       BeginLatch(maxRecords, maxPasses)
  \/ Snapshot \/ CopySlot \/ FinishPass \/ Recheck
  \/ SendAck \/ AdoptGeneration
  \/ BeginLatest \/ ReadLatest

Next == Producer \/ Consumer

-----------------------------------------------------------------------------
Spec == Init /\ [][Next]_vars

\* The bridge finishes what it began and comes back to its socket; the client's
\* frame loop drains and acknowledges again and again.
Fairness ==
  /\ WF_vars(DropNewest \/ BeginWrite \/ Commit)
  /\ SF_vars(HandleAck)
  /\ WF_vars(\E atHead \in BOOLEAN : CursorInit(atHead))
  /\ SF_vars(\E maxRecords \in 1 .. MaxBatch, maxPasses \in 1 .. MaxPasses :
                BeginLatch(maxRecords, maxPasses))
  /\ WF_vars(Snapshot \/ CopySlot \/ FinishPass \/ Recheck \/ ReadLatest)
  /\ SF_vars(SendAck)
  /\ SF_vars(AdoptGeneration)

FairSpec == Spec /\ Fairness

-----------------------------------------------------------------------------
Record == 1 .. MaxSequence
Slot   == Record \cup {Empty, Torn}
Ack    == [generation : 1 .. MaxGeneration, consumed : Nat]

\* Every variable keeps its type; the budgets of a call never go below zero.
TypeOK ==
  /\ head \in Nat /\ tail \in Nat /\ dropped \in Nat /\ invalidAcks \in Nat
  /\ nextSequence \in 1 .. MaxSequence + 1
  /\ generation \in 1 .. MaxGeneration
  /\ slots \in [Slots -> Slot] /\ writable \in BOOLEAN
  /\ producerPC \in {"idle", "claimed", "writing"}
  /\ record \in Record \cup {Empty}
  /\ acks \in Seq(Ack)
  /\ consumerPC \in {"detached", "idle", "snapshot", "copy", "recheck", "peek", "failed"}
  /\ localTail \in Nat /\ acknowledgedTail \in Nat
  /\ cursorGeneration \in 1 .. MaxGeneration
  /\ limit \in Nat /\ room \in 0 .. MaxBatch /\ passes \in 0 .. MaxPasses
  /\ out \in Seq(Slot)
  /\ log \in Seq(Record)
  /\ received \in Seq(Slot)
  /\ origin \in Nat \cup {-1}

\* A record is in flight between its sequence claim and its commit or drop.
InFlight == IF producerPC = "idle" THEN 0 ELSE 1

\* The reclaimed position, the consumer's cursor and the head stay in this
\* order and within one capacity of each other, whatever acknowledgements are
\* still on their way (hfior_ring_publish against the validated ACK), so a
\* snapshot is never refused with EOVERFLOW.
PositionsOrdered ==
  /\ consumerPC # "detached" => tail <= localTail
  /\ localTail <= head
  /\ head - tail <= Capacity
  /\ consumerPC # "failed"

\* No unread slot is overwritten: the slots from the tail to the head hold
\* exactly the records that were published there.
UnreadIntact ==
  \A position \in tail .. head - 1 : slots[Index(position)] = log[position + 1]

\* While a batch is copied out of the mapping, the producer never writes a slot
\* that is still to be copied.
NoRace ==
  (producerPC = "writing" /\ consumerPC = "copy") =>
     \A position \in localTail + Len(out) .. limit - 1 : Index(position) # Index(head)

\* What the drains returned is the published history from where the cursor
\* began: in order, each record once, none torn, none skipped.
HistoryExact ==
  /\ consumerPC # "detached" => localTail = origin + Len(received)
  /\ \A i \in 1 .. Len(received) : received[i] = log[origin + i]

\* Drop newest: sequences only grow along the ring, and every number missing
\* from it is a counted drop, so a later record makes the loss visible.
DropsLeaveGaps ==
  /\ nextSequence - 1 = head + dropped + InFlight
  /\ \A i \in 1 .. Len(log) - 1 : log[i] < log[i + 1]
  /\ \A i \in 1 .. Len(log) : log[i] < nextSequence

\* Where the newest acknowledgement on its way stops is what the cursor counts as
\* acknowledged.
NewestAckCurrent == acks # <<>> => acks[Len(acks)].consumed = acknowledgedTail

\* Room the cursor counts as given back, and the producer does not have, is on its
\* way in an acknowledgement, was refused and counted (hfior_cursor_ack repeats
\* nothing), or is the backlog the cursor skipped when it began at the head.
AckLossCounted ==
  (~writable /\ consumerPC # "detached" /\ tail < acknowledgedTail) =>
     \/ acks # <<>> /\ acks[Len(acks)].consumed = acknowledgedTail
     \/ invalidAcks > 0
     \/ acknowledgedTail = origin

\* The bridge refuses an acknowledgement of this cursor only for its
\* generation, never for its bounds.
RejectedOnlyStale ==
  [][invalidAcks' # invalidAcks => Head(acks).generation # generation]_vars

\* hfior_cursor_latest_committed returns exactly the record below the head it
\* loaded, however much is published before it copies the slot, to a consumer
\* that has not acknowledged that record yet.  (Once it has, the slot may be
\* reused under the copy, and what is returned may be torn or later.)
LatestExactWhileUnacked ==
  [][consumerPC = "peek" /\ consumerPC' # "peek" /\ acknowledgedTail < limit
       => out' = <<log[limit]>>]_vars

-----------------------------------------------------------------------------
\* What the invariants above rest on; RingProofs shows the whole inductive.

\* Acknowledgements travel in the order of the progress they report, none
\* beyond the cursor, none behind the tail.
AcksOrdered ==
  /\ acknowledgedTail <= localTail
  /\ \A i \in 1 .. Len(acks) :
       /\ tail <= acks[i].consumed
       /\ acks[i].consumed <= acknowledgedTail
  /\ \A i, j \in 1 .. Len(acks) : i < j => acks[i].consumed <= acks[j].consumed
  /\ consumerPC # "detached" => tail <= acknowledgedTail
  /\ consumerPC = "detached" => acks = <<>> /\ tail = 0
  /\ writable => acks = <<>> /\ tail = localTail

\* The producer's own positions, and the room it found still holds when it writes.
ProducerConsistent ==
  /\ Len(log) = head
  /\ producerPC # "idle" => record = nextSequence - 1
  /\ producerPC = "writing" => head - tail < Capacity
  /\ \A i \in 1 .. Len(log) : log[i] < nextSequence - InFlight

\* A copy in progress covers published records only, and what it has is theirs.
CopyConsistent ==
  /\ consumerPC \in {"snapshot", "copy"} => passes > 0
  /\ consumerPC = "peek" => limit \in 1 .. head
  /\ consumerPC = "copy" =>
       /\ localTail + Len(out) <= limit
       /\ limit <= head
       /\ limit - localTail <= room
       /\ \A i \in 1 .. Len(out) : out[i] = log[localTail + i]
  /\ consumerPC = "detached" <=> origin = -1
  /\ consumerPC = "detached" => localTail = 0 /\ received = <<>>

\* The inductive invariant.
RingInv ==
  /\ TypeOK
  /\ PositionsOrdered
  /\ AcksOrdered
  /\ ProducerConsistent
  /\ CopyConsistent
  /\ UnreadIntact
  /\ HistoryExact
  /\ DropsLeaveGaps

-----------------------------------------------------------------------------
\* The ring seen as the stream it promises: a record is disposed of when it is
\* committed or dropped, and the tail is what has been reclaimed.
Stream == INSTANCE ObservationStream WITH
  offered   <- nextSequence - 1 - InFlight,
  accepted  <- log,
  reclaimed <- tail

\* Every step of the ring is a step of the stream or none of its business.
ImplementsStream == Stream!StreamSpec

=============================================================================
