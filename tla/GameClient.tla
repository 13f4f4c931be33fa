----------------------------- MODULE GameClient -----------------------------
(***************************************************************************)
(* The game benchmark as a client of a compositor's stream: the Wayland    *)
(* client (connect, dispatch, read, acknowledge) and the frame loop that   *)
(* calls it, one read early in the frame and one late.                     *)
(*                                                                         *)
(* The compositor is external: it answers requests in order, grants each   *)
(* stream a ring of its own, publishes into it, drops the newest record    *)
(* when it is full, and may take the stream back at any time.  A failing   *)
(* dispatch or flush takes the path of a revocation and is not repeated.   *)
(***************************************************************************)
EXTENDS Integers, Sequences, FiniteSets, SequencesExt

CONSTANTS
  Modes,           \* --mode: a subset of {"eager", "hfior"}
  Capacity,        \* records in the ring of a stream
  MotionCapacity,  \* kMaximumRingRecords, the caller's buffer
  Minimised,       \* the modes in which the window may have no size for a frame
  MaxSequence,     \* bound: records the compositor observes
  MaxStreams       \* bound: streams it grants

ASSUME GameAssumption ==
  /\ Modes \subseteq {"eager", "hfior"}
  /\ Capacity \in Nat \ {0} /\ MotionCapacity \in Nat
  /\ Minimised \subseteq Modes
  /\ MaxSequence \in Nat /\ MaxStreams \in Nat

VARIABLES
  \* the compositor: the stream it grants (0: none), how many it has granted, the
  \* ring of the last one, and what is on its way in either direction
  granted, streams, log, tail, dropped, nextSequence, requests, events,
  \* struct hfior_game_client, and the head of the read in progress
  client, snapshot,
  \* the frame loop
  pc, mode, captured, measuring, integrity, early, late,
  \* history: what was applied to the camera, and how much of it before the measurement
  used, measuredFrom

compositorVars == <<granted, streams, log, tail, dropped, nextSequence>>
wireVars == <<requests, events>>
loopVars == <<mode, captured, measuring, integrity, measuredFrom>>
batchVars == <<early, late, used>>
vars == <<compositorVars, wireVars, client, snapshot, pc, loopVars, batchVars>>

\* hfior_game_client_disconnect, and what calloc leaves at the start.
Disconnected ==
  [stream |-> FALSE, active |-> FALSE, faulted |-> FALSE, generation |-> 0,
   localTail |-> 0, acknowledgedTail |-> 0, expected |-> 0, sequenceErrors |-> 0]

\* set_error.
Faulted(c) == [c EXCEPT !.active = FALSE, !.faulted = TRUE]

\* hfior_game_client_active.
Usable(c) == c.active /\ ~c.faulted

Init ==
  /\ granted = 0 /\ streams = 0 /\ log = <<>> /\ tail = 0 /\ dropped = 0
  /\ nextSequence = 1 /\ requests = <<>> /\ events = <<>>
  /\ client = Disconnected /\ snapshot = 0
  /\ pc = "poll" /\ mode \in Modes /\ captured \in BOOLEAN
  /\ measuring = FALSE /\ integrity = TRUE /\ early = <<>> /\ late = <<>>
  /\ used = <<>> /\ measuredFrom = 0

-----------------------------------------------------------------------------
\* The compositor (external).

\* It observes a record: published if there is room, else dropped, counted, and
\* announced.
Observe ==
  /\ granted # 0
  /\ nextSequence <= MaxSequence
  /\ nextSequence' = nextSequence + 1
  /\ IF Len(log) - tail < Capacity
       THEN log' = Append(log, nextSequence) /\ UNCHANGED <<dropped, events>>
       ELSE /\ dropped' = dropped + 1
            /\ events' \in {events, Append(events, "overflow")}
            /\ UNCHANGED log
  /\ UNCHANGED <<granted, streams, tail, requests, client, snapshot, pc, loopVars, batchVars>>

\* Focus, pointer lock or policy changes: the stream is taken back.
Revoke ==
  /\ granted # 0
  /\ granted' = 0
  /\ events' = Append(events, "revoked")
  /\ UNCHANGED <<streams, log, tail, dropped, nextSequence, requests, client, snapshot,
                 pc, loopVars, batchVars>>

\* get_stream: granted with a new ring, or denied.
AnswerGetStream ==
  \/ /\ streams < MaxStreams
     /\ granted' = streams + 1 /\ streams' = granted'
     /\ log' = <<>> /\ tail' = 0 /\ dropped' = 0
     /\ events' = Append(events, "active")
  \/ /\ events' = Append(events, "denied")
     /\ UNCHANGED <<granted, streams, log, tail, dropped>>

\* acknowledge: backwards, beyond the head or of another stream is ignored.
TakeAcknowledge(request) ==
  /\ tail' = IF request.generation = granted /\ request.consumed \in tail .. Len(log)
               THEN request.consumed ELSE tail
  /\ UNCHANGED <<granted, streams, log, dropped, events>>

HandleRequest ==
  /\ requests # <<>>
  /\ requests' = Tail(requests)
  /\ CASE Head(requests).type = "get_stream" -> AnswerGetStream
       [] Head(requests).type = "acknowledge" -> TakeAcknowledge(Head(requests))
       [] Head(requests).type = "destroy" ->
            granted' = 0 /\ UNCHANGED <<streams, log, tail, dropped, events>>
  /\ UNCHANGED <<nextSequence, client, snapshot, pc, loopVars, batchVars>>

Compositor == Observe \/ Revoke \/ HandleRequest

-----------------------------------------------------------------------------
\* The client's listeners.

\* (variant for the mutation runs) A revocation is not an error.
StreamEventLenient(c, event) ==
  IF event = "active"
    THEN [c EXCEPT !.active = TRUE, !.faulted = FALSE, !.generation = streams,
                   !.localTail = tail, !.acknowledgedTail = tail, !.expected = 0]
    ELSE IF event = "revoked" THEN c ELSE Faulted(c)

\* stream_active begins at the shared tail and expects any sequence; notify,
\* denied and revoked are errors.
StreamEvent(c, event) ==
  IF event = "active"
    THEN [c EXCEPT !.active = TRUE, !.faulted = FALSE, !.generation = streams,
                   !.localTail = tail, !.acknowledgedTail = tail, !.expected = 0]
    ELSE Faulted(c)

\* The private queue is dispatched to its end, and every event has been read.  An
\* error after an error changes nothing, and the stream is opened at most once: what
\* is left of all the events is whether it was, and the last of them.
Dispatched(c) ==
  LET opened == IF "active" \in Range(events) THEN StreamEvent(c, "active") ELSE c
  IN  IF events = <<>> THEN c ELSE StreamEvent(opened, Last(events))

-----------------------------------------------------------------------------
\* The frame loop, and the calls it makes.

\* (variant) The batches of the frame before are kept.
BeginFrameKeeps ==
  /\ pc = "poll"
  /\ \/ pc' = "end" /\ UNCHANGED <<captured, integrity>>
     \/ /\ captured' = FALSE
        /\ integrity' = (integrity /\ ~measuring)
        /\ pc' = IF measuring THEN "end" ELSE "connect"
     \/ /\ captured' \in BOOLEAN
        /\ pc' = "connect" /\ UNCHANGED integrity
  /\ UNCHANGED <<compositorVars, wireVars, client, snapshot, mode, measuring, measuredFrom, batchVars>>

\* SDL's events: quit; focus lost, which ends a measurement; focus or a click, which
\* ask for the capture and may not get it, or none of these.
BeginFrame ==
  /\ pc = "poll"
  /\ \/ pc' = "end" /\ UNCHANGED <<captured, integrity>>
     \/ /\ captured' = FALSE
        /\ integrity' = (integrity /\ ~measuring)
        /\ pc' = IF measuring THEN "end" ELSE "connect"
     \/ /\ captured' \in BOOLEAN
        /\ pc' = "connect" /\ UNCHANGED integrity
  /\ early' = <<>> /\ late' = <<>>
  /\ UNCHANGED <<compositorVars, wireVars, client, snapshot, mode, measuring, measuredFrom, used>>

\* hfior_game_client_connect: the old stream goes, with its queue and the events in
\* it, and a new one is asked for.
Connect ==
  /\ pc = "connect"
  /\ captured /\ ~Usable(client)
  /\ client' = [Disconnected EXCEPT !.stream = TRUE,
                                    !.sequenceErrors = client.sequenceErrors]
  /\ requests' = requests \o (IF client.stream THEN <<[type |-> "destroy"]>> ELSE <<>>)
                          \o <<[type |-> "get_stream"]>>
  /\ events' = <<>>
  /\ pc' = "roundtrip"
  /\ UNCHANGED <<compositorVars, snapshot, loopVars, batchVars>>

\* The same, when the registry or its roundtrip fails.
ConnectFails ==
  /\ pc = "connect"
  /\ captured /\ ~Usable(client)
  /\ client' = Faulted([Disconnected EXCEPT !.sequenceErrors = client.sequenceErrors])
  /\ requests' = IF client.stream THEN Append(requests, [type |-> "destroy"]) ELSE requests
  /\ events' = <<>>
  /\ pc' = "ready"
  /\ UNCHANGED <<compositorVars, snapshot, loopVars, batchVars>>

\* The roundtrip returns when the compositor has handled everything.
FinishConnect ==
  /\ pc = "roundtrip"
  /\ requests = <<>>
  /\ client' = Dispatched(client)
  /\ events' = <<>>
  /\ pc' = "ready"
  /\ UNCHANGED <<compositorVars, requests, snapshot, loopVars, batchVars>>

\* No attempt: there is a stream, no capture, or the last attempt was less than
\* 250 ms ago.
SkipConnect ==
  /\ pc = "connect"
  /\ pc' = "ready"
  /\ UNCHANGED <<compositorVars, wireVars, client, snapshot, loopVars, batchVars>>

\* After the warm-up with a stream the measurement starts.
CheckReady ==
  /\ pc = "ready"
  /\ IF captured /\ Usable(client) /\ ~measuring
       THEN /\ measuring' \in BOOLEAN
            /\ measuredFrom' = IF measuring' THEN Len(used) ELSE measuredFrom
       ELSE UNCHANGED <<measuring, measuredFrom>>
  /\ pc' = "early"
  /\ UNCHANGED <<compositorVars, wireVars, client, snapshot, mode, captured, integrity, batchVars>>

Copying == [early |-> "earlyCopy", late |-> "lateCopy"]
Failing == [early |-> "earlyFailed", late |-> "lateFailed",
            earlyCopy |-> "earlyFailed", lateCopy |-> "lateFailed"]

\* hfior_game_client_read, up to its loads: the early read of a frame dispatches
\* first, the late one does not.  What SDL has not read from the socket yet is not in
\* the queue; an error that is there makes the events behind it indifferent.
ReadHead ==
  /\ pc \in {"early", "late"} /\ Usable(client)
  /\ \/ pc = "early" /\ client' = Dispatched(client) /\ events' = <<>>
     \/ UNCHANGED <<client, events>>
  /\ snapshot' = Len(log)
  /\ pc' = IF Usable(client') THEN Copying[pc] ELSE Failing[pc]
  /\ UNCHANGED <<compositorVars, requests, loopVars, batchVars>>

\* The newest record written to the slot of a position, if there is one.
SlotAt(position) ==
  LET writes == {i \in 1 .. Len(log) : (i - 1) % Capacity = position % Capacity}
  IN  IF writes = {} THEN 0 ELSE log[CHOOSE i \in writes : \A j \in writes : j <= i]

\* Every record from the cursor to the head.
Batch == [i \in 1 .. snapshot - client.localTail |-> SlotAt(client.localTail + i - 1)]

\* The first record is the expected one, if any is, and each follows the one before.
InSequence(batch) ==
  \A i \in 1 .. Len(batch) :
    /\ batch[i] # 0
    /\ i = 1 => client.expected \in {0, batch[1]}
    /\ i > 1 => batch[i] = batch[i - 1] + 1

\* (variant) The drop counter is not looked at.
MayCopyDropped ==
  /\ snapshot - client.localTail \in 0 .. Capacity
  /\ snapshot - client.localTail <= MotionCapacity

\* No drop, a possible depth, and room in the caller's buffer.
MayCopy ==
  /\ dropped = 0
  /\ snapshot - client.localTail \in 0 .. Capacity
  /\ snapshot - client.localTail <= MotionCapacity

\* (variant) A late read counts the early records again.
AdvancedTwice ==
  [client EXCEPT !.localTail = @ + Len(early) + Len(Batch),
                 !.expected = IF Batch = <<>> THEN @ ELSE Last(Batch) + 1]

\* The cursor is at the head, and the next record is known.
Advanced ==
  [client EXCEPT !.localTail = snapshot,
                 !.expected = IF Batch = <<>> THEN @ ELSE Last(Batch) + 1]

\* The rest of the read; "hfior" applies the early records at once.
ReadCopy ==
  /\ pc \in {"earlyCopy", "lateCopy"}
  /\ MayCopy /\ InSequence(Batch)
  /\ client' = Advanced
  /\ IF pc = "earlyCopy"
       THEN /\ early' = Batch /\ UNCHANGED late
            /\ used' = IF mode = "hfior" THEN used \o Batch ELSE used
            /\ pc' = "size"
       ELSE late' = Batch /\ pc' = "apply" /\ UNCHANGED <<early, used>>
  /\ UNCHANGED <<compositorVars, wireVars, snapshot, loopVars>>

\* (variant) A refused read moves the cursor.
ReadRefusedMoves ==
  /\ pc \in {"earlyCopy", "lateCopy"}
  /\ ~(MayCopy /\ InSequence(Batch))
  /\ client' = [Faulted(client) EXCEPT !.sequenceErrors = IF MayCopy THEN @ + 1 ELSE @,
                                       !.localTail = snapshot]
  /\ pc' = Failing[pc]
  /\ UNCHANGED <<compositorVars, wireVars, snapshot, loopVars, batchVars>>

\* A refused read leaves the cursor alone and is an error.
ReadRefused ==
  /\ pc \in {"earlyCopy", "lateCopy"}
  /\ ~(MayCopy /\ InSequence(Batch))
  /\ client' = [Faulted(client) EXCEPT !.sequenceErrors = IF MayCopy THEN @ + 1 ELSE @]
  /\ pc' = Failing[pc]
  /\ UNCHANGED <<compositorVars, wireVars, snapshot, loopVars, batchVars>>

\* (variant) An early failure never ends the run: the next frame reconnects.
ReadFailedTolerated ==
  /\ pc \in {"earlyFailed", "lateFailed"}
  /\ IF pc = "earlyFailed" THEN pc' = "size" /\ UNCHANGED integrity
                           ELSE pc' = "end" /\ integrity' = FALSE
  /\ UNCHANGED <<compositorVars, wireVars, client, snapshot, mode, captured, measuring,
                 measuredFrom, batchVars>>

\* The early read may fail before the measurement; nothing else may.
ReadFailed ==
  /\ pc \in {"earlyFailed", "lateFailed"}
  /\ IF pc = "earlyFailed" /\ ~measuring THEN pc' = "size" /\ UNCHANGED integrity
                                         ELSE pc' = "end" /\ integrity' = FALSE
  /\ UNCHANGED <<compositorVars, wireVars, client, snapshot, mode, captured, measuring,
                 measuredFrom, batchVars>>

\* Without a stream there is nothing to read.
SkipRead ==
  /\ pc \in {"early", "late"} /\ ~Usable(client)
  /\ pc' = IF pc = "early" THEN "size" ELSE "apply"
  /\ UNCHANGED <<compositorVars, wireVars, client, snapshot, loopVars, batchVars>>

\* A window without size ends the frame here.
CheckSize ==
  /\ pc = "size"
  /\ pc' \in (IF mode \in Minimised THEN {"poll", "late"} ELSE {"late"})
  /\ UNCHANGED <<compositorVars, wireVars, client, snapshot, loopVars, batchVars>>

\* (variant) The camera is moved by the late records alone.
ApplyLateOnly ==
  /\ pc = "apply"
  /\ used' = used \o late
  /\ \/ pc' = "ack" /\ UNCHANGED integrity
     \/ pc' = "end" /\ integrity' = FALSE
  /\ UNCHANGED <<compositorVars, wireVars, client, snapshot, mode, captured, measuring,
                 measuredFrom, early, late>>

\* The camera moves: "eager" applies both batches now, "hfior" the late one, and
\* the frame is drawn and swapped, or the run fails.
Apply ==
  /\ pc = "apply"
  /\ used' = used \o (IF mode = "eager" THEN early \o late ELSE late)
  /\ \/ pc' = "ack" /\ UNCHANGED integrity
     \/ pc' = "end" /\ integrity' = FALSE
  /\ UNCHANGED <<compositorVars, wireVars, client, snapshot, mode, captured, measuring,
                 measuredFrom, early, late>>

\* hfior_game_client_acknowledge, after the swap; a flush that fails is an error.
Acknowledge ==
  /\ pc = "ack" /\ Usable(client)
  /\ client.localTail # client.acknowledgedTail
  /\ requests' = Append(requests, [type |-> "acknowledge", generation |-> client.generation,
                                   consumed |-> client.localTail])
  /\ \/ client' = [client EXCEPT !.acknowledgedTail = client.localTail]
        /\ pc' = "next" /\ UNCHANGED integrity
     \/ client' = Faulted([client EXCEPT !.acknowledgedTail = client.localTail])
        /\ pc' = "end" /\ integrity' = FALSE
  /\ UNCHANGED <<compositorVars, events, snapshot, mode, captured, measuring, measuredFrom,
                 batchVars>>

\* Nothing to acknowledge, or nobody to tell.
SkipAcknowledge ==
  /\ pc = "ack"
  /\ ~Usable(client) \/ client.localTail = client.acknowledgedTail
  /\ pc' = "next"
  /\ UNCHANGED <<compositorVars, wireVars, client, snapshot, loopVars, batchVars>>

\* A measurement ends after its duration.
EndFrame ==
  /\ pc = "next"
  /\ pc' \in (IF measuring THEN {"poll", "end"} ELSE {"poll"})
  /\ UNCHANGED <<compositorVars, wireVars, client, snapshot, loopVars, batchVars>>

Game ==
  \/ BeginFrame \/ Connect \/ ConnectFails \/ FinishConnect \/ SkipConnect \/ CheckReady
  \/ ReadHead \/ ReadCopy \/ ReadRefused \/ ReadFailed \/ SkipRead
  \/ CheckSize \/ Apply \/ Acknowledge \/ SkipAcknowledge \/ EndFrame

\* The run is over.
Over == pc = "end" /\ UNCHANGED vars

Next == Compositor \/ Game \/ Over

Spec == Init /\ [][Next]_vars

\* The frame loop runs, SDL reads the socket from time to time (its poll does in every
\* frame), and the compositor answers.
FairSpec ==
  /\ Spec
  /\ WF_vars(Game) /\ SF_vars(ReadHead /\ pc = "early" /\ events' = <<>>)
  /\ WF_vars(HandleRequest)

-----------------------------------------------------------------------------
ClientPC == {"poll", "connect", "roundtrip", "ready", "early", "earlyCopy", "earlyFailed",
             "size", "late", "lateCopy", "lateFailed", "apply", "ack", "next", "end"}
Sequence == 1 .. MaxSequence

\* Type correctness; the cursor is never past the head nor behind what it has
\* acknowledged.
TypeOK ==
  /\ granted \in {0, streams} /\ streams \in 0 .. MaxStreams
  /\ log \in Seq(Sequence) /\ tail \in 0 .. Len(log) /\ Len(log) - tail <= Capacity
  /\ dropped \in Nat /\ nextSequence \in 1 .. MaxSequence + 1
  /\ events \in Seq({"active", "denied", "overflow", "revoked"})
  /\ client.active \in BOOLEAN /\ client.faulted \in BOOLEAN
  /\ client.generation \in 0 .. streams
  /\ client.generation = streams =>
       tail <= client.acknowledgedTail /\ client.acknowledgedTail <= client.localTail
         /\ client.localTail <= Len(log)
  /\ pc \in ClientPC /\ mode \in Modes
  /\ captured \in BOOLEAN /\ measuring \in BOOLEAN /\ integrity \in BOOLEAN
  /\ early \in Seq(Sequence) /\ late \in Seq(Sequence) /\ used \in Seq(Sequence)
  /\ measuredFrom \in 0 .. Len(used)

\* What the frame has read and not applied yet.
Unapplied ==
  IF pc \in {"poll", "ack", "next", "end"} THEN <<>>
  ELSE (IF mode = "eager" THEN early ELSE <<>>) \o late

\* The camera has moved by the whole history of the stream up to the cursor, each
\* record once and in order, the early and the late reads together, also when a
\* read is refused half way; what it moved by before is of no record of this
\* stream (hfior_game_client_read, main).
UsedIsHistory ==
  client.generation = streams /\ streams # 0 /\ pc # "end" =>
    LET moves == used \o Unapplied
        older == Len(moves) - client.localTail
    IN  /\ older >= 0
        /\ SubSeq(moves, older + 1, Len(moves)) = SubSeq(log, 1, client.localTail)
        /\ \A i \in 1 .. older : moves[i] \notin Range(log)

\* A full-history consumer integrates every record exactly once: the room of a
\* record comes back to the compositor only after it was applied (acknowledge
\* comes after the swap).
RoomOnlyForUsed ==
  \A n \in 1 .. tail : \E i \in 1 .. Len(used) : used[i] = log[n]

\* A measurement that still counts as valid has no gap, although streams come and
\* go and a new stream expects any first sequence (stream_active).
MeasuredGapFree ==
  measuring /\ integrity =>
    \A i \in measuredFrom + 1 .. Len(used) - 1 : used[i + 1] = used[i] + 1

\* With an honest producer a loss is always reported as the drop it is, never as a
\* reordering: the drop counter is loaded after the head, and looked at before
\* the records.
NoSequenceErrors == client.sequenceErrors = 0

\* A game that still uses a stream it no longer has has not dispatched the news yet:
\* they are in its queue or its socket, and will end the use.
RevocationPending ==
  Usable(client) /\ client.generation # granted =>
    \E i \in 1 .. Len(events) : events[i] = "revoked"

\* How much of the stream's ring has moved the camera.
AppliedOfStream == Cardinality({i \in 1 .. Len(log) : log[i] \in Range(used)})

\* The compositor, the client library and the frame loop together are the lease the
\* protocol promises (get_stream, revoked, acknowledge): its history is applied
\* without a gap and once, and nothing of it after the next stream is granted.
Lease == INSTANCE LeasedStream WITH
  leased    <- granted # 0,
  observed  <- nextSequence - 1,
  accepted  <- log,
  position  <- AppliedOfStream,
  reclaimed <- tail,
  applied   <- used

ImplementsLease == Lease!LeaseSpec

\* A measurement does not go on without its stream.
LossEndsMeasurement ==
  (measuring /\ client.generation # granted) ~> pc = "end"

=============================================================================
