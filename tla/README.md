# A TLA+ model of HFIOR

HFIOR moves high-rate pointer input from one producer (the *bridge*) to one
consumer (a client that runs frames) through a ring in shared memory.  This
directory models the ring, the cursor library, the bridge, the reference client with
its statistics, how the two find each other, and the game that reads a compositor's
stream; it checks them with TLC on small instances, and proves with TLAPS, for every
value of the constants, that the ring, the session, the start and the game keep what
matters most about them.

Paths below are relative to the repository root unless they begin with a module
name.  The property definitions carry the exact statements; this file says why
they are there.

## 1. The system

| part | code | state it keeps | operations |
|---|---|---|---|
| shared ring | `src/common.c`, `include/hfior/abi.h` | `head`, `next_sequence`, `dropped_newest`, `generation` (producer line), `tail` (consumer line), the slots | initialize, publish, drain (writable mapping), read a snapshot (private tail) |
| cursor library | `src/policy.c` | `hfior_cursor`: local tail, acknowledged tail, generation | init at tail or head, drain, ack, stable latch, latest committed |
| bridge, input side | `reference/bridge/main.c` 437-632, 808-831 | the frame accumulator, the input descriptor, the generation | process an event, complete a frame, discard and refresh at the start, device gone, reconnect |
| bridge, start | `reference/bridge/main.c` 187-221, 634-806, 1074-1092, 1184-1209 | the listening socket, the file that names it, the accepted client | unlink, bind, listen, accept, hello, barrier, teardown |
| bridge, session side | `reference/bridge/main.c` 298-435, 634-856, 1090-1200 | mode, generation, stop request, statistics, the control socket, the urgent eventfd | barrier, main loop, control messages, terminal record, wait for its acknowledgement |
| latency client | `reference/latency-client/main.c` | private tail, last acknowledged tail, generation, record queue, statistics, `stop` and `terminal_seen` | connect, start, frame policies, drains and acknowledgements, ingress thread, shutdown |
| statistics helpers | `src/common.c` 37-113 | a growing vector | push, percentile, mean of the worst fraction, mean, maximum |
| descriptor passing, peer check | `src/common.c` 262-379 | none | one system call each |
| Wayland game client | `benchmarks/game/hfior_wayland_client.c` | mapping, local tail, acknowledged tail, expected sequence, active and faulted | connect, disconnect, the stream's events, read, acknowledge |
| game loop | `benchmarks/game/main.cc` 847-1081 | capture, measurement, the batches of a frame, the camera | reconnect, early read, late read, apply, acknowledge |
| Wayland protocol | `integrations/wayland/experimental-protocol` | the compositor's, elsewhere | get_stream, acknowledge, active, denied, notify, revoked |
| harness, analysis, examples, tests, tools | `benchmarks/harness`, `scripts`, `examples`, `tests`, `tools` | files | |

How they interact:

* bridge and client share the ring: the bridge alone writes slots and head; the
  reference client maps it read-only, keeps a private tail, and gives room back
  with ACK messages, which the bridge validates before it moves `tail`;
* a `SOCK_SEQPACKET` socket carries SET_MODE, START, ACK, STOP one way and
  STARTED, eager records and DEVICE_STATE the other; the bridge's end does not
  block and drops what does not fit, the client's blocks;
* an eventfd wakes the client's second ("ingress") thread for buttons, drops and
  device changes;
* the game has the same ring from a compositor: it asks for a stream, finds what
  became of it in a private event queue once per frame, and acknowledges after the
  swap; the compositor may take the stream back at any time;
* in the client, two threads call `drain_ring` under one mutex and put records in
  a queue that frames take from.

What is hard in it: two processes on shared memory with no lock; room that is
given back by message; a device that comes back as another generation while
acknowledgements are on their way; two threads of the client on one cursor, one
socket and one queue; a coalescing wakeup; two shutdowns that cross; a stream revoked between the two reads
of a frame; a socket file that outlives its bridge.  The list with lines is "hazards" in `PROJECT.json`.

What makes each part correct:

* ring: unread records are never overwritten, a drain returns exactly the
  published history, and every loss is a counted drop that leaves a gap;
* cursor library: acknowledgements never run ahead of the copy and are never
  refused for their bounds; room and records do not get stuck;
* framing: a record is the frame of its own packet; the button bitmap follows the
  device, and a change of it that was lost is visible;
* game: the camera moves by the whole history, each record once; room comes back only
  for what was applied; a measurement that counts has no gap and ends with its stream;
* session: the frames get the history in order whichever thread drained it; a
  button arrives while the main thread stalls; both programs end; whatever a client
  or the bridge does not get in the end has a counted reason;
* start: the path belongs to the bridge that is alive; no client waits for a bridge
  that is gone;
* statistics: rows and numbers are those of the frames.

## 2. Modules

| module | models | built on |
|---|---|---|
| `ObservationStream` | abstract: what HFIOR promises of the stream | |
| `Ring` | ring and cursor library at the atomic accesses | `ObservationStream` by refinement |
| `RingProofs` | the theorems about `Ring` | `Ring`, `TLAPS` |
| `MCRing` | liveness of the ring, for TLC | `Ring` |
| `EvdevFrame`, `MCEvdev` | the bridge's framing of evdev events, with the kernel queue as environment | |
| `EvdevFrameProofs` | the theorems about `EvdevFrame` | `EvdevFrame`, `TLAPS` |
| `Session`, `MCSession` | bridge, socket, eventfd and the client's two threads | `ObservationStream` by refinement |
| `SessionProofs` | the theorems about `Session` | `Session`, `TLAPS` |
| `SessionLossProofs` | more of them: what its shutdown and its eager socket lose | `SessionProofs` |
| `Startup`, `MCStartup` | several bridges and clients around one socket path, up to STARTED, with crashes | |
| `StartupProofs` | the theorems about `Startup` | `Startup`, `TLAPS` |
| `LeasedStream` | abstract: a stream that is used while it is granted | |
| `GameClient`, `MCGame` | the Wayland client and the game's frame loop, with the compositor as environment | `LeasedStream` by refinement |
| `GameProofs`, then `GameHistoryProofs` | the theorems about `GameClient`: its queues and cursor; the camera's history and the refinement | `GameClient`, `TLAPS` |
| `Statistics`, `MCStatistics` | the vector, the frame times' file and the summary's numbers | |
| `StatisticsProofs` | the theorem about `Statistics` | `Statistics`, `TLAPS` |

Operators marked "(variant)" are not part of the model: each is a broken version
of the definition below it.  A property is worth keeping only if putting such a
version in the definition's place makes TLC refute it; `PROJECT.json` ("mutants")
says which variant each property has to refute.

### Ring

A record is its sequence number.  `BeginWrite` and `Commit` are the first and the
last store of `hfior_ring_publish`, and a slot holds `Torn` in between; `Snapshot`
is the acquire-load of head in `hfior_ring_read_snapshot`, `CopySlot` one 32-byte
copy, `FinishPass` the move of the tail (private, or, where the mapping is `writable`, the
shared one of `hfior_ring_drain`; which one is chosen in `Init` and never changes),
`Recheck` the loop of `hfior_cursor_stable_latch`.
`hfior_cursor_drain` is a latch of one pass.  ACK messages are a FIFO; `HandleAck`
is the bridge's validation; `Reconnect` advances the generation.  Release and
acquire on head and tail make every interleaving of these steps the order the
other side sees, so no weaker memory is modelled.  `log`, `received` and `origin`
are history.

### EvdevFrame

A packet (events before a SYN_REPORT) is consumed in one step, because the bridge
is one thread and shares only the kernel's queue.  The kernel is external: it
filters repeated key states, and on overflow leaves SYN_DROPPED and the rest of
the newest packet.  Widths of `dx` and `wheel` are the constants `DeltaLimit` and
`WheelLimit`.  `record` is history: what the step published.  Timestamps, the second axis and the raw log are left out.

### Session

A publication and one batch of a drain are single steps here (Ring shows what they
are made of).  Bridge: `HandleBarrier`, `Observe` (publish, eager send, urgent
write), `HandleControl`, `DeviceGone`, `Reconnect`, `BridgeStops` (its duration or
a signal), `LeaveLoop` (a STOP it has handled, or the client's hangup),
`PublishTerminal`, `WaitAckMessage`, `WaitAckOver`.  Client, both threads:
`DrainBegin` (mutex), `DrainRead`, `DrainAccount` (statistics and queue),
`DrainEnd` (acknowledgement, mutex), `Receive` (a message leaves the socket), then
`AccountLoad`, `AccountStore` and `PushRecord` for an eager record, or
`TakeGeneration` for a DEVICE_STATE, by the thread that took it.  What a frame does
is `Plan`, a sequence per policy: `late` also stands for `hfior-spin` and
`hfior-critical-ack`, whose calls come in the same order, `latch` for
`hfior-two-stage`, and `stable` has the two rechecks of the default
`final_rechecks`; time spent working between calls is only interleaving.
`MainReceiveOver`, `ShutdownTurn`, `StopIngress`, `JoinIngress`, `Exit` are the
shutdown.  A read from an empty socket whose other end is closed is end of file; a
close that leaves messages unread is a reset, as the kernel has it.  `Over` is the
state after both programs ended.

Left out: PING/PONG and malformed messages (the client sends none), timing
measurements, `first_sequence` and other counters no property reads.

`account_sequences` takes no lock of its own.  A ring client calls it from `drain_ring`
only, under `ring_drain_mutex`: there it and the `queue_push` of the batch are the one
step `DrainAccount`, and all that another thread can see between the two is
`terminal_seen`, which ends the frame loop earlier.  An eager client calls it from
`process_eager_message`, and at the shutdown the main thread (line 1531) and the ingress
thread (758) may both be inside it.  That is a data race, and the steps are those the
build makes of it (`-O3`, Makefile line 6): `AccountLoad` is the one load of
`last_sequence` that all comparisons use, `AccountStore` the stores, in which a counter
is incremented from its value now or from the one at the load, so that updates of the
other thread may be lost.  With `last_sequence` at 1 two threads that hold records 2 and
3 may count a gap although nothing was lost; `EagerLossCounted` speaks of the gaps only
while frames run, when the ingress thread alone receives.

### Startup

Every process is a member of `Bridges` or `Clients` and used once; a restart is
another member.  `path` is what the socket file leads to.  `Unlink`, `Bind`,
`Listen` and `Withdraw` (the `unlink` after a chmod, chown or listen that failed) are
`setup_listening_socket` (two bridges may be inside it at a time);
`Accept` and `SendHello` `accept_client_and_send_hello`; `PollBarrier`, `ReadBarrier`
and `AnswerStart` the start barrier, where the order of the poll's answers and the
place between START and STARTED matter; `CloseSockets` and `RemovePath` the end of
`main`.  `KillBridge` is every `fatal` and SIGKILL, which leave the file; `Signal` is
lost or fatal around `accept`.  Client: `Connect` (one try), `ReceiveHello`,
`SendMode`, `SendStart`, `ReceiveStarted`, then `SendStop` and `Exit`, between which
Session takes over.  Sockets are the kernel's: a connection exists for its
client as soon as it is in the backlog, a listening socket that closes takes its
backlog along, unread messages make a close a reset.  `overlapped` is history.
One user is assumed, so the peer checks have one outcome.

### Statistics

`RecordFrame` is `hfior_vec_push` with its growth (cells beyond what was written hold
garbage), `DumpFrametimes` the rows, `WriteSummary` one call of a helper, in any order
and any number of times.  Percentiles and fractions are thousandths and values exact
fractions.  The code computes ranks in doubles; for the five percentiles and the two
fractions it asks for, the rounded rank has the exact one's floor and ceiling for
every length up to half a million frames (and the fractions up to two million).

### GameClient

One variable, `client`, is `struct hfior_game_client`; `pc` walks through one turn of
the frame loop: `BeginFrame` (SDL's events), `Connect`, `ConnectFails`,
`FinishConnect` or `SkipConnect`, `CheckReady` (the start of a measurement), the early
read, `CheckSize`, the late read, `Apply` (which includes the swap, and its failure),
`Acknowledge` or `SkipAcknowledge`, `EndFrame`.  Each read is two steps, because the
compositor may act between its loads: `ReadHead` dispatches (the early one) and loads
the head; what has been sent but not yet read from the socket it does not dispatch, so a
revocation may be seen a frame later; `ReadCopy` or `ReadRefused` looks at the drop counter and the records.  The
modes differ in `ReadCopy` (`hfior` applies the early batch at once) and `Apply`.  `pc =
"end"` is every way out of the loop, `integrity` what the result file will say.

`LeasedStream` promises less than the code does: records of the stream granted now are
applied in order from its beginning, none twice and none skipped, room comes back for
what was applied, and nothing of a stream is applied once the next is granted.  The instance maps `used`, the camera's
history, to what is applied of the present stream (`AppliedOfStream`).

The compositor is not in the repository.  `Observe`, `Revoke` and `HandleRequest` give it
every freedom the client's code provides for: a ring per grant, drops when it is full
that are announced or not, denial, revocation at any time, and acknowledgements that
arrive late or for a stream that is gone.  It is honest: it numbers the records,
counts the drops and does not rewrite what is unacknowledged.  The events of a stream
that was destroyed are discarded with it.  Malformed grants and system calls that fail
take the path of a denied or revoked stream, which sets the same two flags.

## 3. Runs

| run | question | bounds |
|---|---|---|
| `ring_acks` | safety, refinement and liveness of both mappings, latches of two passes, a reconnect, an acknowledgement that is lost | capacity 2, batches of up to 2, 5 records, 2 generations |
| `evdev_frames` | records against their packets; buttons at the barrier, over losses and reconnects | 4 packets of up to 2 events, values {-2, 1}, limits 1, 2 buttons, a kernel queue of 1, 2 generations |
| `session_ring` | two threads, one cursor; a reconnect; the start may fail, and the client ends the session | late latch, capacity 2, 3 records and the terminal one, 2 generations, batches of 1, sockets of 2 |
| `session_eager` | eager records and shadow drain; what is lost on the way, and at the shutdown, and why | capacity 2, 2 records and the terminal one, 2 generations, sockets of 1 |
| `session_live` | a button arrives although the main thread stalls and the bridge may never stop; without stalls both programs end | late integration acknowledged after use, capacity 1, 2 records, sockets of 1, 2 generations |
| `startup` | the path, and every start coming to an end, with failures and kills at every step | 2 bridges, 2 clients, 2 tries to connect |
| `statistics` | rows and numbers against reference definitions | up to 4 frames of 3 values, a vector that begins with 1 cell, 9 percentiles |
| `game_frame` | the lease, the camera, the room and the measurement under both modes; the news of a revocation; no measurement without its stream | ring and buffer of 2, 4 records, 2 streams, any number of frames |
| `evdev_reconnect`, `session_order`, `session_generation`, `game_minimised` | expected violations, see 5 | 1 or 2 generations, 2 or 3 records |

The ring policies differ in `Plan` only; each run takes one, and any of the five can be
put into its configuration.

Why the bounds are enough: the ring wraps twice in `ring_acks`, it is full, empty and in between with an acknowledgement on its way,
and the longest latch takes two batches; the proofs remove these bounds.  In
`EvdevFrame` the accumulator has no memory but the buttons, so packets that reach
both limits and one lost packet are all its cases.  In `Session` a batch of 1
makes a drain loop, a socket of 1 or 2 fills, a ring of 1 or 2 overflows, and each
thread gets a turn at each place of the shutdown.  A bridge that stops by itself
(`BridgeMayStop`) is in `session_live`, where the two shutdowns cross; in the larger
safety runs the client ends the session, and that the same invariants hold with both is
proved.  In `Startup` two bridges give each
order of one's end and the other's start, and two clients one that waits behind the
other; the backlog of 1 admits two, so nobody waits in `connect`.  In `Statistics`
four values have ties, odd and even counts and ranks on and between them.  In `GameClient` a ring of 2 fills,
wraps and drops, the early and the late read can each get none, one or two records,
and two streams make a reconnect with the old stream's records still unacknowledged.
`game_frame` lets the window be without size under `hfior` only, because 5 has what
happens under `eager`.  Deadlock is checked except in the
`evdev` runs, whose device may stop sending; in `Session` every wait (mutex,
full socket, join, poll) is a guard, so deadlock freedom there says something.

### Fairness

* `Ring!Fairness`: the producer finishes a publication it began; the client's
  frame loop drains and acknowledges again and again; the bridge's loop comes back
  to its socket.  Strong fairness where another call may disable the step
  meanwhile (`HandleAck` while a publication is under way, `BeginLatch` and
  `SendAck` while other calls run): each is done in every turn of its loop.
* `Session!ServiceFairness`: the bridge's loop and the ingress thread run, and the
  main thread does not stop inside `drain_ring`.  Nothing is assumed of the device, and
  the bridge need not stop: its duration and its signals are `BridgeStops`, which is not
  in `BridgeControl`.  So no terminal record comes to the rescue of a wakeup that was
  lost.  The main thread may stall anywhere else (`--stall-ms` does exactly that).
* `Session!NothingStalls`, the antecedent of `RunEnds`, adds that the main thread
  runs, and, strongly, that its duration and its 100 ms at the shutdown elapse:
  both are deadlines compared with a clock in every turn of a loop, which the
  model's turns do not carry.  `session_live` runs under `ServiceFairness` alone, so
  `ButtonsArrive` is checked with a main thread that stalls.
* `Startup!FairSpec`: a bridge and a client that have been started take their next
  step when there is one.  Nobody has to be started, signalled or killed, and
  `--duration` need not be set.
* `GameClient!FairSpec`: the frame loop runs and the compositor answers requests.
  Nothing makes the compositor observe, grant or revoke.  Of the early read it is assumed,
  strongly, that it does not miss what the compositor has sent for ever: SDL's poll, in
  every turn of the loop, reads the socket of the same display.

## 4. What is proved

All theorems are checked by TLAPS for every value of the constants: capacity, batch,
lengths of sockets and latches, numbers of records, generations, bridges and clients.
They assume the named ASSUMEs of their modules (bounds are naturals, positive where the
code has them positive, and a policy or mode is one there is), and `Spec` without
fairness.  One theorem group has one hypothesis more, `EagerKeepsSize`, below.  That a
capacity is a power of two, which the code requires for its mask, is not needed:
`Index` is the modulus the mask computes.

Every module states one inductive invariant, which TLC checked before it was proved,
as an invariant on the instances of the runs; then that `Init` implies it and each
action keeps it, one lemma per action or group of actions; the listed properties follow
from it.

| theorem | says |
|---|---|
| **`RingProofs`** | |
| `RingInvariant` | `Spec => []RingInv` |
| `TypeCorrect` | types; the budgets of a latch never underflow |
| `PositionsAlwaysOrdered` | tail <= cursor <= head, within one capacity; a snapshot is never refused |
| `NeverOverwrites` | an unread slot holds its record |
| `HistoryAlwaysExact` | drains return the published history, each record once, none torn |
| `DropsAlwaysLeaveGaps` | every missing sequence number is a counted drop |
| `NeverRaces` | the producer never writes a slot a drain still has to copy |
| `OnlyStaleRejected` | an honest acknowledgement is refused only for its generation |
| `AckLossAlwaysCounted` | room the cursor counts as given back and the producer lacks is on its way, was refused and counted, or is the backlog skipped at the join |
| `LatestExact` | the newest-state query is exact while the consumer has not acknowledged the record |
| `RingImplementsStream` | `Ring` implements `ObservationStream` |
| **`SessionProofs`** | |
| `SessionInvariant` | `Spec => []SessionInv` |
| `SessionTypeCorrect` | types; every position within its bounds, every socket within its length |
| `AcksReachBridgeInOrder` | the acknowledgements of both threads are in order and none is ahead of the copy |
| `FramesTakeTheHistory` | taken, queued and copied records are what the cursor passed, in order, whichever thread drained it |
| `GapsAreTheDrops` | the gaps the client counts are the drops in the span it has seen, and nothing is out of order |
| `SessionImplementsStream` | `Session` implements `ObservationStream` |
| **`SessionLossProofs`** | |
| `LossInvariant` | `Spec => []LossInv` |
| `ShutdownLeavesNothing` | a client that leaves after the terminal record has drained the whole ring |
| `EagerLossIsCounted` | what an eager client that reads does not get, the bridge has counted; while frames run nothing is out of order and the gaps never exceed that |
| `ShutdownLossHasReason` | a client dies on an acknowledgement only if the bridge gave up waiting; a ring left unread has a reason |
| **`StartupProofs`** | |
| `StartupInvariant` | `Spec => []StartupInv` |
| `StartupTypeCorrect` | types |
| `AloneAlwaysOwnsPath` | a bridge that never met another one alive is what the path leads to |
| **`GameProofs`** | |
| `GameInvariant` | `Spec => []GameInv` |
| `GameTypeCorrect` | types; the cursor is between what it has acknowledged and the head |
| `LossIsReportedAsDrop` | a loss ends the stream as a drop and never as a reordering |
| `RevocationReachesClient` | a game that uses a stream it lost has the news in its queue |
| **`GameHistoryProofs`** | |
| `HistoryInvariant` | `EagerKeepsSize` and `Spec` imply `[]HistoryInv` |
| `CameraFollowsHistory` | under `EagerKeepsSize`, the camera moves by each record of its stream once, in order |
| `RoomIsEarned` | under `EagerKeepsSize`, room comes back only for what has moved the camera |
| `MeasurementHasNoGap` | under `EagerKeepsSize`, a measurement that counts has no gap |
| `GameImplementsLease` | under `EagerKeepsSize`, `GameClient` implements `LeasedStream` |
| **`EvdevFrameProofs`** | |
| `EvdevInvariant` | `Spec => []EvdevInv` |
| `EvdevTypeCorrect` | types; the accumulator has nothing but the buttons between packets, the kernel's queue its length |
| `BridgeButtonsFollowDevice` | a bridge that has read its queue has the buttons it asks for as the device has them, unless events were lost or the device was away |
| `EveryFrameExact` | a record is the frame of its own packet, whatever the packet: sums, saturation, wheel resolution, buttons and every flag |
| `NoSilentButtonEdge` | a bitmap that differs from the record's before has the flag, or a gap before it |
| **`StatisticsProofs`** | |
| `StatisticsInvariant` | `Spec => []StatInv` |
| `SummaryIsTrue` | every row, percentile, mean, maximum and mean of the worst frames is what its name says of the frames |

The arguments.

*Ring.*  `UnreadIntact` alone is not inductive: to know that the slot the
producer writes is not unread one needs that the room it found is still there
when it writes (`ProducerConsistent`), and that the tail never passes the
cursor whatever acknowledgement arrives, which needs that *all* acknowledgements on
the way lie between the tail and what the cursor has read, in order (`AcksOrdered`).
That a copy is exact needs that it covers published positions only and that what is
already copied is theirs (`CopyConsistent`).  `RingInv` is their conjunction.
`AckLossCounted` is inductive
relative to `RingInv` once it says which acknowledgement carries the loss, the newest
one (`NewestAckCurrent`): an older one that is taken leaves the newer on its way.  The
arithmetic
core is `IndexInjective`: positions less than one capacity apart have different
slots.  The refinement is proved action by action; `FinishPass` becomes `Deliver` or
`DeliverAndReclaim`, `Commit` becomes `Accept`, and so on; the rest stutters.

*Session.*  `QueueKeepsHistory` is a statement about two threads, and holds because at
most one of them is past the mutex (`ThreadsKnown`), so that the one batch that is not
queued yet is what the cursor has passed last (`CursorKnown`) and comes after all that
is queued (`HistoryKept`).  That a shadow drain does not disturb it needs that only an
eager client makes one, which is a fact about `Plan` and the shutdown.  `AcksInOrder`
needs that both threads acknowledge under the mutex, hence never below `lastAcked`
(`ToBridgeKnown`), and keeps the tail below all that is on its way, refused messages
included.  `GapsAreDrops` needs what the sums of account_sequences are over any number
of batches (`Counted`: the span less the records in it), and that sequence numbers
ascend with a counted drop for each one that is missing (`RingKnown`); a lemma counts
the numbers of a span that were not published.  The refinement maps the copies, queued
or not, to what is received, so that `DrainRead` delivers and `HandleMessage` reclaims.

*What a session loses.*  `LossInv` extends `SessionInv`.  `EagerLossCounted` counts from the
first record offered, and so needs that the mode was set before the bridge's loop offered
any: `BarrierKnown` says what lies in both sockets at each step of the start barrier, and
that only a bridge that has answered START, in the mode this client asked for, runs its
loop.  `EagerKnown` then keeps the sum: every record is taken, in a message, or counted
as lost, at the shutdown too, where `TallyKnown` says that a thread inside
account_sequences still holds its message.  Of the statistics `RunKnown` speaks, and only
while frames run, when one thread receives: what it loaded still holds when it stores,
records come to it in ascending order, and gaps and records counted together are at most
the last number.  `ShutdownDrainsAll` has
two reasons.  A ring client counts only what its drains copied, and nothing is
offered after the terminal record (`TerminalKnown`), so the cursor is at the head.  An eager
client may have the record from its socket and not have drained the ring; what helps is
that its last shadow drain begins when nothing is offered any more and goes on until a
batch is not full (`LastDrainKnown`).  `ShutdownLossExplained` needs that the newest
acknowledgement has arrived, is on its way, or one was refused (`LastAckKnown`).

*Startup.*  `AloneOwnsPath` needs that two bridges that are alive have met
(`AliveHaveMet`), and that between unlink and bind a bridge that is alone finds no file
there (`UnlinkedWhileAlone`).  The other parts place each client in the backlog of, or at,
the one bridge it has connected to, so that what a bridge found readable stays so until
it reads it.

*GameClient.*  `RevocationPending` is about a queue of events that is taken all at once
and a stream that may be granted again meanwhile; it needs what can be in both queues:
a stream is granted only to a client that waits for it and has given the one before
back (`LeaseHeld`, `RequestsOrdered`, `EventsKnown`), and the client's generation is
therefore the newest or none (`GenerationKnown`).  `NoSequenceErrors` needs that a stream
without a drop has no gap (`LogOrdered`) and that the drop counter is read after the head.
`HistoryInv` says that there *is* a number of records which are the newest moves of the camera,
the beginning of the stream, at least what was given back and, with what the frame still
holds, the cursor; `UsedIsHistory` alone says nothing of the latter.  `EagerKeepsSize`
is that no frame of an *eager* game finds its window without a size.  Without it the theorem is
false, which is what the run `game_minimised` shows; `game_frame` meets the hypothesis, so
the theorems are about its states.

*EvdevFrame.*  The buttons of the bridge and of the device are related only through what
still waits in the queue: `InStep` says that the bitmap, brought forward packet by packet by
all that waits, ends with what the device has of the buttons that are asked for.  Reading a
packet takes one step off the front of that calculation and a packet from the device adds one
at its end; asking for the keys (EVIOCGKEY) takes the waiting key events away.  `FrameExact`
compares the accumulator with sums over the packet and with the keys after each part of it
(`KeysAlong`), for the BUTTON flag stays when a later event undoes the change, and
`ButtonEdgesVisible` compares two records, which needs that the bitmap of the last one is
still the accumulator's (`Numbered`).  What a packet does is a fold, of any length.

*Statistics.*  That a summary is true of the frames needs only that the used cells are
the frames in some order (`Arranged`), which sorting keeps, and the frames in *their* order
until the rows are out.  The rest is about numbers: any values can be put in order, so that
the choice in `Sorted` chooses something; the value with k others before it is at place
k + 1; between two places the interpolation of hfior_percentile_ns is the one of the
definition; the count of hfior_worst_fraction_mean_ns is the least that makes up the fraction,
and no choice of that many frames sums to more than the last ones.  Of qsort no more is
assumed than that it orders the cells it is given, and of the doubles that they are exact.

*Induction over data.*  The induction theorems of the library take a predicate as a parameter,
which the provers cannot instantiate.  The last two modules state the predicate as a *set* (of
lengths, of subsets of a finite set) and show that its complement, if it had anything, would
have a smallest element: `CountingUp` and `TakingAway` are the two forms of it, derived
from the well-foundedness of the naturals.  With them the folds and sums of the community
modules get the equations that define them, and the step of a fold is a function.

Only model-checked is all liveness, which is out of the prover's reach: `EventuallyDelivered`,
`EventuallyReclaimed`, `ButtonsArrive`, `RunEnds`, `StartResolves` and
`LossEndsMeasurement`.  Every invariant and every action
property the passing runs check is a theorem.

## 5. Disagreements met while modelling

Four are runs that TLC must refute, each with the line it contradicts in
`PROJECT.json` ("findings").

* `evdev_reconnect`: a button held when the device vanished stays down in the next
  generation.
* `session_order`: at the shutdown of an eager client two threads receive from the
  socket and may swap two records.  They may also account at the same time (section 2).
* `session_generation`: a ring-policy client never reads DEVICE_STATE; it joins two
  generations and its acknowledgements are refused from then on.
* `game_minimised`: an eager game whose window has no size for a frame leaves the
  frame after the early read; the batch is never applied and acknowledged in the next
  frame.

The rest are behaviours the models contain and the properties above are stated
around; no run claims the contrary.

* `hfior_cursor_latest_committed` reads a slot nobody keeps for it.  To a consumer
  that has acknowledged the record it can return a torn or a later one;
  `LatestExactWhileUnacked` is what does hold.
* An acknowledgement overtaken by a reconnect is refused and never repeated (the
  cursor counts it as made); if the ring is full then, it stays full.
* A cursor that joins a full ring at its head never gives the room back.
  `EventuallyReclaimed` speaks of the first generation and of what was taken since
  the join for these two reasons.
* BTN_8 and BTN_9 are known to the bridge but not asked for at the start, so one
  held then is reported released; `ButtonsFollowDevice` is about `Refreshed`.
* The bridge's wait for the last acknowledgement ends at the client's hangup with
  acknowledgements unread, and `finalDepth` need not be 0 although the client
  acknowledged everything, without any timeout; `ShutdownLossExplained` says that this,
  or a refused one, is the only reason.
* A record published between STARTED and the client's first look at the head is
  skipped by the ring policies; the histories of `Session` begin at the join.
* A client whose bridge reads START and ends without answering spins on end of file
  (`ReceiveStarted`).  The bridge need not fail: stopped at the barrier, it reads
  START while it waits for the last acknowledgement, and answers nothing.
  `StartResolves` names this one exception, `Stranded`.
* A bridge that ends, or starts, while another is alive removes the other's socket
  file, and the other runs on unseen; `AloneOwnsPath` speaks of bridges that do not
  overlap.  Every failed or killed bridge leaves its file, to which clients try in
  vain to connect until the next one starts.
* A signal just before `accept` is not seen until a client has come, and one client
  that has died in the backlog ends the bridge for those behind it.

## 6. Not modelled

Pure I/O and set-up (sealing, the layout of descriptor messages, peer credentials of
another user, option parsing), the time measurements and work loops of the client,
receipts and traces, the synthetic source's schedule (its records enter `Session` as
observations), the harness and analysis scripts, the examples (callers of the
modelled libraries), scene, rendering and results of the game benchmark.  Hazards
without a property are listed with the reason in `PROJECT.json`.

## 7. Plan

1. Done: `Ring` with `ObservationStream`, `EvdevFrame`, `Session`, `Startup`, `Statistics`,
   `GameClient` with `LeasedStream`.
2. Done: the proofs of section 4.
3. Next, `RingIndex`: the mask against the modulus for powers of two (`Bitwise`, checked by
   TLC only).
