------------------------------ MODULE EvdevFrame ------------------------------
(***************************************************************************)
(* How the bridge turns evdev events into records: process_input_event and *)
(* complete_frame accumulate one SYN_REPORT frame, the start barrier       *)
(* discards what is pending and reads the button state, and the device may *)
(* vanish and come back.                                                   *)
(*                                                                         *)
(* The kernel side is external: it queues whole packets for an open        *)
(* descriptor, and when its buffer overflows it leaves SYN_DROPPED and the *)
(* rest of the newest packet.  The bridge is one thread and shares only    *)
(* that queue with the kernel, so it takes a packet in one step.  Timestamps *)
(* and the second axis of motion and wheel are left out.                   *)
(***************************************************************************)
EXTENDS Integers, Sequences, SequencesExt

CONSTANTS
  Button,          \* the buttons hfior_button_bit_from_linux_code knows
  Refreshed,       \* those refresh_button_state asks for
  Delta,           \* values of one motion or wheel event
  DeltaLimit,      \* INT32_MAX, the width of record.dx, scaled down
  WheelLimit,      \* INT16_MAX, the width of record.wheel, scaled down
  MaxPacket,       \* bound: events in a packet, before its SYN_REPORT
  KernelBuffer,    \* bound: packets the kernel queues before it overflows
  MaxPackets,      \* bound: packets the device sends
  MaxGeneration    \* bound: connections of the device

ASSUME EvdevAssumption ==
  /\ Refreshed \subseteq Button
  /\ Delta \subseteq Int
  /\ DeltaLimit \in Nat /\ WheelLimit \in Nat
  /\ MaxPacket \in Nat /\ KernelBuffer \in Nat \ {0}
  /\ MaxPackets \in Nat /\ MaxGeneration \in Nat \ {0}

VARIABLES
  \* the device and the kernel's queue of packets for the bridge
  plugged, pressed, queue, sent,
  \* the bridge: where it is, whether input_fd is open, and the accumulator
  phase,           \* "barrier", "discarded", "running"
  open, generation, nextSequence, frame,
  \* history: the newest record published, and whether the button state was in
  \* doubt since it was last asked for
  record, doubtful

vars == <<plugged, pressed, queue, sent, phase, open, generation, nextSequence,
          frame, record, doubtful>>

kernelVars == <<plugged, pressed, queue, sent>>

Motion(v) == [type |-> "REL_X", value |-> v]
Wheel(v)  == [type |-> "REL_WHEEL", value |-> v]
HiRes(v)  == [type |-> "REL_WHEEL_HI_RES", value |-> v]
Key(b, down) == [type |-> "EV_KEY", button |-> b, down |-> down]
SynDropped == [type |-> "SYN_DROPPED"]

InputEvent ==
  {Motion(v) : v \in Delta} \cup {Wheel(v) : v \in Delta} \cup {HiRes(v) : v \in Delta}
    \cup {Key(b, down) : b \in Button, down \in BOOLEAN}

Event == InputEvent \cup {SynDropped}

Flag == {"MOTION", "WHEEL", "BUTTON", "SYN_DROPPED"}

EmptyFrame(buttons) ==
  [dx |-> 0, wheel |-> 0, hires |-> FALSE, buttons |-> buttons, flags |-> {}]

-----------------------------------------------------------------------------
\* (variant for the mutation runs) Only a press flags the frame.
KeyEventPressOnly(f, event) ==
  IF event.down
    THEN [f EXCEPT !.buttons = @ \cup {event.button}, !.flags = @ \cup {"BUTTON"}]
    ELSE [f EXCEPT !.buttons = @ \ {event.button}]

\* A key event flags the frame when it changes the bitmap.
KeyEvent(f, event) ==
  LET buttons == IF event.down THEN f.buttons \cup {event.button}
                               ELSE f.buttons \ {event.button}
  IN  [f EXCEPT !.buttons = buttons,
                !.flags = IF buttons # f.buttons THEN @ \cup {"BUTTON"} ELSE @]

\* process_input_event, every event but SYN_REPORT.  Once a high-resolution
\* wheel event was seen in the frame, the coarse ones no longer count.
ProcessEvent(f, event) ==
  CASE event.type = "REL_X" -> [f EXCEPT !.dx = @ + event.value]
    [] event.type = "REL_WHEEL" -> [f EXCEPT !.wheel = IF f.hires THEN @ ELSE @ + event.value]
    [] event.type = "REL_WHEEL_HI_RES" ->
         [f EXCEPT !.wheel = (IF f.hires THEN @ ELSE 0) + event.value, !.hires = TRUE]
    [] event.type = "EV_KEY" -> KeyEvent(f, event)
    [] event.type = "SYN_DROPPED" -> [f EXCEPT !.flags = @ \cup {"SYN_DROPPED"}]

Clamp(value, limit) ==
  IF value < -limit - 1 THEN -limit - 1 ELSE IF value > limit THEN limit ELSE value

\* complete_frame: the record of an accumulated frame.
RecordOf(f, sequence, device) ==
  LET dx == Clamp(f.dx, DeltaLimit)
      wheel == Clamp(f.wheel, WheelLimit)
  IN  [sequence |-> sequence, generation |-> device,
       dx |-> dx, wheel |-> wheel, buttons |-> f.buttons,
       flags |-> f.flags \cup {flag \in {"MOTION"} : dx # 0}
                         \cup {flag \in {"WHEEL"} : wheel # 0}]

\* (variant) The frame is not cleared: its flags and motion survive.
NextFrameUncleared(f) == f

\* complete_frame: the accumulator starts over and keeps only the buttons.
NextFrame(f) == EmptyFrame(f.buttons)

-----------------------------------------------------------------------------
Init ==
  /\ plugged = TRUE /\ pressed \in SUBSET Button /\ queue = <<>> /\ sent = 0
  /\ phase = "barrier" /\ open = TRUE /\ generation = 1 /\ nextSequence = 1
  /\ frame = EmptyFrame({})
  /\ record = RecordOf(EmptyFrame({}), 0, 1)
  /\ doubtful = FALSE

\* The keys that are down after an event, and after a packet.
KeysAfterEvent(keys, event) ==
  IF event.type # "EV_KEY" THEN keys
  ELSE IF event.down THEN keys \cup {event.button} ELSE keys \ {event.button}

KeysAfter(keys, packet) == FoldLeft(KeysAfterEvent, keys, packet)

\* The kernel reports a key event only when the key changes.
OnlyChanges(packet) ==
  \A i \in 1 .. Len(packet) :
    packet[i].type = "EV_KEY" =>
      (packet[i].down <=> packet[i].button \notin KeysAfter(pressed, SubSeq(packet, 1, i - 1)))

\* External.  The device sends a packet; nobody gets it while input_fd is
\* closed, and a full queue is replaced by SYN_DROPPED and the packet's rest.
Emit ==
  /\ plugged
  /\ sent < MaxPackets
  /\ \E packet \in SeqOf(InputEvent, MaxPacket) \ {<<>>} :
       /\ OnlyChanges(packet)
       /\ pressed' = KeysAfter(pressed, packet)
       /\ IF ~open THEN UNCHANGED <<queue, doubtful>>
          ELSE IF Len(queue) < KernelBuffer
            THEN queue' = Append(queue, packet) /\ UNCHANGED doubtful
            ELSE /\ \E kept \in 0 .. Len(packet) :
                      queue' = << <<SynDropped>> \o SubSeq(packet, Len(packet) - kept + 1, Len(packet)) >>
                 /\ doubtful' = TRUE
  /\ sent' = sent + 1
  /\ UNCHANGED <<plugged, phase, open, generation, nextSequence, frame, record>>

\* External.  The device is unplugged: reads fail from now on.
Unplug ==
  /\ plugged
  /\ phase = "running"
  /\ plugged' = FALSE /\ pressed' = {} /\ queue' = <<>>
  /\ UNCHANGED <<sent, phase, open, generation, nextSequence, frame, record, doubtful>>

\* External.  It is plugged in again.
Plug ==
  /\ ~plugged /\ ~open
  /\ plugged' = TRUE
  /\ UNCHANGED <<pressed, queue, sent, phase, open, generation, nextSequence,
                 frame, record, doubtful>>

-----------------------------------------------------------------------------
\* discard_pending_input: everything queued so far is read and thrown away.
DiscardPending ==
  /\ phase = "barrier"
  /\ queue' = <<>>
  /\ frame' = EmptyFrame({})
  /\ phase' = "discarded"
  /\ UNCHANGED <<plugged, pressed, sent, open, generation, nextSequence,
                 record, doubtful>>

\* (variant) The button state is not asked for.
RefreshSkipped ==
  /\ phase = "discarded"
  /\ phase' = "running"
  /\ UNCHANGED <<kernelVars, open, generation, nextSequence, frame, record, doubtful>>

\* What is left of queued packets when their key events are taken out.
WithoutKeys(packet) ==
  FoldLeft(LAMBDA rest, event : IF event.type = "EV_KEY" THEN rest ELSE Append(rest, event),
           <<>>, packet)

QueueWithoutKeys(packets) ==
  FoldLeft(LAMBDA rest, packet :
             IF WithoutKeys(packet) = <<>> THEN rest ELSE Append(rest, WithoutKeys(packet)),
           <<>>, packets)

\* refresh_button_state: EVIOCGKEY, which also takes the key events it answers
\* for out of the queue.
RefreshButtons ==
  /\ phase = "discarded"
  /\ frame' = [frame EXCEPT !.buttons = pressed \cap Refreshed]
  /\ queue' = QueueWithoutKeys(queue)
  /\ doubtful' = FALSE
  /\ phase' = "running"
  /\ UNCHANGED <<plugged, pressed, sent, open, generation, nextSequence, record>>

\* drain_input_device: the next packet, to its SYN_REPORT.  The ring has room
\* for the record or drops it.
ReadPacket ==
  /\ phase = "running" /\ open /\ plugged
  /\ queue # <<>>
  /\ LET full == FoldLeft(ProcessEvent, frame, Head(queue))
     IN  /\ \/ record' = RecordOf(full, nextSequence, generation)
            \/ UNCHANGED record
         /\ frame' = NextFrame(full)
  /\ queue' = Tail(queue)
  /\ nextSequence' = nextSequence + 1
  /\ UNCHANGED <<plugged, pressed, sent, phase, open, generation, doubtful>>

\* mark_device_gone, after a failed read or a hangup.
DeviceGone ==
  /\ phase = "running" /\ open /\ ~plugged
  /\ open' = FALSE
  /\ doubtful' = TRUE
  /\ UNCHANGED <<kernelVars, phase, generation, nextSequence, frame, record>>

\* try_reconnect_device: the next generation, with the accumulator as it was.
ReconnectDevice ==
  /\ phase = "running" /\ ~open /\ plugged
  /\ generation < MaxGeneration
  /\ open' = TRUE
  /\ generation' = generation + 1
  /\ UNCHANGED <<kernelVars, phase, nextSequence, frame, record, doubtful>>

Next ==
  \/ Emit \/ Unplug \/ Plug
  \/ DiscardPending \/ RefreshButtons
  \/ ReadPacket \/ DeviceGone \/ ReconnectDevice

Spec == Init /\ [][Next]_vars

-----------------------------------------------------------------------------
Frame == [dx : Int, wheel : Int, hires : BOOLEAN, buttons : SUBSET Button,
          flags : SUBSET Flag]

\* Every variable keeps its type, and between two packets the accumulator
\* holds nothing but the buttons.
TypeOK ==
  /\ plugged \in BOOLEAN /\ pressed \subseteq Button /\ sent \in 0 .. MaxPackets
  /\ Len(queue) <= KernelBuffer
  /\ phase \in {"barrier", "discarded", "running"}
  /\ open \in BOOLEAN /\ generation \in 1 .. MaxGeneration
  /\ nextSequence \in 1 .. MaxPackets + 1
  /\ frame \in Frame /\ frame = EmptyFrame(frame.buttons)
  /\ record.sequence \in 0 .. nextSequence - 1

ValuesOf(packet, type) ==
  FoldLeft(LAMBDA sum, event : IF event.type = type THEN sum + event.value ELSE sum,
           0, packet)

HasType(packet, type) == \E i \in 1 .. Len(packet) : packet[i].type = type

Published == record' # record

\* Some event of the packet changes the keys that are down.
ChangesKeys(keys, packet) ==
  \E i \in 1 .. Len(packet) :
    LET before == KeysAfter(keys, SubSeq(packet, 1, i - 1))
    IN  KeysAfterEvent(before, packet[i]) # before

\* A record is the frame of its own packet and of no other: the motion summed,
\* the wheel from the high-resolution events when there are any, the bitmap the
\* packet leaves, and each flag exactly when its cause is there; BUTTON also for a
\* press and its release in one packet (process_input_event, complete_frame).
FrameExact ==
  [][Published =>
       LET packet == Head(queue)
           unit == IF HasType(packet, "REL_WHEEL_HI_RES") THEN "REL_WHEEL_HI_RES" ELSE "REL_WHEEL"
       IN  /\ record'.dx = Clamp(ValuesOf(packet, "REL_X"), DeltaLimit)
           /\ record'.wheel = Clamp(ValuesOf(packet, unit), WheelLimit)
           /\ record'.buttons = KeysAfter(frame.buttons, packet)
           /\ "MOTION" \in record'.flags <=> record'.dx # 0
           /\ "WHEEL" \in record'.flags <=> record'.wheel # 0
           /\ "BUTTON" \in record'.flags <=> ChangesKeys(frame.buttons, packet)
           /\ "SYN_DROPPED" \in record'.flags <=> HasType(packet, "SYN_DROPPED")]_vars

\* A consumer that sees the button bitmap change from one record to the next sees
\* either the BUTTON flag on that record or a gap in the sequence before it
\* (complete_frame keeps the buttons from frame to frame and across connections).
ButtonEdgesVisible ==
  [][Published /\ record.sequence # 0 /\ record'.buttons # record.buttons =>
       \/ "BUTTON" \in record'.flags
       \/ record'.sequence # record.sequence + 1]_vars

CaughtUp == phase = "running" /\ open /\ plugged /\ queue = <<>>

\* Once everything queued is read, the bitmap is the state of the buttons the
\* start barrier asked for, unless events were lost or the device was away
\* since (refresh_button_state, then EV_KEY events).
ButtonsFollowDevice ==
  CaughtUp /\ ~doubtful => frame.buttons \cap Refreshed = pressed \cap Refreshed

\* As the record format describes the field, "state bitmap for known buttons":
\* also across a reconnect of the device.
ButtonsTrueAfterReconnect ==
  CaughtUp /\ generation > 1 => frame.buttons = pressed

=============================================================================
