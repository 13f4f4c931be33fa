\* Packets of two events, motion, both wheels, two buttons of which the bridge asks
\* for one at the start; losses and reconnects.
CONSTANTS
  left = left
  btn8 = btn8
  Button = {left, btn8}
  Refreshed = {left}
  Delta <- MotionValues
  DeltaLimit = 1
  WheelLimit = 1
  MaxPacket = 2
  KernelBuffer = 1
  MaxPackets = 4
  MaxGeneration = 2
SPECIFICATION Spec
INVARIANTS TypeOK ButtonsFollowDevice
PROPERTIES FrameExact ButtonEdgesVisible
\* The device may stop sending.
CHECK_DEADLOCK FALSE
