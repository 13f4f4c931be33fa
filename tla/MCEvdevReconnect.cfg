\* A button held while the device goes away.
CONSTANTS
  left = left
  Button = {left}
  Refreshed = {left}
  Delta = {}
  DeltaLimit = 1
  WheelLimit = 1
  MaxPacket = 1
  KernelBuffer = 2
  MaxPackets = 3
  MaxGeneration = 2
SPECIFICATION Spec
INVARIANTS ButtonsTrueAfterReconnect
CHECK_DEADLOCK FALSE
