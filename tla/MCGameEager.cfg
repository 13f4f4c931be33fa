\* A window that is minimised under "eager".
CONSTANTS
  Modes = {"eager"}
  Capacity = 2
  MotionCapacity = 2
  Minimised = {"eager"}
  MaxSequence = 3
  MaxStreams = 1
SPECIFICATION Spec
INVARIANTS RoomOnlyForUsed
