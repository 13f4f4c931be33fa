\* Both modes; the window may be minimised under "hfior" only.
CONSTANTS
  Modes = {"eager", "hfior"}
  Capacity = 2
  MotionCapacity = 2
  Minimised = {"hfior"}
  MaxSequence = 4
  MaxStreams = 2
SPECIFICATION FairSpec
INVARIANTS TypeOK UsedIsHistory RoomOnlyForUsed MeasuredGapFree NoSequenceErrors RevocationPending
PROPERTIES ImplementsLease LossEndsMeasurement
