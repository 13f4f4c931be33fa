\* Late latch, acknowledged after the frame; a reconnect; the start may fail, and the
\* client ends the session.
CONSTANTS
  Policy = "latch"
  AckPlacement = "post_frame"
  Capacity = 2
  Batch = 1
  BridgeMayStop = FALSE
  StartMayFail = TRUE
  WaitsMayExpire = TRUE
  SocketLimit = 2
  MaxRecords = 3
  MaxGeneration = 2
SPECIFICATION Spec
INVARIANTS TypeOK QueueKeepsHistory GapsAreDrops AcksInOrder
PROPERTIES ImplementsStream
