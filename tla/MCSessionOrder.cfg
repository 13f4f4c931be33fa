\* Two receivers of eager records.
CONSTANTS
  Policy = "eager"
  AckPlacement = "post_frame"
  Capacity = 2
  Batch = 2
  BridgeMayStop = FALSE
  StartMayFail = FALSE
  WaitsMayExpire = FALSE
  SocketLimit = 2
  MaxRecords = 3
  MaxGeneration = 1
SPECIFICATION Spec
INVARIANTS NeverReordered
