\* A ring client across a reconnect.
CONSTANTS
  Policy = "late"
  AckPlacement = "post_frame"
  Capacity = 2
  Batch = 2
  BridgeMayStop = FALSE
  StartMayFail = FALSE
  WaitsMayExpire = FALSE
  SocketLimit = 2
  MaxRecords = 2
  MaxGeneration = 2
SPECIFICATION Spec
INVARIANTS HistoriesNotJoined
