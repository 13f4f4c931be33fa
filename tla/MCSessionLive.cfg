\* What eventually happens: late integration, acknowledged after use; a reconnect; the
\* bridge may stop at any time.
CONSTANTS
  Policy = "late"
  AckPlacement = "post_use"
  Capacity = 1
  Batch = 1
  BridgeMayStop = TRUE
  StartMayFail = FALSE
  WaitsMayExpire = TRUE
  SocketLimit = 1
  MaxRecords = 2
  MaxGeneration = 2
SPECIFICATION StallSpec
PROPERTIES ButtonsArrive RunEnds
