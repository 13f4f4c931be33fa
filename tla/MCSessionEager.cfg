\* Eager records on the socket, the shadow drain, and a reconnect; the client ends the
\* session.
CONSTANTS
  Policy = "eager"
  AckPlacement = "post_frame"
  Capacity = 2
  Batch = 1
  BridgeMayStop = FALSE
  StartMayFail = FALSE
  WaitsMayExpire = TRUE
  SocketLimit = 1
  MaxRecords = 2
  MaxGeneration = 2
SPECIFICATION Spec
INVARIANTS ShutdownDrainsAll EagerLossCounted 
PROPERTIES ImplementsStream
