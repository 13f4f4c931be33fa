\* Two bridges and two clients: a bridge that starts where another has failed, is
\* ending or is alive, and a client that waits behind another.
CONSTANTS
  Bridges = {b1, b2}
  Clients = {c1, c2}
  None = None
  MaxAttempts = 2
SPECIFICATION FairSpec
INVARIANTS TypeOK AloneOwnsPath
PROPERTIES StartResolves
