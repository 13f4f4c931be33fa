\* Both ways of reclaiming capacity, one reconnect.
CONSTANTS
  Capacity = 2
  MaxBatch = 2
  MaxPasses = 2
  MaxSequence = 5
  MaxGeneration = 2
SPECIFICATION FairSpec
INVARIANTS TypeOK PositionsOrdered UnreadIntact NoRace HistoryExact DropsLeaveGaps AckLossCounted RingInv
PROPERTIES RejectedOnlyStale LatestExactWhileUnacked ImplementsStream EventuallyDelivered EventuallyReclaimed
