SPECIFICATION FairSpec
CONSTANTS
  BufferSize = 5
  LargeElement = 4
  Clients <- All
  phantomBatchLimit = 2
  PurgeBytes = 2
  OutputSize = 1
  MaxMessages = 1
CHECK_DEADLOCK FALSE
 
INVARIANT ExecutesAsSent
INVARIANT ReplayAgrees
 
