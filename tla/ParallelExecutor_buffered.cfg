SPECIFICATION FairSpec
CONSTANTS
  WorkerCount = 2
  MaxItems = 4
  InitialCapacity = 1
  MinPerWorker = 2
  BufferDepth = 2
  Outcomes = {"analyzed"}
INVARIANT NoItemLost
PROPERTY RunEnds
