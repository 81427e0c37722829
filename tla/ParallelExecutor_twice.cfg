SPECIFICATION Spec
CONSTANTS
  WorkerCount = 2
  MaxItems = 4
  InitialCapacity = 4
  MinPerWorker = 2
  BufferDepth = 1
  Outcomes = {"analyzed"}
INVARIANTS AtMostOnce
