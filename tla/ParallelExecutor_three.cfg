SPECIFICATION Spec
CONSTANTS
  WorkerCount = 3
  MaxItems = 4
  InitialCapacity = 1
  MinPerWorker = 1
  BufferDepth = 0
  Outcomes = {"errored"}
INVARIANT TypeOK
INVARIANT AtMostOnce
INVARIANT ResultsComplete
PROPERTY ImplementsBag
