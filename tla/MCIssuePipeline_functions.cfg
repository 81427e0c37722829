SPECIFICATION Spec
CONSTANTS
  Functions <- MCFunctions
  Issues = {}
  MaxReports = 0
  LeakRecords <- MCTwoLeaks
  MaxRecords = 2
  MessageFoldThreshold = 5
INVARIANT KeptPerFunction
