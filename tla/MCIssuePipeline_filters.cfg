SPECIFICATION Spec
CONSTANTS
  Functions <- MCFunctions
  Issues <- MCIssues
  MaxReports = 3
  LeakRecords <- MCLeakRecords
  MaxRecords = 2
  MessageFoldThreshold = 1
INVARIANT TypeOK
INVARIANT OneReportPerKey
INVARIANT NeverSuppressedReachGraph
INVARIANT SeveritiesKept
INVARIANT KeptIsShown
INVARIANT CountsAddUp
