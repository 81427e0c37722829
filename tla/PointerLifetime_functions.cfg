SPECIFICATION Spec
CONSTANTS
  Allocas = 2
  LineInsts = 5
  BranchInsts = 5
INVARIANT TypeOK
INVARIANT SameObjectSameNode
INVARIANT FreedIsSeen
INVARIANT DirectFreesAreExact
INVARIANT RecordFreedIsFreed
INVARIANT DoubleFreesAreDetected
INVARIANT TextsOwnedOnce
