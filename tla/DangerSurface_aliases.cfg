SPECIFICATION Spec
CONSTANTS
  FunctionCount = 1
  MaxEdges = 1
  MaxInsts = 3
INVARIANT AliasesAreRelevant
