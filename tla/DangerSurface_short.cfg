SPECIFICATION Spec
CONSTANTS
  FunctionCount = 2
  MaxEdges = 2
  MaxInsts = 3
INVARIANTS LookupsFindFirstEdge DangerIsMarked JudgesAgree
