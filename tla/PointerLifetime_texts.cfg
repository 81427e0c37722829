SPECIFICATION Spec
CONSTANTS
  Allocas = 1
  LineInsts = 4
  BranchInsts = 1
PROPERTY ReadsLiveTexts
