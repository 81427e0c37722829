SPECIFICATION FairSpec
CONSTANTS
  Passes = {"pointer_ownership", "callback_escape", "ptr_lifetime", "ffi_boundary"}
  WorkerCount = 3
  MinPerWorker = 1
  MaxFunctions = 3
  SlotLimit = 2
  FunctionKinds <- MCFunctionKinds
INVARIANT TypeOK
INVARIANT OutcomesRecorded
INVARIANT UnpairedReportedSequentially
INVARIANT ReportsOwnTransfers
PROPERTY PassEnds
