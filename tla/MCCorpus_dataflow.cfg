CONSTANTS
    Programs <- AllPrograms
    Turns = 2
SPECIFICATION Spec
INVARIANTS
    LabelsAreTrue
    LostAllocationsAreReported
    SingleOrphansAreReal
    SafeFunctionsAreQuiet
CHECK_DEADLOCK FALSE
