CONSTANTS
  Pipelines <- MCBoth
  MaxFailures = 2
  Names <- MCNames
  DepLists <- MCDepLists
  MaxPasses = 34
CHECK_DEADLOCK FALSE
SPECIFICATION MCSpec
INVARIANT TypeOK
INVARIANT OrderIsSchedule
INVARIANT DependenciesRanFirst
INVARIANT ConsumersFollowProducers
PROPERTY EveryPassRuns
PROPERTY CycleIsReal
PROPERTY ImplementsSchedule
PROPERTY CallsReturn
PROPERTY RunEnds
