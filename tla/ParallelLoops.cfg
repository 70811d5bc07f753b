CONSTANTS
  MaxSteps = 5
  MaxWaiters = 2
SPECIFICATION Spec
INVARIANTS
  TypeOK
  EachIterationOnce
  StepsLeftExact
  BarrierCounts
  AwaitedOnce
  ReductionReports
  ChunksTile
PROPERTY LoopEnds
