SPECIFICATION FairSpec
CONSTANTS
  j1 = j1
  j2 = j2
  j3 = j3
  TupleType <- Types
  Generator <- Generators
  Supports <- TypesOfGenerator
  Policy <- Types
  Threshold <- Thresholds
  Priority <- Priorities
  BatchSize <- Batches
  Concurrency = 2
  JobId <- ThreeJobs
  MaxSetbacks = 1
INVARIANT TypeOK
INVARIANT ConcurrencyRespected
INVARIANT NotOverproduced
INVARIANT TicketsMatchPriorities
PROPERTY EventuallyReplenished
PROPERTY FinishedJobsRemoved
