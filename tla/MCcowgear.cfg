CONSTANTS
  N = 3
  Retries = 3
  MaxFaults = 3
  Requests <- MCRequests
SPECIFICATION Spec
INVARIANTS
  TypeOK
  SameSession
  DeliversChecked
  RetriesSuffice
PROPERTY EveryoneEnds
CHECK_DEADLOCK FALSE
