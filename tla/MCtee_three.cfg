CONSTANTS
  N = 3
  SeedModulus = 16
  JunkParses = TRUE
  MaxFaults = 2
  Environments <- ThreeEnvironments
SPECIFICATION Spec
INVARIANTS
  SharesOnlyToAttested
  ClientsInOrder
PROPERTIES
  SlotsFilledOnce
CHECK_DEADLOCK FALSE
