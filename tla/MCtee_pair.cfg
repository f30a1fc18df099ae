CONSTANTS
  N = 2
  SeedModulus = 8
  JunkParses = FALSE
  MaxFaults = 2
  Environments <- PairEnvironments
SPECIFICATION Spec
INVARIANTS
  TypeOK
  SameRandomness
  AttestedBeforeGenerating
  EveryoneContributes
  DeliversWhatItGenerates
PROPERTIES
  ExchangesShares
  EveryoneGenerates
  WaitsOnlyToConnect
CHECK_DEADLOCK FALSE
