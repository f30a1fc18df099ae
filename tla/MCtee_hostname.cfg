CONSTANTS
  N = 2
  SeedModulus = 8
  JunkParses = FALSE
  MaxFaults = 0
  Environments <- LongNames
SPECIFICATION Spec
INVARIANT AttestedBeforeGenerating
CHECK_DEADLOCK FALSE
