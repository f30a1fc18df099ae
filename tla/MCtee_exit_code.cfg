CONSTANTS
  N = 2
  SeedModulus = 8
  JunkParses = FALSE
  MaxFaults = 0
  Environments <- OtherEnclave
SPECIFICATION Spec
INVARIANT ExitCodeContract
CHECK_DEADLOCK FALSE
