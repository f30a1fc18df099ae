SPECIFICATION ProgressSpec
CONSTANTS
  N = 2
  Creator = 0
  Flaky <- TheOther
  MaxCrashes = 1
  MaxFaults = 0
  MaxUnacked = 1
  MaxInbox = 12
  MaxDeletes = 0
  Deletable <- WhenDone
  Outcomes <- PodsSucceed
PROPERTY ActivationSpreads
