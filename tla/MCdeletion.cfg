SPECIFICATION ProgressSpec
CONSTANTS
  N = 2
  Creator = 0
  Flaky <- NoVCP
  MaxCrashes = 0
  MaxFaults = 0
  MaxUnacked = 0
  MaxInbox = 12
  MaxDeletes = 1
  Deletable <- WhenDone
  Outcomes <- PodsSucceed
PROPERTY DeletionCleansUp
PROPERTY DeletedStaysDeleted
CHECK_DEADLOCK FALSE
