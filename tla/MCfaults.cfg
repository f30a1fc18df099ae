SPECIFICATION Spec
CONSTANTS
  N = 2
  Creator = 0
  Flaky <- TheOther
  MaxCrashes = 0
  MaxFaults = 1
  MaxUnacked = 1
  MaxInbox = 12
  MaxDeletes = 0
  Deletable <- WhenDone
  Outcomes <- PodsMayFail
INVARIANT UploadInv
INVARIANT OutcomeAgreement
PROPERTY EntryLifecycle
CHECK_DEADLOCK FALSE
