SPECIFICATION Spec
CONSTANTS
  N = 2
  Creator = 0
  Flaky <- TheMaster
  MaxCrashes = 1
  MaxFaults = 0
  MaxUnacked = 2
  MaxInbox = 12
  MaxDeletes = 0
  Deletable <- WhenDone
  Outcomes <- PodsMayFail
INVARIANT ActivatedImpliesAllUploaded
INVARIANT OutcomeAgreement
INVARIANT ProxiesConverge
INVARIANT LaunchedWhenReachable
INVARIANT TuplesKept
PROPERTY EntryLifecycle
