SPECIFICATION ProgressSpec
CONSTANTS
  N = 2
  Creator = 0
  Flaky <- NoVCP
  MaxCrashes = 0
  MaxFaults = 0
  MaxUnacked = 0
  MaxInbox = 12
  MaxDeletes = 0
  Deletable <- WhenDone
  Outcomes <- PodsMayFail
INVARIANT TypeOK
INVARIANT GeneratorKnowsPeers
PROPERTY CommitsAtomically
PROPERTY DoneIsFinal
PROPERTY JobsTerminate
