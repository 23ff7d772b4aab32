SPECIFICATION RSpec
CONSTANTS
  Keys <- MCKeys
  TopKeys <- MCTopKeys
  Number <- MCNumber
  Marked <- MCMarked
  Delegates = 2
  Raisable = {"tbc", "exit"}
  NoStep = NoStep
  MaxDepth = 2
  MaxOrder = 1
  MaxScopes = 1
  MaxRecords = 2
  MaxSessions = 2
INVARIANTS RecordedOnce CoordinatesHold LatestWasRun DelegatesTold
CHECK_DEADLOCK FALSE
