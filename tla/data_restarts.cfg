SPECIFICATION CFairSpec
CONSTANTS
  Keys <- MCKeys
  TopKeys <- MCKeys
  Program <- MCDeepProgram
  Steps <- MCDeepSteps
  Raisable = {"error", "exit"}
  NoStep = NoStep
  MaxDepth = 3
  MaxOrder = 2
  MaxScopes = 1
  MaxRecords = 40
  MaxSessions = 4
  MayCatch = FALSE
  MaxFaults = 3
INVARIANTS CompletedAndClosed RecordedOrTorn
PROPERTIES ImplementsStepLog EventuallyComplete
CHECK_DEADLOCK FALSE
