SPECIFICATION CSpec
CONSTANTS
  Keys <- MCKeys
  TopKeys <- MCKeys
  Program <- MCProgram
  Steps <- MCSteps
  Raisable = {"error"}
  NoStep = NoStep
  MaxDepth = 2
  MaxOrder = 2
  MaxScopes = 0
  MaxRecords = 40
  MaxSessions = 2
  MayCatch = FALSE
  MaxFaults = 1
INVARIANTS RecordedDataDurable
CHECK_DEADLOCK FALSE
