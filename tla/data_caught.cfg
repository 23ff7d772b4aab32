SPECIFICATION CSpec
CONSTANTS
  Keys <- MCKeys
  TopKeys <- MCKeys
  Program <- MCDeepProgram
  Steps <- MCDeepSteps
  Raisable = {"error", "tbc", "exit"}
  NoStep = NoStep
  MaxDepth = 3
  MaxOrder = 2
  MaxScopes = 1
  MaxRecords = 40
  MaxSessions = 3
  MayCatch = TRUE
  MaxFaults = 3
INVARIANTS StepIsolated NeverDropsCurrent
PROPERTIES DurableForever
CHECK_DEADLOCK FALSE
