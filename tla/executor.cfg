SPECIFICATION Spec
CONSTANTS
  Keys <- MCKeys
  TopKeys <- MCKeys
  Raisable = {"tbc"}
  NoStep = NoStep
  MaxDepth = 2
  MaxOrder = 2
  MaxScopes = 1
  MaxRecords = 3
  MaxSessions = 2
INVARIANTS TypeOK OneRecordPerStep LatestInPast CoordinatesAgree SkipFlagScoped
PROPERTIES PositionAdvances
CHECK_DEADLOCK FALSE
