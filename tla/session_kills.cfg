SPECIFICATION Spec
CONSTANTS
  MaxRuntimes = 3
  MaxContexts = 2
  MaxInvoked = 1
  MaxDepth = 4
  Text <- ToString
INVARIANTS MarksAreTrue SanitizedBeforeWork DocumentsReadBack
PROPERTIES HistoryKept
CHECK_DEADLOCK FALSE
