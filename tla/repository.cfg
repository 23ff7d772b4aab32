SPECIFICATION RSpec
CONSTANTS
  Tables = {A, B}
  Ids = {i1, i2}
  Steps = {s1, s2}
  Main = Main
INVARIANTS SavedIsKept
PROPERTIES RowsChangeWithSteps
