SPECIFICATION FairSpec
CONSTANTS
  Missing = Missing
  Component = {a, b, c, d}
  Injectable = {a, b}
  Resettable = {a}
  Initializable = {c}
INVARIANTS PrerequisitesUp EveryCallPaired NothingSwallowed
PROPERTIES ImplementsDependencyOrder Ends
CHECK_DEADLOCK FALSE
