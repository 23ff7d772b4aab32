SPECIFICATION SFairSpec
CONSTANTS
  p1 = p1
  p2 = p2
  Projects = {p1, p2}
  Port <- MCPort
  StoreOf <- MCPort
  InitSql = 1
  Originals <- MCOriginals
  SqlRetries = 1
  ConnectRetries = 2
  MaxStarts <- MCStarts
  MaxFaults <- MCFaults
  UiPorts = {9002, 3000}
  Store = store
INVARIANTS NothingLeft ServersAnswer NameReverted
PROPERTIES UpAndDown
CHECK_DEADLOCK FALSE
