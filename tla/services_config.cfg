SPECIFICATION SSpec
CONSTANTS
  p1 = p1
  p2 = p2
  Projects = {p1}
  Port <- MCPort
  StoreOf <- MCPort
  InitSql = 1
  Originals <- MCOriginals
  SqlRetries = 1
  ConnectRetries = 1
  MaxStarts <- MCStarts
  MaxFaults <- MCFaults
  UiPorts = {9002, 3000}
  Store = store
INVARIANT ConfigReverted
CHECK_DEADLOCK FALSE
