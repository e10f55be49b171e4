SPECIFICATION FairSpec
CONSTANTS
  Process = {p1}
  Clustered = {}
  Count <- OneEach
  MaxRestarts = 1
  Client = {a}
  NoProcess = NoProcess
  Faults = {"error", "slow"}
  Slot = {1, 2, 3, 4, 5}
  MaxChildren = 2
PROPERTIES
  StopReturns
  PlainStartReturns
  ShutdownCompletes
CHECK_DEADLOCK FALSE
