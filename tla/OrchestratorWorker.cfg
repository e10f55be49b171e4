SPECIFICATION Spec
CONSTANTS
  Process = {p1}
  Clustered = {p1}
  Count <- OneEach
  MaxRestarts = 1
  Client = {a}
  NoProcess = NoProcess
  Faults = {"timeout", "slow"}
  Slot = {1, 2, 3, 4, 5}
  MaxChildren = 3
INVARIANTS
  FullComplement
CHECK_DEADLOCK FALSE
