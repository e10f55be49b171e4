SPECIFICATION Spec
CONSTANTS
  Process = {p1}
  Clustered = {}
  Count <- OneEach
  MaxRestarts = 1
  Client = {a, b}
  NoProcess = NoProcess
  Faults = {"error", "timeout", "slow"}
  Slot = {1, 2, 3, 4, 5}
  MaxChildren = 2
INVARIANTS
  TypeOK
  PlainInstanceOnce
  PlainRestartsBounded
  PlainErroredIsFinal
  PlainRunningIsAlive
  NoStaleHandle
  StopAwaitsLiving
PROPERTIES
  NoRestartArmedInShutdown
  Supervises
SYMMETRY Callers
CHECK_DEADLOCK FALSE
