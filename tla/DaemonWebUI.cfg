SPECIFICATION FairSpec
CONSTANTS
  Connections = {c1, c2}
  Ports = {1, 2}
  DefaultPort = 1
  Callers = {a, b}
  Start = Start
  Shutdown = Shutdown
  MaxServers = 4
INVARIANTS
  TypeOK
  TablesAgree
  ServesAsConfigured
PROPERTIES
  StopsEnd
CHECK_DEADLOCK FALSE
