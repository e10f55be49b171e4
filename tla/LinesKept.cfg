SPECIFICATION Spec
CONSTANTS
  Name = {daemon}
  Main = daemon
  MAX_LOG_SIZE = 0
  MAX_LOG_FILES = 5
  LOG_BUFFER_SIZE = 2
  MaxLines = 3
  MaxOverlap = 2
  Time <- InPairs
  NoStream = NoStream
  NoFile = NoFile
INVARIANTS
  LinesKept
CHECK_DEADLOCK FALSE
