SPECIFICATION FairSpec
CONSTANTS
  app = app
  main = main
  p1 = p1
  p2 = p2
  Dirs = {app}
  Files = {main}
  Inside <- OneFile
  Prefixed <- OneFile
  WatchDir <- OneDir
  Processes = {p1, p2}
  MaxVersion = 3
  Checks = {1, 2}
  Unknown = Unknown
INVARIANTS
  TypeOK
  WatchersHeld
PROPERTIES
  ChangeRestarts
CHECK_DEADLOCK FALSE
