SPECIFICATION Spec
CONSTANTS
  app = app
  main = main
  p1 = p1
  p2 = p2
  Dirs = {app}
  Files = {main}
  Inside <- OneFile
  Prefixed <- OneFile
  WatchDir <- OneDir
  Processes = {p1}
  MaxVersion = 3
  Checks = {1, 2}
  Unknown = Unknown
PROPERTIES
  RestartKeepsWatch
CHECK_DEADLOCK FALSE
