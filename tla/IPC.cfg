SPECIFICATION FairSpec
CONSTANTS
  r1 = r1
  r2 = r2
  r3 = r3
  Requests = {r1, r2, r3}
  Conns = {1, 2}
  None = None
  Slow = {r1}
  Large = {r3}
  NonAscii = {r2}
INVARIANTS
  TypeOK
  WaitingIsTracked
  ExecutedOnce
  MessagesWhole
PROPERTIES
  CallsEnd
CHECK_DEADLOCK FALSE
