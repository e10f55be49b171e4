SPECIFICATION FairSpec
CONSTANTS
  NoFile = NoFile
  Torn = Torn
  MaxAge = 6
  Faults = {"write"}
INVARIANTS
  TypeOK
  FileWhole
PROPERTIES
  FileNeverOlder
  ChangesReachFile
CHECK_DEADLOCK FALSE
