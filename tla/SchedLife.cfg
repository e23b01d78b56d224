SPECIFICATION FairSpec
CONSTANTS
  MaxConn = 1
  EndCode = {4}
CHECK_DEADLOCK FALSE
INVARIANTS TypeOK ExitCodeIsOfCommand MappedWhileInUse
PROPERTIES ShutdownIsFinal ShutdownEnds
