SPECIFICATION FairSpec
CONSTANTS
  Sender = {"timer", "host"}
  MaxFrames = 2
  SERIAL_BUFF_SIZE = 2
CHECK_DEADLOCK FALSE
INVARIANTS TypeOK FramesAreWhole CommandsInOrder
PROPERTY CommandIsHandled
