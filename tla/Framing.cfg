CONSTANTS
  Length = 8
  Scripts <- MCScripts
  ChatLength = 2
  EchoHeader = 2
  MaxBuffer = 5
  Stale = 2
SPECIFICATION FairSpec
CHECK_DEADLOCK FALSE
INVARIANTS
    FramesSound
    NoSilentLoss
PROPERTIES
    FrameIsDelivered
