\* A ping that is not answered. A connection may end: deadlock is not an error.
CONSTANTS
  QueueSize = 2
  MaxFrames = 6
  Binaries = TRUE
SPECIFICATION FairSpec
PROPERTIES SilentIsClosed
CHECK_DEADLOCK FALSE
