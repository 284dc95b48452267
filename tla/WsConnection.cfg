CONSTANTS
  QueueSize = 2
  MaxFrames = 6
  Binaries = TRUE
SPECIFICATION FairSpec
INVARIANTS TypeOK DrainPrecedesClose
PROPERTIES RefinesStream OverflowCloses BadFrameCloses DeadPumpIsNoticed ConnectionEnds
CHECK_DEADLOCK FALSE
