CONSTANTS
  Sockets = {a, b}
  None = None
  MaxDelay = 3
  MaxSeq = 2
  Hasty = FALSE
SPECIFICATION FairSpec
INVARIANTS TypeOK SingleConnection StaysDisconnected
PROPERTIES Reconnects
