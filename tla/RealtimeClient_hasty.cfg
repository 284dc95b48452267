CONSTANTS
  Sockets = {a, b, c}
  None = None
  MaxDelay = 3
  MaxSeq = 2
  Hasty = TRUE
SPECIFICATION Spec
INVARIANT OneSocket
