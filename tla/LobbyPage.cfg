CONSTANTS
  Newest = 5
  Limit = 2
  Requests = {r1, r2}
SPECIFICATION Spec
INVARIANTS TypeOK ListedOnce NoneMissed
CHECK_DEADLOCK FALSE
