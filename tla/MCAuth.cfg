CONSTANTS
  Users = {u1, u2}
  Emails = {e1, e2}
  Handles = {h1, h2}
  Sessions = {s1, s2}
  Requests = {r1, r2}
  TTL = 3
  Threshold = 2
  PurgeAge = 0
  Latency = 1
  SignupUntil = 0
  MaxTime = 4
SPECIFICATION Spec
INVARIANTS TypeOK AccountsWhole EndedForGood ActiveStaysIn
SYMMETRY Symmetry
CHECK_DEADLOCK FALSE
