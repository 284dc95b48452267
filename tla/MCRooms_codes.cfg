\* Two rooms drawing the one join code: a collision ends its request. Fair statements.
\* A system whose users stop calling it stops: deadlock is not an error.
CONSTANTS
  Rooms = {r1, r2}
  Users = {u1, u2}
  Codes = {c1}
  NoUser = NoUser
  NoCode = NoCode
  MaxJoins = 2
  Workers = {w1, w2}
  NoWorker = NoWorker
  NoRoom = NoRoom
SPECIFICATION FairSpec
CHECK_DEADLOCK FALSE
PROPERTIES
  LocksAreReleased
