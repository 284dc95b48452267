\* A duel whose guest withdraws while the host's Start is deciding.
\* A system whose users stop calling it stops: deadlock is not an error.
CONSTANTS
  Rooms = {r1}
  Users = {u1, u2}
  Codes = {c1}
  NoUser = NoUser
  NoCode = NoCode
  MaxJoins = 2
  Workers = {w1, w2}
  NoWorker = NoWorker
  NoRoom = NoRoom
SPECIFICATION Spec
CHECK_DEADLOCK FALSE
PROPERTIES
  StartsOnlyWhenReady
