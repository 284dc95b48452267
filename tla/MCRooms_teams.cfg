\* One room, four users, two requests in flight: hand-overs, a full 2v2 match, and
\* what remains of its room.
\* A system whose users stop calling it stops: deadlock is not an error.
CONSTANTS
  Rooms = {r1}
  Users = {u1, u2, u3, u4}
  Codes = {c1}
  NoUser = NoUser
  NoCode = NoCode
  MaxJoins = 5
  Workers = {w1, w2}
  NoWorker = NoWorker
  NoRoom = NoRoom
SPECIFICATION Spec
SYMMETRY Symmetry
CHECK_DEADLOCK FALSE
INVARIANTS
  TypeOK
  InsertNeverConflicts
  HostIsEarliest
  OpenRoomsAreOccupied
  MatchSeatsItsRoom
  ActorsHaveMatches
PROPERTIES
  RefinesLobby
  ClosedRoomsOnlyEmpty
