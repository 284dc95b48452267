------------------------------ MODULE RoomModel ------------------------------
(***************************************************************************)
(* The values and pure functions of the rooms feature (internal/rooms/     *)
(* model.go and the pure parts of service.go), shared by the abstract      *)
(* specification RoomLobby and the transaction-level one, Rooms.           *)
(*                                                                         *)
(* A seat is a pair (side, slot). seatOrder lists the seats of a mode as   *)
(* (0,0), (1,0), (0,1), (1,1), so a seat is written here as its position   *)
(* in that list: seat s is side (s-1) % 2, slot (s-1) \div 2. Position 0   *)
(* stands for "no row", that is, the user is not a member.                 *)
(***************************************************************************)
EXTENDS Naturals, FiniteSets

CONSTANTS
  Rooms,     \* the room ids uuid.NewV7 may draw
  Users,     \* the users who call the API
  Codes,     \* the join codes generateJoinCode may draw
  NoUser,    \* no user (an empty player slot, no new host)
  NoCode,    \* the NULL join code of a public room
  MaxJoins   \* bound: how many times clock_timestamp() stamps an INSERT

ASSUME UsersAssumption == IsFiniteSet(Users) /\ NoUser \notin Users
ASSUME CodesAssumption == NoCode \notin Codes
ASSUME MaxJoinsAssumption == MaxJoins \in Nat

Modes == {"1v1", "2v2"}

\* Mode.Capacity: two sides of PlayersPerSide players.
Capacity(m) == IF m = "2v2" THEN 4 ELSE 2

Seats == 1 .. 4

\* The rows of table rooms; "none" is a room id nobody has inserted yet.
RoomRow == [state : {"none", "open", "closed"},
            mode  : Modes,
            code  : Codes \cup {NoCode},
            host  : Users \cup {NoUser}]

NoRoomRow == [state |-> "none", mode |-> "1v1", code |-> NoCode, host |-> NoUser]

\* The rows of table room_members for one room: a function of the user.
MemberRow == [seat : 0 .. 4, ready : BOOLEAN, joined : 0 .. MaxJoins]

NoRow == [seat |-> 0, ready |-> FALSE, joined |-> 0]

MembersOf(rows) == {u \in Users : rows[u].seat # 0}

\* seatMember's choice: the first seat of the mode's order nobody occupies.
FreeSeats(rows, m) == {s \in 1 .. Capacity(m) : \A u \in Users : rows[u].seat # s}

FirstFreeSeat(rows, m) ==
  CHOOSE s \in FreeSeats(rows, m) : \A t \in FreeSeats(rows, m) : s <= t

\* Leave's choice of the next host among the members S that remain.
Earliest(rows, S) ==
  CHOOSE u \in S : \A v \in S : rows[u].joined <= rows[v].joined

\* The players of a match by seat, and the value of a match that does not exist.
Sides == [Seats -> Users \cup {NoUser}]

NoMatch == [s \in Seats |-> NoUser]

\* buildMatchSides: the member sitting in (side, slot) becomes that player.
BuildMatchSides(rows) ==
  [s \in Seats |-> IF \E u \in Users : rows[u].seat = s
                   THEN CHOOSE u \in Users : rows[u].seat = s
                   ELSE NoUser]
=============================================================================
