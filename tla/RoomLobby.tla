------------------------------ MODULE RoomLobby ------------------------------
(***************************************************************************)
(* What the rooms feature promises: every operation of rooms.Service is    *)
(* one atomic step on the rows a reader can see. Locks, transactions and   *)
(* the order of SQL statements do not appear; module Rooms has them and is *)
(* shown to implement this specification.                                  *)
(*                                                                         *)
(* The one promise deliberately absent is that Start finds every member    *)
(* ready at the instant the match appears: Rooms shows the code does not   *)
(* keep it (see StartsOnlyWhenReady there).                                *)
(***************************************************************************)
EXTENDS RoomModel

VARIABLES
  room,   \* room[r]: the committed row of table rooms
  row,    \* row[r][u]: the committed row of table room_members
  match   \* match[r]: the players of the match room r became, by seat

vars == <<room, row, match>>

TypeOK ==
  /\ room \in [Rooms -> RoomRow]
  /\ row \in [Rooms -> [Users -> MemberRow]]
  /\ match \in [Rooms -> Sides]

Init ==
  /\ room = [r \in Rooms |-> NoRoomRow]
  /\ row = [r \in Rooms |-> [u \in Users |-> NoRow]]
  /\ match = [r \in Rooms |-> NoMatch]

Members(r) == MembersOf(row[r])

Seated(s, t) == [seat |-> s, ready |-> FALSE, joined |-> t]

\* A room and its host's seat appear together, under a code no other room has.
Create(u, r, m, c, t) ==
  /\ room[r].state = "none"
  /\ c # NoCode => \A q \in Rooms : room[q].code # c
  /\ room' = [room EXCEPT ![r] = [state |-> "open", mode |-> m, code |-> c, host |-> u]]
  /\ row' = [row EXCEPT ![r][u] = Seated(1, t)]
  /\ UNCHANGED match

\* A newcomer takes the first free seat of an open room and is the last to join.
Join(u, r, t) ==
  /\ room[r].state = "open"
  /\ u \notin Members(r)
  /\ FreeSeats(row[r], room[r].mode) # {}
  /\ \A v \in Members(r) : row[r][v].joined < t
  /\ row' = [row EXCEPT ![r][u] = Seated(FirstFreeSeat(row[r], room[r].mode), t)]
  /\ UNCHANGED <<room, match>>

\* The last member out closes the room; a leaving host hands over to the
\* earliest of those who stay. The room may already be closed.
Leave(u, r) ==
  LET rest == Members(r) \ {u} IN
  /\ u \in Members(r)
  /\ row' = [row EXCEPT ![r][u] = NoRow]
  /\ room' = [room EXCEPT
       ![r].state = IF rest = {} THEN "closed" ELSE @,
       ![r].host = IF rest # {} /\ @ = u THEN Earliest(row[r], rest) ELSE @]
  /\ UNCHANGED match

\* A member's own flag, in an open or a closed room.
SetReady(u, r, b) ==
  /\ u \in Members(r)
  /\ row' = [row EXCEPT ![r][u].ready = b]
  /\ UNCHANGED <<room, match>>

\* The host turns a full open room into a match; the room closes in the same step.
Start(u, r) ==
  /\ room[r].state = "open"
  /\ room[r].host = u
  /\ Cardinality(Members(r)) = Capacity(room[r].mode)
  /\ match' = [match EXCEPT ![r] = BuildMatchSides(row[r])]
  /\ room' = [room EXCEPT ![r].state = "closed"]
  /\ UNCHANGED row

Next ==
  \E u \in Users, r \in Rooms :
    \/ \E m \in Modes, c \in Codes \cup {NoCode}, t \in 1 .. MaxJoins : Create(u, r, m, c, t)
    \/ \E t \in 1 .. MaxJoins : Join(u, r, t)
    \/ Leave(u, r)
    \/ \E b \in BOOLEAN : SetReady(u, r, b)
    \/ Start(u, r)

Spec == Init /\ [][Next]_vars

-----------------------------------------------------------------------------
(* What these steps preserve.                                              *)

\* Two members of a room never occupy one seat, and no seat lies outside the
\* room's mode: the capacity invariant of migration 000004.
SeatsAreDistinct ==
  \A r \in Rooms : \A u, v \in Members(r) :
    /\ row[r][u].seat <= Capacity(room[r].mode)
    /\ row[r][u].seat = row[r][v].seat => u = v

\* The host of a room with members is one of them, and the one who joined
\* first: what Leave's hand-over maintains over any sequence of arrivals.
HostIsEarliest ==
  \A r \in Rooms : Members(r) # {} =>
    /\ room[r].host \in Members(r)
    /\ \A u \in Members(r) : u # room[r].host => row[r][room[r].host].joined < row[r][u].joined

\* An open room has a member, so it has a host who can start it, and a room
\* nobody created has none.
OpenRoomsAreOccupied ==
  \A r \in Rooms :
    /\ room[r].state = "open" => Members(r) # {}
    /\ room[r].state = "none" => Members(r) = {}

\* A match exists only for a closed room, fills every seat of the mode with a
\* different user, and whoever is still listed in the room plays from the seat
\* they hold there.
MatchSeatsItsRoom ==
  \A r \in Rooms : match[r] # NoMatch =>
    /\ room[r].state = "closed"
    /\ \A s \in Seats : match[r][s] \in Users <=> s <= Capacity(room[r].mode)
    /\ \A s, t \in Seats : match[r][s] \in Users /\ match[r][s] = match[r][t] => s = t
    /\ \A u \in Members(r) : match[r][row[r][u].seat] = u
=============================================================================
