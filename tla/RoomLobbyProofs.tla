--------------------------- MODULE RoomLobbyProofs ---------------------------
(***************************************************************************)
(* What RoomLobby promises holds for any rooms, users, codes and any       *)
(* number of joins. HostIsEarliest is not inductive alone: a hand-over     *)
(* needs the joining times of the members to be distinct, and Start needs  *)
(* distinct seats, so the invariant carries both. First, what the pure     *)
(* functions of RoomModel return.                                          *)
(***************************************************************************)
EXTENDS RoomLobby, FiniteSetTheorems, WellFoundedInduction, TLAPS

LessThan == {p \in Nat \X Nat : p[1] < p[2]}

\* A non-empty set of naturals has a least element.
LEMMA LeastNat ==
  ASSUME NEW T, T \subseteq Nat, T # {}
  PROVE  \E x \in T : \A y \in T : x <= y
<1>1. IsWellFoundedOn(LessThan, Nat)
  BY NatLessThanWellFounded DEF OpToRel, LessThan
<1>2. \E x \in T : \A y \in T : ~ (<<y, x>> \in LessThan)
  BY <1>1, WFMin
<1>3. \A x, y \in T : ~ (<<y, x>> \in LessThan) => x <= y
  BY DEF LessThan
<1>4. QED
  BY <1>2, <1>3

\* Leave always finds the member it hands the room to, and nobody who stays
\* joined before them.
LEMMA EarliestIsFirst ==
  ASSUME NEW rows \in [Users -> MemberRow],
         NEW S \in SUBSET Users, S # {}
  PROVE  /\ Earliest(rows, S) \in S
         /\ \A v \in S : rows[Earliest(rows, S)].joined <= rows[v].joined
<1> DEFINE T == {rows[u].joined : u \in S}
<1>1. T \subseteq Nat /\ T # {}
  BY MaxJoinsAssumption DEF MemberRow
<1>2. PICK x \in T : \A y \in T : x <= y
  BY <1>1, LeastNat
<1>3. \E u \in S : \A v \in S : rows[u].joined <= rows[v].joined
  BY <1>2
<1>4. QED
  BY <1>3 DEF Earliest

\* seatMember finds a seat whenever one is free, and that seat is free.
LEMMA FirstFreeSeatIsFree ==
  ASSUME NEW rows, NEW m \in Modes, FreeSeats(rows, m) # {}
  PROVE  FirstFreeSeat(rows, m) \in FreeSeats(rows, m)
<1>1. FreeSeats(rows, m) \subseteq Nat
  BY DEF FreeSeats, Capacity
<1>2. \E s \in FreeSeats(rows, m) : \A t \in FreeSeats(rows, m) : s <= t
  BY <1>1, LeastNat
<1>3. QED
  BY <1>2 DEF FirstFreeSeat

\* ... and it is the first of them.
LEMMA FirstFreeSeatIsLeast ==
  ASSUME NEW rows, NEW m \in Modes, FreeSeats(rows, m) # {}
  PROVE  \A t \in FreeSeats(rows, m) : FirstFreeSeat(rows, m) <= t
<1>1. FreeSeats(rows, m) \subseteq Nat
  BY DEF FreeSeats, Capacity
<1>2. \E s \in FreeSeats(rows, m) : \A t \in FreeSeats(rows, m) : s <= t
  BY <1>1, LeastNat
<1>3. QED
  BY <1>2 DEF FirstFreeSeat

\* The members of a room sit in different seats of its mode.
WellSeated(rows, m) ==
  \A u, v \in MembersOf(rows) :
    /\ rows[u].seat <= Capacity(m)
    /\ rows[u].seat = rows[v].seat => u = v

\* Start's test on the number of members is enough: a room with as many members
\* as its mode has seats has one in every seat (a pigeonhole argument).
LEMMA FullMeansEverySeat ==
  ASSUME NEW rows \in [Users -> MemberRow], NEW m \in Modes,
         WellSeated(rows, m),
         Cardinality(MembersOf(rows)) = Capacity(m)
  PROVE  \A s \in 1 .. Capacity(m) : \E u \in MembersOf(rows) : rows[u].seat = s
<1> DEFINE M == MembersOf(rows)
           C == 1 .. Capacity(m)
           f == [u \in M |-> rows[u].seat]
<1>1. f \in Injection(M, C)
  <2>1. \A u \in M : rows[u].seat \in C
    BY DEF MembersOf, MemberRow, WellSeated, Capacity
  <2>2. f \in [M -> C]
    BY <2>1
  <2>3. \A u, v \in M : f[u] = f[v] => u = v
    BY DEF WellSeated
  <2>4. QED
    BY <2>2, <2>3 DEF Injection, IsInjective
<1>2. IsFiniteSet(C) /\ Cardinality(C) = Capacity(m)
  BY FS_Interval DEF Capacity
<1>3. f \in Surjection(M, C)
  <2> HIDE DEF M, C, f
  <2>1. Cardinality(M) = Cardinality(C)
    BY <1>2 DEF M
  <2>2. QED
    BY <1>1, <1>2, <2>1, FS_Injection
<1>4. QED
  BY <1>3 DEF Surjection

\* buildMatchSides on a full room: each seat of the mode is played by the member
\* who sits there, no seat outside the mode is played, nobody plays twice.
LEMMA SidesOfFullRoom ==
  ASSUME NEW rows \in [Users -> MemberRow], NEW m \in Modes,
         WellSeated(rows, m),
         Cardinality(MembersOf(rows)) = Capacity(m)
  PROVE  LET sides == BuildMatchSides(rows) IN
         /\ sides \in Sides
         /\ \A s \in Seats : sides[s] \in Users <=> s <= Capacity(m)
         /\ \A s, t \in Seats : sides[s] \in Users /\ sides[s] = sides[t] => s = t
         /\ \A u \in MembersOf(rows) : sides[rows[u].seat] = u
<1> DEFINE sides == BuildMatchSides(rows)
<1>1. \A s \in Seats : sides[s] \in Users => rows[sides[s]].seat = s
  BY UsersAssumption DEF BuildMatchSides
<1>2. \A u \in Users : rows[u].seat # 0 => u \in MembersOf(rows)
  BY DEF MembersOf
<1>3. \A u \in MembersOf(rows) : u \in Users /\ rows[u].seat \in Seats
  BY DEF MembersOf, MemberRow, Seats
<1>4. sides \in Sides
  BY DEF BuildMatchSides, Sides
<1>5. \A u \in MembersOf(rows) : sides[rows[u].seat] = u
  <2> SUFFICES ASSUME NEW u \in MembersOf(rows)
               PROVE  sides[rows[u].seat] = u
    OBVIOUS
  <2>1. sides[rows[u].seat] \in Users
    BY <1>3 DEF BuildMatchSides
  <2>2. rows[sides[rows[u].seat]].seat = rows[u].seat
    BY <1>1, <1>3, <2>1
  <2>3. sides[rows[u].seat] \in MembersOf(rows)
    BY <1>2, <1>3, <2>1, <2>2 DEF Seats
  <2>4. QED
    BY <2>2, <2>3 DEF WellSeated
<1>6. \A s \in Seats : sides[s] \in Users => s <= Capacity(m)
  BY <1>1, <1>2 DEF WellSeated, Seats
<1>7. \A s \in Seats : s <= Capacity(m) => sides[s] \in Users
  <2>1. \A s \in Seats : s <= Capacity(m) => s \in 1 .. Capacity(m)
    BY DEF Seats, Capacity
  <2>2. QED
    BY <2>1, <1>3, <1>5, FullMeansEverySeat
<1>8. \A s, t \in Seats : sides[s] \in Users /\ sides[s] = sides[t] => s = t
  BY <1>1
<1>9. QED
  BY <1>4, <1>5, <1>6, <1>7, <1>8

-----------------------------------------------------------------------------
(* The invariant of the lobby                                               *)

\* Two members of a room never joined at the same instant.
JoinsAreDistinct ==
  \A r \in Rooms : \A u, v \in Members(r) : row[r][u].joined = row[r][v].joined => u = v

LobbyInv ==
  /\ TypeOK
  /\ SeatsAreDistinct
  /\ JoinsAreDistinct
  /\ HostIsEarliest
  /\ OpenRoomsAreOccupied
  /\ MatchSeatsItsRoom

LEMMA LobbyInit == Init => LobbyInv
<1> SUFFICES ASSUME Init PROVE LobbyInv
  OBVIOUS
<1>1. TypeOK
  BY MaxJoinsAssumption DEF Init, TypeOK, RoomRow, NoRoomRow, MemberRow, NoRow, Sides, NoMatch, Modes
<1>2. \A r \in Rooms : Members(r) = {}
  BY DEF Init, Members, MembersOf, NoRow
<1>3. QED
  BY <1>1, <1>2 DEF Init, LobbyInv, SeatsAreDistinct, JoinsAreDistinct, HostIsEarliest,
     OpenRoomsAreOccupied, MatchSeatsItsRoom, NoRoomRow

LEMMA CreateKeeps ==
  ASSUME LobbyInv, NEW u \in Users, NEW r \in Rooms, NEW m \in Modes,
         NEW c \in Codes \cup {NoCode}, NEW t \in 1 .. MaxJoins, Create(u, r, m, c, t)
  PROVE  LobbyInv'
<1>1. Members(r) = {} /\ match[r] = NoMatch
  BY DEF Create, LobbyInv, OpenRoomsAreOccupied, MatchSeatsItsRoom
<1>2. TypeOK'
  BY MaxJoinsAssumption DEF Create, LobbyInv, TypeOK, RoomRow, MemberRow, Seated, Modes
<1>3. /\ room'[r] = [state |-> "open", mode |-> m, code |-> c, host |-> u]
      /\ row'[r][u] = Seated(1, t)
      /\ \A v \in Users \ {u} : row'[r][v] = row[r][v]
      /\ \A q \in Rooms \ {r} : room'[q] = room[q] /\ row'[q] = row[q]
      /\ match' = match
  BY DEF Create, LobbyInv, TypeOK
<1>4. Members(r)' = {u} /\ \A q \in Rooms \ {r} : Members(q)' = Members(q)
  BY <1>1, <1>3 DEF Members, MembersOf, Seated
<1>5. SeatsAreDistinct' /\ JoinsAreDistinct' /\ HostIsEarliest'
  BY <1>3, <1>4 DEF LobbyInv, SeatsAreDistinct, JoinsAreDistinct, HostIsEarliest, Seated, Capacity
<1>6. OpenRoomsAreOccupied' /\ MatchSeatsItsRoom'
  BY <1>1, <1>3, <1>4 DEF LobbyInv, OpenRoomsAreOccupied, MatchSeatsItsRoom
<1>7. QED
  BY <1>2, <1>5, <1>6 DEF LobbyInv

LEMMA JoinKeeps ==
  ASSUME LobbyInv, NEW u \in Users, NEW r \in Rooms, NEW t \in 1 .. MaxJoins, Join(u, r, t)
  PROVE  LobbyInv'
<1> DEFINE s == FirstFreeSeat(row[r], room[r].mode)
<1>1. s \in FreeSeats(row[r], room[r].mode)
  BY FirstFreeSeatIsFree DEF Join, LobbyInv, TypeOK, RoomRow
<1>2. /\ s \in 1 .. Capacity(room[r].mode)
      /\ s \in Seats
      /\ \A v \in Users : row[r][v].seat # s
  BY <1>1 DEF FreeSeats, Capacity, Seats
<1> HIDE DEF s
<1>3. /\ row'[r][u] = Seated(s, t)
      /\ \A v \in Users \ {u} : row'[r][v] = row[r][v]
      /\ \A q \in Rooms \ {r} : row'[q] = row[q]
      /\ room' = room
      /\ match' = match
  BY DEF Join, LobbyInv, TypeOK, s
<1>4. TypeOK'
  BY <1>2, MaxJoinsAssumption DEF Join, LobbyInv, TypeOK, MemberRow, Seated, s, Seats
<1>5. Members(r)' = Members(r) \cup {u} /\ \A q \in Rooms \ {r} : Members(q)' = Members(q)
  BY <1>2, <1>3 DEF Members, MembersOf, Seated
<1>6. u \notin Members(r) /\ \A v \in Members(r) : row[r][v].joined < t /\ row[r][v].joined \in Nat
  BY MaxJoinsAssumption DEF Join, LobbyInv, TypeOK, Members, MembersOf, MemberRow
<1>7. \A v \in Members(r) : v \in Users \ {u}
  BY <1>6 DEF Members, MembersOf
<1>8. room[r].state = "open" /\ Members(r) # {} /\ match[r] = NoMatch
  BY DEF Join, LobbyInv, OpenRoomsAreOccupied, MatchSeatsItsRoom
<1>9. SeatsAreDistinct'
  BY <1>2, <1>3, <1>5, <1>7 DEF LobbyInv, SeatsAreDistinct, Seated
<1>10. JoinsAreDistinct'
  BY <1>3, <1>5, <1>6, <1>7 DEF LobbyInv, JoinsAreDistinct, Seated
<1>11. HostIsEarliest'
  BY <1>3, <1>5, <1>6, <1>7, <1>8 DEF LobbyInv, HostIsEarliest, Seated
<1>12. OpenRoomsAreOccupied' /\ MatchSeatsItsRoom'
  BY <1>3, <1>5, <1>8 DEF LobbyInv, OpenRoomsAreOccupied, MatchSeatsItsRoom
<1>13. QED
  BY <1>4, <1>9, <1>10, <1>11, <1>12 DEF LobbyInv

LEMMA LeaveKeeps ==
  ASSUME LobbyInv, NEW u \in Users, NEW r \in Rooms, Leave(u, r)
  PROVE  LobbyInv'
<1> DEFINE rest == Members(r) \ {u}
           heir == Earliest(row[r], rest)
<1>1. rest \in SUBSET Users /\ row[r] \in [Users -> MemberRow]
  BY DEF LobbyInv, TypeOK, Members, MembersOf
<1>2. rest # {} => heir \in rest /\ \A v \in rest : row[r][heir].joined <= row[r][v].joined
  BY <1>1, EarliestIsFirst
<1>3. /\ row'[r][u] = NoRow
      /\ \A v \in Users \ {u} : row'[r][v] = row[r][v]
      /\ \A q \in Rooms \ {r} : row'[q] = row[q] /\ room'[q] = room[q]
      /\ match' = match
      /\ room'[r].state = IF rest = {} THEN "closed" ELSE room[r].state
      /\ room'[r].host = IF rest # {} /\ room[r].host = u THEN heir ELSE room[r].host
      /\ room'[r].mode = room[r].mode
  BY DEF Leave, LobbyInv, TypeOK, RoomRow
<1>4. Members(r)' = rest /\ \A q \in Rooms \ {r} : Members(q)' = Members(q)
  BY <1>3 DEF Members, MembersOf, NoRow
<1> HIDE DEF heir
<1>5. TypeOK'
  <2>1. row' \in [Rooms -> [Users -> MemberRow]]
    BY MaxJoinsAssumption DEF Leave, LobbyInv, TypeOK, MemberRow, NoRow
  <2>2. room' \in [Rooms -> RoomRow]
    <3>1. room[r] \in RoomRow
      BY DEF LobbyInv, TypeOK
    <3>2. [room[r] EXCEPT !.state = IF rest = {} THEN "closed" ELSE @,
                          !.host = IF rest # {} /\ @ = u THEN heir ELSE @] \in RoomRow
      BY <3>1, <1>1, <1>2 DEF RoomRow
    <3>3. QED
      BY <3>2 DEF Leave, LobbyInv, TypeOK, heir
  <2>3. QED
    BY <2>1, <2>2, <1>3 DEF LobbyInv, TypeOK
<1>6. \A v \in rest : v \in Users \ {u} /\ row'[r][v] = row[r][v]
  BY <1>1, <1>3
<1>7. \A v, x \in rest : /\ row[r][v].joined \in Nat
                         /\ row[r][v].joined = row[r][x].joined => v = x
  BY <1>1, MaxJoinsAssumption DEF LobbyInv, JoinsAreDistinct, MemberRow
<1> HIDE DEF rest
<1>8. rest \subseteq Members(r) /\ (u \notin rest) /\ u \in Members(r)
  BY DEF rest, Leave
<1>9. SeatsAreDistinct' /\ JoinsAreDistinct'
  BY <1>3, <1>4, <1>6, <1>8 DEF LobbyInv, SeatsAreDistinct, JoinsAreDistinct
<1>10. HostIsEarliest'
  <2>1. ASSUME rest # {}
        PROVE  /\ room'[r].host \in rest
               /\ \A v \in rest : v # room'[r].host => row'[r][room'[r].host].joined < row'[r][v].joined
    <3>1. CASE room[r].host = u
      BY <1>2, <1>3, <1>6, <1>7, <2>1, <3>1
    <3>2. CASE room[r].host # u
      <4>1. room[r].host \in rest
        BY <1>8, <3>2 DEF LobbyInv, HostIsEarliest, rest
      <4>2. QED
        BY <1>3, <1>6, <1>8, <3>2, <4>1 DEF LobbyInv, HostIsEarliest
    <3>3. QED
      BY <3>1, <3>2
  <2>2. QED
    BY <2>1, <1>3, <1>4 DEF LobbyInv, HostIsEarliest
<1>11. OpenRoomsAreOccupied'
  BY <1>3, <1>4, <1>8 DEF LobbyInv, OpenRoomsAreOccupied
<1>12. MatchSeatsItsRoom'
  BY <1>3, <1>4, <1>6, <1>8 DEF LobbyInv, MatchSeatsItsRoom
<1>13. QED
  BY <1>5, <1>9, <1>10, <1>11, <1>12 DEF LobbyInv

LEMMA SetReadyKeeps ==
  ASSUME LobbyInv, NEW u \in Users, NEW r \in Rooms, NEW b \in BOOLEAN, SetReady(u, r, b)
  PROVE  LobbyInv'
<1>1. TypeOK'
  <2>1. row[r][u] \in MemberRow
    BY DEF LobbyInv, TypeOK
  <2>2. [row[r][u] EXCEPT !.ready = b] \in MemberRow
    BY <2>1 DEF MemberRow
  <2>3. QED
    BY <2>2 DEF SetReady, LobbyInv, TypeOK
<1>2. /\ \A q \in Rooms, v \in Users : /\ row'[q][v].seat = row[q][v].seat
                                       /\ row'[q][v].joined = row[q][v].joined
      /\ room' = room
      /\ match' = match
  BY DEF SetReady, LobbyInv, TypeOK, MemberRow
<1>3. \A q \in Rooms : Members(q)' = Members(q)
  BY <1>2 DEF Members, MembersOf
<1>4. \A q \in Rooms : \A v \in Members(q) : v \in Users
  BY DEF Members, MembersOf
<1>5. SeatsAreDistinct' /\ JoinsAreDistinct'
  BY <1>2, <1>3, <1>4 DEF LobbyInv, SeatsAreDistinct, JoinsAreDistinct
<1>6. HostIsEarliest'
  BY <1>2, <1>3, <1>4 DEF LobbyInv, HostIsEarliest
<1>7. OpenRoomsAreOccupied' /\ MatchSeatsItsRoom'
  BY <1>2, <1>3, <1>4 DEF LobbyInv, OpenRoomsAreOccupied, MatchSeatsItsRoom
<1>8. QED
  BY <1>1, <1>5, <1>6, <1>7 DEF LobbyInv

LEMMA StartKeeps ==
  ASSUME LobbyInv, NEW u \in Users, NEW r \in Rooms, Start(u, r)
  PROVE  LobbyInv'
<1> DEFINE sides == BuildMatchSides(row[r])
<1>1. /\ row[r] \in [Users -> MemberRow]
      /\ room[r].mode \in Modes
      /\ WellSeated(row[r], room[r].mode)
      /\ Cardinality(MembersOf(row[r])) = Capacity(room[r].mode)
  BY DEF Start, LobbyInv, TypeOK, RoomRow, SeatsAreDistinct, WellSeated, Members
<1>2. /\ sides \in Sides
      /\ \A s \in Seats : sides[s] \in Users <=> s <= Capacity(room[r].mode)
      /\ \A s, t \in Seats : sides[s] \in Users /\ sides[s] = sides[t] => s = t
      /\ \A v \in MembersOf(row[r]) : sides[row[r][v].seat] = v
  BY <1>1, SidesOfFullRoom
<1> HIDE DEF sides
<1>3. /\ match'[r] = sides
      /\ \A q \in Rooms \ {r} : match'[q] = match[q] /\ room'[q] = room[q]
      /\ room'[r].state = "closed" /\ room'[r].mode = room[r].mode /\ room'[r].host = room[r].host
      /\ row' = row
  BY DEF Start, LobbyInv, TypeOK, RoomRow, sides
<1>4. TypeOK'
  BY <1>2 DEF Start, LobbyInv, TypeOK, RoomRow, sides
<1>5. \A q \in Rooms : Members(q)' = Members(q)
  BY <1>3 DEF Members
<1>6. \A q \in Rooms : room'[q].mode = room[q].mode /\ room'[q].host = room[q].host
  BY <1>3
<1>7. SeatsAreDistinct' /\ JoinsAreDistinct'
  BY <1>3, <1>5, <1>6 DEF LobbyInv, SeatsAreDistinct, JoinsAreDistinct
<1>8. HostIsEarliest' /\ OpenRoomsAreOccupied'
  BY <1>3, <1>5, <1>6 DEF LobbyInv, HostIsEarliest, OpenRoomsAreOccupied
<1>9. MatchSeatsItsRoom'
  BY <1>2, <1>3, <1>5 DEF LobbyInv, MatchSeatsItsRoom, Members
<1>10. QED
  BY <1>4, <1>7, <1>8, <1>9 DEF LobbyInv

LEMMA LobbyNext == LobbyInv /\ [Next]_vars => LobbyInv'
<1> SUFFICES ASSUME LobbyInv, [Next]_vars PROVE LobbyInv'
  OBVIOUS
<1>1. CASE Next
  BY <1>1, CreateKeeps, JoinKeeps, LeaveKeeps, SetReadyKeeps, StartKeeps DEF Next
<1>2. CASE UNCHANGED vars
  BY <1>2 DEF vars, LobbyInv, TypeOK, SeatsAreDistinct, JoinsAreDistinct, HostIsEarliest,
     OpenRoomsAreOccupied, MatchSeatsItsRoom, Members
<1>3. QED
  BY <1>1, <1>2

\* The visible rows always satisfy every invariant of the lobby at once.
THEOREM LobbyInvariant == Spec => []LobbyInv
<1>1. QED
  BY LobbyInit, LobbyNext, PTL DEF Spec
=============================================================================
