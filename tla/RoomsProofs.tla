----------------------------- MODULE RoomsProofs -----------------------------
(***************************************************************************)
(* The transactions of Rooms implement RoomLobby, for any numbers of       *)
(* rooms, users and concurrent requests.                                   *)
(***************************************************************************)
EXTENDS Rooms, TLAPS

P == INSTANCE RoomLobbyProofs

Joining == {"joinInsert", "joinCommit"}
Leaving == {"leaveSelect", "leaveCommit"}
Starting == {"startSelect", "startCommit"}

\* A worker inside its transaction holds the lock of its room, and the room row
\* it read is still the committed one.
HoldsItsRoom(w) ==
  pc[w] \in Locked =>
    /\ tx[w].user \in Users
    /\ tx[w].at \in Rooms
    /\ lock[tx[w].at] = w
    /\ tx[w].room = room[tx[w].at]
    /\ room[tx[w].at].state # "none"

\* The seat a join has chosen stays the first free one until it commits.
JoinIsCurrent(w) ==
  LET r == tx[w].at
      free == FreeSeats(row[r], room[r].mode)
  IN
  /\ pc[w] # "conflict"
  /\ pc[w] = "joinSelect" => room[r].state = "open"
  /\ pc[w] \in Joining =>
       /\ room[r].state = "open"
       /\ row[r][tx[w].user].seat = 0
       /\ tx[w].seat \in free
       /\ \A s \in free : tx[w].seat <= s
  /\ pc[w] = "joinCommit" =>
       /\ tx[w].joined \in 1 .. clock
       /\ \A v \in Users : row[r][v].seat # 0 => row[r][v].joined < tx[w].joined

\* What a leave has decided about the host and the room's state stays right.
LeaveIsCurrent(w) ==
  LET r == tx[w].at
      u == tx[w].user
      rest == MembersOf(row[r]) \ {u}
  IN
  /\ pc[w] \in Leaving => row[r][u].seat # 0
  /\ pc[w] = "leaveCommit" =>
       /\ tx[w].closes <=> rest = {}
       /\ IF rest # {} /\ room[r].host = u
          THEN /\ tx[w].host \in rest
               /\ \A v \in rest : row[r][tx[w].host].joined <= row[r][v].joined
          ELSE tx[w].host = NoUser

\* So does what a start has read of the members, their ready flags excepted.
StartIsCurrent(w) ==
  LET r == tx[w].at IN
  /\ pc[w] \in Starting => room[r].state = "open" /\ room[r].host = tx[w].user
  /\ pc[w] = "startCommit" =>
       /\ Cardinality(MembersOf(row[r])) = Capacity(room[r].mode)
       /\ \A s \in Seats :
            IF \E v \in Users : row[r][v].seat = s
            THEN tx[w].sides[s] \in Users /\ row[r][tx[w].sides[s]].seat = s
            ELSE tx[w].sides[s] = NoUser

\* A room being created is still invisible.
CreateIsCurrent(w) ==
  /\ pc[w] \in Creating =>
       /\ tx[w].user \in Users
       /\ tx[w].at \in Rooms
       /\ room[tx[w].at].state = "none"
       /\ tx[w].room.state = "open"
       /\ tx[w].room.host = tx[w].user
  /\ pc[w] = "createCommit" =>
       /\ tx[w].seat = 1
       /\ tx[w].joined \in 1 .. clock

LocalInv(w) ==
  /\ HoldsItsRoom(w)
  /\ JoinIsCurrent(w)
  /\ LeaveIsCurrent(w)
  /\ StartIsCurrent(w)
  /\ CreateIsCurrent(w)

\* A lock is held by a worker inside its transaction on that room.
LocksAreOwned ==
  \A r \in Rooms : lock[r] # NoWorker => pc[lock[r]] \in Locked /\ tx[lock[r]].at = r

\* Two Creates never insert the same id, nor the same code.
CreatesAreApart ==
  \A w \in Workers :
    /\ pc[w] \in Creating =>
         \A v \in Workers \ {w} : pc[v] \in Creating => tx[v].at # tx[w].at
    /\ pc[w] = "createCommit" /\ tx[w].room.code # NoCode =>
         /\ \A q \in Rooms : room[q].code # tx[w].room.code
         /\ \A v \in Workers \ {w} : pc[v] = "createCommit" => tx[v].room.code # tx[w].room.code

\* No member joined later than the clock reads.
ClockIsAhead == \A r \in Rooms, u \in Users : row[r][u].joined <= clock

\* A match waits for at most one StartActor, and has not had it.
SpawnsAreApart ==
  /\ \A r \in actors : match[r] # NoMatch
  /\ \A w \in Workers : pc[w] = "spawn" =>
       /\ tx[w].at \in Rooms
       /\ match[tx[w].at] # NoMatch
       /\ tx[w].at \notin actors
       /\ \A v \in Workers \ {w} : pc[v] = "spawn" => tx[v].at # tx[w].at

RoomsInv ==
  /\ TypeOK
  /\ P!LobbyInv
  /\ \A w \in Workers : LocalInv(w)
  /\ LocksAreOwned
  /\ CreatesAreApart
  /\ ClockIsAhead
  /\ SpawnsAreApart

-----------------------------------------------------------------------------
(* RoomLobby's definitions, reached through the two instances, are the ones *)
(* this module inherits from RoomModel.                                     *)

LEMMA SameModel ==
  /\ \A m : P!Capacity(m) = Capacity(m)
  /\ \A rows : P!MembersOf(rows) = MembersOf(rows) /\ P!BuildMatchSides(rows) = BuildMatchSides(rows)
  /\ \A rows, m : /\ P!FreeSeats(rows, m) = FreeSeats(rows, m)
                  /\ P!FirstFreeSeat(rows, m) = FirstFreeSeat(rows, m)
  /\ \A rows, S : P!Earliest(rows, S) = Earliest(rows, S)
  /\ \A s, t : /\ P!Seated(s, t) = [seat |-> s, ready |-> FALSE, joined |-> t]
               /\ Lobby!Seated(s, t) = [seat |-> s, ready |-> FALSE, joined |-> t]
  /\ P!NoRow = NoRow
  /\ P!NoMatch = NoMatch
  /\ P!Seats = Seats
<1>1. \A m : P!Capacity(m) = Capacity(m)
  BY DEF P!Capacity, Capacity
<1>2. \A rows : P!MembersOf(rows) = MembersOf(rows)
  BY DEF P!MembersOf, MembersOf
<1>3. \A rows : P!BuildMatchSides(rows) = BuildMatchSides(rows)
  BY DEF P!BuildMatchSides, BuildMatchSides, P!Seats, Seats
<1>4. \A rows, m : P!FreeSeats(rows, m) = FreeSeats(rows, m)
  BY <1>1 DEF P!FreeSeats, FreeSeats
<1>5. \A rows, m : P!FirstFreeSeat(rows, m) = FirstFreeSeat(rows, m)
  BY <1>4 DEF P!FirstFreeSeat, FirstFreeSeat
<1>6. \A rows, S : P!Earliest(rows, S) = Earliest(rows, S)
  BY DEF P!Earliest, Earliest
<1>7. /\ P!NoRow = NoRow
      /\ P!NoMatch = NoMatch
      /\ P!Seats = Seats
      /\ \A s, t : /\ P!Seated(s, t) = [seat |-> s, ready |-> FALSE, joined |-> t]
                   /\ Lobby!Seated(s, t) = [seat |-> s, ready |-> FALSE, joined |-> t]
  BY DEF P!NoRow, NoRow, P!NoMatch, NoMatch, P!Seats, Seats, P!Seated, Lobby!Seated
<1>8. QED
  BY <1>1, <1>2, <1>3, <1>4, <1>5, <1>6, <1>7

LEMMA SameCardinality == \A S : P!Cardinality(S) = Cardinality(S)
BY DEF P!Cardinality, Cardinality

\* So are the lemmas about them.
LEMMA ModelAssumptions ==
  /\ P!IsFiniteSet(Users) /\ NoUser \notin Users /\ NoCode \notin Codes /\ MaxJoins \in Nat
BY UsersAssumption, CodesAssumption, MaxJoinsAssumption DEF P!IsFiniteSet, IsFiniteSet

LEMMA EarliestIsFirst ==
  ASSUME NEW rows \in [Users -> MemberRow],
         NEW S \in SUBSET Users, S # {}
  PROVE  /\ Earliest(rows, S) \in S
         /\ \A v \in S : rows[Earliest(rows, S)].joined <= rows[v].joined
<1>1. rows \in [Users -> P!MemberRow]
  BY DEF P!MemberRow, MemberRow
<1>2. /\ P!Earliest(rows, S) \in S
      /\ \A v \in S : rows[P!Earliest(rows, S)].joined <= rows[v].joined
  BY <1>1, P!EarliestIsFirst, ModelAssumptions
<1>3. QED
  BY <1>2, SameModel

LEMMA FirstFreeSeatIsLeast ==
  ASSUME NEW rows, NEW m \in Modes, FreeSeats(rows, m) # {}
  PROVE  /\ FirstFreeSeat(rows, m) \in FreeSeats(rows, m)
         /\ \A t \in FreeSeats(rows, m) : FirstFreeSeat(rows, m) <= t
<1>1. m \in P!Modes /\ P!FreeSeats(rows, m) # {}
  BY SameModel DEF P!Modes, Modes
<1>2. P!FirstFreeSeat(rows, m) \in P!FreeSeats(rows, m)
  BY <1>1, P!FirstFreeSeatIsFree, ModelAssumptions
<1>3. \A t \in P!FreeSeats(rows, m) : P!FirstFreeSeat(rows, m) <= t
  BY <1>1, P!FirstFreeSeatIsLeast, ModelAssumptions
<1>4. QED
  BY <1>2, <1>3, SameModel

\* The members of a room sit in different seats of its mode.
WellSeated(rows, m) ==
  \A u, v \in MembersOf(rows) :
    /\ rows[u].seat <= Capacity(m)
    /\ rows[u].seat = rows[v].seat => u = v

LEMMA SidesOfFullRoom ==
  ASSUME NEW rows \in [Users -> MemberRow], NEW m \in Modes,
         WellSeated(rows, m),
         Cardinality(MembersOf(rows)) = Capacity(m)
  PROVE  \A s \in Seats : BuildMatchSides(rows)[s] \in Users <=> s <= Capacity(m)
<1>1. rows \in [Users -> P!MemberRow] /\ m \in P!Modes
  BY DEF P!MemberRow, MemberRow, P!Modes, Modes
<1>2. P!WellSeated(rows, m)
  BY SameModel DEF P!WellSeated, WellSeated
<1>3. P!Cardinality(P!MembersOf(rows)) = P!Capacity(m)
  BY SameModel, SameCardinality
<1>4. \A s \in P!Seats : P!BuildMatchSides(rows)[s] \in Users <=> s <= P!Capacity(m)
  BY <1>1, <1>2, <1>3, P!SidesOfFullRoom, ModelAssumptions
<1>5. QED
  BY <1>4, SameModel

\* The lobby's invariant, with the assumptions of its module discharged.
LEMMA LobbyHolds ==
  /\ P!Init => P!LobbyInv
  /\ P!LobbyInv /\ [P!Next]_lobbyVars => P!LobbyInv'
<1>1. P!IsFiniteSet(Users)
  BY UsersAssumption DEF P!IsFiniteSet, IsFiniteSet
<1>2. P!Init => P!LobbyInv
  BY <1>1, P!LobbyInit, UsersAssumption, CodesAssumption, MaxJoinsAssumption
<1>3. P!LobbyInv /\ [P!Next]_(P!vars) => P!LobbyInv'
  BY <1>1, P!LobbyNext, UsersAssumption, CodesAssumption, MaxJoinsAssumption
<1>4. QED
  BY <1>2, <1>3 DEF P!vars, lobbyVars

-----------------------------------------------------------------------------
(* The initial state                                                       *)

LEMMA RoomsInit == Init => RoomsInv
<1> SUFFICES ASSUME Init PROVE RoomsInv
  OBVIOUS
<1>1. P!Init
  BY DEF Init, Lobby!Init, P!Init, Lobby!NoRoomRow, P!NoRoomRow, Lobby!NoRow, P!NoRow,
     Lobby!NoMatch, P!NoMatch, Lobby!Seats, P!Seats
<1>2. P!LobbyInv
  BY <1>1, LobbyHolds
<1>3. NoTx \in Tx
  BY MaxJoinsAssumption
     DEF NoTx, Tx, NoRoomRow, RoomRow, Modes, NoMatch, Sides
<1>4. Lobby!TypeOK
  BY <1>2 DEF P!LobbyInv, P!TypeOK, Lobby!TypeOK, P!RoomRow, Lobby!RoomRow, P!Modes, Lobby!Modes,
     P!MemberRow, Lobby!MemberRow, P!Sides, Lobby!Sides, P!Seats, Lobby!Seats
<1>5. TypeOK
  BY <1>3, <1>4, MaxJoinsAssumption DEF Init, TypeOK, Phases
<1>6. \A w \in Workers : LocalInv(w)
  BY DEF Init, LocalInv, HoldsItsRoom, JoinIsCurrent, LeaveIsCurrent, StartIsCurrent,
     CreateIsCurrent, Joining, Leaving, Starting, Creating, Locked
<1>7. LocksAreOwned /\ CreatesAreApart /\ SpawnsAreApart
  BY DEF Init, LocksAreOwned, CreatesAreApart, SpawnsAreApart, Creating
<1>8. ClockIsAhead
  BY DEF Init, Lobby!Init, Lobby!NoRow, ClockIsAhead
<1>9. QED
  BY <1>2, <1>5, <1>6, <1>7, <1>8 DEF RoomsInv

-----------------------------------------------------------------------------
(* What an action leaves alone stays current                               *)

\* The types of the rows, in the vocabulary of this module.
LEMMA RowTypes ==
  TypeOK <=> /\ room \in [Rooms -> RoomRow]
             /\ row \in [Rooms -> [Users -> MemberRow]]
             /\ match \in [Rooms -> Sides]
             /\ lock \in [Rooms -> Workers \cup {NoWorker}]
             /\ clock \in 0 .. MaxJoins
             /\ pc \in [Workers -> Phases]
             /\ tx \in [Workers -> Tx]
             /\ actors \subseteq Rooms
BY DEF TypeOK, Lobby!TypeOK, Lobby!RoomRow, RoomRow, Lobby!Modes, Modes, Lobby!MemberRow, MemberRow,
   Lobby!Sides, Sides, Lobby!Seats, Seats

LEMMA RowTypesNext ==
  TypeOK' <=> /\ room' \in [Rooms -> RoomRow]
              /\ row' \in [Rooms -> [Users -> MemberRow]]
              /\ match' \in [Rooms -> Sides]
              /\ lock' \in [Rooms -> Workers \cup {NoWorker}]
              /\ clock' \in 0 .. MaxJoins
              /\ pc' \in [Workers -> Phases]
              /\ tx' \in [Workers -> Tx]
              /\ actors' \subseteq Rooms
BY DEF TypeOK, Lobby!TypeOK, Lobby!RoomRow, RoomRow, Lobby!Modes, Modes, Lobby!MemberRow, MemberRow,
   Lobby!Sides, Sides, Lobby!Seats, Seats

\* The seats and joining times of room r are the same after the step.
SameSeating(r) ==
  \A u \in Users : row'[r][u].seat = row[r][u].seat /\ row'[r][u].joined = row[r][u].joined

\* The step moves no worker but w, and changes no room and no lock but r's.
OnlyMoves(w) == \A v \in Workers \ {w} : pc'[v] = pc[v] /\ tx'[v] = tx[v]

OnlyTouches(r) ==
  \A q \in Rooms \ {r} : room'[q] = room[q] /\ SameSeating(q) /\ lock'[q] = lock[q]

\* No transaction but w's is in progress on room r.
Alone(w, r) ==
  \A v \in Workers \ {w} : pc[v] \in Locked \cup Creating => tx[v].at # r

\* If a worker does not move, and its room's row and seating do not change, all
\* that its transaction has read and decided remains valid.
LEMMA Frame ==
  ASSUME NEW v \in Workers, LocalInv(v), clock \in Nat, clock' \in Nat, clock <= clock',
         pc'[v] = pc[v], tx'[v] = tx[v],
         pc[v] \in Locked => lock'[tx[v].at] = v,
         pc[v] \in Locked \cup Creating =>
           room'[tx[v].at] = room[tx[v].at] /\ SameSeating(tx[v].at)
  PROVE  LocalInv(v)'
<1> DEFINE r == tx[v].at
<1>1. SameSeating(r) => /\ MembersOf(row[r])' = MembersOf(row[r])
                        /\ \A m : FreeSeats(row'[r], m) = FreeSeats(row[r], m)
  BY DEF SameSeating, MembersOf, FreeSeats
<1>2. HoldsItsRoom(v)'
  BY DEF LocalInv, HoldsItsRoom
<1>3. CreateIsCurrent(v)'
  BY DEF LocalInv, CreateIsCurrent, Creating
<1>4. JoinIsCurrent(v)'
  BY <1>1 DEF LocalInv, JoinIsCurrent, HoldsItsRoom, SameSeating, Joining, Locked
<1>5. LeaveIsCurrent(v)'
  BY <1>1 DEF LocalInv, LeaveIsCurrent, HoldsItsRoom, SameSeating, Leaving, Locked, MembersOf
<1>6. StartIsCurrent(v)'
  BY <1>1 DEF LocalInv, StartIsCurrent, HoldsItsRoom, SameSeating, Starting, Locked
<1>7. QED
  BY <1>2, <1>3, <1>4, <1>5, <1>6 DEF LocalInv

\* Two transactions in progress concern different rooms.
LEMMA TransactionsAreApart ==
  ASSUME RoomsInv, NEW w \in Workers, NEW v \in Workers \ {w},
         pc[w] \in Locked \cup Creating, pc[v] \in Locked \cup Creating
  PROVE  tx[v].at # tx[w].at
<1>1. LocalInv(w) /\ LocalInv(v) /\ CreatesAreApart
  BY DEF RoomsInv
<1>2. CASE pc[w] \in Locked /\ pc[v] \in Locked
  BY <1>1, <1>2 DEF LocalInv, HoldsItsRoom
<1>3. CASE pc[w] \in Locked /\ pc[v] \in Creating
  BY <1>1, <1>3 DEF LocalInv, HoldsItsRoom, CreateIsCurrent
<1>4. CASE pc[w] \in Creating /\ pc[v] \in Locked
  BY <1>1, <1>4 DEF LocalInv, HoldsItsRoom, CreateIsCurrent
<1>5. CASE pc[w] \in Creating /\ pc[v] \in Creating
  BY <1>1, <1>5 DEF LocalInv, CreateIsCurrent, CreatesAreApart
<1>6. QED
  BY <1>2, <1>3, <1>4, <1>5

LEMMA TransactionIsAlone ==
  ASSUME RoomsInv, NEW w \in Workers, pc[w] \in Locked \cup Creating
  PROVE  tx[w].at \in Rooms /\ tx[w].user \in Users /\ Alone(w, tx[w].at)
<1>1. tx[w].at \in Rooms /\ tx[w].user \in Users
  BY DEF RoomsInv, LocalInv, HoldsItsRoom, CreateIsCurrent
<1>2. QED
  BY <1>1, TransactionsAreApart DEF Alone

\* A step of worker w that touches no room but r, where no other transaction is
\* in progress, leaves every other worker's decisions current.
LEMMA OthersKeep ==
  ASSUME RoomsInv, NEW w \in Workers, NEW r \in Rooms,
         clock' \in Nat, clock <= clock', OnlyMoves(w), OnlyTouches(r), Alone(w, r)
  PROVE  \A v \in Workers \ {w} : LocalInv(v)'
<1> SUFFICES ASSUME NEW v \in Workers \ {w} PROVE LocalInv(v)'
  OBVIOUS
<1>1. LocalInv(v) /\ clock \in Nat
  BY RowTypes DEF RoomsInv
<1>2. pc[v] \in Locked => tx[v].at \in Rooms \ {r} /\ lock[tx[v].at] = v
  BY <1>1 DEF LocalInv, HoldsItsRoom, Alone
<1>3. pc[v] \in Creating => tx[v].at \in Rooms \ {r}
  BY <1>1 DEF LocalInv, CreateIsCurrent, Alone
<1>4. QED
  BY <1>1, <1>2, <1>3, Frame DEF OnlyMoves, OnlyTouches

\* The end of a transaction, whatever it committed.
LEMMA EndTxKeeps ==
  ASSUME RoomsInv, NEW w \in Workers, EndTx(w), clock' = clock
  PROVE  /\ lock' \in [Rooms -> Workers \cup {NoWorker}]
         /\ pc' \in [Workers -> Phases]
         /\ tx' \in [Workers -> Tx]
         /\ LocalInv(w)'
         /\ LocksAreOwned'
         /\ pc'[w] = "idle" /\ tx'[w] = NoTx
         /\ OnlyMoves(w)
         /\ \A q \in Rooms : q # tx[w].at => lock'[q] = lock[q]
<1>1. NoTx \in Tx
  BY MaxJoinsAssumption
     DEF NoTx, Tx, NoRoomRow, RoomRow, Modes, NoMatch, Sides
<1>2. /\ pc' = [pc EXCEPT ![w] = "idle"]
      /\ tx' = [tx EXCEPT ![w] = NoTx]
      /\ lock' = [r \in Rooms |-> IF lock[r] = w THEN NoWorker ELSE lock[r]]
  BY DEF EndTx, Goto
<1>3. /\ pc \in [Workers -> Phases] /\ tx \in [Workers -> Tx]
      /\ lock \in [Rooms -> Workers \cup {NoWorker}]
  BY RowTypes DEF RoomsInv
<1>4. /\ pc'[w] = "idle" /\ tx'[w] = NoTx
      /\ \A v \in Workers \ {w} : pc'[v] = pc[v] /\ tx'[v] = tx[v]
  BY <1>2, <1>3
<1>5. LocalInv(w)'
  BY <1>4 DEF LocalInv, HoldsItsRoom, JoinIsCurrent, LeaveIsCurrent, StartIsCurrent,
     CreateIsCurrent, Joining, Leaving, Starting, Creating, Locked
<1>6. LocksAreOwned'
  <2> SUFFICES ASSUME NEW r \in Rooms, lock'[r] # NoWorker
               PROVE  pc'[lock'[r]] \in Locked /\ tx'[lock'[r]].at = r
    BY DEF LocksAreOwned
  <2>1. lock'[r] = lock[r] /\ lock[r] \in Workers \ {w}
    BY <1>2, <1>3
  <2>2. QED
    BY <1>4, <2>1 DEF RoomsInv, LocksAreOwned
<1>7. \A q \in Rooms : q # tx[w].at => lock'[q] = lock[q]
  BY <1>2, <1>3 DEF RoomsInv, LocksAreOwned
<1>8. QED
  BY <1>1, <1>2, <1>3, <1>4, <1>5, <1>6, <1>7 DEF Phases, OnlyMoves

\* A transaction that ends without committing.
LEMMA RollbackKeeps ==
  ASSUME RoomsInv, NEW w \in Workers, pc[w] \in Locked \cup Creating, EndTx(w),
         UNCHANGED <<lobbyVars, clock, actors>>
  PROVE  RoomsInv'
<1>1. P!LobbyInv'
  BY LobbyHolds DEF RoomsInv
<1>2. TypeOK'
  BY EndTxKeeps, RowTypes, RowTypesNext DEF RoomsInv, lobbyVars
<1>3. OnlyTouches(tx[w].at) /\ clock' \in Nat /\ clock <= clock'
  BY EndTxKeeps, RowTypes, MaxJoinsAssumption DEF RoomsInv, lobbyVars, SameSeating, OnlyTouches
<1>4. \A v \in Workers \ {w} : LocalInv(v)'
  BY <1>3, EndTxKeeps, TransactionIsAlone, OthersKeep
<1>5. CreatesAreApart' /\ SpawnsAreApart'
  BY EndTxKeeps DEF RoomsInv, CreatesAreApart, SpawnsAreApart, lobbyVars, Creating, OnlyMoves
<1>6. ClockIsAhead'
  BY DEF RoomsInv, ClockIsAhead, lobbyVars
<1>7. QED
  BY <1>1, <1>2, <1>4, <1>5, <1>6, EndTxKeeps DEF RoomsInv

-----------------------------------------------------------------------------
(* Statements inside a transaction                                         *)

\* w executes a statement inside its transaction and then knows t.
Advances(w, phase, t) ==
  /\ pc[w] \in Locked \cup Creating
  /\ phase \in Locked \cup Creating
  /\ pc[w] \in Locked <=> phase \in Locked
  /\ t \in Tx
  /\ t.at = tx[w].at
  /\ Goto(w, phase)
  /\ tx' = [tx EXCEPT ![w] = t]
  /\ clock' \in 0 .. MaxJoins
  /\ clock <= clock'
  /\ UNCHANGED <<lobbyVars, lock, actors>>

\* No other room has the code of the row t would insert, visibly or not.
CodeIsOwn(t) ==
  t.room.code # NoCode =>
    /\ \A q \in Rooms : room[q].code # t.room.code
    /\ \A v \in Workers : pc[v] = "createCommit" => tx[v].room.code # t.room.code

\* Such a statement keeps the invariant if what w then knows is current and the
\* code it inserts, if it inserts one, is its own.
LEMMA AdvanceKeeps ==
  ASSUME RoomsInv, NEW w \in Workers, NEW phase, NEW t, Advances(w, phase, t),
         LocalInv(w)',
         phase = "createCommit" => CodeIsOwn(t)
  PROVE  RoomsInv'
<1> USE DEF Advances
<1>1. P!LobbyInv'
  BY LobbyHolds DEF RoomsInv
<1>2. /\ pc' \in [Workers -> Phases] /\ pc'[w] = phase
      /\ tx' \in [Workers -> Tx] /\ tx'[w] = t
      /\ OnlyMoves(w)
  BY RowTypes DEF RoomsInv, Goto, Phases, OnlyMoves
<1>3. TypeOK'
  BY <1>2, RowTypes, RowTypesNext DEF RoomsInv, lobbyVars
<1>4. OnlyTouches(tx[w].at) /\ clock' \in Nat
  BY MaxJoinsAssumption DEF OnlyTouches, SameSeating, lobbyVars
<1>5. \A v \in Workers : LocalInv(v)'
  BY <1>2, <1>4, TransactionIsAlone, OthersKeep
<1>6. LocksAreOwned'
  <2> SUFFICES ASSUME NEW r \in Rooms, lock[r] # NoWorker
               PROVE  pc'[lock[r]] \in Locked /\ tx'[lock[r]].at = r
    BY DEF LocksAreOwned
  <2>1. lock[r] \in Workers /\ pc[lock[r]] \in Locked /\ tx[lock[r]].at = r
    BY RowTypes DEF RoomsInv, LocksAreOwned
  <2>2. CASE lock[r] = w
    BY <1>2, <2>1, <2>2
  <2>3. CASE lock[r] # w
    BY <1>2, <2>1, <2>3 DEF OnlyMoves
  <2>4. QED
    BY <2>2, <2>3
<1>7. CreatesAreApart'
  <2>1. phase \in Creating => pc[w] \in Creating
    BY DEF Locked, Creating
  <2>2. ASSUME NEW x \in Workers, NEW v \in Workers \ {x}, pc'[x] \in Creating, pc'[v] \in Creating
        PROVE  tx'[v].at # tx'[x].at
    BY <1>2, <2>1, <2>2 DEF RoomsInv, CreatesAreApart, OnlyMoves
  <2>3. ASSUME NEW x \in Workers, pc'[x] = "createCommit", tx'[x].room.code # NoCode
        PROVE  \A q \in Rooms : room'[q].code # tx'[x].room.code
    BY <1>2, <2>3 DEF RoomsInv, CreatesAreApart, OnlyMoves, lobbyVars, CodeIsOwn
  <2>4. ASSUME NEW x \in Workers, NEW v \in Workers \ {x},
               pc'[x] = "createCommit", tx'[x].room.code # NoCode, pc'[v] = "createCommit"
        PROVE  tx'[v].room.code # tx'[x].room.code
    BY <1>2, <2>4 DEF RoomsInv, CreatesAreApart, OnlyMoves, CodeIsOwn
  <2>5. QED
    BY <2>2, <2>3, <2>4 DEF CreatesAreApart
<1>8. ClockIsAhead'
  <2>1. \A r \in Rooms, u \in Users : row[r][u].joined \in Nat
    BY RowTypes, MaxJoinsAssumption DEF RoomsInv, MemberRow
  <2>2. clock \in Nat
    BY RowTypes, MaxJoinsAssumption DEF RoomsInv
  <2>3. QED
    BY <1>4, <2>1, <2>2 DEF RoomsInv, ClockIsAhead, lobbyVars
<1>9. SpawnsAreApart'
  BY <1>2 DEF RoomsInv, SpawnsAreApart, OnlyMoves, lobbyVars, Locked, Creating
<1>10. QED
  BY <1>1, <1>3, <1>5, <1>6, <1>7, <1>8, <1>9 DEF RoomsInv

\* What every action below needs to know of the worker that takes it.
LEMMA WorkerFacts ==
  ASSUME RoomsInv, NEW w \in Workers
  PROVE  /\ tx[w] \in Tx /\ clock \in 0 .. MaxJoins /\ clock \in Nat
         /\ pc \in [Workers -> Phases] /\ tx \in [Workers -> Tx]
         /\ LocalInv(w)
         /\ pc[w] \in Locked => /\ tx[w].at \in Rooms /\ tx[w].user \in Users
                                /\ tx[w].room = room[tx[w].at]
                                /\ room[tx[w].at] \in RoomRow
                                /\ room[tx[w].at].mode \in Modes
                                /\ row[tx[w].at] \in [Users -> MemberRow]
<1>1. LocalInv(w)
  BY DEF RoomsInv
<1>2. QED
  BY <1>1, RowTypes, MaxJoinsAssumption DEF RoomsInv, LocalInv, HoldsItsRoom, RoomRow

LEMMA JoinSelectKeeps ==
  ASSUME RoomsInv, NEW w \in Workers, JoinSelect(w)
  PROVE  RoomsInv'
<1> DEFINE r == tx[w].at
           m == room[r].mode
           s == FirstFreeSeat(row[r], m)
           t == [tx[w] EXCEPT !.seat = s]
<1>1. pc[w] = "joinSelect" /\ pc[w] \in Locked /\ "joinInsert" \in Locked
  BY DEF JoinSelect, Locked
<1>2. /\ tx[w] \in Tx /\ clock \in 0 .. MaxJoins /\ clock <= clock
      /\ pc \in [Workers -> Phases] /\ tx \in [Workers -> Tx]
      /\ LocalInv(w)
      /\ r \in Rooms /\ tx[w].user \in Users /\ tx[w].room = room[r] /\ m \in Modes
  BY <1>1, WorkerFacts
<1>3. /\ s \in FreeSeats(row[r], m)
      /\ \A f \in FreeSeats(row[r], m) : s <= f
  BY <1>2, FirstFreeSeatIsLeast DEF JoinSelect
<1>4. s \in 0 .. 4
  BY <1>3 DEF FreeSeats, Capacity
<1> HIDE DEF s
<1>5. t \in Tx /\ t.at = r /\ t.user = tx[w].user /\ t.room = tx[w].room /\ t.seat = s
  BY <1>2, <1>4 DEF Tx
<1>6. Goto(w, "joinInsert") /\ tx' = [tx EXCEPT ![w] = t] /\ UNCHANGED <<lobbyVars, lock, clock, actors>>
  BY <1>2 DEF JoinSelect, s
<1> HIDE DEF t
<1>7. pc'[w] = "joinInsert" /\ tx'[w] = t
  BY <1>2, <1>6 DEF Goto
<1>8. LocalInv(w)'
  <2>1. HoldsItsRoom(w)'
    BY <1>1, <1>2, <1>5, <1>6, <1>7 DEF LocalInv, HoldsItsRoom, lobbyVars
  <2>2. JoinIsCurrent(w)'
    BY <1>1, <1>2, <1>3, <1>5, <1>6, <1>7 DEF LocalInv, JoinIsCurrent, lobbyVars, Joining, JoinSelect, MembersOf
  <2>3. LeaveIsCurrent(w)' /\ StartIsCurrent(w)' /\ CreateIsCurrent(w)'
    BY <1>7 DEF LeaveIsCurrent, StartIsCurrent, CreateIsCurrent, Leaving, Starting, Creating
  <2>4. QED
    BY <2>1, <2>2, <2>3 DEF LocalInv
<1>9. Advances(w, "joinInsert", t)
  BY <1>1, <1>2, <1>5, <1>6 DEF Advances
<1>10. QED
  BY <1>8, <1>9, AdvanceKeeps

LEMMA JoinInsertKeeps ==
  ASSUME RoomsInv, NEW w \in Workers, JoinInsert(w)
  PROVE  RoomsInv'
<1> DEFINE r == tx[w].at
           t == [tx[w] EXCEPT !.joined = clock + 1]
<1>1. pc[w] = "joinInsert" /\ pc[w] \in Locked /\ "joinCommit" \in Locked
  BY DEF JoinInsert, Locked
<1>2. /\ tx[w] \in Tx /\ clock \in Nat
      /\ pc \in [Workers -> Phases] /\ tx \in [Workers -> Tx]
      /\ LocalInv(w)
      /\ r \in Rooms /\ tx[w].user \in Users /\ tx[w].room = room[r]
      /\ row[r] \in [Users -> MemberRow]
  BY <1>1, WorkerFacts
<1>3. /\ row[r][tx[w].user].seat = 0
      /\ \A v \in Users : row[r][v].seat # tx[w].seat
  BY <1>1, <1>2 DEF LocalInv, JoinIsCurrent, Joining, FreeSeats
<1>4. clock' = clock + 1 /\ clock' \in 0 .. MaxJoins /\ clock <= clock'
  BY <1>2, MaxJoinsAssumption DEF JoinInsert
<1>5. t \in Tx /\ t.at = r /\ t.user = tx[w].user /\ t.room = tx[w].room /\ t.seat = tx[w].seat /\ t.joined = clock'
  BY <1>2, <1>4 DEF Tx
<1>6. Goto(w, "joinCommit") /\ tx' = [tx EXCEPT ![w] = t] /\ UNCHANGED <<lobbyVars, lock, actors>>
  BY <1>2, <1>3 DEF JoinInsert
<1> HIDE DEF t
<1>7. pc'[w] = "joinCommit" /\ tx'[w] = t
  BY <1>2, <1>6 DEF Goto
<1>8. \A v \in Users : row[r][v].joined < clock'
  BY <1>2, <1>4, MaxJoinsAssumption DEF RoomsInv, ClockIsAhead, MemberRow
<1>9. LocalInv(w)'
  <2>1. HoldsItsRoom(w)'
    BY <1>1, <1>2, <1>5, <1>6, <1>7 DEF LocalInv, HoldsItsRoom, lobbyVars
  <2>2. JoinIsCurrent(w)'
    BY <1>1, <1>2, <1>4, <1>5, <1>6, <1>7, <1>8 DEF LocalInv, JoinIsCurrent, lobbyVars, Joining
  <2>3. LeaveIsCurrent(w)' /\ StartIsCurrent(w)' /\ CreateIsCurrent(w)'
    BY <1>7 DEF LeaveIsCurrent, StartIsCurrent, CreateIsCurrent, Leaving, Starting, Creating
  <2>4. QED
    BY <2>1, <2>2, <2>3 DEF LocalInv
<1>10. Advances(w, "joinCommit", t)
  BY <1>1, <1>4, <1>5, <1>6 DEF Advances
<1>11. QED
  BY <1>9, <1>10, AdvanceKeeps

LEMMA LeaveDeleteKeeps ==
  ASSUME RoomsInv, NEW w \in Workers, LeaveDelete(w)
  PROVE  RoomsInv'
<1>1. pc[w] = "leaveDelete" /\ pc[w] \in Locked /\ "leaveSelect" \in Locked
  BY DEF LeaveDelete, Locked
<1>2. /\ tx[w] \in Tx /\ clock \in 0 .. MaxJoins /\ clock <= clock
      /\ pc \in [Workers -> Phases] /\ tx \in [Workers -> Tx]
      /\ LocalInv(w)
  BY <1>1, WorkerFacts
<1>3. Goto(w, "leaveSelect") /\ tx' = [tx EXCEPT ![w] = tx[w]] /\ UNCHANGED <<lobbyVars, lock, clock, tx, actors>>
  BY <1>2 DEF LeaveDelete
<1>4. pc'[w] = "leaveSelect"
  BY <1>2, <1>3 DEF Goto
<1>5. LocalInv(w)'
  <2>1. HoldsItsRoom(w)'
    BY <1>1, <1>2, <1>3, <1>4 DEF LocalInv, HoldsItsRoom, lobbyVars
  <2>2. LeaveIsCurrent(w)'
    BY <1>2, <1>3, <1>4 DEF LeaveDelete, LeaveIsCurrent, Leaving, lobbyVars, Members, MembersOf
  <2>3. JoinIsCurrent(w)' /\ StartIsCurrent(w)' /\ CreateIsCurrent(w)'
    BY <1>4 DEF JoinIsCurrent, StartIsCurrent, CreateIsCurrent, Joining, Starting, Creating
  <2>4. QED
    BY <2>1, <2>2, <2>3 DEF LocalInv
<1>6. Advances(w, "leaveSelect", tx[w])
  BY <1>1, <1>2, <1>3 DEF Advances
<1>7. QED
  BY <1>5, <1>6, AdvanceKeeps

LEMMA LeaveSelectKeeps ==
  ASSUME RoomsInv, NEW w \in Workers, LeaveSelect(w)
  PROVE  RoomsInv'
<1> DEFINE r == tx[w].at
           u == tx[w].user
           rest == MembersOf(row[r]) \ {u}
           closes == rest = {}
           heir == IF rest # {} /\ room[r].host = u THEN Earliest(row[r], rest) ELSE NoUser
           t == [tx[w] EXCEPT !.closes = closes, !.host = heir]
<1>1. pc[w] = "leaveSelect" /\ pc[w] \in Locked /\ "leaveCommit" \in Locked
  BY DEF LeaveSelect, Locked
<1>2. /\ tx[w] \in Tx /\ clock \in 0 .. MaxJoins /\ clock <= clock
      /\ pc \in [Workers -> Phases] /\ tx \in [Workers -> Tx]
      /\ LocalInv(w)
      /\ r \in Rooms /\ u \in Users /\ tx[w].room = room[r]
      /\ row[r] \in [Users -> MemberRow]
  BY <1>1, WorkerFacts
<1>3. rest \in SUBSET Users
  BY DEF MembersOf
<1>4. rest # {} => /\ Earliest(row[r], rest) \in rest
                   /\ \A v \in rest : row[r][Earliest(row[r], rest)].joined <= row[r][v].joined
  BY <1>2, <1>3, EarliestIsFirst
<1>5. heir \in Users \cup {NoUser} /\ closes \in BOOLEAN
  BY <1>3, <1>4
<1>6. UNCHANGED <<lobbyVars, lock, clock, actors>> /\ Goto(w, "leaveCommit")
      /\ tx' = [tx EXCEPT ![w] = t]
  BY <1>2 DEF LeaveSelect
<1>7. IF rest # {} /\ room[r].host = u
      THEN heir \in rest /\ \A v \in rest : row[r][heir].joined <= row[r][v].joined
      ELSE heir = NoUser
  BY <1>4
<1> HIDE DEF heir, closes
<1>8. t \in Tx /\ t.at = r /\ t.user = u /\ t.room = tx[w].room /\ t.closes = closes /\ t.host = heir
  BY <1>2, <1>5 DEF Tx
<1> HIDE DEF t
<1>9. pc'[w] = "leaveCommit" /\ tx'[w] = t
  BY <1>2, <1>6 DEF Goto
<1>10. LocalInv(w)'
  <2>1. HoldsItsRoom(w)'
    BY <1>1, <1>2, <1>6, <1>8, <1>9 DEF LocalInv, HoldsItsRoom, lobbyVars
  <2>2. LeaveIsCurrent(w)'
    BY <1>1, <1>2, <1>6, <1>7, <1>8, <1>9 DEF LocalInv, LeaveIsCurrent, Leaving, lobbyVars, closes
  <2>3. JoinIsCurrent(w)' /\ StartIsCurrent(w)' /\ CreateIsCurrent(w)'
    BY <1>9 DEF JoinIsCurrent, StartIsCurrent, CreateIsCurrent, Joining, Starting, Creating
  <2>4. QED
    BY <2>1, <2>2, <2>3 DEF LocalInv
<1>11. Advances(w, "leaveCommit", t)
  BY <1>1, <1>2, <1>6, <1>8 DEF Advances
<1>12. QED
  BY <1>10, <1>11, AdvanceKeeps

LEMMA StartSelectKeeps ==
  ASSUME RoomsInv, NEW w \in Workers, StartSelect(w)
  PROVE  RoomsInv'
<1> DEFINE r == tx[w].at
           sides == BuildMatchSides(row[r])
           t == [tx[w] EXCEPT !.sides = sides, !.closes = TRUE]
<1>1. pc[w] = "startSelect" /\ pc[w] \in Locked /\ "startCommit" \in Locked
  BY DEF StartSelect, Locked
<1>2. /\ tx[w] \in Tx /\ clock \in 0 .. MaxJoins /\ clock <= clock
      /\ pc \in [Workers -> Phases] /\ tx \in [Workers -> Tx]
      /\ LocalInv(w)
      /\ r \in Rooms /\ tx[w].user \in Users /\ tx[w].room = room[r]
  BY <1>1, WorkerFacts
<1>3. Cardinality(MembersOf(row[r])) = Capacity(room[r].mode)
  BY <1>2 DEF StartSelect
<1>4. /\ sides \in Sides
      /\ \A s \in Seats :
           IF \E v \in Users : row[r][v].seat = s
           THEN sides[s] \in Users /\ row[r][sides[s]].seat = s
           ELSE sides[s] = NoUser
  BY DEF BuildMatchSides, Sides
<1>5. UNCHANGED <<lobbyVars, lock, clock, actors>> /\ Goto(w, "startCommit")
      /\ tx' = [tx EXCEPT ![w] = t]
  BY <1>2 DEF StartSelect
<1> HIDE DEF sides
<1>6. t \in Tx /\ t.at = r /\ t.user = tx[w].user /\ t.room = tx[w].room /\ t.sides = sides
  BY <1>2, <1>4 DEF Tx
<1> HIDE DEF t
<1>7. pc'[w] = "startCommit" /\ tx'[w] = t
  BY <1>2, <1>5 DEF Goto
<1>8. LocalInv(w)'
  <2>1. HoldsItsRoom(w)'
    BY <1>1, <1>2, <1>5, <1>6, <1>7 DEF LocalInv, HoldsItsRoom, lobbyVars
  <2>2. StartIsCurrent(w)'
    BY <1>1, <1>2, <1>3, <1>4, <1>5, <1>6, <1>7 DEF LocalInv, StartIsCurrent, Starting, lobbyVars
  <2>3. JoinIsCurrent(w)' /\ LeaveIsCurrent(w)' /\ CreateIsCurrent(w)'
    BY <1>7 DEF JoinIsCurrent, LeaveIsCurrent, CreateIsCurrent, Joining, Leaving, Creating
  <2>4. QED
    BY <2>1, <2>2, <2>3 DEF LocalInv
<1>9. Advances(w, "startCommit", t)
  BY <1>1, <1>2, <1>5, <1>6 DEF Advances
<1>10. QED
  BY <1>8, <1>9, AdvanceKeeps

LEMMA CreateInsertKeeps ==
  ASSUME RoomsInv, NEW w \in Workers, NEW c \in Codes \cup {NoCode}, CreateInsert(w, c)
  PROVE  RoomsInv'
<1> DEFINE rec == [tx[w].room EXCEPT !.code = c]
           t == [tx[w] EXCEPT !.room = rec, !.seat = 1, !.joined = clock + 1]
<1>1. /\ pc[w] = "createInsert" /\ pc[w] \in Creating
      /\ "createCommit" \in Creating /\ pc[w] \notin Locked /\ "createCommit" \notin Locked
  BY DEF CreateInsert, Creating, Locked
<1>2. /\ tx[w] \in Tx /\ clock \in Nat
      /\ pc \in [Workers -> Phases] /\ tx \in [Workers -> Tx]
      /\ LocalInv(w)
  BY WorkerFacts
<1>3. clock' = clock + 1 /\ clock' \in 0 .. MaxJoins /\ clock <= clock' /\ clock' \in 1 .. clock'
  BY <1>2, MaxJoinsAssumption DEF CreateInsert
<1>4. tx[w].room \in RoomRow
  BY <1>2 DEF Tx
<1>5. rec \in RoomRow /\ rec.code = c /\ rec.state = tx[w].room.state /\ rec.host = tx[w].room.host
  BY <1>4 DEF RoomRow
<1>6. UNCHANGED <<lobbyVars, lock, actors>> /\ Goto(w, "createCommit")
      /\ tx' = [tx EXCEPT ![w] = t]
  BY <1>2, <1>3 DEF CreateInsert
<1>7. c # NoCode => /\ \A q \in Rooms : room[q].code # c
                    /\ \A v \in Workers : pc[v] = "createCommit" => tx[v].room.code # c
  BY DEF CreateInsert
<1> HIDE DEF rec
<1>8. /\ t \in Tx /\ t.at = tx[w].at /\ t.user = tx[w].user /\ t.room = rec
      /\ t.seat = 1 /\ t.joined = clock'
  <2>1. clock + 1 \in 0 .. MaxJoins /\ 1 \in 0 .. 4 /\ tx[w] \in Tx /\ rec \in RoomRow
    BY <1>2, <1>3, <1>5
  <2>2. t \in Tx
    BY <2>1 DEF Tx
  <2>3. /\ t.at = tx[w].at /\ t.user = tx[w].user /\ t.room = rec
        /\ t.seat = 1 /\ t.joined = clock + 1
    BY <2>1 DEF Tx
  <2>4. QED
    BY <1>3, <2>2, <2>3
<1> HIDE DEF t
<1>9. pc'[w] = "createCommit" /\ tx'[w] = t
  BY <1>2, <1>6 DEF Goto
<1>10. LocalInv(w)'
  <2>1. CreateIsCurrent(w)'
    BY <1>1, <1>2, <1>3, <1>5, <1>6, <1>8, <1>9 DEF LocalInv, CreateIsCurrent, lobbyVars
  <2>2. JoinIsCurrent(w)' /\ LeaveIsCurrent(w)' /\ StartIsCurrent(w)' /\ HoldsItsRoom(w)'
    BY <1>9 DEF JoinIsCurrent, LeaveIsCurrent, StartIsCurrent, HoldsItsRoom, Joining, Leaving, Starting, Locked
  <2>3. QED
    BY <2>1, <2>2 DEF LocalInv
<1>11. Advances(w, "createCommit", t)
  BY <1>1, <1>3, <1>6, <1>8 DEF Advances
<1>12. CodeIsOwn(t)
  BY <1>5, <1>7, <1>8 DEF CodeIsOwn
<1>13. QED
  BY <1>10, <1>11, <1>12, AdvanceKeeps

LEMMA CreateCollideKeeps ==
  ASSUME RoomsInv, NEW w \in Workers, NEW c \in Codes, CreateCollide(w, c)
  PROVE  RoomsInv'
<1>1. /\ pc[w] = "createInsert" /\ pc[w] \in Creating /\ pc[w] \notin Locked
  BY DEF CreateCollide, Creating, Locked
<1>2. QED
  BY <1>1, RollbackKeeps DEF CreateCollide

-----------------------------------------------------------------------------
(* Requests that arrive                                                    *)

\* Obtaining a room's row lock, the row being as the request requires.
LEMMA LockRoomKeeps ==
  ASSUME RoomsInv, NEW w \in Workers, NEW u \in Users, NEW r \in Rooms,
         NEW phase \in {"joinSelect", "leaveDelete", "startSelect"},
         LockRoom(w, u, r, phase),
         room[r].state # "none",
         phase # "leaveDelete" => room[r].state = "open",
         phase = "startSelect" => room[r].host = u
  PROVE  RoomsInv'
<1> DEFINE t == [tx[w] EXCEPT !.user = u, !.at = r, !.room = room[r]]
<1>1. /\ pc[w] = "idle" /\ pc[w] \notin Locked /\ pc[w] \notin Creating
      /\ phase \in Locked /\ phase \notin Creating /\ phase \in Phases
      /\ phase \notin {"conflict", "joinInsert", "joinCommit", "leaveSelect", "leaveCommit",
                       "startCommit", "createCommit", "spawn"}
  BY DEF LockRoom, Locked, Creating, Phases
<1>2. /\ tx[w] \in Tx /\ clock \in Nat /\ clock <= clock
      /\ pc \in [Workers -> Phases] /\ tx \in [Workers -> Tx]
      /\ lock \in [Rooms -> Workers \cup {NoWorker}]
      /\ room[r] \in RoomRow
  BY WorkerFacts, RowTypes DEF RoomsInv
<1>3. t \in Tx /\ t.user = u /\ t.at = r /\ t.room = room[r]
  BY <1>2 DEF Tx
<1>4. /\ pc' = [pc EXCEPT ![w] = phase] /\ tx' = [tx EXCEPT ![w] = t]
      /\ lock' = [lock EXCEPT ![r] = w]
      /\ UNCHANGED <<lobbyVars, clock, actors>>
      /\ lock[r] = NoWorker
  BY <1>2 DEF LockRoom, Goto
<1> HIDE DEF t
<1>5. /\ pc'[w] = phase /\ tx'[w] = t /\ lock'[r] = w
      /\ \A v \in Workers \ {w} : pc'[v] = pc[v] /\ tx'[v] = tx[v]
      /\ \A q \in Rooms \ {r} : lock'[q] = lock[q]
  BY <1>2, <1>4
<1>6. Alone(w, r)
  <2> SUFFICES ASSUME NEW v \in Workers \ {w}, pc[v] \in Locked \cup Creating
               PROVE  tx[v].at # r
    BY DEF Alone
  <2>1. LocalInv(v)
    BY DEF RoomsInv
  <2>2. QED
    BY <2>1, <1>4, WorkersAssumption DEF LocalInv, HoldsItsRoom, CreateIsCurrent
<1>7. OnlyMoves(w) /\ OnlyTouches(r)
  BY <1>4, <1>5 DEF OnlyMoves, OnlyTouches, SameSeating, lobbyVars
<1>8. \A v \in Workers \ {w} : LocalInv(v)'
  BY <1>2, <1>4, <1>6, <1>7, OthersKeep
<1>9. LocalInv(w)'
  <2>1. HoldsItsRoom(w)'
    BY <1>3, <1>4, <1>5 DEF HoldsItsRoom, lobbyVars
  <2>2. JoinIsCurrent(w)'
    BY <1>1, <1>3, <1>4, <1>5 DEF JoinIsCurrent, Joining, lobbyVars
  <2>3. StartIsCurrent(w)'
    BY <1>1, <1>3, <1>4, <1>5 DEF StartIsCurrent, Starting, lobbyVars
  <2>4. LeaveIsCurrent(w)' /\ CreateIsCurrent(w)'
    BY <1>1, <1>5 DEF LeaveIsCurrent, CreateIsCurrent, Leaving
  <2>5. QED
    BY <2>1, <2>2, <2>3, <2>4 DEF LocalInv
<1>10. TypeOK'
  BY <1>1, <1>2, <1>3, <1>4, RowTypes, RowTypesNext DEF RoomsInv, lobbyVars
<1>11. LocksAreOwned'
  <2> SUFFICES ASSUME NEW q \in Rooms, lock'[q] # NoWorker
               PROVE  pc'[lock'[q]] \in Locked /\ tx'[lock'[q]].at = q
    BY DEF LocksAreOwned
  <2>1. CASE q = r
    BY <1>1, <1>3, <1>5, <2>1
  <2>2. CASE q # r
    <3>1. /\ lock'[q] = lock[q] /\ lock[q] \in Workers
          /\ pc[lock[q]] \in Locked /\ tx[lock[q]].at = q
      BY <1>2, <1>5, <2>2 DEF RoomsInv, LocksAreOwned
    <3>2. QED
      BY <3>1, <1>1, <1>5
  <2>3. QED
    BY <2>1, <2>2
<1>12. CreatesAreApart'
  BY <1>1, <1>4, <1>5 DEF RoomsInv, CreatesAreApart, lobbyVars
<1>13. SpawnsAreApart' /\ ClockIsAhead'
  BY <1>1, <1>4, <1>5 DEF RoomsInv, SpawnsAreApart, ClockIsAhead, lobbyVars
<1>14. P!LobbyInv'
  BY <1>4, LobbyHolds DEF RoomsInv
<1>15. QED
  BY <1>8, <1>9, <1>10, <1>11, <1>12, <1>13, <1>14 DEF RoomsInv

LEMMA CreateBeginKeeps ==
  ASSUME RoomsInv, NEW w \in Workers, NEW u \in Users, NEW r \in Rooms,
         NEW m \in Modes, NEW private \in BOOLEAN, CreateBegin(w, u, r, m, private)
  PROVE  RoomsInv'
<1> DEFINE rec == [state |-> "open", mode |-> m, code |-> NoCode, host |-> u]
           t == [NoTx EXCEPT !.user = u, !.at = r, !.private = private, !.room = rec]
<1>1. /\ pc[w] = "idle" /\ pc[w] \notin Locked /\ pc[w] \notin Creating
      /\ "createInsert" \notin Locked /\ "createInsert" \in Creating
      /\ "createInsert" \in Phases /\ "createInsert" # "createCommit" /\ "createInsert" # "spawn"
  BY DEF CreateBegin, Locked, Creating, Phases
<1>2. /\ clock \in Nat /\ clock <= clock
      /\ pc \in [Workers -> Phases] /\ tx \in [Workers -> Tx]
      /\ lock \in [Rooms -> Workers \cup {NoWorker}]
  BY WorkerFacts, RowTypes DEF RoomsInv
<1>3. rec \in RoomRow /\ rec.state = "open" /\ rec.host = u
  BY DEF RoomRow
<1>4. /\ pc' = [pc EXCEPT ![w] = "createInsert"] /\ tx' = [tx EXCEPT ![w] = t]
      /\ UNCHANGED <<lobbyVars, lock, clock, actors>>
      /\ room[r].state = "none" /\ \A v \in Workers : tx[v].at # r
  BY DEF CreateBegin, Goto
<1> HIDE DEF rec
<1>5. t \in Tx /\ t.user = u /\ t.at = r /\ t.room = rec
  <2>1. NoTx \in Tx
    BY MaxJoinsAssumption
       DEF NoTx, Tx, NoRoomRow, RoomRow, Modes, NoMatch, Sides
  <2>2. QED
    BY <1>3, <2>1 DEF Tx
<1> HIDE DEF t
<1>6. /\ pc'[w] = "createInsert" /\ tx'[w] = t
      /\ \A v \in Workers \ {w} : pc'[v] = pc[v] /\ tx'[v] = tx[v]
  BY <1>2, <1>4
<1>7. Alone(w, r) /\ OnlyMoves(w) /\ OnlyTouches(r)
  BY <1>4, <1>6 DEF Alone, OnlyMoves, OnlyTouches, SameSeating, lobbyVars
<1>8. \A v \in Workers \ {w} : LocalInv(v)'
  BY <1>2, <1>4, <1>7, OthersKeep
<1>9. LocalInv(w)'
  <2>1. CreateIsCurrent(w)'
    BY <1>3, <1>4, <1>5, <1>6 DEF CreateIsCurrent, lobbyVars
  <2>2. JoinIsCurrent(w)' /\ LeaveIsCurrent(w)' /\ StartIsCurrent(w)' /\ HoldsItsRoom(w)'
    BY <1>6 DEF JoinIsCurrent, LeaveIsCurrent, StartIsCurrent, HoldsItsRoom, Joining, Leaving, Starting, Locked
  <2>3. QED
    BY <2>1, <2>2 DEF LocalInv
<1>10. TypeOK'
  BY <1>1, <1>2, <1>4, <1>5, RowTypes, RowTypesNext DEF RoomsInv, lobbyVars
<1>11. LocksAreOwned'
  <2> SUFFICES ASSUME NEW q \in Rooms, lock[q] # NoWorker
               PROVE  pc'[lock[q]] \in Locked /\ tx'[lock[q]].at = q
    BY <1>4 DEF LocksAreOwned
  <2>1. lock[q] \in Workers /\ pc[lock[q]] \in Locked /\ tx[lock[q]].at = q
    BY <1>2 DEF RoomsInv, LocksAreOwned
  <2>2. QED
    BY <2>1, <1>1, <1>6
<1>12. CreatesAreApart'
  <2>1. ASSUME NEW x \in Workers, NEW v \in Workers \ {x}, pc'[x] \in Creating, pc'[v] \in Creating
        PROVE  tx'[v].at # tx'[x].at
    BY <1>4, <1>5, <1>6, <2>1 DEF RoomsInv, CreatesAreApart
  <2>2. ASSUME NEW x \in Workers, pc'[x] = "createCommit", tx'[x].room.code # NoCode
        PROVE  /\ \A q \in Rooms : room'[q].code # tx'[x].room.code
               /\ \A v \in Workers \ {x} : pc'[v] = "createCommit" => tx'[v].room.code # tx'[x].room.code
    BY <1>1, <1>4, <1>6, <2>2 DEF RoomsInv, CreatesAreApart, lobbyVars
  <2>3. QED
    BY <2>1, <2>2 DEF CreatesAreApart
<1>13. SpawnsAreApart' /\ ClockIsAhead'
  BY <1>1, <1>4, <1>6 DEF RoomsInv, SpawnsAreApart, ClockIsAhead, lobbyVars
<1>14. P!LobbyInv'
  BY <1>4, LobbyHolds DEF RoomsInv
<1>15. QED
  BY <1>8, <1>9, <1>10, <1>11, <1>12, <1>13, <1>14 DEF RoomsInv

LEMMA BeginKeeps ==
  ASSUME RoomsInv, NEW w \in Workers, NEW u \in Users, NEW r \in Rooms, Begin(w, u, r)
  PROVE  RoomsInv'
<1>1. CASE \E m \in Modes, private \in BOOLEAN : CreateBegin(w, u, r, m, private)
  BY <1>1, CreateBeginKeeps
<1>2. CASE JoinLock(w, u, r)
  BY <1>2, LockRoomKeeps DEF JoinLock
<1>3. CASE LeaveLock(w, u, r)
  BY <1>3, LockRoomKeeps DEF LeaveLock
<1>4. CASE StartLock(w, u, r)
  BY <1>4, LockRoomKeeps DEF StartLock
<1>5. QED
  BY <1>1, <1>2, <1>3, <1>4 DEF Begin

LEMMA JoinByCodeLockKeeps ==
  ASSUME RoomsInv, NEW w \in Workers, NEW u \in Users, NEW c \in Codes, JoinByCodeLock(w, u, c)
  PROVE  RoomsInv'
BY LockRoomKeeps DEF JoinByCodeLock

-----------------------------------------------------------------------------
(* Every commit is one step of the lobby                                   *)

LEMMA SetReadyIsAStep ==
  ASSUME NEW u \in Users, NEW r \in Rooms, NEW b \in BOOLEAN, SetReady(u, r, b)
  PROVE  P!Next
<1>1. P!SetReady(u, r, b)
  BY SameModel DEF SetReady, P!SetReady, Members, P!Members
<1>2. QED
  BY <1>1 DEF P!Next

LEMMA CommitCreateIsAStep ==
  ASSUME RoomsInv, NEW w \in Workers, CommitCreate(w)
  PROVE  P!Next
<1> DEFINE u == tx[w].user
           r == tx[w].at
           rec == tx[w].room
<1>1. /\ pc[w] = "createCommit" /\ pc[w] \in Creating
      /\ tx[w] \in Tx /\ clock \in 0 .. MaxJoins /\ LocalInv(w)
  BY WorkerFacts DEF CommitCreate, Creating
<1>2. /\ u \in Users /\ r \in Rooms /\ room[r].state = "none"
      /\ rec.state = "open" /\ rec.host = u
      /\ tx[w].seat = 1 /\ tx[w].joined \in 1 .. MaxJoins
  BY <1>1, MaxJoinsAssumption DEF LocalInv, CreateIsCurrent
<1>3. /\ rec \in RoomRow /\ rec.mode \in Modes /\ rec.code \in Codes \cup {NoCode}
      /\ rec = [state |-> "open", mode |-> rec.mode, code |-> rec.code, host |-> u]
  BY <1>1, <1>2 DEF Tx, RoomRow
<1>4. rec.code # NoCode => \A q \in Rooms : room[q].code # rec.code
  BY <1>1 DEF RoomsInv, CreatesAreApart
<1>5. P!Create(u, r, rec.mode, rec.code, tx[w].joined)
  BY <1>2, <1>3, <1>4, SameModel DEF CommitCreate, P!Create
<1>6. Modes = P!Modes
  BY DEF Modes, P!Modes
<1>7. QED
  BY <1>2, <1>3, <1>5, <1>6 DEF P!Next

LEMMA CommitJoinIsAStep ==
  ASSUME RoomsInv, NEW w \in Workers, CommitJoin(w)
  PROVE  P!Next
<1> DEFINE u == tx[w].user
           r == tx[w].at
           m == room[r].mode
           free == FreeSeats(row[r], m)
<1>1. /\ pc[w] = "joinCommit" /\ pc[w] \in Locked /\ pc[w] \in Joining
      /\ clock \in 0 .. MaxJoins /\ LocalInv(w)
      /\ r \in Rooms /\ u \in Users /\ m \in Modes
  BY WorkerFacts DEF CommitJoin, Locked, Joining
<1>2. /\ room[r].state = "open"
      /\ row[r][u].seat = 0
      /\ tx[w].seat \in free /\ \A s \in free : tx[w].seat <= s
      /\ tx[w].joined \in 1 .. MaxJoins
      /\ \A v \in Users : row[r][v].seat # 0 => row[r][v].joined < tx[w].joined
  BY <1>1, MaxJoinsAssumption DEF LocalInv, JoinIsCurrent
<1>3. tx[w].seat = FirstFreeSeat(row[r], m)
  <2>1. FirstFreeSeat(row[r], m) \in free /\ FirstFreeSeat(row[r], m) <= tx[w].seat
    BY <1>1, <1>2, FirstFreeSeatIsLeast
  <2>2. free \subseteq Nat
    BY DEF FreeSeats, Capacity
  <2>3. QED
    BY <1>2, <2>1, <2>2
<1>4. P!Members(r) = MembersOf(row[r])
  BY SameModel DEF P!Members
<1>5. P!Join(u, r, tx[w].joined)
  BY <1>2, <1>3, <1>4, SameModel DEF CommitJoin, P!Join, MembersOf
<1>6. QED
  BY <1>1, <1>2, <1>5 DEF P!Next

LEMMA CommitLeaveIsAStep ==
  ASSUME RoomsInv, NEW w \in Workers, CommitLeave(w)
  PROVE  P!Next
<1> DEFINE u == tx[w].user
           r == tx[w].at
           rest == MembersOf(row[r]) \ {u}
<1>1. /\ pc[w] = "leaveCommit" /\ pc[w] \in Locked /\ pc[w] \in Leaving
      /\ LocalInv(w)
      /\ r \in Rooms /\ u \in Users
      /\ row[r] \in [Users -> MemberRow]
  BY WorkerFacts DEF CommitLeave, Locked, Leaving
<1>2. /\ row[r][u].seat # 0
      /\ tx[w].closes <=> rest = {}
      /\ IF rest # {} /\ room[r].host = u
         THEN /\ tx[w].host \in rest
              /\ \A v \in rest : row[r][tx[w].host].joined <= row[r][v].joined
         ELSE tx[w].host = NoUser
  BY <1>1 DEF LocalInv, LeaveIsCurrent
<1>3. P!Members(r) = MembersOf(row[r])
  BY SameModel DEF P!Members
<1>4. u \in P!Members(r)
  BY <1>1, <1>2, <1>3 DEF MembersOf
<1>5. rest # {} /\ room[r].host = u => tx[w].host = Earliest(row[r], rest) /\ tx[w].host # NoUser
  <2> SUFFICES ASSUME rest # {}, room[r].host = u
               PROVE  tx[w].host = Earliest(row[r], rest) /\ tx[w].host # NoUser
    OBVIOUS
  <2>1. rest \in SUBSET Users /\ rest \subseteq P!Members(r)
    BY <1>3 DEF MembersOf
  <2>2. /\ Earliest(row[r], rest) \in rest
        /\ \A v \in rest : row[r][Earliest(row[r], rest)].joined <= row[r][v].joined
    BY <1>1, <2>1, EarliestIsFirst
  <2>3. /\ tx[w].host \in rest
        /\ \A v \in rest : row[r][tx[w].host].joined <= row[r][v].joined
    BY <1>2
  <2>4. \A v \in rest : row[r][v].joined \in Nat
    BY <1>1, <2>1, MaxJoinsAssumption DEF MemberRow
  <2>5. row[r][tx[w].host].joined = row[r][Earliest(row[r], rest)].joined
    <3>1. /\ row[r][tx[w].host].joined <= row[r][Earliest(row[r], rest)].joined
          /\ row[r][Earliest(row[r], rest)].joined <= row[r][tx[w].host].joined
      BY <2>2, <2>3
    <3>2. row[r][tx[w].host].joined \in Nat
      BY <2>3, <2>4
    <3>3. row[r][Earliest(row[r], rest)].joined \in Nat
      BY <2>2, <2>4
    <3>4. QED
      BY <3>1, <3>2, <3>3
  <2>6. QED
    BY <1>1, <2>1, <2>2, <2>3, <2>5, UsersAssumption DEF RoomsInv, P!LobbyInv, P!JoinsAreDistinct
<1>6. ~ (rest # {} /\ room[r].host = u) => tx[w].host = NoUser
  BY <1>2
<1>7. P!Earliest(row[r], rest) = Earliest(row[r], rest) /\ P!NoRow = NoRow
  BY SameModel
<1>8. row' = [row EXCEPT ![r][u] = P!NoRow] /\ match' = match
  BY <1>7 DEF CommitLeave
<1>9. room' = [room EXCEPT
        ![r].state = IF rest = {} THEN "closed" ELSE @,
        ![r].host = IF rest # {} /\ @ = u THEN P!Earliest(row[r], rest) ELSE @]
  <2>1. room \in [Rooms -> RoomRow] /\ room[r] \in RoomRow
    BY <1>1, RowTypes DEF RoomsInv
  <2>2. [room[r] EXCEPT !.state = IF tx[w].closes THEN "closed" ELSE @,
                        !.host = IF tx[w].host # NoUser THEN tx[w].host ELSE @]
      = [room[r] EXCEPT !.state = IF rest = {} THEN "closed" ELSE @,
                        !.host = IF rest # {} /\ @ = u THEN P!Earliest(row[r], rest) ELSE @]
    BY <1>2, <1>5, <1>6, <1>7, <2>1 DEF RoomRow
  <2>3. QED
    BY <2>1, <2>2 DEF CommitLeave
<1>10. P!Leave(u, r)
  BY <1>3, <1>4, <1>8, <1>9 DEF P!Leave
<1>11. QED
  BY <1>1, <1>10 DEF P!Next

\* The sides a start has computed are those of the members at its commit.
LEMMA SidesAreCurrent ==
  ASSUME RoomsInv, NEW w \in Workers, pc[w] = "startCommit"
  PROVE  /\ tx[w].sides = BuildMatchSides(row[tx[w].at])
         /\ tx[w].sides # NoMatch
         /\ room[tx[w].at].state = "open"
         /\ room[tx[w].at].host = tx[w].user
         /\ Cardinality(MembersOf(row[tx[w].at])) = Capacity(room[tx[w].at].mode)
<1> DEFINE r == tx[w].at
           rows == row[r]
           m == room[r].mode
<1>1. /\ pc[w] \in Locked /\ pc[w] \in Starting
      /\ LocalInv(w) /\ tx[w] \in Tx
      /\ r \in Rooms /\ rows \in [Users -> MemberRow] /\ m \in Modes
  BY WorkerFacts DEF Locked, Starting
<1>2. /\ room[r].state = "open" /\ room[r].host = tx[w].user
      /\ Cardinality(MembersOf(rows)) = Capacity(m)
      /\ \A s \in Seats :
           IF \E v \in Users : rows[v].seat = s
           THEN tx[w].sides[s] \in Users /\ rows[tx[w].sides[s]].seat = s
           ELSE tx[w].sides[s] = NoUser
  BY <1>1 DEF LocalInv, StartIsCurrent
<1>3. WellSeated(rows, m)
  BY <1>1, SameModel DEF RoomsInv, P!LobbyInv, P!SeatsAreDistinct, P!Members, WellSeated
<1>4. tx[w].sides \in Sides
  BY <1>1 DEF Tx
<1>5. \A s \in Seats : tx[w].sides[s] = BuildMatchSides(rows)[s]
  <2> SUFFICES ASSUME NEW s \in Seats PROVE tx[w].sides[s] = BuildMatchSides(rows)[s]
    OBVIOUS
  <2>1. CASE \E v \in Users : rows[v].seat = s
    <3>1. BuildMatchSides(rows)[s] \in Users /\ rows[BuildMatchSides(rows)[s]].seat = s
      BY <2>1 DEF BuildMatchSides
    <3>2. tx[w].sides[s] \in Users /\ rows[tx[w].sides[s]].seat = s
      BY <1>2, <2>1
    <3>3. s # 0
      BY DEF Seats
    <3>4. QED
      BY <1>3, <3>1, <3>2, <3>3 DEF WellSeated, MembersOf
  <2>2. CASE ~ \E v \in Users : rows[v].seat = s
    BY <1>2, <2>2 DEF BuildMatchSides
  <2>3. QED
    BY <2>1, <2>2
<1>6. tx[w].sides = BuildMatchSides(rows)
  BY <1>4, <1>5 DEF Sides, BuildMatchSides
<1>7. tx[w].sides[1] \in Users
  BY <1>1, <1>2, <1>3, <1>6, SidesOfFullRoom DEF Seats, Capacity
<1>8. tx[w].sides # NoMatch
  BY <1>7, UsersAssumption DEF NoMatch, Seats
<1>9. QED
  BY <1>2, <1>6, <1>8

LEMMA CommitStartIsAStep ==
  ASSUME RoomsInv, NEW w \in Workers, CommitStart(w)
  PROVE  P!Next
<1> DEFINE r == tx[w].at
<1>1. pc[w] = "startCommit" /\ r \in Rooms /\ tx[w].user \in Users
  BY WorkerFacts DEF CommitStart, Locked
<1>2. P!Members(r) = MembersOf(row[r])
  BY SameModel DEF P!Members
<1>3. P!Start(tx[w].user, r)
  BY <1>1, <1>2, SidesAreCurrent, SameModel, SameCardinality DEF CommitStart, P!Start
<1>4. QED
  BY <1>1, <1>3 DEF P!Next

-----------------------------------------------------------------------------
(* What a commit leaves behind                                             *)

LEMMA SetReadyKeeps ==
  ASSUME RoomsInv, NEW u \in Users, NEW r \in Rooms, NEW b \in BOOLEAN, SetReady(u, r, b)
  PROVE  RoomsInv'
<1>1. P!LobbyInv'
  BY SetReadyIsAStep, LobbyHolds DEF RoomsInv
<1>2. /\ row \in [Rooms -> [Users -> MemberRow]] /\ clock \in Nat /\ clock <= clock
      /\ UNCHANGED <<room, match, lock, clock, pc, tx, actors>>
      /\ row' = [row EXCEPT ![r][u].ready = b]
  BY RowTypes, MaxJoinsAssumption DEF RoomsInv, SetReady
<1>3. \A q \in Rooms : SameSeating(q)
  BY <1>2 DEF SameSeating, MemberRow
<1>4. TypeOK'
  <2>1. row[r][u] \in MemberRow
    BY <1>2
  <2>2. [row[r][u] EXCEPT !.ready = b] \in MemberRow
    BY <2>1 DEF MemberRow
  <2>3. row' \in [Rooms -> [Users -> MemberRow]]
    BY <1>2, <2>2
  <2>4. QED
    BY <1>2, <2>3, RowTypes, RowTypesNext DEF RoomsInv
<1>5. \A w \in Workers : LocalInv(w)'
  <2> SUFFICES ASSUME NEW w \in Workers PROVE LocalInv(w)'
    OBVIOUS
  <2>1. /\ LocalInv(w)
        /\ pc[w] \in Locked => tx[w].at \in Rooms /\ lock[tx[w].at] = w
        /\ pc[w] \in Creating => tx[w].at \in Rooms
    BY DEF RoomsInv, LocalInv, HoldsItsRoom, CreateIsCurrent
  <2>2. QED
    BY <1>2, <1>3, <2>1, Frame
<1>6. ClockIsAhead'
  BY <1>2, <1>3 DEF RoomsInv, ClockIsAhead, SameSeating
<1>7. LocksAreOwned' /\ CreatesAreApart' /\ SpawnsAreApart'
  BY <1>2 DEF RoomsInv, LocksAreOwned, CreatesAreApart, SpawnsAreApart
<1>8. QED
  BY <1>1, <1>4, <1>5, <1>6, <1>7 DEF RoomsInv

\* A commit changes its own room only, gives it no code but the one it had or
\* the one inserted with it, and leaves no member later than the clock.
Commits(w) ==
  /\ pc[w] \in Locked \cup Creating
  /\ EndTx(w)
  /\ UNCHANGED <<match, clock, actors>>
  /\ \A q \in Rooms : q # tx[w].at => room'[q] = room[q] /\ row'[q] = row[q]
  /\ \/ room'[tx[w].at].code = room[tx[w].at].code
     \/ pc[w] = "createCommit" /\ room'[tx[w].at].code = tx[w].room.code
  /\ \A u \in Users : row'[tx[w].at][u].joined <= clock

LEMMA CommitKeeps ==
  ASSUME RoomsInv, NEW w \in Workers, Commits(w), P!Next
  PROVE  RoomsInv'
<1> DEFINE r == tx[w].at
<1>1. P!LobbyInv'
  BY LobbyHolds DEF RoomsInv
<1>2. /\ lock' \in [Rooms -> Workers \cup {NoWorker}]
      /\ pc' \in [Workers -> Phases] /\ tx' \in [Workers -> Tx]
      /\ LocalInv(w)' /\ LocksAreOwned'
      /\ pc'[w] = "idle" /\ tx'[w] = NoTx
      /\ OnlyMoves(w)
      /\ \A q \in Rooms : q # r => lock'[q] = lock[q]
  BY EndTxKeeps DEF Commits
<1>3. Lobby!TypeOK'
  BY <1>1 DEF P!LobbyInv, P!TypeOK, Lobby!TypeOK, P!RoomRow, Lobby!RoomRow, P!Modes, Lobby!Modes,
     P!MemberRow, Lobby!MemberRow, P!Sides, Lobby!Sides, P!Seats, Lobby!Seats
<1>4. TypeOK'
  BY <1>2, <1>3 DEF RoomsInv, TypeOK, Commits
<1>5. r \in Rooms /\ Alone(w, r)
  BY TransactionIsAlone DEF Commits
<1>6. OnlyTouches(r) /\ clock' \in Nat /\ clock <= clock'
  BY <1>2, WorkerFacts DEF Commits, OnlyTouches, SameSeating
<1>7. \A v \in Workers \ {w} : LocalInv(v)'
  BY <1>2, <1>5, <1>6, OthersKeep
<1>8. ClockIsAhead'
  BY DEF RoomsInv, ClockIsAhead, Commits
<1>9. SpawnsAreApart'
  BY <1>2 DEF RoomsInv, SpawnsAreApart, OnlyMoves, Commits
<1>10. CreatesAreApart'
  <2>1. ASSUME NEW x \in Workers, NEW v \in Workers \ {x}, pc'[x] \in Creating, pc'[v] \in Creating
        PROVE  tx'[v].at # tx'[x].at
    BY <1>2, <2>1 DEF RoomsInv, CreatesAreApart, OnlyMoves, Creating
  <2>2. ASSUME NEW x \in Workers, pc'[x] = "createCommit", tx'[x].room.code # NoCode
        PROVE  /\ \A q \in Rooms : room'[q].code # tx'[x].room.code
               /\ \A v \in Workers \ {x} : pc'[v] = "createCommit" => tx'[v].room.code # tx'[x].room.code
    <3>1. x # w /\ pc[x] = "createCommit" /\ tx'[x] = tx[x]
      BY <1>2, <2>2 DEF OnlyMoves
    <3>2. /\ \A q \in Rooms : room[q].code # tx[x].room.code
          /\ \A v \in Workers \ {x} : pc[v] = "createCommit" => tx[v].room.code # tx[x].room.code
      BY <2>2, <3>1 DEF RoomsInv, CreatesAreApart
    <3>3. room'[r].code # tx[x].room.code
      BY <1>5, <3>1, <3>2 DEF Commits
    <3>4. QED
      BY <1>2, <3>1, <3>2, <3>3 DEF Commits, OnlyMoves
  <2>3. QED
    BY <2>1, <2>2 DEF CreatesAreApart
<1>11. QED
  BY <1>1, <1>2, <1>4, <1>7, <1>8, <1>9, <1>10 DEF RoomsInv

LEMMA CommitCreateKeeps ==
  ASSUME RoomsInv, NEW w \in Workers, CommitCreate(w)
  PROVE  RoomsInv'
<1> DEFINE r == tx[w].at
<1>1. /\ pc[w] = "createCommit" /\ pc[w] \in Locked \cup Creating
      /\ LocalInv(w) /\ clock \in Nat
      /\ room \in [Rooms -> RoomRow] /\ row \in [Rooms -> [Users -> MemberRow]]
  BY WorkerFacts, RowTypes DEF CommitCreate, Creating, RoomsInv
<1>2. r \in Rooms /\ tx[w].user \in Users /\ tx[w].joined <= clock
  BY <1>1 DEF LocalInv, CreateIsCurrent, Creating
<1>3. /\ room'[r] = tx[w].room
      /\ \A q \in Rooms : q # r => room'[q] = room[q] /\ row'[q] = row[q]
      /\ \A v \in Users : row'[r][v] = IF v = tx[w].user
                                       THEN Lobby!Seated(tx[w].seat, tx[w].joined) ELSE row[r][v]
  BY <1>1, <1>2 DEF CommitCreate
<1>4. \A v \in Users : row'[r][v].joined <= clock
  BY <1>2, <1>3, SameModel DEF RoomsInv, ClockIsAhead
<1>5. Commits(w)
  BY <1>1, <1>3, <1>4 DEF Commits, CommitCreate
<1>6. QED
  BY <1>5, CommitCreateIsAStep, CommitKeeps

LEMMA CommitJoinKeeps ==
  ASSUME RoomsInv, NEW w \in Workers, CommitJoin(w)
  PROVE  RoomsInv'
<1> DEFINE r == tx[w].at
<1>1. /\ pc[w] = "joinCommit" /\ pc[w] \in Locked
      /\ LocalInv(w) /\ clock \in Nat
      /\ r \in Rooms /\ tx[w].user \in Users
      /\ row \in [Rooms -> [Users -> MemberRow]]
  BY WorkerFacts, RowTypes DEF CommitJoin, Locked, RoomsInv
<1>2. tx[w].joined <= clock
  BY <1>1 DEF LocalInv, JoinIsCurrent
<1>3. /\ room' = room
      /\ \A q \in Rooms : q # r => row'[q] = row[q]
      /\ \A v \in Users : row'[r][v] = IF v = tx[w].user
                                       THEN Lobby!Seated(tx[w].seat, tx[w].joined) ELSE row[r][v]
  BY <1>1 DEF CommitJoin
<1>4. \A v \in Users : row'[r][v].joined <= clock
  BY <1>1, <1>2, <1>3, SameModel DEF RoomsInv, ClockIsAhead
<1>5. Commits(w)
  BY <1>1, <1>3, <1>4 DEF Commits, CommitJoin
<1>6. QED
  BY <1>5, CommitJoinIsAStep, CommitKeeps

LEMMA CommitLeaveKeeps ==
  ASSUME RoomsInv, NEW w \in Workers, CommitLeave(w)
  PROVE  RoomsInv'
<1> DEFINE r == tx[w].at
<1>1. /\ pc[w] = "leaveCommit" /\ pc[w] \in Locked
      /\ LocalInv(w) /\ clock \in Nat
      /\ r \in Rooms /\ tx[w].user \in Users
      /\ room \in [Rooms -> RoomRow] /\ row \in [Rooms -> [Users -> MemberRow]]
  BY WorkerFacts, RowTypes DEF CommitLeave, Locked, RoomsInv
<1>2. /\ \A q \in Rooms : q # r => room'[q] = room[q] /\ row'[q] = row[q]
      /\ room'[r].code = room[r].code
      /\ \A v \in Users : row'[r][v] = IF v = tx[w].user THEN NoRow ELSE row[r][v]
  BY <1>1 DEF CommitLeave, RoomRow
<1>3. \A v \in Users : row'[r][v].joined <= clock
  BY <1>1, <1>2 DEF RoomsInv, ClockIsAhead, NoRow
<1>4. Commits(w)
  BY <1>1, <1>2, <1>3 DEF Commits, CommitLeave
<1>5. QED
  BY <1>4, CommitLeaveIsAStep, CommitKeeps

LEMMA CommitStartKeeps ==
  ASSUME RoomsInv, NEW w \in Workers, CommitStart(w)
  PROVE  RoomsInv'
<1> DEFINE r == tx[w].at
<1>1. /\ pc[w] = "startCommit" /\ pc[w] \in Locked
      /\ "spawn" \in Phases /\ "spawn" \notin Locked /\ "spawn" \notin Creating /\ "spawn" # "createCommit"
      /\ LocalInv(w) /\ tx[w] \in Tx /\ clock \in Nat /\ clock <= clock
      /\ r \in Rooms /\ room[r] \in RoomRow
      /\ lock[r] = w
  BY WorkerFacts DEF CommitStart, Locked, Creating, Phases, LocalInv, HoldsItsRoom
<1>2. tx[w].sides # NoMatch /\ room[r].state = "open"
  BY <1>1, SidesAreCurrent
<1>3. /\ room \in [Rooms -> RoomRow] /\ row \in [Rooms -> [Users -> MemberRow]]
      /\ match \in [Rooms -> Sides]
      /\ lock \in [Rooms -> Workers \cup {NoWorker}]
      /\ clock \in 0 .. MaxJoins
      /\ pc \in [Workers -> Phases] /\ tx \in [Workers -> Tx]
      /\ actors \subseteq Rooms
  BY RowTypes DEF RoomsInv
<1>4. /\ match' = [match EXCEPT ![r] = tx[w].sides]
      /\ room' = [room EXCEPT ![r].state = "closed"]
      /\ lock' = [lock EXCEPT ![r] = NoWorker]
      /\ pc' = [pc EXCEPT ![w] = "spawn"]
      /\ UNCHANGED <<row, clock, tx, actors>>
  BY DEF CommitStart, Goto
<1>5. /\ room'[r].code = room[r].code
      /\ match'[r] = tx[w].sides
      /\ lock'[r] = NoWorker
      /\ pc'[w] = "spawn"
      /\ \A q \in Rooms \ {r} : room'[q] = room[q] /\ lock'[q] = lock[q] /\ match'[q] = match[q]
      /\ \A v \in Workers \ {w} : pc'[v] = pc[v]
  BY <1>1, <1>3, <1>4 DEF RoomRow
<1>6. P!LobbyInv'
  BY CommitStartIsAStep, LobbyHolds DEF RoomsInv
<1>7. TypeOK'
  <2>1. room' \in [Rooms -> RoomRow]
    <3>1. [room[r] EXCEPT !.state = "closed"] \in RoomRow
      BY <1>1 DEF RoomRow
    <3>2. QED
      BY <1>1, <1>3, <1>4, <3>1
  <2>2. match' \in [Rooms -> Sides]
    BY <1>1, <1>3, <1>4 DEF Tx
  <2>3. QED
    BY <1>1, <1>3, <1>4, <2>1, <2>2, RowTypesNext
<1>8. Alone(w, r) /\ OnlyMoves(w) /\ OnlyTouches(r)
  BY <1>1, <1>4, <1>5, TransactionIsAlone DEF OnlyMoves, OnlyTouches, SameSeating
<1>9. \A v \in Workers \ {w} : LocalInv(v)'
  BY <1>1, <1>4, <1>8, OthersKeep
<1>10. LocalInv(w)'
  BY <1>5 DEF LocalInv, HoldsItsRoom, JoinIsCurrent, LeaveIsCurrent, StartIsCurrent,
     CreateIsCurrent, Joining, Leaving, Starting, Creating, Locked
<1>11. LocksAreOwned'
  <2> SUFFICES ASSUME NEW q \in Rooms, lock'[q] # NoWorker
               PROVE  pc'[lock'[q]] \in Locked /\ tx'[lock'[q]].at = q
    BY DEF LocksAreOwned
  <2>1. q # r /\ lock'[q] = lock[q]
    BY <1>5
  <2>2. lock[q] \in Workers /\ pc[lock[q]] \in Locked /\ tx[lock[q]].at = q
    BY <1>3, <2>1 DEF RoomsInv, LocksAreOwned
  <2>3. QED
    BY <1>4, <1>5, <2>1, <2>2
<1>12. CreatesAreApart'
  BY <1>1, <1>4, <1>5 DEF RoomsInv, CreatesAreApart
<1>13. ClockIsAhead'
  BY <1>4 DEF RoomsInv, ClockIsAhead
<1>14. SpawnsAreApart'
  <2>1. \A q \in Rooms : match[q] # NoMatch => q # r
    BY <1>2, SameModel DEF RoomsInv, P!LobbyInv, P!MatchSeatsItsRoom
  <2>2. \A q \in Rooms : match[q] # NoMatch => match'[q] # NoMatch
    BY <1>5, <2>1
  <2>3. r \notin actors
    BY <1>3, <2>1 DEF RoomsInv, SpawnsAreApart
  <2>4. \A v \in Workers \ {w} : pc[v] = "spawn" => tx[v].at # r
    BY <2>1 DEF RoomsInv, SpawnsAreApart
  <2>5. QED
    BY <1>1, <1>2, <1>3, <1>4, <1>5, <2>2, <2>3, <2>4 DEF RoomsInv, SpawnsAreApart
<1>15. QED
  BY <1>6, <1>7, <1>9, <1>10, <1>11, <1>12, <1>13, <1>14 DEF RoomsInv

\* The end of a request that has committed a match, with StartActor or without.
LEMMA SpawnKeeps ==
  ASSUME RoomsInv, NEW w \in Workers, Spawn(w) \/ LoseSpawn(w)
  PROVE  RoomsInv'
<1> DEFINE r == tx[w].at
<1>1. /\ pc[w] = "spawn" /\ EndTx(w) /\ UNCHANGED <<lobbyVars, clock>>
      /\ actors' \in {actors, actors \cup {r}}
  BY DEF Spawn, LoseSpawn
<1>2. /\ r \in Rooms /\ match[r] # NoMatch
      /\ \A v \in Workers \ {w} : pc[v] = "spawn" => tx[v].at # r
  BY <1>1 DEF RoomsInv, SpawnsAreApart
<1>3. /\ lock' \in [Rooms -> Workers \cup {NoWorker}]
      /\ pc' \in [Workers -> Phases] /\ tx' \in [Workers -> Tx]
      /\ LocalInv(w)' /\ LocksAreOwned'
      /\ pc'[w] = "idle" /\ tx'[w] = NoTx
      /\ \A v \in Workers \ {w} : pc'[v] = pc[v] /\ tx'[v] = tx[v]
  BY <1>1, EndTxKeeps DEF OnlyMoves
<1>4. \A q \in Rooms : lock'[q] = lock[q]
  BY <1>1 DEF RoomsInv, LocksAreOwned, EndTx, Locked
<1>5. \A v \in Workers \ {w} : LocalInv(v)'
  <2> SUFFICES ASSUME NEW v \in Workers \ {w} PROVE LocalInv(v)'
    OBVIOUS
  <2>1. /\ LocalInv(v) /\ clock \in Nat
        /\ pc[v] \in Locked => tx[v].at \in Rooms /\ lock[tx[v].at] = v
    BY WorkerFacts DEF LocalInv, HoldsItsRoom
  <2>2. \A q : SameSeating(q)
    BY <1>1 DEF SameSeating, lobbyVars
  <2>3. QED
    BY <1>1, <1>3, <1>4, <2>1, <2>2, Frame DEF lobbyVars
<1>6. P!LobbyInv'
  BY <1>1, LobbyHolds DEF RoomsInv
<1>7. TypeOK'
  BY <1>1, <1>2, <1>3, RowTypes, RowTypesNext DEF RoomsInv, lobbyVars
<1>8. CreatesAreApart' /\ ClockIsAhead'
  BY <1>1, <1>3 DEF RoomsInv, CreatesAreApart, ClockIsAhead, lobbyVars, Creating
<1>9. SpawnsAreApart'
  BY <1>1, <1>2, <1>3 DEF RoomsInv, SpawnsAreApart, lobbyVars
<1>10. QED
  BY <1>3, <1>5, <1>6, <1>7, <1>8, <1>9 DEF RoomsInv

-----------------------------------------------------------------------------
(* Every step                                                              *)

LEMMA ProceedKeeps ==
  ASSUME RoomsInv, NEW w \in Workers, Proceed(w)
  PROVE  RoomsInv'
BY CreateInsertKeeps, CreateCollideKeeps, CommitCreateKeeps, JoinSelectKeeps, JoinInsertKeeps,
   CommitJoinKeeps, LeaveDeleteKeeps, LeaveSelectKeeps, CommitLeaveKeeps, StartSelectKeeps,
   CommitStartKeeps, SpawnKeeps, RollbackKeeps DEF Proceed, Rollback

LEMMA RoomsNext == RoomsInv /\ [Next]_vars => RoomsInv'
<1> SUFFICES ASSUME RoomsInv, [Next]_vars PROVE RoomsInv'
  OBVIOUS
<1>1. CASE Next
  <2>1. CASE \E w \in Workers, u \in Users, r \in Rooms : Begin(w, u, r)
    BY <2>1, BeginKeeps
  <2>2. CASE \E w \in Workers, u \in Users, c \in Codes : JoinByCodeLock(w, u, c)
    BY <2>2, JoinByCodeLockKeeps
  <2>3. CASE \E w \in Workers : Proceed(w) \/ LoseSpawn(w)
    BY <2>3, ProceedKeeps, SpawnKeeps
  <2>4. CASE \E u \in Users, r \in Rooms, b \in BOOLEAN : SetReady(u, r, b)
    BY <2>4, SetReadyKeeps
  <2>5. QED
    BY <1>1, <2>1, <2>2, <2>3, <2>4 DEF Next
<1>2. CASE UNCHANGED vars
  <2>1. P!LobbyInv'
    BY <1>2, LobbyHolds DEF RoomsInv, vars, lobbyVars
  <2>2. TypeOK'
    BY <1>2, RowTypes, RowTypesNext DEF RoomsInv, vars, lobbyVars
  <2>3. \A w \in Workers : LocalInv(w)'
    <3> SUFFICES ASSUME NEW w \in Workers PROVE LocalInv(w)'
      OBVIOUS
    <3>1. LocalInv(w) /\ clock \in Nat /\ clock <= clock
      BY WorkerFacts
    <3>2. QED
      BY <1>2, <3>1, Frame DEF vars, lobbyVars, SameSeating, LocalInv, HoldsItsRoom
  <2>4. LocksAreOwned' /\ CreatesAreApart' /\ ClockIsAhead' /\ SpawnsAreApart'
    BY <1>2 DEF RoomsInv, vars, lobbyVars, LocksAreOwned, CreatesAreApart, ClockIsAhead, SpawnsAreApart
  <2>5. QED
    BY <2>1, <2>2, <2>3, <2>4 DEF RoomsInv
<1>3. QED
  BY <1>1, <1>2

\* A statement that does not commit is a stutter of the lobby.
LEMMA RoomsStep == RoomsInv /\ [Next]_vars => [P!Next]_lobbyVars
<1> SUFFICES ASSUME RoomsInv, [Next]_vars PROVE P!Next \/ UNCHANGED lobbyVars
  OBVIOUS
<1>1. ASSUME NEW w \in Workers, NEW u \in Users, NEW r \in Rooms, Begin(w, u, r)
      PROVE  UNCHANGED lobbyVars
  BY <1>1 DEF Begin, CreateBegin, JoinLock, LeaveLock, StartLock, LockRoom
<1>2. ASSUME NEW w \in Workers, NEW u \in Users, NEW c \in Codes, JoinByCodeLock(w, u, c)
      PROVE  UNCHANGED lobbyVars
  BY <1>2 DEF JoinByCodeLock, LockRoom
<1>3. ASSUME NEW w \in Workers, Proceed(w)
      PROVE  P!Next \/ UNCHANGED lobbyVars
  <2>1. CASE CommitCreate(w) \/ CommitJoin(w) \/ CommitLeave(w) \/ CommitStart(w)
    BY <2>1, CommitCreateIsAStep, CommitJoinIsAStep, CommitLeaveIsAStep, CommitStartIsAStep
  <2>2. CASE ~ (CommitCreate(w) \/ CommitJoin(w) \/ CommitLeave(w) \/ CommitStart(w))
    BY <1>3, <2>2 DEF Proceed, CreateInsert, CreateCollide, JoinSelect, JoinInsert, LeaveDelete,
       LeaveSelect, StartSelect, Spawn, Rollback
  <2>3. QED
    BY <2>1, <2>2
<1>4. ASSUME NEW w \in Workers, LoseSpawn(w)
      PROVE  UNCHANGED lobbyVars
  BY <1>4 DEF LoseSpawn
<1>5. QED
  BY <1>1, <1>2, <1>3, <1>4, SetReadyIsAStep DEF Next, vars, lobbyVars

-----------------------------------------------------------------------------
(* Theorems                                                                *)

\* RoomsInv holds in every reachable state.
LEMMA RoomsAlways == Spec => []RoomsInv
<1>1. QED
  BY RoomsInit, RoomsNext, PTL DEF Spec

\* Every row, lock and transaction keeps its type: no statement of any request
\* writes a seat, host, state or match the schema has no room for.
THEOREM TypeCorrect == Spec => []TypeOK
<1>1. RoomsInv => TypeOK
  BY DEF RoomsInv
<1>2. QED
  BY <1>1, RoomsAlways, PTL

\* The unique constraints of room_members never fire, for any number of
\* requests in flight: the lock taken by selectRoomForUpdate is enough.
THEOREM InsertsNeverConflict == Spec => []InsertNeverConflicts
<1>1. RoomsInv => InsertNeverConflicts
  BY DEF RoomsInv, LocalInv, JoinIsCurrent, InsertNeverConflicts
<1>2. QED
  BY <1>1, RoomsAlways, PTL

\* The lobby's predicates, reached through the two instances, are the same.
LEMMA SameLobby ==
  /\ P!Init <=> Lobby!Init
  /\ [P!Next]_lobbyVars <=> [Lobby!Next]_(Lobby!vars)
  /\ P!HostIsEarliest <=> Lobby!HostIsEarliest
  /\ P!OpenRoomsAreOccupied <=> Lobby!OpenRoomsAreOccupied
  /\ P!MatchSeatsItsRoom <=> Lobby!MatchSeatsItsRoom
<1>1. \A S : P!Cardinality(S) = Lobby!Cardinality(S)
  BY DEF P!Cardinality, Lobby!Cardinality
<1>2. /\ \A m : P!Capacity(m) = Lobby!Capacity(m)
      /\ P!Seats = Lobby!Seats /\ P!Modes = Lobby!Modes
      /\ P!NoRow = Lobby!NoRow /\ P!NoRoomRow = Lobby!NoRoomRow
      /\ \A rows : P!MembersOf(rows) = Lobby!MembersOf(rows)
      /\ \A rows, S : P!Earliest(rows, S) = Lobby!Earliest(rows, S)
      /\ \A s, t : P!Seated(s, t) = Lobby!Seated(s, t)
  BY DEF P!Capacity, Lobby!Capacity, P!Seats, Lobby!Seats, P!Modes, Lobby!Modes, P!NoRow, Lobby!NoRow,
     P!NoRoomRow, Lobby!NoRoomRow, P!MembersOf, Lobby!MembersOf, P!Earliest, Lobby!Earliest,
     P!Seated, Lobby!Seated
<1>3. P!NoMatch = Lobby!NoMatch
  BY <1>2 DEF P!NoMatch, Lobby!NoMatch
<1>4. \A rows : P!BuildMatchSides(rows) = Lobby!BuildMatchSides(rows)
  BY <1>2 DEF P!BuildMatchSides, Lobby!BuildMatchSides
<1>5. \A rows, m : P!FreeSeats(rows, m) = Lobby!FreeSeats(rows, m)
  BY <1>2 DEF P!FreeSeats, Lobby!FreeSeats
<1>6. \A rows, m : P!FirstFreeSeat(rows, m) = Lobby!FirstFreeSeat(rows, m)
  BY <1>5 DEF P!FirstFreeSeat, Lobby!FirstFreeSeat
<1>7. \A r : P!Members(r) = Lobby!Members(r)
  BY <1>2 DEF P!Members, Lobby!Members
<1>8. P!Init <=> Lobby!Init
  BY <1>2, <1>3 DEF P!Init, Lobby!Init
<1>9. \A u, r, m, c, t : P!Create(u, r, m, c, t) <=> Lobby!Create(u, r, m, c, t)
  BY <1>2 DEF P!Create, Lobby!Create
<1>10. \A u, r, t : P!Join(u, r, t) <=> Lobby!Join(u, r, t)
  BY <1>2, <1>5, <1>6, <1>7 DEF P!Join, Lobby!Join
<1>11. \A u, r : P!Leave(u, r) <=> Lobby!Leave(u, r)
  BY <1>2, <1>7 DEF P!Leave, Lobby!Leave
<1>12. \A u, r, b : P!SetReady(u, r, b) <=> Lobby!SetReady(u, r, b)
  BY <1>7 DEF P!SetReady, Lobby!SetReady
<1>13. \A u, r : P!Start(u, r) <=> Lobby!Start(u, r)
  BY <1>1, <1>2, <1>4, <1>7 DEF P!Start, Lobby!Start
<1>14. P!Next <=> Lobby!Next
  BY <1>2, <1>9, <1>10, <1>11, <1>12, <1>13 DEF P!Next, Lobby!Next
<1>15. /\ P!HostIsEarliest <=> Lobby!HostIsEarliest
       /\ P!OpenRoomsAreOccupied <=> Lobby!OpenRoomsAreOccupied
  BY <1>7 DEF P!HostIsEarliest, Lobby!HostIsEarliest, P!OpenRoomsAreOccupied, Lobby!OpenRoomsAreOccupied
<1>16. P!MatchSeatsItsRoom <=> Lobby!MatchSeatsItsRoom
  BY <1>2, <1>3, <1>7 DEF P!MatchSeatsItsRoom, Lobby!MatchSeatsItsRoom
<1>17. QED
  BY <1>8, <1>14, <1>15, <1>16 DEF lobbyVars, Lobby!vars

\* Locks, transactions and SetReady without a lock implement the lobby: whatever
\* the interleaving, readers see a history of whole operations.
THEOREM RoomsImplementLobby == Spec => RefinesLobby
<1>1. Init => Lobby!Init
  BY DEF Init
<1>2. RoomsInv /\ [Next]_vars => [Lobby!Next]_(Lobby!vars)
  BY RoomsStep, SameLobby
<1>3. QED
  BY <1>1, <1>2, RoomsAlways, PTL DEF Spec, RefinesLobby, Lobby!Spec

\* The host is always the earliest of the members, in every interleaving.
THEOREM HostIsAlwaysEarliest == Spec => []HostIsEarliest
<1>1. RoomsInv => HostIsEarliest
  BY SameLobby DEF RoomsInv, P!LobbyInv, HostIsEarliest
<1>2. QED
  BY <1>1, RoomsAlways, PTL

\* An open room is never without members, in every interleaving.
THEOREM OpenRoomsAreAlwaysOccupied == Spec => []OpenRoomsAreOccupied
<1>1. RoomsInv => OpenRoomsAreOccupied
  BY SameLobby DEF RoomsInv, P!LobbyInv, OpenRoomsAreOccupied
<1>2. QED
  BY <1>1, RoomsAlways, PTL

\* Every match seats exactly the room it came from, in both modes.
THEOREM MatchesSeatTheirRooms == Spec => []MatchSeatsItsRoom
<1>1. RoomsInv => MatchSeatsItsRoom
  BY SameLobby DEF RoomsInv, P!LobbyInv, MatchSeatsItsRoom
<1>2. QED
  BY <1>1, RoomsAlways, PTL

\* An actor is started at most once, and only for a committed match.
THEOREM ActorsAlwaysHaveMatches == Spec => []ActorsHaveMatches
<1>1. RoomsInv => ActorsHaveMatches
  BY DEF RoomsInv, SpawnsAreApart, ActorsHaveMatches
<1>2. QED
  BY <1>1, RoomsAlways, PTL

\* Whoever holds a room's lock is in a transaction on that room, and nobody holds two:
\* no cycle of requests waits for each other's rooms. The safety half of
\* LocksAreReleased.
THEOREM LocksAlwaysOwned ==
  Spec => [](LocksAreOwned /\ \A r, q \in Rooms : lock[r] # NoWorker /\ lock[r] = lock[q] => r = q)
<1>1. RoomsInv => LocksAreOwned /\ \A r, q \in Rooms : lock[r] # NoWorker /\ lock[r] = lock[q] => r = q
  BY DEF RoomsInv, LocksAreOwned
<1>2. QED
  BY <1>1, RoomsAlways, PTL

\* A closed room never reopens, is never joined and never becomes a second match.
THEOREM ClosedIsForEver == Spec => ClosedRoomsOnlyEmpty
<1> DEFINE Empties(r) == room[r].state = "closed" =>
             /\ room'[r].state = "closed"
             /\ Members(r)' \subseteq Members(r)
             /\ match'[r] = match[r]
<1>1. ASSUME RoomsInv, [Next]_vars, NEW r \in Rooms
      PROVE  Empties(r)
  <2>1. [P!Next]_lobbyVars
    BY <1>1, RoomsStep
  <2>2. /\ room \in [Rooms -> RoomRow] /\ row \in [Rooms -> [Users -> MemberRow]]
        /\ match \in [Rooms -> Sides]
    BY <1>1, RowTypes DEF RoomsInv
  <2>3. \A q : P!Members(q) = MembersOf(row[q])
    BY SameModel DEF P!Members
  <2>4. CASE UNCHANGED lobbyVars
    BY <2>4 DEF lobbyVars, Members
  <2>5. ASSUME NEW u \in Users, NEW q \in Rooms, NEW m, NEW c, NEW t, P!Create(u, q, m, c, t)
        PROVE  Empties(r)
    BY <2>2, <2>5 DEF P!Create, Members
  <2>6. ASSUME NEW u \in Users, NEW q \in Rooms, NEW t, P!Join(u, q, t)
        PROVE  Empties(r)
    BY <2>2, <2>6 DEF P!Join, Members
  <2>7. ASSUME NEW u \in Users, NEW q \in Rooms, P!Leave(u, q)
        PROVE  Empties(r)
    <3>1. room'[r].state = IF r = q /\ P!Members(q) \ {u} = {} THEN "closed" ELSE room[r].state
      BY <2>2, <2>7 DEF P!Leave, RoomRow
    <3>2. \A v \in Users : row'[r][v] = IF r = q /\ v = u THEN NoRow ELSE row[r][v]
      BY <2>2, <2>7, SameModel DEF P!Leave
    <3>3. Members(r)' \subseteq Members(r)
      BY <3>2 DEF Members, MembersOf, NoRow
    <3>4. QED
      BY <3>1, <3>3, <2>7 DEF P!Leave
  <2>8. ASSUME NEW u \in Users, NEW q \in Rooms, NEW b, P!SetReady(u, q, b)
        PROVE  Empties(r)
    <3>1. \A v \in Users : row'[r][v].seat = row[r][v].seat
      BY <2>2, <2>8 DEF P!SetReady, MemberRow
    <3>2. Members(r)' = Members(r)
      BY <3>1 DEF Members, MembersOf
    <3>3. QED
      BY <2>8, <3>2 DEF P!SetReady
  <2>9. ASSUME NEW u \in Users, NEW q \in Rooms, P!Start(u, q)
        PROVE  Empties(r)
    BY <2>2, <2>9 DEF P!Start, Members
  <2>10. QED
    BY <2>1, <2>4, <2>5, <2>6, <2>7, <2>8, <2>9 DEF P!Next
<1>2. RoomsInv /\ [Next]_vars => [\A r \in Rooms : Empties(r)]_vars
  BY <1>1
<1>3. QED
  BY <1>2, RoomsAlways, PTL DEF Spec, ClosedRoomsOnlyEmpty

-----------------------------------------------------------------------------
(* What Start promises when nobody takes a "ready" back                    *)

Unready == \E u \in Users, r \in Rooms : SetReady(u, r, FALSE)

\* The members a start has found ready are ready until it commits.
StartsStayReady ==
  \A w \in Workers : pc[w] = "startCommit" =>
    \A u \in MembersOf(row[tx[w].at]) : row[tx[w].at][u].ready

\* A request that arrives moves its own worker, and commits nothing.
LEMMA ArrivalsMove ==
  ASSUME RoomsInv, NEW w \in Workers,
         \/ \E u \in Users, r \in Rooms : Begin(w, u, r)
         \/ \E u \in Users, c \in Codes : JoinByCodeLock(w, u, c)
  PROVE  OnlyMoves(w) /\ pc'[w] # "startCommit" /\ UNCHANGED lobbyVars
<1>1. pc \in [Workers -> Phases] /\ tx \in [Workers -> Tx]
  BY RowTypes DEF RoomsInv
<1>2. ASSUME NEW u, NEW r, NEW phase, LockRoom(w, u, r, phase), phase # "startCommit"
      PROVE  OnlyMoves(w) /\ pc'[w] # "startCommit" /\ UNCHANGED lobbyVars
  BY <1>1, <1>2 DEF LockRoom, Goto, OnlyMoves
<1>3. ASSUME NEW u, NEW r, NEW m, NEW private, CreateBegin(w, u, r, m, private)
      PROVE  OnlyMoves(w) /\ pc'[w] # "startCommit" /\ UNCHANGED lobbyVars
  BY <1>1, <1>3 DEF CreateBegin, Goto, OnlyMoves
<1>4. QED
  BY <1>2, <1>3 DEF Begin, JoinLock, LeaveLock, StartLock, JoinByCodeLock

\* So does a statement; only StartSelect leads to the commit of a start.
LEMMA StatementsMove ==
  ASSUME RoomsInv, NEW w \in Workers, Proceed(w) \/ LoseSpawn(w)
  PROVE  OnlyMoves(w) /\ (pc'[w] = "startCommit" => StartSelect(w))
<1>1. pc \in [Workers -> Phases] /\ tx \in [Workers -> Tx]
  BY RowTypes DEF RoomsInv
<1>2. EndTx(w) => OnlyMoves(w) /\ pc'[w] # "startCommit"
  BY <1>1 DEF EndTx, Goto, OnlyMoves
<1>3. CASE LoseSpawn(w) \/ Spawn(w) \/ Rollback(w) \/ CommitCreate(w) \/ CommitJoin(w) \/ CommitLeave(w)
  BY <1>2, <1>3 DEF LoseSpawn, Spawn, Rollback, CommitCreate, CommitJoin, CommitLeave
<1>4. CASE \/ \E c \in Codes \cup {NoCode} : CreateInsert(w, c)
           \/ JoinSelect(w) \/ JoinInsert(w) \/ LeaveDelete(w) \/ LeaveSelect(w) \/ CommitStart(w)
  BY <1>1, <1>4 DEF CreateInsert, JoinSelect, JoinInsert, LeaveDelete, LeaveSelect,
     CommitStart, Goto, OnlyMoves
<1>5. CASE \E c \in Codes : CreateCollide(w, c)
  BY <1>1, <1>2, <1>5 DEF CreateCollide, OnlyMoves
<1>6. CASE StartSelect(w)
  BY <1>1, <1>6 DEF StartSelect, Goto, OnlyMoves
<1>7. QED
  BY <1>3, <1>4, <1>5, <1>6 DEF Proceed

\* It writes no rows of a room that another transaction has locked.
LEMMA StatementsWrite ==
  ASSUME RoomsInv, NEW w \in Workers, Proceed(w) \/ LoseSpawn(w),
         NEW v \in Workers \ {w}, pc[v] \in Locked
  PROVE  row'[tx[v].at] = row[tx[v].at]
<1>1. row \in [Rooms -> [Users -> MemberRow]] /\ tx[v].at \in Rooms
  BY RowTypes, WorkerFacts DEF RoomsInv
<1>2. CASE CommitCreate(w) \/ CommitJoin(w) \/ CommitLeave(w)
  <2>1. pc[w] \in Locked \cup Creating
    BY <1>2 DEF CommitCreate, CommitJoin, CommitLeave, Locked, Creating
  <2>2. tx[v].at # tx[w].at
    BY <2>1, TransactionsAreApart
  <2>3. QED
    BY <1>1, <1>2, <2>2 DEF CommitCreate, CommitJoin, CommitLeave
<1>3. CASE ~ (CommitCreate(w) \/ CommitJoin(w) \/ CommitLeave(w))
  BY <1>3 DEF Proceed, CreateInsert, CreateCollide, JoinSelect, JoinInsert, LeaveDelete,
     LeaveSelect, StartSelect, CommitStart, Spawn, LoseSpawn, Rollback, lobbyVars
<1>4. QED
  BY <1>2, <1>3

LEMMA StayReadyNext ==
  ASSUME RoomsInv, StartsStayReady, [Next /\ ~Unready]_vars
  PROVE  StartsStayReady'
<1> SUFFICES ASSUME NEW v \in Workers, pc'[v] = "startCommit"
             PROVE  \A u \in MembersOf(row[tx[v].at])' : row'[tx'[v].at][u].ready
  BY DEF StartsStayReady
<1> DEFINE Kept == pc'[v] = pc[v] /\ tx'[v] = tx[v] /\ row'[tx[v].at] = row[tx[v].at]
<1>1. ASSUME Kept
      PROVE  \A u \in MembersOf(row[tx[v].at])' : row'[tx'[v].at][u].ready
  BY <1>1 DEF StartsStayReady, MembersOf
<1>2. ASSUME NEW w \in Workers,
             \/ \E u \in Users, r \in Rooms : Begin(w, u, r)
             \/ \E u \in Users, c \in Codes : JoinByCodeLock(w, u, c)
      PROVE  Kept
  BY <1>2, ArrivalsMove DEF OnlyMoves, lobbyVars
<1>3. ASSUME NEW w \in Workers \ {v}, Proceed(w) \/ LoseSpawn(w)
      PROVE  Kept
  BY <1>3, StatementsMove, StatementsWrite DEF OnlyMoves, Locked
<1>4. ASSUME Proceed(v) \/ LoseSpawn(v)
      PROVE  \A u \in MembersOf(row[tx[v].at])' : row'[tx'[v].at][u].ready
  <2>1. StartSelect(v)
    BY <1>4, StatementsMove
  <2>2. tx'[v].at = tx[v].at /\ row' = row
    BY <2>1, WorkerFacts DEF StartSelect, Tx, lobbyVars
  <2>3. QED
    BY <2>1, <2>2 DEF StartSelect, MembersOf
<1>5. ASSUME NEW u \in Users, NEW r \in Rooms, SetReady(u, r, TRUE)
      PROVE  \A x \in MembersOf(row[tx[v].at])' : row'[tx'[v].at][x].ready
  <2>1. tx'[v] = tx[v] /\ pc'[v] = pc[v]
    BY <1>5 DEF SetReady
  <2>2. tx[v].at \in Rooms
    BY <2>1, WorkerFacts DEF Locked
  <2>3. /\ row \in [Rooms -> [Users -> MemberRow]] /\ row[r] \in [Users -> MemberRow]
        /\ row' = [row EXCEPT ![r][u].ready = TRUE]
    BY <1>5, RowTypes DEF SetReady, RoomsInv
  <2>4. \A x \in Users : tx[v].at # r \/ x # u => row'[tx[v].at][x] = row[tx[v].at][x]
    BY <2>2, <2>3
  <2>5. row'[r][u].seat = row[r][u].seat /\ row'[r][u].ready
    <3>1. row'[r][u] = [row[r][u] EXCEPT !.ready = TRUE] /\ row[r][u] \in MemberRow
      BY <2>3
    <3>2. QED
      BY <3>1 DEF MemberRow
  <2>6. ASSUME NEW x \in MembersOf(row[tx[v].at])' PROVE row'[tx[v].at][x].ready
    <3>1. x \in Users /\ row'[tx[v].at][x].seat # 0
      BY <2>1 DEF MembersOf
    <3>2. CASE tx[v].at = r /\ x = u
      BY <2>5, <3>2
    <3>3. CASE tx[v].at # r \/ x # u
      <4>1. row'[tx[v].at][x] = row[tx[v].at][x]
        BY <2>4, <3>1, <3>3
      <4>2. x \in MembersOf(row[tx[v].at])
        BY <3>1, <4>1 DEF MembersOf
      <4>3. row[tx[v].at][x].ready
        BY <2>1, <4>2 DEF StartsStayReady
      <4>4. QED
        BY <4>1, <4>3
    <3>4. QED
      BY <3>2, <3>3
  <2>7. QED
    BY <2>1, <2>6
<1>6. CASE UNCHANGED vars
  BY <1>1, <1>6 DEF vars, lobbyVars
<1>7. QED
  BY <1>1, <1>2, <1>3, <1>4, <1>5, <1>6 DEF Next, Unready

\* Only the commit of a start writes a match.
LEMMA MatchesAreCommitted ==
  ASSUME RoomsInv, [Next]_vars, NEW r \in Rooms, match'[r] # match[r]
  PROVE  \E w \in Workers : pc[w] = "startCommit" /\ tx[w].at = r
<1>1. UNCHANGED match \/ \E w \in Workers : CommitStart(w)
  <2>1. ASSUME NEW w \in Workers, Proceed(w) \/ LoseSpawn(w)
        PROVE  UNCHANGED match \/ CommitStart(w)
    BY <2>1 DEF Proceed, CreateInsert, CreateCollide, CommitCreate, JoinSelect, JoinInsert, CommitJoin,
       LeaveDelete, LeaveSelect, CommitLeave, StartSelect, Spawn, LoseSpawn, Rollback, lobbyVars
  <2>2. QED
    BY <2>1, ArrivalsMove DEF Next, SetReady, vars, lobbyVars
<1>2. match \in [Rooms -> Sides]
  BY RowTypes DEF RoomsInv
<1>3. QED
  BY <1>1, <1>2 DEF CommitStart

\* "Start turns a full, fully-ready room into a match" (service.go:245) fails only
\* through SetReady(false) between Start's check and its commit: if nobody takes a
\* "ready" back, every member is ready when a match of the room is committed.
THEOREM ReadyIsEnough == Init /\ [][Next /\ ~Unready]_vars => StartsOnlyWhenReady
<1>1. Init => RoomsInv /\ StartsStayReady
  BY RoomsInit DEF Init, StartsStayReady
<1>2. RoomsInv /\ StartsStayReady /\ [Next /\ ~Unready]_vars => RoomsInv' /\ StartsStayReady'
  BY RoomsNext, StayReadyNext
<1>3. RoomsInv /\ StartsStayReady /\ [Next /\ ~Unready]_vars =>
        [\A r \in Rooms : match'[r] # match[r] => \A u \in Members(r) : row[r][u].ready]_vars
  BY MatchesAreCommitted DEF StartsStayReady, Members
<1>4. QED
  BY <1>1, <1>2, <1>3, PTL DEF StartsOnlyWhenReady
=============================================================================
