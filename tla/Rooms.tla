-------------------------------- MODULE Rooms --------------------------------
(***************************************************************************)
(* The rooms service (internal/rooms/service.go, repository.go) at the     *)
(* level of its SQL statements. A worker is one goroutine of the HTTP      *)
(* server with one request in flight; a request that changes membership,   *)
(* host or state runs in postgres.InTx: it locks the room row with SELECT  *)
(* ... FOR UPDATE, reads, decides, writes and commits, and what it writes  *)
(* is seen by others only at the commit (READ COMMITTED). SetReady is one  *)
(* UPDATE that takes no room lock.                                         *)
(*                                                                         *)
(* A request the code refuses on the room row itself (not found, closed,   *)
(* wrong join path, not the host) has no action here: it rolls back having *)
(* changed nothing. A refusal after a later statement is Rollback.         *)
(* Detail, which every handler returns, only reads, and is left out.       *)
(***************************************************************************)
EXTENDS RoomModel

CONSTANTS
  Workers,     \* goroutines serving requests
  NoWorker,    \* nobody holds the lock
  NoRoom       \* a worker without a request

ASSUME WorkersAssumption == NoWorker \notin Workers /\ NoRoom \notin Rooms

VARIABLES
  room, row, match,  \* the committed rows, as in RoomLobby
  lock,    \* lock[r]: the worker whose transaction holds room r's row lock
  clock,   \* the last clock_timestamp() given to an INSERT
  pc,      \* pc[w]: the next statement of w's request
  tx,      \* tx[w]: what w's transaction knows and has not committed
  actors   \* the rooms whose match StartActor has been called for

lobbyVars == <<room, row, match>>
vars == <<room, row, match, lock, clock, pc, tx, actors>>

Lobby == INSTANCE RoomLobby

\* Between FOR UPDATE and COMMIT: the worker holds the lock of its room.
Locked == {"joinSelect", "joinInsert", "conflict", "joinCommit",
           "leaveDelete", "leaveSelect", "leaveCommit",
           "startSelect", "startCommit"}
Creating == {"createInsert", "createCommit"}
Phases == {"idle", "spawn"} \cup Locked \cup Creating

\* user, at: the request. room: the row read FOR UPDATE, or inserted by Create.
\* seat, joined: the member row inserted. host, closes, sides: the UPDATEs and
\* the match INSERT to commit.
Tx == [user    : Users \cup {NoUser},
       at      : Rooms \cup {NoRoom},
       room    : RoomRow,
       private : BOOLEAN,
       seat    : 0 .. 4,
       joined  : 0 .. MaxJoins,
       host    : Users \cup {NoUser},
       closes  : BOOLEAN,
       sides   : Sides]

NoTx == [user |-> NoUser, at |-> NoRoom, room |-> NoRoomRow, private |-> FALSE,
         seat |-> 0, joined |-> 0, host |-> NoUser,
         closes |-> FALSE, sides |-> NoMatch]

TypeOK ==
  /\ Lobby!TypeOK
  /\ lock \in [Rooms -> Workers \cup {NoWorker}]
  /\ clock \in 0 .. MaxJoins
  /\ pc \in [Workers -> Phases]
  /\ tx \in [Workers -> Tx]
  /\ actors \subseteq Rooms

Init ==
  /\ Lobby!Init
  /\ lock = [r \in Rooms |-> NoWorker]
  /\ clock = 0
  /\ pc = [w \in Workers |-> "idle"]
  /\ tx = [w \in Workers |-> NoTx]
  /\ actors = {}

Members(r) == MembersOf(row[r])

Goto(w, phase) == pc' = [pc EXCEPT ![w] = phase]

\* Faulty variant: the SELECT has no FOR UPDATE and waits for nobody.
LockRoomNoWait(w, u, r, phase) ==
  /\ pc[w] = "idle"
  /\ lock' = [lock EXCEPT ![r] = w]
  /\ tx' = [tx EXCEPT ![w].user = u, ![w].at = r, ![w].room = room[r]]
  /\ Goto(w, phase)
  /\ UNCHANGED <<lobbyVars, clock, actors>>

\* selectRoomForUpdate: granted when no other transaction holds the row, and
\* reading the latest committed version of it.
LockRoom(w, u, r, phase) ==
  /\ pc[w] = "idle"
  /\ lock[r] = NoWorker
  /\ lock' = [lock EXCEPT ![r] = w]
  /\ tx' = [tx EXCEPT ![w].user = u, ![w].at = r, ![w].room = room[r]]
  /\ Goto(w, phase)
  /\ UNCHANGED <<lobbyVars, clock, actors>>

\* The transaction ends, committed or not: its locks go with it.
EndTx(w) ==
  /\ lock' = [r \in Rooms |-> IF lock[r] = w THEN NoWorker ELSE lock[r]]
  /\ tx' = [tx EXCEPT ![w] = NoTx]
  /\ Goto(w, "idle")

-----------------------------------------------------------------------------
(* Service.Create                                                          *)

\* The request: a fresh uuid, the host, the mode, the visibility.
CreateBegin(w, u, r, m, private) ==
  /\ pc[w] = "idle"
  /\ room[r].state = "none"
  /\ \A v \in Workers : tx[v].at # r
  /\ tx' = [tx EXCEPT ![w] = [NoTx EXCEPT
       !.user = u, !.at = r, !.private = private,
       !.room = [state |-> "open", mode |-> m, code |-> NoCode, host |-> u]]]
  /\ Goto(w, "createInsert")
  /\ UNCHANGED <<lobbyVars, lock, clock, actors>>

\* insertRoom under a freshly drawn code, then insertMember for the host. The
\* unique index on join_code makes the INSERT wait for another transaction that
\* has the same code uncommitted.
CreateInsert(w, c) ==
  /\ pc[w] = "createInsert"
  /\ c = NoCode <=> ~tx[w].private
  /\ c # NoCode => /\ \A q \in Rooms : room[q].code # c
                   /\ \A v \in Workers : pc[v] = "createCommit" => tx[v].room.code # c
  /\ clock < MaxJoins
  /\ clock' = clock + 1
  /\ tx' = [tx EXCEPT ![w].room.code = c, ![w].seat = 1, ![w].joined = clock + 1]
  /\ Goto(w, "createCommit")
  /\ UNCHANGED <<lobbyVars, lock, actors>>

\* The INSERT violates the unique index. The violation comes out of collecting its
\* row, where insertRoom does not map it to errJoinCodeCollision: Create does not
\* know it for one, and its loop ends at the first attempt with an error.
CreateCollide(w, c) ==
  /\ pc[w] = "createInsert"
  /\ tx[w].private
  /\ \E q \in Rooms : room[q].code = c
  /\ EndTx(w)
  /\ UNCHANGED <<lobbyVars, clock, actors>>

CommitCreate(w) ==
  /\ pc[w] = "createCommit"
  /\ room' = [room EXCEPT ![tx[w].at] = tx[w].room]
  /\ row' = [row EXCEPT ![tx[w].at][tx[w].user] = Lobby!Seated(tx[w].seat, tx[w].joined)]
  /\ EndTx(w)
  /\ UNCHANGED <<match, clock, actors>>

-----------------------------------------------------------------------------
(* Service.Join, Service.JoinByCode, seatMember                            *)

\* Faulty variant: seatMember does not look at the room's state.
JoinLockAnyState(w, u, r) ==
  /\ room[r].state # "none"
  /\ room[r].code = NoCode
  /\ LockRoom(w, u, r, "joinSelect")

\* Join: a public room by its id. seatMember refuses a closed room.
JoinLock(w, u, r) ==
  /\ room[r].state = "open"
  /\ room[r].code = NoCode
  /\ LockRoom(w, u, r, "joinSelect")

\* JoinByCode: the open room that has the code, re-checked once the lock is granted.
JoinByCodeLock(w, u, c) ==
  \E r \in Rooms :
    /\ room[r].code = c
    /\ room[r].state = "open"
    /\ LockRoom(w, u, r, "joinSelect")

\* Faulty variant: the newcomer sits down behind the last of those already seated.
JoinSelectAtEnd(w) ==
  LET rows == row[tx[w].at] IN
  /\ pc[w] = "joinSelect"
  /\ tx[w].user \notin MembersOf(rows)
  /\ Cardinality(MembersOf(rows)) < Capacity(tx[w].room.mode)
  /\ \E u \in MembersOf(rows) :
       /\ \A v \in MembersOf(rows) : rows[v].seat <= rows[u].seat
       /\ tx' = [tx EXCEPT ![w].seat = rows[u].seat + 1]
  /\ Goto(w, "joinInsert")
  /\ UNCHANGED <<lobbyVars, lock, clock, actors>>

\* selectMembers and the choice of a seat; ErrAlreadyMember and ErrRoomFull are
\* a Rollback from here.
JoinSelect(w) ==
  LET rows == row[tx[w].at] IN
  /\ pc[w] = "joinSelect"
  /\ tx[w].user \notin MembersOf(rows)
  /\ FreeSeats(rows, tx[w].room.mode) # {}
  /\ tx' = [tx EXCEPT ![w].seat = FirstFreeSeat(rows, tx[w].room.mode)]
  /\ Goto(w, "joinInsert")
  /\ UNCHANGED <<lobbyVars, lock, clock, actors>>

\* insertMember, against the primary key (room_id, user_id) and the unique index
\* on (room_id, side, slot).
JoinInsert(w) ==
  LET r == tx[w].at
      taken == row[r][tx[w].user].seat # 0 \/ \E v \in Users : row[r][v].seat = tx[w].seat
  IN
  /\ pc[w] = "joinInsert"
  /\ clock < MaxJoins
  /\ clock' = clock + 1
  /\ tx' = [tx EXCEPT ![w].joined = clock + 1]
  /\ Goto(w, IF taken THEN "conflict" ELSE "joinCommit")
  /\ UNCHANGED <<lobbyVars, lock, actors>>

CommitJoin(w) ==
  /\ pc[w] = "joinCommit"
  /\ row' = [row EXCEPT ![tx[w].at][tx[w].user] = Lobby!Seated(tx[w].seat, tx[w].joined)]
  /\ EndTx(w)
  /\ UNCHANGED <<room, match, clock, actors>>

-----------------------------------------------------------------------------
(* Service.Leave                                                           *)

LeaveLock(w, u, r) ==
  /\ room[r].state # "none"
  /\ LockRoom(w, u, r, "leaveDelete")

\* deleteMember; no row is ErrNotMember and a Rollback.
LeaveDelete(w) ==
  /\ pc[w] = "leaveDelete"
  /\ tx[w].user \in Members(tx[w].at)
  /\ Goto(w, "leaveSelect")
  /\ UNCHANGED <<lobbyVars, lock, clock, tx, actors>>

\* Faulty variant: the next host is the one in the first seat.
LeaveSelectFirstSeat(w) ==
  LET rows == row[tx[w].at]
      rest == MembersOf(rows) \ {tx[w].user}
  IN
  /\ pc[w] = "leaveSelect"
  /\ tx' = [tx EXCEPT
       ![w].closes = (rest = {}),
       ![w].host = IF rest # {} /\ tx[w].room.host = tx[w].user
                   THEN CHOOSE u \in rest : \A v \in rest : rows[u].seat <= rows[v].seat
                   ELSE NoUser]
  /\ Goto(w, "leaveCommit")
  /\ UNCHANGED <<lobbyVars, lock, clock, actors>>

\* selectMembers sees the transaction's own DELETE; then closeRoom, or setHost
\* when the row read FOR UPDATE named the leaver, or nothing.
LeaveSelect(w) ==
  LET rows == row[tx[w].at]
      rest == MembersOf(rows) \ {tx[w].user}
  IN
  /\ pc[w] = "leaveSelect"
  /\ tx' = [tx EXCEPT
       ![w].closes = (rest = {}),
       ![w].host = IF rest # {} /\ tx[w].room.host = tx[w].user
                   THEN Earliest(rows, rest) ELSE NoUser]
  /\ Goto(w, "leaveCommit")
  /\ UNCHANGED <<lobbyVars, lock, clock, actors>>

\* Faulty variant: setHost is not called.
CommitLeaveKeepingHost(w) ==
  LET r == tx[w].at IN
  /\ pc[w] = "leaveCommit"
  /\ row' = [row EXCEPT ![r][tx[w].user] = NoRow]
  /\ room' = [room EXCEPT ![r].state = IF tx[w].closes THEN "closed" ELSE @]
  /\ EndTx(w)
  /\ UNCHANGED <<match, clock, actors>>

CommitLeave(w) ==
  LET r == tx[w].at IN
  /\ pc[w] = "leaveCommit"
  /\ row' = [row EXCEPT ![r][tx[w].user] = NoRow]
  /\ room' = [room EXCEPT
       ![r].state = IF tx[w].closes THEN "closed" ELSE @,
       ![r].host = IF tx[w].host # NoUser THEN tx[w].host ELSE @]
  /\ EndTx(w)
  /\ UNCHANGED <<match, clock, actors>>

-----------------------------------------------------------------------------
(* Service.SetReady                                                        *)

\* One UPDATE outside any transaction and without the room's lock. It waits only
\* for a transaction that has deleted this very row and not committed.
SetReady(u, r, b) ==
  /\ u \in Members(r)
  /\ \A w \in Workers :
       pc[w] \in {"leaveSelect", "leaveCommit"} => tx[w].user # u \/ tx[w].at # r
  /\ row' = [row EXCEPT ![r][u].ready = b]
  /\ UNCHANGED <<room, match, lock, clock, pc, tx, actors>>

-----------------------------------------------------------------------------
(* Service.Start                                                           *)

StartLock(w, u, r) ==
  /\ room[r].host = u
  /\ room[r].state = "open"
  /\ LockRoom(w, u, r, "startSelect")

\* Faulty variant: a room that is not full may start.
StartSelectUnderfull(w) ==
  LET rows == row[tx[w].at] IN
  /\ pc[w] = "startSelect"
  /\ Cardinality(MembersOf(rows)) <= Capacity(tx[w].room.mode)
  /\ \A u \in MembersOf(rows) : rows[u].ready
  /\ tx' = [tx EXCEPT ![w].sides = BuildMatchSides(rows), ![w].closes = TRUE]
  /\ Goto(w, "startCommit")
  /\ UNCHANGED <<lobbyVars, lock, clock, actors>>

\* The members are read and checked; ErrRoomNotFull and ErrNotAllReady are a
\* Rollback. Then matches.CreateInTx and closeRoom, not yet committed.
StartSelect(w) ==
  LET rows == row[tx[w].at] IN
  /\ pc[w] = "startSelect"
  /\ Cardinality(MembersOf(rows)) = Capacity(tx[w].room.mode)
  /\ \A u \in MembersOf(rows) : rows[u].ready
  /\ tx' = [tx EXCEPT ![w].sides = BuildMatchSides(rows), ![w].closes = TRUE]
  /\ Goto(w, "startCommit")
  /\ UNCHANGED <<lobbyVars, lock, clock, actors>>

\* COMMIT releases the lock; the goroutine keeps the match it will start.
CommitStart(w) ==
  LET r == tx[w].at IN
  /\ pc[w] = "startCommit"
  /\ match' = [match EXCEPT ![r] = tx[w].sides]
  /\ room' = [room EXCEPT ![r].state = "closed"]
  /\ lock' = [lock EXCEPT ![r] = NoWorker]
  /\ Goto(w, "spawn")
  /\ UNCHANGED <<row, clock, tx, actors>>

\* StartActor, after InTx has returned without an error.
Spawn(w) ==
  /\ pc[w] = "spawn"
  /\ actors' = actors \cup {tx[w].at}
  /\ EndTx(w)
  /\ UNCHANGED <<lobbyVars, clock>>

\* The same after a commit whose acknowledgement was lost, so that InTx returned
\* an error, or when the process dies before the call: the match stays.
LoseSpawn(w) ==
  /\ pc[w] = "spawn"
  /\ EndTx(w)
  /\ UNCHANGED <<lobbyVars, clock, actors>>

-----------------------------------------------------------------------------
\* Faulty variant: StartActor is called whether or not InTx succeeded.
RollbackThenSpawn(w) ==
  /\ pc[w] \in Locked \cup Creating
  /\ EndTx(w)
  /\ actors' = actors \cup (IF pc[w] = "startCommit" THEN {tx[w].at} ELSE {})
  /\ UNCHANGED <<lobbyVars, clock>>

\* Faulty variant: an error path returns without ending the transaction.
RollbackForgotten(w) ==
  /\ pc[w] \in Locked \cup Creating
  /\ tx' = [tx EXCEPT ![w] = NoTx]
  /\ Goto(w, "idle")
  /\ UNCHANGED <<lobbyVars, lock, clock, actors>>

\* Any error between BEGIN and COMMIT: a refusal, a failed statement, a cancelled
\* request context, a lost connection, the death of the process.
Rollback(w) ==
  /\ pc[w] \in Locked \cup Creating
  /\ EndTx(w)
  /\ UNCHANGED <<lobbyVars, clock, actors>>

\* The arrival of a request that takes the room's lock, or of a Create.
Begin(w, u, r) ==
  \/ \E m \in Modes, private \in BOOLEAN : CreateBegin(w, u, r, m, private)
  \/ JoinLock(w, u, r)
  \/ LeaveLock(w, u, r)
  \/ StartLock(w, u, r)

\* The next statement of a transaction in progress.
Proceed(w) ==
  \/ \E c \in Codes \cup {NoCode} : CreateInsert(w, c)
  \/ \E c \in Codes : CreateCollide(w, c)
  \/ CommitCreate(w)
  \/ JoinSelect(w) \/ JoinInsert(w) \/ CommitJoin(w)
  \/ LeaveDelete(w) \/ LeaveSelect(w) \/ CommitLeave(w)
  \/ StartSelect(w) \/ CommitStart(w) \/ Spawn(w)
  \/ Rollback(w)

Next ==
  \/ \E w \in Workers, u \in Users, r \in Rooms : Begin(w, u, r)
  \/ \E w \in Workers, u \in Users, c \in Codes : JoinByCodeLock(w, u, c)
  \/ \E w \in Workers : Proceed(w) \/ LoseSpawn(w)
  \/ \E u \in Users, r \in Rooms, b \in BOOLEAN : SetReady(u, r, b)

Spec == Init /\ [][Next]_vars

\* A goroutine that is running keeps running: its statements return, or fail.
FairSpec == Spec /\ \A w \in Workers : WF_vars(Proceed(w))

-----------------------------------------------------------------------------
(* Properties                                                              *)

\* The transactions, their locks and the unlocked SetReady together behave as
\* if every operation of the service were one atomic step on the visible rows.
RefinesLobby == Lobby!Spec

\* The unique constraints on room_members never fire: a join that holds the
\* room's lock chose its seat from rows that are still the current ones when it
\* inserts (mapRoomError calls the seat conflict "unreachable").
InsertNeverConflicts == \A w \in Workers : pc[w] # "conflict"

\* Whatever arrives and leaves in whatever order, a room with members is hosted
\* by the one among them who joined first (Leave's hand-over).
HostIsEarliest == Lobby!HostIsEarliest

\* No room stays open after its last member left, and no room becomes visible
\* without its host seated (Leave's closeRoom, Create's single transaction).
OpenRoomsAreOccupied == Lobby!OpenRoomsAreOccupied

\* A committed match has a closed room, a different player in every seat, and
\* every member still listed in the seat they play (Start, buildMatchSides).
MatchSeatsItsRoom == Lobby!MatchSeatsItsRoom

\* Once closed a room stays closed: no one enters, no second match replaces the
\* first, only departures and ready flags still change its rows.
ClosedRoomsOnlyEmpty ==
  [][\A r \in Rooms : room[r].state = "closed" =>
       /\ room'[r].state = "closed"
       /\ Members(r)' \subseteq Members(r)
       /\ match'[r] = match[r]]_vars

\* StartActor runs at most once for a match and only for a match that is
\* committed: no actor ever drives a match that was rolled back.
ActorsHaveMatches ==
  /\ \A r \in actors : match[r] # NoMatch
  /\ \A w \in Workers : pc[w] = "spawn" => tx[w].at \notin actors

\* A request that got its room's lock gives it back: no order of requests leaves
\* a room locked for ever.
LocksAreReleased ==
  \A r \in Rooms : lock[r] # NoWorker ~> lock[r] = NoWorker

\* What Start's comment says of it: it turns a fully ready room into a match. A
\* member whose own row says "not ready" at the commit contradicts it.
StartsOnlyWhenReady ==
  [][\A r \in Rooms : match'[r] # match[r] => \A u \in Members(r) : row[r][u].ready]_vars
=============================================================================
