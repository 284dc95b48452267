# billiards-online in TLA+

A verification project kept beside the code. It models the parts of
billiards-online whose correctness depends on what happens *between* steps:
transactions that interleave, goroutines that outlive requests, a process that
is told to stop, writes that fail, events of sockets long dropped. TLC checks the models on small instances;
TLAPS proves the central theorems for every value of the constants.

Everything is translated from the Go, SQL and TypeScript sources. A definition carries the
name of the function it stands for where TLA+ allows it, and
`PROJECT.json` ("map") names the lines.

## 1. The system and its parts

The server is one Go process (`apps/server/cmd/server/main.go`) over PostgreSQL;
the client is an Angular application. Features are layered: users (L0), auth
(L1), matches (L3), rooms (L4), realtime (L6). There is no gameplay yet: a match
has a lifecycle and a shot clock, and turns pass when the clock runs out.

| Part | State it keeps | Operations | Talks to | What is hard |
|---|---|---|---|---|
| rooms service (`internal/rooms`) | tables `rooms`, `room_members` | Create, Join, JoinByCode, Leave, SetReady, Start, Detail, ListPublicOpen | `postgres.InTx`, `matches.CreateInTx`, `matches.StartActor` | concurrent requests between the statements of a transaction; the one operation without a lock; the commit that is not acknowledged |
| match lifecycle (`internal/matches/model.go`, `turn.go`) | none (pure) | Transition, firstTurn, nextTurn | used by the actor | every edge, every turn, no index out of range |
| match actors (`internal/matches/actor.go`, `registry.go`, `service.go`) | the actor's `Match`, its inbox, the registry map, a wait group, table `matches` | Create, StartActor, run, Stop, Get, Wait | PostgreSQL; the process context | memory and row written in two steps, failed and overtaken writes, `select` with several ready cases, shutdown |
| server process (`main.go`) | the signal context, the listeners, the pool | run, shutdown | everything | one shutdown budget for requests and actors; a pool closed under late ones, whose end waits for connections in use; restart |
| websocket connection (`platform/websocket/conn.go`) | a queue of 64 frames, `full` and `done` channels | Accept, Read, Send, CloseAfterDrain, Close | gateway, router | queue full, drain against close, pump blocked in a write |
| realtime gateway and router (`internal/realtime`) | one sequence counter per connection | ServeWS, serve, handle, send | auth, conn | reader, pump and shutdown watcher end in any order |
| wire protocol (`game/protocol`) | none | encode, decode | router | – |
| auth (`internal/auth`) | tables `credentials`, `sessions`; the browser's cookie | Signup, Login, RequireAuth, OptionalAuth, Authenticate, Logout, LogoutAll, PurgeExpiredSessions | users, rate limiter, cookies | a session is read in one statement and renewed in another: logout, expiry, purge and older renewals come between |
| users (`internal/users`) | tables `users`, `player_profiles` | Create, ByID, ByEmail, UpdateProfile | postgres | two inserts and several unique indexes |
| rate limiter (`platform/security/ratelimit.go`) | token buckets per key, a sweeper goroutine | Allow, Reset, sweep, Close | login, sign-up, creation of rooms | the sweep must be invisible |
| tokens, passwords, config, logging | none | – | – | – |
| postgres (`platform/postgres`) | the pool | Connect, InTx | every feature | rollback on every path |
| web client: realtime service (`realtime.service.ts`) | socket, timer, attempts, last sequence number | connect, disconnect, send, reconnect, onopen, onmessage, onclose | server | late events of old sockets |
| web client: pages and services | signals | lobby paging (`lobby.ts`), room actions, login | REST API | overlapping answers, rooms that come and go between pages |
| infrastructure, migrations, architecture tests | – | – | – | – |

How they meet. A request runs in its own goroutine. The rooms service serialises
changes of one room with `SELECT … FOR UPDATE` on its row inside `InTx`. Start
inserts the match in the same transaction as it closes the room and, after the
commit, calls `StartActor`; from then on one goroutine owns the match and
nobody else writes its row. All actors share the process's signal context.
Readers (`Detail`, `matches.Service.Get`) only ever see committed rows.

What makes each part correct:

* rooms: every operation is atomic to a reader; one user per seat; a room with
  members is hosted by the earliest of them; no open room is empty; a match
  seats exactly the people of a full room, and its room never reopens; locks are
  given back.
* match actors: memory follows the state diagram; each player gets the turn; a
  row that has ended stays as it is; the registry and the wait group agree with
  the goroutines; shutdown reaches every actor and ends.
* websocket and router: frames leave in order and at most once; a full queue
  closes the connection; what was queued before CloseAfterDrain is written
  before its close frame, and nothing after it; all three goroutines terminate.
* auth, users: a session that was logged out is never revived; one that is used
  is not lost; user, profile and credential exist together.
* rate limiter: with or without the sweep, the same calls are allowed, and a
  period grants no more than the burst and what came back in it.
* web client: one live socket, none after disconnect, a lost one comes back; the
  lobby shows each room once and misses none that stayed open.

`PROJECT.json` ("hazards") lists, at the line where each bites, what a test
would hardly reach.

## 2. Modules

```
RoomModel ── RoomLobby (abstract)          MatchModel ── MatchLifecycle (abstract)
    │            ▲ refined by                  │              ▲ refined by
    └───────── Rooms ── MCRooms                └──────── MatchActors
RoomLobbyProofs, RoomsProofs                        MatchActorsProofs

FrameStream (abstract)  ◀─ refined by ─  WsConnection        WsConnectionProofs
TokenBucket (abstract)  ◀─ refined by ─  RateLimiter         RateLimiterProofs

Auth ── MCAuth, AuthProofs      RealtimeClient ── RealtimeClientProofs      LobbyPage ── LobbyPageProofs
```

**RoomModel** holds the values and the pure functions of `internal/rooms`. A
seat is its position in `seatOrder`; a member row is a function of the user whose
`seat` is 0 when there is no row. `Earliest` is the loop of `Leave`,
`FirstFreeSeat` the loop of `seatMember`, `BuildMatchSides` is `buildMatchSides`.

**RoomLobby** is the abstract specification of the rooms service: six operations,
each one atomic step on the three visible tables.

**Rooms** is the service statement by statement. A *worker* is a goroutine with
one request; `pc[w]` names its next statement, `tx[w]` what its transaction knows
and has not committed, `lock[r]` the holder of the row lock.

| Code | Actions |
|---|---|
| `Service.Create`, whose loop ends at the first attempt (see the divergences) | CreateBegin, CreateInsert, CreateCollide, CommitCreate |
| `Service.Join`, `JoinByCode`, `seatMember` | JoinLock, JoinByCodeLock, JoinSelect, JoinInsert, CommitJoin |
| `Service.Leave` | LeaveLock, LeaveDelete, LeaveSelect, CommitLeave |
| `Service.SetReady` (no transaction) | SetReady |
| `Service.Start` | StartLock, StartSelect, CommitStart, then Spawn or LoseSpawn |
| any error in `InTx` | Rollback |

Writes become visible at the commit (READ COMMITTED), so a Commit action is the
only one that changes `room`, `row` or `match` besides SetReady. A unique index
makes an INSERT wait for another transaction's uncommitted row, and an UPDATE
waits for an uncommitted DELETE of its row: both are guards. Requests refused on
the room row itself have changed nothing and have no action; a refusal after a
later statement is Rollback, which may happen at any point.

**MatchModel** has the diagram, `Transition`'s relation and `nextTurn`;
**MatchLifecycle** is the abstract match: it moves along the diagram, is dealt a
turn before play and passes it on while play lasts.

**MatchActors** is one server process after another on one database. `pc[m]`
follows match *m* from the request that creates it through `Registry.Start`,
`run`, and the deferred `remove` and `wg.Done`; `mem[m]` is the actor's `Match`,
`row[m]` the table's. `transition` and `setTurn` change `mem` first and the row
in a later step, which may fail: the code logs the error and goes on. An UPDATE
that was sent and then given up, because its context ended or its connection
broke, may be `afloat`: the database may still execute it (Land), before or after
the actor's next one, which uses another connection of the pool. `faulted`
remembers the matches an UPDATE of which the database did not execute in time
although the process let it. A request in its transaction (`"tx"`) holds a
connection, and so do the actors in `out`, whose UPDATE was under way when the
pool began to close; `pool.Close` waits for both (Exit).

| Code | Actions |
|---|---|
| `Service.Create` / rooms' `Start`, `StartActor`, `Registry.Start` | Accept, BeginTx, Commit, Refuse, Register, Spawn |
| `Actor.run` | Begin, PersistState, PersistTurn, Abandon, TakeStop, Timeout |
| `Registry.Start`'s deferred calls | Remove, Done |
| `Actor.Stop` | Stop |
| `run`, `shutdown`, `Registry.Wait`, `pool.Close` in `main.go` | Signal, Drain, Elapse, WaitReturns, Close, ListenerFails, Exit |
| PostgreSQL executing what was given up | Land |
| the end of a process, a new one | Kill, Restart |

**FrameStream** is what a connection promises about the server's frames:
ascending numbers, none twice, none after the cut; a frame may be refused when
it is issued.

**WsConnection** is one connection: `platform/websocket.Conn` with the gateway's and
router's use of it. `reader`, `pump` and `watcher` are the three goroutines'
places, `queue` is `Conn.outbound` (numbers of frames, or Goodbye for the
close instruction), `full` the channel of that name, `ctxDone` the context, and
`socket`/`code` what the library has done. `asked` is a history variable:
the last number given out when CloseAfterDrain was first accepted.

| Code | Actions |
|---|---|
| `connection.serve` | Greet, Read, ReadFails |
| `connection.handle`, `send`, `Conn.Send`, `CloseAfterDrain` | Reply, Hangup |
| `Conn.writePump` | Take, TakeGoodbye, Tick, PumpStops, Write, Pong, PongLate, WriteFails, PumpClosed |
| the goroutine of `serve` | WatchFull, WatchStops, WatcherClosed |
| the signal context | Shutdown |

`Conn.Close` writes the close frame and waits for the peer's, so `socket` is `closing`
until it returns; the reader may still receive frames meanwhile. The library
(coder/websocket, in the version `go.mod` names) is external, and modelled as it behaves: a
Read or a Write that fails, the end of its context included, closes the connection;
a Ping that cannot be written does too, one whose pong does not come returns an error
and leaves the connection open (PongLate, after which the pump is `"silent"`); Close may
be called next to Read and Write; after the close frame no data frame is written.

**TokenBucket** is what a rate limiter promises: a level per key that rises with
time, a request granted exactly when the level covers it. **RateLimiter** is
`platform/security/ratelimit.go` with the requests that use it. `buckets` is the map;
`nextTick` and `ticked` are the sweeper's ticker and its channel of one, which drops a
tick nobody took; `checking` counts granted requests whose handler still runs, since a
login resets its key at its end, whoever used the key meanwhile. Tokens are counted
in ticks (one comes back per tick, a request costs `Cost`), so the code's floating-point
refill is exact here.

| Code | Actions |
|---|---|
| `RateLimiter.allowAt`, called by `allow` and `allowCreate` | AllowNew, AllowKnown |
| the handler's end; `Reset` after a login | Done, Reset |
| `RateLimiter.sweep` | Tick, Sweep |
| `RateLimiter.Close` | Close |

`Allow` reads the time just before it takes the mutex, and the model in the same step: two
calls on one key may be served against the order of their times, which moves a bucket's
refill by the time a mutex is waited for.

**Auth** is sign-up, login and every request with a cookie, one action per statement
that changes rows. `account` is a user with profile and credential, visible to the unique
indexes from the INSERT on and to everybody else from the commit; `session` is the table;
`cookie` is when the browser drops the token; `request` is where a request is and what
it has read. `ended` and `activeAt` are history: the sessions a logout has found and
revoked, and the last time a session authenticated a request.

| Code | Actions |
|---|---|
| `Service.Signup`, `users.Create` | Signup, InsertUser, CommitSignup, IssueSession |
| `Service.Login` | Login, Rehash, IssueSession |
| `RequireAuth`, `Service.Authenticate` | Authenticate, Renew, Use |
| `logout`, `logoutAll` | Authenticate, Renew, Revoke; LogoutUnidentified |
| `PurgeExpiredSessions` | Purge |

A statement that fails ends its request, except Rehash and Renew, whose failure is only
logged.

**RealtimeClient** is the browser's `RealtimeService`. The methods, the timer and the
handlers run one at a time; `socket` has the readyState of every WebSocket object, those
included that the service has dropped (`ws` is the one it holds).

| Code | Actions |
|---|---|
| `connect`, `disconnect`, `ngOnDestroy` | Connect, Disconnect |
| the timeout of `#scheduleReconnect` | Reconnect |
| `onopen`, `onmessage`, `onclose` | OnOpen, OnMessage, OnClose |
| server and network | ServerCloses, Weather |

**LobbyPage** is the list of public rooms from the page to the query: `lobby.ts` asks
for pages, `ListPublicOpen` answers with a keyset query, and rooms open, start and close
in between. A room is its key `(created_at, id)`. `created_at` is the start of the
creating transaction, so rooms become visible in any order of their keys. Requests are
answered in any order and may fail, served or not.

| Code | Actions |
|---|---|
| `loadMore`, the button | LoadMore, Loaded, LoadFails |
| `joinRoom`, `loadFirstPage` | JoinRoom, Joined, JoinFails |
| leaving the page | Leave |
| `Handler.list`, `ListPublicOpen`, `selectPublicOpenRooms` | Serve |
| the rooms service | Appear, Vanish |

Operators commented "Faulty variant" are not part of a specification. Each is an
operation as a plausible bug would have left it, and `PROJECT.json` ("mutants")
names the property that notices when it takes the operation's place.

**MCRooms** and **MCAuth** add the symmetry sets; the `.cfg` files bind the constants.

## 3. What the runs check

| Run | Instance | Shows |
|---|---|---|
| rooms_teams | 1 room, 4 users, 2 requests, 5 joins; symmetric | TypeOK, InsertNeverConflicts, HostIsEarliest, OpenRoomsAreOccupied, MatchSeatsItsRoom, ActorsHaveMatches, ClosedRoomsOnlyEmpty, and that Rooms implements RoomLobby |
| rooms_codes | 2 rooms, 1 code, 2 users, 2 requests, 2 joins; fair | LocksAreReleased, through collisions, failures and refusals |
| actors | 1 doubles match, failing and late writes, stops, shutdown, kills, restarts; fair | TypeOK, RegistryCountsActors, RowsOneBehind, FinishedMatchesAreOver, EndedRowsAreFinal, EveryPlayerGetsTheTurn, ActorsStop, ShutdownEnds, and that MatchActors implements MatchLifecycle |
| ws_connection | a queue of 2, 6 frames, binary frames; fair | TypeOK, DrainPrecedesClose, OverflowCloses, BadFrameCloses, DeadPumpIsNoticed, ConnectionEnds, and that WsConnection implements FrameStream |
| rate_limiter | 1 key, burst 2 of cost 2, period 4, delay 1, 12 ticks, 2 requests | TypeOK, RateBound, IdleBucketsGo, and that RateLimiter implements TokenBucket |
| auth | 2 users, addresses, handles, sessions and requests; lifetime 3, threshold 2, 4 ticks; symmetric | TypeOK, AccountsWhole, EndedForGood, ActiveStaysIn |
| client | 2 sockets, connect waits for close events; fair | TypeOK, SingleConnection, StaysDisconnected, Reconnects |
| lobby | 5 rooms, pages of 2, 2 requests | TypeOK, ListedOnce, NoneMissed |

Four runs refute something the repository says of itself. Each trace is a
behaviour of the code, and each is a "finding" in `PROJECT.json`.

| Run | Refutes | How |
|---|---|---|
| rooms_unready | "Start turns a full, fully-ready room into a match" (`rooms/service.go:245`) | SetReady has no lock: FALSE commits between Start's check and its commit |
| ws_silent | "a connection that has gone silent … is detected and closed rather than left as a phantom" (`conn.go:34`) | a Ping without a pong returns an error and leaves the socket open; the pump returns, nothing waits for `Done`, and the reader waits on |
| auth_cookie | "an active player is never logged out mid-session" (`auth/service.go:147`) | Authenticate moves the session's expiry, no handler sends the cookie again: the browser drops it 14 days after the login |
| client_hasty | "Owns the single realtime connection" (`realtime.service.ts:28`), connect is "Safe to call repeatedly" (`:71`) | disconnect, connect, then the old socket's close event: it drops the new socket and schedules a second one |

In ws_silent what remains is the watcher, which closes if the queue overflows (the proofs
say so, PhantomsAreWatched), and what the model leaves out: the TCP stack gives up on a peer
that is really gone, after minutes. A peer that is merely late with one pong goes on sending and
never hears an answer again.

ActiveStaysIn, next to auth_cookie, shows that the table itself keeps the promise; and
with `Hasty = FALSE`, which lets connect wait for the close events of dropped sockets,
the client keeps its own.

### Known divergences without a run

The models contain these behaviours too. Each can be seen by stating the claim as a
property of the module named.

* A match is committed and never played: the commit's acknowledgement is lost or the
  process dies before `StartActor` (Rooms, LoseSpawn). `matches/service.go:58` says the
  actor starts "once the insert commits"; nothing starts it later.
* A join code that is taken fails the Create at its first attempt, with a 500: `insertRoom` maps only
  the error of `db.Query`, and pgx reports the violation of an `INSERT … RETURNING` when the row is
  collected (`rooms/repository.go:132`), so `errJoinCodeCollision` never reaches `service.go:76`.
  `service.go:41` says the code is "regenerated" and `repository.go:285` "the service retries with
  a fresh code and the caller never sees this". Rooms has what the code does (CreateCollide).
* A failed UPDATE is logged and not repeated, so a row can be several writes behind its
  actor (MatchActors: RowsOneBehind of the matches in `faulted`: a turn about to be written while
  the row's state differs). `matches/service.go:89` says "never more than one write behind".
* A request in its transaction keeps the process from ending until the database answers it, budget
  or not: `pool.Close` (`main.go:74`) waits for its connection without a limit (ShutdownEnds without
  its premise on Answer). `main.go:176` says "Exceeding the budget drops in-flight requests, which is
  preferable to a deploy that hangs indefinitely".
* Registry.Wait can return while a Start still in flight is about to spawn an actor, and
  main closes the pool under it (MatchActors: `main = "drained" /\ ~spent` with an actor
  running). `registry.go:74` says Wait blocks "until every actor has exited".
* The UPDATE given up at the signal may be executed after the Abandoned one and put an
  ended match back in progress (MatchActors, Land). EndedRowsAreFinal excepts a step in which
  something of that match is afloat, and nothing else.
* The queue is full for the explanation and has room again for the close instruction: the
  policy close goes out without the reply that is "guaranteed to reach the client first"
  (`conn.go:138`; WsConnection: `code = "policy" => asked \in received`).
* Conn.Read turns a binary frame into an error of its own; reader, pump and watcher
  return and nobody closes the socket, though serve reads "until the connection closes for
  any reason" (`router.go:30`; WsConnection with `Binaries = TRUE`: all three over, socket
  open). An unreachable socket may be closed by the garbage collector, which no property
  relies on.
* "Close rather than continue reading" (`router.go:80`): after CloseAfterDrain `handle` returns
  and `serve` reads on. DrainPrecedesClose shows that what it answers then never
  reaches the client.
* A Stop command and the cancelled context may be ready together, and if `select` takes the
  command the Cancelled write uses the cancelled context: the row never ends.
  FinishedMatchesAreOver excepts this case. Nothing in the server calls `Actor.Stop` yet.
* OptionalAuth drops database errors, so a logout whose authentication failed clears the
  cookie and answers 204 while the session lives (Auth, LogoutUnidentified). EndedForGood
  speaks of logouts that found their session.
* A join fails while a page of the list is loading: the reloaded list and the old page are
  added up in the order of their answers, with gaps and repeated rooms, under a comment
  that says "refresh so the listing reflects reality" (`lobby.ts:240`). LobbyPage remembers
  this as `overlap`; ListedOnce and NoneMissed are about all other lists.
* The message of a failed join is set and, in the same task, cleared by the reload
  (`lobby.ts:239`, `:193`); after a failed first page no button is there to try again.

Deadlock is not checked (`CHECK_DEADLOCK FALSE`) where the system really rests: users stop
calling, or a bound on joins, frames or time is used up. LocksAreReleased, ActorsStop,
ShutdownEnds and ConnectionEnds say what must not rest. The run client checks it: the network
can always change.

### Bounds, and why they are enough

* `Workers`: two. Requests for one room serialise on its lock, so with a third
  TLC reaches the same 17,005 states (at four joins) as with two.
* `Users`: four, the largest capacity, so that a doubles room fills.
* `MaxJoins` bounds the value `clock_timestamp()` reaches, hence INSERTs of
  members: five lets a full doubles room lose a member and gain one.
* `Codes`: one, so that every pair of private rooms collides.
* `Matches`: one, with the whole environment; its liveness properties take symmetry away, and a second
  match exceeds eight million states. Matches meet only in the registry, the wait group
  and the process, and what must hold there (RegistryCountsActors, and every other safety
  property of the run) is a theorem for any number of them. `InboxCapacity` is one
  instead of 32: empty, then full.
* At most one UPDATE per match is afloat, the last one given up.
* `QueueSize`: two instead of 64, so that the queue can be empty, hold something,
  and be full, and that a frame, the explanation and the close instruction
  compete for it. `MaxFrames`: six, three times the queue: overflow, drain, a second
  bad frame and a second Goodbye all happen (109,292 states).
* RateLimiter: one key, since keys share only the sweeper's tick. Twelve ticks are three
  periods: a bucket is made, emptied, refilled, swept and made again. `SweepDelay` is less
  than a period, beyond which the ticker only drops ticks.
* Auth: lifetime, threshold and request time stand in the order of 14 days, 7 days and less
  than a week (LatencyAssumption); within four ticks a session is renewed, expires and is
  purged. Two requests are a race; sign-ups, which know no time, start at the first
  tick (`SignupUntil`).
* RealtimeClient: two sockets, the one held and one dropped; client_hasty has three. Attempts
  count to `MaxDelay`, beyond which the delay no longer grows.
* LobbyPage: five rooms are three pages of two. Two requests: the button is disabled while a page
  loads, so only a reload comes beside one.

### Fairness, and why the code justifies it

* Rooms: weak fairness of each worker's next statement. A goroutine runs, and a
  statement returns or fails; the driver reports a lost connection. Nothing is
  assumed about users, nor that a blocked lock is ever granted.
* MatchActors: weak fairness of the actor's goroutine (scheduler, timer, driver)
  and of main's shutdown steps. Strong fairness of Abandon: a `select` that again
  and again finds `ctx.Done` ready next to an expired timer takes it in the end,
  because Go chooses among ready cases at random. Nothing is assumed about
  requests, clients, signals or kills, nor that the shutdown budget runs out:
  ActorsStop says that the actors return of themselves however long the budget,
  and only ShutdownEnds, which speaks of hanging requests too, adds to its
  premises that the clock reaches the budget's end (weak fairness of Elapse) and that
  the database answers the transactions in progress (weak fairness of Answer), which is
  what `pool.Close` waits for.
* WsConnection: weak fairness of each goroutine: a started call returns, because Write and
  Ping have timeouts and Close gives up on its peer. A Read alone may wait for
  ever; ReadFails is (strongly) fair only once the context has ended or the socket is
  closed. Strong fairness of PumpStops and of Take: a `select` that finds
  `ctx.Done` or the queue ready again and again takes it in the end. Nothing is
  assumed about the client, the ticker or shutdown.
* RealtimeClient: weak fairness of the timeout, and of the end of a handshake, opening or
  closing: browsers give up on both. Reconnects assumes besides that the server stays
  reachable from some time on; nothing is assumed about the application's calls.
* Auth, RateLimiter and LobbyPage state safety only.

## 4. What is proved

`RoomLobbyProofs`, `RoomsProofs`, `MatchActorsProofs`, `WsConnectionProofs`,
`RateLimiterProofs`, `AuthProofs`, `RealtimeClientProofs` and `LobbyPageProofs` are checked by TLAPS from the assumptions the modules name: finite sets, distinguished
constants outside them, positive bounds, the order of Auth's and RateLimiter's times. Nothing is assumed about how many there are.

**RoomLobbyProofs** starts with the pure functions: `FirstFreeSeat` returns the least
free seat, `Earliest` a member of its set nobody precedes, `BuildMatchSides` an
injective seating when the room is full and its seats are distinct. They rest on the
least-element principle for naturals. Then LobbyInvariant, by the inductive invariant `LobbyInv`, the
conjunction of types, distinct seats within the mode, earliest hosts, occupied
open rooms and seated matches, one step per operation.

**RoomsProofs**: the refinement `RoomsImplementLobby`, then the properties of the lobby
for free. `HostIsEarliest` and its companions are not inductive at the level of
statements: between SELECT and COMMIT a transaction acts on what it read. The
invariant `RoomsInv` therefore says why what it read is still true:

* a worker between FOR UPDATE and COMMIT holds its room's lock and its copy of
  the room row is the committed one (HoldsItsRoom, LocksAreOwned);
* the seat chosen by a join is still the first free one, the decision of a leave
  (close, hand over, neither) and the players read by a start are still right
  (JoinIsCurrent, LeaveIsCurrent, StartIsCurrent). Only ready flags escape,
  which is precisely rooms_unready;
* uncommitted Creates are apart in id and code (CreatesAreApart), the clock is
  ahead of every committed join (ClockIsAhead), and a match waits for at most
  one StartActor (SpawnsAreApart).

With RoomsInv every Commit action is the lobby's operation and every other
action a stutter. InsertsNeverConflict, ActorsAlwaysHaveMatches, TypeCorrect and
ClosedIsForEver follow from the same invariant, and so does LocksAlwaysOwned: a lock is
held by a transaction on its room and nobody holds two, so no cycle of waiting can form.
ReadyIsEnough is the other side of rooms_unready: if nobody takes a "ready" back
(`Unready`, SetReady with false), a match is only ever started in a room whose members are
all ready at the commit. Nothing else in the service disturbs what Start's check read.

**MatchActorsProofs**: the inductive invariant `ActorsInv` has five parts. MemFits
says which state and turn the actor's copy has at each point of `run`: without it
nothing rules out that `run` asks for an illegal edge. RegistryCountsActors is
inductive with it, given lemmas on the cardinality of the counted set. RowFits
says that an end in the database, or afloat on its way there, is the end in the
actor's memory, and that only the writes of faulted matches are afloat. EndFits
is FinishedMatchesAreOver from the moment `run` returns. The lemma RowChanges
names the four things that can happen to a row: nothing, its actor's write, a
write that is lost and one that lands late. Nothing is assumed of the database,
of stops or of the process. From it:

* TypeCorrect, RegistryAlwaysCounts and ActorsImplementLifecycle, the refinement of
  MatchLifecycle;
* EndedRowsStayFinal: only an UPDATE that was given up can change the row of an ended match;
* FinishedAreOver: a match whose actor has gone is found ended while the pool is open, unless
  the database failed it or a Stop met the shutdown;
* TurnsAlwaysGoRound: numbering the players of the round, each change of a turn in play
  goes to the next number and to the other side, whatever `PlayersPerSide` is;
* RowsFollowMemory, the comment at `matches/service.go:89` for matches none of whose UPDATEs
  the database failed, while the server serves. It needs an invariant of its own,
  `BehindInv`: a match that is not committed has no row to be behind and nothing afloat.

**WsConnectionProofs**: the inductive invariant `WsInv` adds two parts to the types.
Ascending says that numbers rise from the wire through the pump's hands to
the end of the queue, instructions to close aside; without it a step of the pump
could deliver a number twice or out of order. Drains says where the first
instruction to close is: in the queue, with what was accepted before it ahead of it and
what was answered later behind (`SplitAt`), or taken by a pump that has stopped
(`Drained`). From it ConnectionTypes, CloseFollowsDrain and
ConnectionImplementsStream, for every queue size and number of frames. A second
invariant, `Wakes`, says what each goroutine leaves behind when it goes: the socket
closed or the context ended, except a pump that waited for a pong in vain. From both
follow OnlySilenceHalvesConnections (no failed write, close instruction or end of the context
leaves a pump gone with the socket open and the context alive, in any interleaving; a
missing pong does, and then the watcher is still there for an overflow), HangupsAreKept
(once a bad frame is answered, the instruction to close is in the queue, in the pump's
hands, or has overflowed into the other way to close, unless the pump went silent) and
CloseCodeStands (the pump and the watcher may both close; the first code stands).

**RateLimiterProofs**: the inductive invariant `LimiterInv` adds three parts to the types.
PastOnly: no bucket, tick or grant is of the future. Budget strengthens RateBound: what a
key was granted since a time, plus what it has left, is no more than the burst and the
ticks since; a request moves its cost from one to the other, a tick adds at most one to both
sides, and a swept bucket was full. Swept relates a bucket's age to the next tick. From it
TypeCorrect, GrantsAreBounded, IdleBucketsAlwaysGo, and LimiterImplementsBucket, where a sweep
is a stutter because what it compares is the level the bucket has by then.

**AuthProofs**: the inductive invariant `AuthInv` says that requests end in time (Timely), that
a sign-up owns its row until its commit and a login's account is there (SignupsApart), that
the unique keys hold of uncommitted rows too (RowsWhole), that history and rows agree
on logouts and no id is issued twice (EndsRecorded), and that a session lives long enough
for the request that is about to use it (ActiveLasts). The last one carries
ActiveAlwaysStaysIn: a renewal writes an expiry computed when its row was read, and since a
request takes at most the lifetime less the threshold, even the older of two renewals
written last leaves the threshold of every later use. AccountsAlwaysWhole and
LogoutsAreFinal follow from the others.

**RealtimeClientProofs**: `ClientInv` says that at most one socket lives at a time, its
close event included, that it is the service's own when it is open or opening, and that
none is while a timer is pending or after disconnect. ConnectionIsSingle, DisconnectHolds
and ClientIsNeverStranded (while the service means to be connected, a timer or a socket
event is left to wake it) hold under `~Hasty`, and client_hasty shows that they need it;
TypeCorrect holds in any case.

**LobbyPageProofs**: first what the query returns, for every set of keys and every limit:
the newest rooms past the cursor, newest first, fewer than the limit only when there are
no more. `LIMIT n` is "fewer than n are newer", so this takes an argument by the least
room left out and lemmas on cardinalities. Then what an answer is: its items continue from
the cursor it was asked with, and its next cursor is its last item. The inductive invariant
`PageInv` relates the page to this, for a list that was not begun while a page of the one
before was loading (`overlap`): at most one request is on its way (OneAtATime), it
continues from the page's cursor (Continues), and the list is the steady rooms down to
that cursor in order (ListedDownToCursor). Without the first two an answer could be
appended to a list it does not continue. From it TypeCorrect, ListsOnce and MissesNone,
whatever opens, closes or fails in between.

Only model-checked:

* LocksAreReleased, EveryPlayerGetsTheTurn, ActorsStop, ShutdownEnds, OverflowCloses,
  BadFrameCloses, DeadPumpIsNoticed, ConnectionEnds and Reconnects: liveness under fairness
  is out of the prover's reach. The safety halves of LocksAreReleased,
  EveryPlayerGetsTheTurn, OverflowCloses, BadFrameCloses, DeadPumpIsNoticed and Reconnects
  are theorems: that nobody is left waiting for what nobody will do
  (LocksAlwaysOwned, OnlySilenceHalvesConnections, HangupsAreKept, ClientIsNeverStranded) and
  that what moves, moves the right way (TurnsAlwaysGoRound);
* the refuted claims.

## 5. Not modelled

* `Detail` and the read endpoints of matches and users change no state. Detail's two
  statements can mix a room before a commit with its members after it; the page shows
  it until the next load and decides nothing by it.
* `UpdateProfile` is one UPDATE of one row.
* The paging of `matches/repository.go` is the lobby's keyset query on another table.
* The room and login pages: a button calls one endpoint and shows its answer. The
  session check of the client (`auth.service.ts`, the guard) is one cached request.
* HTTP middleware, the internal router and the health check: request decoration, profiling
  and a probe.
* Hashing and token formats, JSON shapes, configuration, logging, templates,
  infrastructure, the import-direction test.
* Timestamps other than `joined_at`, the listing's `created_at` and the expiry of sessions;
  events (`onEvent` is nil in the server); ranked, wager and shot-timer values: they decide
  nothing that is modelled. Deletion of users (ON DELETE CASCADE) has no operation in the code.
* Rooms and MatchActors meet in one call, StartActor. Rooms ends with it
  (ActorsHaveMatches) and MatchActors begins with it (Accept, Commit, Register); a module that
  composed both would multiply their states and add no step.
