------------------------------- MODULE LobbyPage -------------------------------
(***************************************************************************)
(* The lobby's list of public rooms, from the page to the query:           *)
(* features/lobby/lobby.ts asks for pages, rooms/service.go's              *)
(* ListPublicOpen answers them with a keyset query, and in between rooms   *)
(* open, fill, start and close. Requests are answered in any order.        *)
(*                                                                         *)
(* A room stands for its key (created_at, id), a number that is greater the *)
(* newer the room. created_at is when the creating transaction began, so   *)
(* rooms become visible in any order. A cursor is the key it encodes.      *)
(***************************************************************************)
EXTENDS Integers, FiniteSets, SequencesExt

CONSTANTS
  Newest,    \* bound: keys of rooms are 1 .. Newest
  Limit,     \* rooms of a page
  Requests   \* bound: list requests in flight at a time

ASSUME BoundsAssumption == Newest \in Nat /\ Limit \in Nat \ {0}

VARIABLES
  room,        \* by key: hidden (not committed), open, or gone (started or closed)
  rooms,       \* the page's rooms()
  nextCursor,  \* the page's nextCursor(), or Start for the empty string
  loading,     \* loadingList()
  listError,   \* listError() is shown
  joining,     \* joiningRoomId(), or Nobody
  request,     \* by request: nothing, or the cursor it carries and its answer; reload
               \* when joinRoom awaits it
  here,        \* the lobby is the page shown
  steady,      \* history: the rooms open ever since the list was last begun
  overlap      \* history: it was begun while a page of the one before was loading

vars == <<room, rooms, nextCursor, loading, listError, joining, request, here, steady, overlap>>

Keys == 1 .. Newest
Start == 0
Nobody == 0
Unused == [at |-> "unused"]
Sent == [at : {"sent"}, reload : BOOLEAN, cursor : Keys \cup {Start}]
Page == UNION {[1 .. n -> Keys] : n \in 0 .. Limit}
Answered == [at : {"answered"}, reload : BOOLEAN, items : Page, next : Keys \cup {Start}]

TypeOK ==
  /\ room \in [Keys -> {"hidden", "open", "gone"}]
  /\ rooms \in Seq(Keys)
  /\ nextCursor \in Keys \cup {Start}
  /\ loading \in BOOLEAN /\ listError \in BOOLEAN /\ here \in BOOLEAN
  /\ joining \in Keys \cup {Nobody}
  /\ request \in [Requests -> {Unused} \cup Sent \cup Answered]
  /\ steady \subseteq Keys
  /\ overlap \in BOOLEAN

Open == {k \in Keys : room[k] = "open"}

\* The constructor has begun the list.
Init ==
  /\ room \in [Keys -> {"hidden", "open"}]
  /\ rooms = <<>> /\ nextCursor = Start /\ loading = TRUE /\ listError = FALSE
  /\ joining = Nobody /\ here = TRUE
  /\ \E r \in Requests :
       request = [q \in Requests |-> IF q = r THEN [at |-> "sent", reload |-> FALSE, cursor |-> Start] ELSE Unused]
  /\ steady = Open /\ overlap = FALSE

-----------------------------------------------------------------------------
(* The server                                                              *)

\* A room's creation is committed.
Appear(k) ==
  /\ room[k] = "hidden"
  /\ room' = [room EXCEPT ![k] = "open"]
  /\ UNCHANGED <<rooms, nextCursor, loading, listError, joining, request, here, steady, overlap>>

\* A room is started, or its last member leaves.
Vanish(k) ==
  /\ room[k] = "open"
  /\ room' = [room EXCEPT ![k] = "gone"]
  /\ steady' = steady \ {k}
  /\ UNCHANGED <<rooms, nextCursor, loading, listError, joining, request, here, overlap>>

\* ORDER BY created_at DESC, id DESC.
NewestFirst(keys) ==
  CHOOSE rows \in [1 .. Cardinality(keys) -> keys] :
    \A i, j \in DOMAIN rows : i < j => rows[j] < rows[i]

\* qPublicOpenRooms, qPublicOpenRoomsFirstPage: the newest rooms past the cursor.
Fetched(cursor, limit) ==
  LET past == {k \in Open : cursor = Start \/ k < cursor}
      newer(k) == Cardinality({j \in past : j > k})
  IN  NewestFirst({k \in past : newer(k) < limit})

\* Faulty variant: the cursor of the row that is cut off.
AnswerToExtra(sent) ==
  LET fetched == Fetched(sent.cursor, Limit + 1)
      page(items, next) == [at |-> "answered", reload |-> sent.reload, items |-> items, next |-> next]
  IN  IF Len(fetched) > Limit
      THEN page(SubSeq(fetched, 1, Limit), fetched[Limit + 1])
      ELSE page(fetched, Start)

\* Faulty variant: the extra row is answered too.
AnswerToWhole(sent) ==
  LET fetched == Fetched(sent.cursor, Limit + 1)
      page(items, next) == [at |-> "answered", reload |-> sent.reload, items |-> items, next |-> next]
  IN  IF Len(fetched) > Limit
      THEN page(fetched, fetched[Limit])
      ELSE page(fetched, Start)

\* ListPublicOpen: one row more than asked for tells whether there is a next page.
AnswerTo(sent) ==
  LET fetched == Fetched(sent.cursor, Limit + 1)
      page(items, next) == [at |-> "answered", reload |-> sent.reload, items |-> items, next |-> next]
  IN  IF Len(fetched) > Limit
      THEN page(SubSeq(fetched, 1, Limit), fetched[Limit])
      ELSE page(fetched, Start)

Serve(r) ==
  /\ request[r].at = "sent"
  /\ request' = [request EXCEPT ![r] = AnswerTo(request[r])]
  /\ UNCHANGED <<room, rooms, nextCursor, loading, listError, joining, here, steady, overlap>>

-----------------------------------------------------------------------------
(* The page                                                                *)

\* loadMore up to its await.
LoadFrom(cursor, reload) ==
  /\ loading' = TRUE /\ listError' = FALSE
  /\ \E r \in Requests :
       /\ request[r] = Unused
       /\ request' = [request EXCEPT ![r] = [at |-> "sent", reload |-> reload, cursor |-> cursor]]

\* Faulty variant: the button stays enabled while loading.
LoadMoreAgain ==
  /\ here /\ nextCursor # Start
  /\ LoadFrom(nextCursor, FALSE)
  /\ UNCHANGED <<room, rooms, nextCursor, joining, here, steady, overlap>>

\* The button, which is there when there is a next page, and disabled while loading.
LoadMore ==
  /\ here /\ nextCursor # Start /\ ~loading
  /\ LoadFrom(nextCursor, FALSE)
  /\ UNCHANGED <<room, rooms, nextCursor, joining, here, steady, overlap>>

\* The await is over; a joinRoom that waited for it ends, too.
Settle(r) ==
  /\ loading' = FALSE
  /\ joining' = IF request[r].reload THEN Nobody ELSE joining
  /\ request' = [request EXCEPT ![r] = Unused]
  /\ UNCHANGED <<room, here, steady, overlap>>

\* loadMore after its await: the answer comes after the rooms shown by then.
Loaded(r) ==
  /\ request[r].at = "answered"
  /\ rooms' = rooms \o request[r].items
  /\ nextCursor' = request[r].next
  /\ Settle(r)
  /\ UNCHANGED listError

\* The request fails, before or after it was served.
LoadFails(r) ==
  /\ request[r] # Unused
  /\ listError' = TRUE
  /\ Settle(r)
  /\ UNCHANGED <<rooms, nextCursor>>

\* joinRoom up to its await; one at a time.
JoinRoom(k) ==
  /\ here /\ joining = Nobody
  /\ k \in ToSet(rooms)
  /\ joining' = k /\ listError' = FALSE
  /\ UNCHANGED <<room, rooms, nextCursor, loading, request, here, steady, overlap>>

\* The join itself is under way.
Joining ==
  joining # Nobody /\ ~\E r \in Requests : request[r] # Unused /\ request[r].reload

\* The join succeeds: the page of the room is next.
Joined ==
  /\ Joining
  /\ joining' = Nobody /\ here' = FALSE
  /\ UNCHANGED <<room, rooms, nextCursor, loading, listError, request, steady, overlap>>

\* loadFirstPage.
FirstPage ==
  /\ rooms' = <<>> /\ nextCursor' = Start
  /\ LoadFrom(Start, TRUE)
  /\ steady' = Open
  /\ overlap' = \E r \in Requests : request[r] # Unused

\* The join is refused or lost: its message is set and, by loadMore, cleared at once.
JoinFails ==
  /\ Joining
  /\ FirstPage
  /\ UNCHANGED <<room, joining, here>>

\* create, submitJoinByCode and signOut leave the page; else they leave the list alone.
Leave ==
  /\ here
  /\ here' = FALSE
  /\ UNCHANGED <<room, rooms, nextCursor, loading, listError, joining, request, steady, overlap>>

Next ==
  \/ LoadMore \/ Joined \/ JoinFails \/ Leave
  \/ \E k \in Keys : Appear(k) \/ Vanish(k) \/ JoinRoom(k)
  \/ \E r \in Requests : Serve(r) \/ Loaded(r) \/ LoadFails(r)

Spec == Init /\ [][Next]_vars

-----------------------------------------------------------------------------
(* Properties                                                              *)

\* Rooms are listed newest first and none twice, whatever opens and closes between two
\* pages: the rows stay apart for "track room.id" (lobby.ts:120). Not so while the page of
\* an older list could still be added to this one.
ListedOnce == ~overlap => \A i, j \in DOMAIN rooms : i < j => rooms[j] < rooms[i]

\* The pages miss no room that stayed open since the list was begun: what is listed is
\* complete down to the cursor, and to the end when there is no next page, also when
\* pages failed and were asked for again (service.go:337, lobby.ts:240).
NoneMissed ==
  ~overlap /\ ~loading /\ (rooms # <<>> \/ ~listError) =>
    \A k \in steady : k >= nextCursor => k \in ToSet(rooms)
=============================================================================
