---------------------------- MODULE RealtimeClient ----------------------------
(***************************************************************************)
(* The browser's end of the realtime connection                            *)
(* (apps/web/.../networking/realtime.service.ts): one service object whose *)
(* methods, timer and socket handlers run one at a time, and WebSocket     *)
(* objects that live on after the service has dropped them, because their  *)
(* close event arrives later. An event fires in the task that changes the  *)
(* socket's readyState. The network and the server behind it are up or     *)
(* down; the delay before a reconnect is any time.                         *)
(***************************************************************************)
EXTENDS Naturals, FiniteSets

CONSTANTS
  Sockets,   \* WebSocket objects; an object whose close event fired is used again
  None,
  MaxDelay,  \* the attempt from which the delay no longer grows
  MaxSeq,    \* bound: messages of one connection
  Hasty      \* may connect be called before a dropped socket's close event?

ASSUME NoneAssumption == None \notin Sockets
ASSUME BoundsAssumption == MaxDelay \in Nat \ {0} /\ MaxSeq \in Nat /\ Hasty \in BOOLEAN

VARIABLES
  socket,   \* readyState, by socket
  ws,       \* #ws
  attempt,  \* #reconnectAttempt; from MaxDelay on all values behave alike
  timer,    \* a timeout of #reconnectTimer is pending
  closing,  \* #closingIntentionally
  state,    \* #state
  lastSeq,  \* #lastSeq
  sent,     \* by socket: the server's last seq on it
  up        \* the server can be reached and accepts this client

vars == <<socket, ws, attempt, timer, closing, state, lastSeq, sent, up>>

TypeOK ==
  /\ socket \in [Sockets -> {"connecting", "open", "closing", "closed"}]
  /\ ws \in Sockets \cup {None}
  /\ attempt \in 0 .. MaxDelay
  /\ timer \in BOOLEAN
  /\ closing \in BOOLEAN
  /\ state \in {"idle", "connecting", "open", "reconnecting", "closed"}
  /\ lastSeq \in 0 .. MaxSeq
  /\ sent \in [Sockets -> 0 .. MaxSeq]
  /\ up \in BOOLEAN

Init ==
  /\ socket = [s \in Sockets |-> "closed"]
  /\ ws = None /\ attempt = 0 /\ timer = FALSE /\ closing = FALSE /\ state = "idle"
  /\ lastSeq = 0
  /\ sent = [s \in Sockets |-> 0]
  /\ up \in BOOLEAN

Connecting == {s \in Sockets : socket[s] \in {"connecting", "open"}}

-----------------------------------------------------------------------------
(* The service's methods                                                   *)

\* #open, with a WebSocket object of its own.
Open ==
  \E s \in Sockets :
    /\ socket[s] = "closed"
    /\ socket' = [socket EXCEPT ![s] = "connecting"]
    /\ sent' = [sent EXCEPT ![s] = 0]
    /\ ws' = s
    /\ closing' = FALSE
    /\ state' = IF attempt > 0 THEN "reconnecting" ELSE "connecting"
    /\ UNCHANGED <<attempt, lastSeq, up>>

\* Faulty variant: the pending timer is left alone.
ConnectKeepsTimer ==
  /\ ws \notin Connecting
  /\ Hasty \/ \A s \in Sockets : socket[s] = "closed"
  /\ Open /\ UNCHANGED timer

\* connect; a call while the socket is open or opening returns at once.
Connect ==
  /\ ws \notin Connecting
  /\ Hasty \/ \A s \in Sockets : socket[s] = "closed"
  /\ timer' = FALSE
  /\ Open

\* Faulty variant: the timer survives.
DisconnectKeepsTimer ==
  /\ attempt' = 0 /\ closing' = TRUE /\ ws' = None /\ state' = "closed"
  /\ socket' = [s \in Sockets |-> IF s = ws THEN "closing" ELSE socket[s]]
  /\ UNCHANGED <<timer, lastSeq, sent, up>>

\* disconnect, also when the service is destroyed.
Disconnect ==
  /\ timer' = FALSE
  /\ attempt' = 0 /\ closing' = TRUE /\ ws' = None /\ state' = "closed"
  /\ socket' = [s \in Sockets |-> IF s = ws THEN "closing" ELSE socket[s]]
  /\ UNCHANGED <<lastSeq, sent, up>>

\* The timeout of #scheduleReconnect runs #open.
Reconnect ==
  /\ timer
  /\ timer' = FALSE
  /\ Open

-----------------------------------------------------------------------------
(* The sockets' events                                                     *)

\* The handshake succeeds: onopen.
OnOpen(s) ==
  /\ up
  /\ socket[s] = "connecting"
  /\ socket' = [socket EXCEPT ![s] = "open"]
  /\ attempt' = 0 /\ state' = "open"
  /\ UNCHANGED <<ws, timer, closing, lastSeq, sent, up>>

\* Faulty variant: connections are added up.
HighestSum(seq) == lastSeq + seq

\* The highest seq of all connections so far.
Highest(seq) == IF seq > lastSeq THEN seq ELSE lastSeq

\* onmessage.
OnMessage(s) ==
  /\ up
  /\ socket[s] = "open" /\ sent[s] < MaxSeq
  /\ sent' = [sent EXCEPT ![s] = @ + 1]
  /\ lastSeq' = Highest(sent[s] + 1)
  /\ UNCHANGED <<socket, ws, attempt, timer, closing, state, up>>

\* The server starts the closing handshake; no event yet.
ServerCloses(s) ==
  /\ ~up
  /\ socket[s] = "open"
  /\ socket' = [socket EXCEPT ![s] = "closing"]
  /\ UNCHANGED <<ws, attempt, timer, closing, state, lastSeq, sent, up>>

\* Faulty variant: an unexpected close is taken for an intended one.
ScheduleReconnectNever ==
  /\ state' = "closed"
  /\ UNCHANGED <<timer, attempt>>

\* #scheduleReconnect: one timer, a longer delay next time.
ScheduleReconnect ==
  /\ timer' = TRUE
  /\ attempt' = IF attempt < MaxDelay THEN attempt + 1 ELSE attempt
  /\ state' = "reconnecting"

\* The socket is gone, or its handshake failed: onclose, of whichever socket.
OnClose(s) ==
  /\ socket[s] = "closing" \/ (~up /\ socket[s] \in {"connecting", "open"})
  /\ socket' = [socket EXCEPT ![s] = "closed"]
  /\ ws' = None
  /\ IF closing THEN UNCHANGED <<timer, attempt, state>> ELSE ScheduleReconnect
  /\ UNCHANGED <<closing, lastSeq, sent, up>>

\* The network or the server fails or comes back.
Weather ==
  /\ up' = ~up
  /\ UNCHANGED <<socket, ws, attempt, timer, closing, state, lastSeq, sent>>

Events(s) == OnOpen(s) \/ OnMessage(s) \/ ServerCloses(s) \/ OnClose(s)

Next == Connect \/ Disconnect \/ Reconnect \/ Weather \/ \E s \in Sockets : Events(s)

Spec == Init /\ [][Next]_vars

\* A timeout runs, a handshake ends and a closing handshake ends (its peer's answer
\* or the browser's own timeout ends it).
Fairness ==
  /\ WF_vars(Reconnect)
  /\ \A s \in Sockets : WF_vars(OnOpen(s)) /\ WF_vars(OnClose(s))

FairSpec == Spec /\ Fairness

-----------------------------------------------------------------------------
(* Properties                                                              *)

\* "Owns the single realtime connection": never two sockets that are open or opening,
\* and the service holds the one there is (realtime.service.ts:27).
SingleConnection ==
  /\ \A s \in Connecting : s = ws
  /\ timer => Connecting = {}

\* After disconnect nothing is left that could open a socket without a call of connect:
\* no timer, and the late close event finds its close intended (realtime.service.ts:80).
StaysDisconnected == state = "closed" => closing /\ ~timer /\ Connecting = {}

\* A connection that was lost or refused comes back once the server stays reachable,
\* unless the application disconnects (realtime.service.ts:37).
Reconnects == <>[]up => []<>(state \in {"open", "idle"} \/ closing)

\* The service's own claim, for every order of calls: never two sockets at a time.
OneSocket == Cardinality(Connecting) <= 1
=============================================================================
