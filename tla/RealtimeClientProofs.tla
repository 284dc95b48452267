------------------------- MODULE RealtimeClientProofs -------------------------
(***************************************************************************)
(* The theorems of RealtimeClient, for any number of sockets. The types    *)
(* need nothing; the others assume that connect is not called between      *)
(* disconnect and the close event it causes (~Hasty), and OneSocket is     *)
(* refuted without that.                                                   *)
(***************************************************************************)
EXTENDS RealtimeClient, TLAPS

Alive == {s \in Sockets : socket[s] # "closed"}

\* One socket lives at a time, its close event included, and none while the timer runs.
OneAlive ==
  /\ \A s, t \in Alive : s = t
  /\ timer => Alive = {}
  /\ ws # None => ws \in Alive

ClientInv == TypeOK /\ OneAlive /\ SingleConnection /\ StaysDisconnected

\* Every step keeps the types.
LEMMA TypeStep == TypeOK /\ [Next]_vars => TypeOK'
<1> SUFFICES ASSUME TypeOK, [Next]_vars
             PROVE  TypeOK'
  OBVIOUS
<1> USE NoneAssumption, BoundsAssumption DEF TypeOK
<1>1. ASSUME Open, timer' \in BOOLEAN
      PROVE  TypeOK'
  <2>1. PICK s \in Sockets :
          /\ socket' = [socket EXCEPT ![s] = "connecting"]
          /\ sent' = [sent EXCEPT ![s] = 0]
          /\ ws' = s
    BY <1>1 DEF Open
  <2>2. /\ state' \in {"connecting", "reconnecting"} /\ closing' = FALSE
        /\ UNCHANGED <<attempt, lastSeq, up>>
    BY <1>1 DEF Open
  <2>3. socket' \in [Sockets -> {"connecting", "open", "closing", "closed"}]
    BY <2>1
  <2>4. sent' \in [Sockets -> 0 .. MaxSeq]
    BY <2>1
  <2> QED
    BY <1>1, <2>1, <2>2, <2>3, <2>4
<1>2. CASE Connect
  BY <1>1, <1>2 DEF Connect
<1>3. CASE Reconnect
  BY <1>1, <1>3 DEF Reconnect
<1>4. CASE Disconnect
  <2>1. socket' \in [Sockets -> {"connecting", "open", "closing", "closed"}]
    BY <1>4 DEF Disconnect
  <2>2. /\ attempt' = 0 /\ closing' = TRUE /\ ws' = None /\ state' = "closed" /\ timer' = FALSE
        /\ UNCHANGED <<lastSeq, sent, up>>
    BY <1>4 DEF Disconnect
  <2>3. attempt' \in 0 .. MaxDelay /\ lastSeq' \in 0 .. MaxSeq
    BY <2>2
  <2>4. timer' \in BOOLEAN /\ closing' \in BOOLEAN /\ up' \in BOOLEAN
    BY <2>2, Zenon
  <2> QED
    BY <2>1, <2>2, <2>3, <2>4
<1>5. CASE Weather
  BY <1>5 DEF Weather
<1>6. ASSUME NEW s \in Sockets, OnOpen(s)
      PROVE  TypeOK'
  BY <1>6 DEF OnOpen
<1>7. ASSUME NEW s \in Sockets, OnMessage(s)
      PROVE  TypeOK'
  <2>1. sent[s] + 1 \in 0 .. MaxSeq
    BY <1>7 DEF OnMessage
  <2>2. sent' \in [Sockets -> 0 .. MaxSeq]
    BY <1>7, <2>1 DEF OnMessage
  <2>3. lastSeq' \in 0 .. MaxSeq
    BY <1>7, <2>1 DEF OnMessage, Highest
  <2> QED
    BY <1>7, <2>2, <2>3 DEF OnMessage
<1>8. ASSUME NEW s \in Sockets, ServerCloses(s)
      PROVE  TypeOK'
  BY <1>8 DEF ServerCloses
<1>9. ASSUME NEW s \in Sockets, OnClose(s)
      PROVE  TypeOK'
  <2>1. socket' \in [Sockets -> {"connecting", "open", "closing", "closed"}]
    BY <1>9 DEF OnClose
  <2>2. /\ timer' \in BOOLEAN /\ attempt' \in 0 .. MaxDelay
        /\ state' \in {"idle", "connecting", "open", "reconnecting", "closed"}
    <3>1. CASE closing
      BY <1>9, <3>1 DEF OnClose
    <3>2. CASE ~closing
      <4>1. /\ timer' = TRUE /\ state' = "reconnecting"
            /\ attempt' = IF attempt < MaxDelay THEN attempt + 1 ELSE attempt
        BY <1>9, <3>2 DEF OnClose, ScheduleReconnect
      <4>2. attempt' \in 0 .. MaxDelay
        BY <4>1
      <4> QED
        BY <4>1, <4>2
    <3> QED
      BY <3>1, <3>2
  <2>3. ws' = None /\ UNCHANGED <<closing, lastSeq, sent, up>>
    BY <1>9 DEF OnClose
  <2> QED
    BY <2>1, <2>2, <2>3
<1>10. CASE UNCHANGED vars
  BY <1>10 DEF vars
<1> QED
  BY <1>2, <1>3, <1>4, <1>5, <1>6, <1>7, <1>8, <1>9, <1>10 DEF Next, Events

\* A new socket when all others are closed.
LEMMA OpenStep ==
  ASSUME ClientInv, Open, timer' = FALSE, Alive = {}
  PROVE  OneAlive' /\ SingleConnection' /\ StaysDisconnected'
<1> USE DEF ClientInv, TypeOK
<1>1. PICK s \in Sockets : socket' = [socket EXCEPT ![s] = "connecting"] /\ ws' = s
  BY DEF Open
<1>2. \A t \in Sockets : socket'[t] # "closed" => t = s
  BY <1>1 DEF Alive
<1>3. state' # "closed"
  BY DEF Open
<1> QED
  BY <1>1, <1>2, <1>3 DEF OneAlive, Alive, SingleConnection, StaysDisconnected, Connecting

\* The invariant is inductive when connect waits for the close event.
LEMMA ClientStep ==
  ASSUME ~Hasty, ClientInv, [Next]_vars
  PROVE  ClientInv'
<1> USE NoneAssumption DEF ClientInv
<1>0. TypeOK'
  BY TypeStep
<1>1. CASE Connect
  BY <1>0, <1>1, OpenStep DEF Connect, Alive
<1>2. CASE Reconnect
  BY <1>0, <1>2, OpenStep DEF Reconnect, OneAlive
<1>3. CASE Disconnect
  <2>1. \A s \in Sockets : socket'[s] = IF s = ws THEN "closing" ELSE socket[s]
    BY <1>3 DEF Disconnect
  <2>2. Connecting' = {}
    BY <2>1 DEF Connecting, SingleConnection
  <2>3. ws' = None /\ timer' = FALSE /\ closing' = TRUE /\ state' = "closed"
    BY <1>3 DEF Disconnect
  <2>4. Alive' \subseteq Alive
    BY <2>1 DEF OneAlive, Alive
  <2>5. OneAlive'
    BY <2>3, <2>4 DEF OneAlive
  <2> QED
    BY <1>0, <2>2, <2>3, <2>5 DEF SingleConnection, StaysDisconnected
<1>4. CASE Weather \/ UNCHANGED vars
  BY <1>0, <1>4 DEF Weather, vars, OneAlive, Alive, SingleConnection, StaysDisconnected, Connecting
<1>5. ASSUME NEW s \in Sockets, OnOpen(s) \/ OnMessage(s) \/ ServerCloses(s)
      PROVE  ClientInv'
  <2>1. /\ \A t \in Sockets : (socket'[t] = "closed") = (socket[t] = "closed")
        /\ Connecting' \subseteq Connecting
        /\ UNCHANGED <<ws, timer, closing>>
    BY <1>5 DEF OnOpen, OnMessage, ServerCloses, Connecting, TypeOK
  <2>2. state' = "closed" => state = "closed"
    BY <1>5 DEF OnOpen, OnMessage, ServerCloses
  <2> QED
    BY <1>0, <2>1, <2>2 DEF OneAlive, Alive, SingleConnection, StaysDisconnected
<1>6. ASSUME NEW s \in Sockets, OnClose(s)
      PROVE  ClientInv'
  <2>1. s \in Alive
    BY <1>6 DEF OnClose, Alive
  <2>2. socket' = [socket EXCEPT ![s] = "closed"]
    BY <1>6 DEF OnClose
  <2>3. Alive' = {} /\ Connecting' = {}
    BY <2>1, <2>2 DEF Alive, OneAlive, Connecting, TypeOK
  <2>4. state' = "closed" => closing' /\ ~timer'
    BY <1>6 DEF OnClose, ScheduleReconnect, StaysDisconnected
  <2>5. ws' = None
    BY <1>6 DEF OnClose
  <2> QED
    BY <1>0, <2>3, <2>4, <2>5 DEF OneAlive, SingleConnection, StaysDisconnected
<1> QED
  BY <1>1, <1>2, <1>3, <1>4, <1>5, <1>6 DEF Next, Events

\* The service starts without a socket.
LEMMA InitInv == Init => ClientInv
<1> SUFFICES ASSUME Init
             PROVE  ClientInv
  OBVIOUS
<1>1. TypeOK
  <2>1. 0 \in 0 .. MaxDelay /\ 0 \in 0 .. MaxSeq
    BY BoundsAssumption
  <2> QED
    BY <2>1 DEF Init, TypeOK
<1>2. Alive = {} /\ Connecting = {} /\ ws = None /\ state # "closed"
  BY DEF Init, Alive, Connecting
<1> QED
  BY <1>1, <1>2 DEF ClientInv, OneAlive, SingleConnection, StaysDisconnected

\* Every variable keeps its type, whenever connect is called.
THEOREM TypeCorrect == Spec => []TypeOK
<1>1. Init => TypeOK
  BY InitInv DEF ClientInv
<1> QED
  BY <1>1, TypeStep, PTL DEF Spec

\* The service holds the only connection there is, and while it waits to reconnect there
\* is none (realtime.service.ts:27).
THEOREM ConnectionIsSingle == ~Hasty => (Spec => []SingleConnection)
<1> SUFFICES ASSUME ~Hasty
             PROVE  Spec => []SingleConnection
  OBVIOUS
<1>1. ClientInv /\ [Next]_vars => ClientInv'
  BY ClientStep
<1>2. ClientInv => SingleConnection
  BY DEF ClientInv
<1> QED
  BY <1>1, <1>2, InitInv, PTL DEF Spec

\* After disconnect nothing opens a socket but connect (realtime.service.ts:80).
THEOREM DisconnectHolds == ~Hasty => (Spec => []StaysDisconnected)
<1> SUFFICES ASSUME ~Hasty
             PROVE  Spec => []StaysDisconnected
  OBVIOUS
<1>1. ClientInv /\ [Next]_vars => ClientInv'
  BY ClientStep
<1>2. ClientInv => StaysDisconnected
  BY DEF ClientInv
<1> QED
  BY <1>1, <1>2, InitInv, PTL DEF Spec

-----------------------------------------------------------------------------
(* What is left to bring a connection back                                 *)

\* A close is intended only by disconnect, and a service that wants a connection has a
\* timer or a socket that will tell it of its end; "open" is shown of a socket that was.
NeverStranded ==
  /\ closing => state = "closed"
  /\ ~closing => state = "idle" \/ timer \/ Alive # {}
  /\ state = "open" => \E s \in Sockets : socket[s] \in {"open", "closing"}

LEMMA StrandedStep ==
  ASSUME ~Hasty, ClientInv, NeverStranded, [Next]_vars
  PROVE  NeverStranded'
<1>0. /\ socket \in [Sockets -> {"connecting", "open", "closing", "closed"}]
      /\ \A s, t \in Alive : s = t
  BY DEF ClientInv, OneAlive, TypeOK
<1>1. ASSUME Open
      PROVE  NeverStranded'
  <2>1. PICK s \in Sockets : socket' = [socket EXCEPT ![s] = "connecting"]
    BY <1>1 DEF Open
  <2>2. s \in Alive'
    BY <1>0, <2>1 DEF Alive
  <2>3. closing' = FALSE /\ state' \in {"connecting", "reconnecting"}
    BY <1>1 DEF Open
  <2> QED
    BY <2>2, <2>3 DEF NeverStranded
<1>2. CASE Disconnect
  BY <1>2 DEF Disconnect, NeverStranded
<1>3. CASE Weather
  BY <1>3 DEF Weather, NeverStranded, Alive
<1>4. ASSUME NEW s \in Sockets, OnOpen(s)
      PROVE  NeverStranded'
  <2>1. s \in Connecting /\ state # "closed"
    BY <1>4 DEF OnOpen, Connecting, ClientInv, StaysDisconnected
  <2>2. socket'[s] = "open" /\ s \in Alive' /\ state' = "open" /\ closing' = closing
    BY <1>0, <1>4 DEF OnOpen, Alive
  <2> QED
    BY <2>1, <2>2 DEF NeverStranded
<1>5. ASSUME NEW s \in Sockets, OnMessage(s)
      PROVE  NeverStranded'
  BY <1>5 DEF OnMessage, NeverStranded, Alive
<1>6. ASSUME NEW s \in Sockets, ServerCloses(s)
      PROVE  NeverStranded'
  <2>1. /\ \A t \in Sockets : socket[t] \in {"open", "closing"} => socket'[t] \in {"open", "closing"}
        /\ Alive' = Alive /\ UNCHANGED <<timer, closing, state>>
    BY <1>0, <1>6 DEF ServerCloses, Alive
  <2> QED
    BY <2>1 DEF NeverStranded
<1>7. ASSUME NEW s \in Sockets, OnClose(s)
      PROVE  NeverStranded'
  <2>1. CASE closing
    BY <1>7, <2>1 DEF OnClose, NeverStranded
  <2>2. CASE ~closing
    BY <1>7, <2>2 DEF OnClose, ScheduleReconnect, NeverStranded
  <2> QED
    BY <2>1, <2>2
<1>8. CASE UNCHANGED vars
  BY <1>8 DEF vars, NeverStranded, Alive
<1> QED
  BY <1>1, <1>2, <1>3, <1>4, <1>5, <1>6, <1>7, <1>8 DEF Next, Events, Connect, Reconnect

\* The safety half of Reconnects: in no order of calls and events does the service wait
\* for a connection with neither a timer nor a socket left to wake it
\* (realtime.service.ts:37).
THEOREM ClientIsNeverStranded == ~Hasty => (Spec => []NeverStranded)
<1> SUFFICES ASSUME ~Hasty
             PROVE  Spec => []NeverStranded
  OBVIOUS
<1>1. Init => NeverStranded
  BY DEF Init, NeverStranded
<1>2. ClientInv /\ [Next]_vars => ClientInv'
  BY ClientStep
<1>3. ClientInv /\ NeverStranded /\ [Next]_vars => NeverStranded'
  BY StrandedStep
<1> QED
  BY <1>1, <1>2, <1>3, InitInv, PTL DEF Spec
=============================================================================
