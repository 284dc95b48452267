----------------------------- MODULE WsConnection -----------------------------
(***************************************************************************)
(* One realtime connection (platform/websocket/conn.go, internal/realtime/ *)
(* router.go and gateway.go): the request's goroutine, which reads frames  *)
(* and answers them through a bounded queue; the write pump, which alone   *)
(* writes what is queued; and the watcher, which closes the connection when *)
(* the queue overflows. They share a context that ends with the process or *)
(* when serve returns.                                                     *)
(*                                                                         *)
(* The socket is coder/websocket's, in the version go.mod names. A Read or *)
(* a write that fails, its context's end included, closes it, and Close    *)
(* may be called next to both; a Ping that waits for its pong in vain      *)
(* returns an error and leaves it open. A frame that does not parse and    *)
(* one of another version are treated alike: "bad".                        *)
(***************************************************************************)
EXTENDS Naturals, Sequences

CONSTANTS
  QueueSize,  \* OutboundQueueSize
  MaxFrames,  \* bound: numbers the connection gives out
  Binaries    \* does the client send binary frames?

ASSUME QueueSizeAssumption == QueueSize \in Nat \ {0}
ASSUME MaxFramesAssumption == MaxFrames \in Nat \ {0}
ASSUME BinariesAssumption == Binaries \in BOOLEAN

VARIABLES
  seq,       \* connection.seq
  reader,    \* where serve is
  frame,     \* the frame serve handles
  queue,     \* Conn.outbound: numbers of frames, or Goodbye
  full,      \* Conn.full is closed
  pump,      \* where writePump is; "silent": over, as no pong came
  item,      \* the frame it took from the queue
  watcher,   \* where the goroutine started by serve is
  ctxDone,   \* the connection's context is cancelled
  socket,    \* open; closing: a close frame is sent, its answer awaited; closed
  code,      \* the close code sent
  received,  \* the numbers of the frames put on the wire
  asked      \* history: the last number when CloseAfterDrain was first accepted

vars == <<seq, reader, frame, queue, full, pump, item, watcher, ctxDone,
          socket, code, received, asked>>

\* outboundItem without data: an instruction to close.
Goodbye == 0

TypeOK ==
  /\ seq \in 0 .. MaxFrames
  /\ reader \in {"greet", "read", "reply", "hangup", "over"}
  /\ frame \in {"none", "bad", "unknown"}
  /\ queue \in Seq(0 .. MaxFrames) /\ Len(queue) <= QueueSize
  /\ full \in BOOLEAN
  /\ pump \in {"select", "write", "ping", "handshake", "over", "silent"}
  /\ item \in 0 .. MaxFrames
  /\ watcher \in {"none", "select", "handshake", "over"}
  /\ ctxDone \in BOOLEAN
  /\ socket \in {"open", "closing", "closed"}
  /\ code \in {"none", "policy", "slow_client"}
  /\ received \subseteq 1 .. MaxFrames
  /\ asked \in 0 .. MaxFrames

\* Accept, past the upgrade: an empty queue and a write pump.
Accepted ==
  /\ queue = <<>> /\ full = FALSE
  /\ pump = "select" /\ item = 0
  /\ socket = "open" /\ code = "none" /\ received = {}

\* ServeWS, past the checks of origin and session, which answer without a socket:
\* a fresh connection for serve. A context that has already ended ends at once.
Init ==
  /\ Accepted
  /\ seq = 0 /\ reader = "greet" /\ frame = "none" /\ asked = 0
  /\ watcher = "none" /\ ctxDone = FALSE

serving == <<seq, reader, frame, asked>>
outbound == <<queue, full>>
pumping == <<pump, item>>
around == <<watcher, ctxDone>>
transport == <<socket, code, received>>

-----------------------------------------------------------------------------
(* serve                                                                   *)

\* Faulty variant: one item more than the channel holds.
OfferOneMore(i) ==
  IF Len(queue) <= QueueSize
  THEN queue' = Append(queue, i) /\ UNCHANGED full
  ELSE full' = TRUE /\ UNCHANGED queue

\* Send and CloseAfterDrain: into the queue, or the first refusal closes full.
Offer(i) ==
  IF Len(queue) < QueueSize
  THEN queue' = Append(queue, i) /\ UNCHANGED full
  ELSE full' = TRUE /\ UNCHANGED queue

\* nextSeq and send: a number is used up whether or not its frame is accepted.
SendNext ==
  /\ seq < MaxFrames
  /\ seq' = seq + 1
  /\ Offer(seq')

\* auth.success, then the watcher.
Greet ==
  /\ reader = "greet"
  /\ SendNext
  /\ reader' = "read"
  /\ watcher' = "select"
  /\ UNCHANGED <<frame, asked, pumping, ctxDone, transport>>

\* A text frame arrives: also after the close frame was sent, and also when it
\* raced the context's end.
Read ==
  /\ reader = "read"
  /\ socket # "closed"
  /\ seq < MaxFrames
  /\ frame' \in {"bad", "unknown"}
  /\ reader' = "reply"
  /\ UNCHANGED <<seq, asked, outbound, pumping, around, transport>>

\* Read fails and serve returns, at any time: the peer closed or vanished, the frame
\* was too long, the context ended, the socket is closed; or the frame is binary,
\* which only Conn.Read calls an error. The gateway's deferred cancel follows.
ReadFails ==
  /\ reader = "read"
  /\ socket' = "closed" \/ (Binaries /\ UNCHANGED socket)
  /\ reader' = "over"
  /\ ctxDone' = TRUE
  /\ UNCHANGED <<seq, frame, asked, outbound, pumping, watcher, code, received>>

\* Faulty variant: a bad frame is answered like any other.
ReplyOnly ==
  /\ reader = "reply"
  /\ SendNext
  /\ reader' = "read"
  /\ UNCHANGED <<frame, asked, pumping, around, transport>>

\* handle: every frame is answered with an error; a bad one also ends the talk.
Reply ==
  /\ reader = "reply"
  /\ SendNext
  /\ reader' = IF frame = "bad" THEN "hangup" ELSE "read"
  /\ UNCHANGED <<frame, asked, pumping, around, transport>>

\* Close: the close frame goes out behind the write under way, or cannot be written
\* and the library closes; on a socket that is being closed nothing is sent.
Close(c) ==
  \/ socket = "open" /\ socket' = "closing" /\ code' = c
  \/ socket = "open" /\ socket' = "closed" /\ UNCHANGED code
  \/ socket # "open" /\ UNCHANGED <<socket, code>>

\* Faulty variant: Close in place of CloseAfterDrain.
HangupNow ==
  /\ reader = "hangup"
  /\ Close("policy")
  /\ reader' = "read"
  /\ asked' = IF asked = 0 THEN seq ELSE asked
  /\ UNCHANGED <<seq, frame, outbound, pumping, around, received>>

\* CloseAfterDrain; handle returns and serve goes on reading.
Hangup ==
  /\ reader = "hangup"
  /\ Offer(Goodbye)
  /\ reader' = "read"
  /\ asked' = IF asked = 0 /\ queue' # queue THEN seq ELSE asked
  /\ UNCHANGED <<seq, frame, pumping, around, transport>>

-----------------------------------------------------------------------------
(* writePump                                                               *)

\* Faulty variant: the last frame enqueued is written first.
TakeLast ==
  /\ pump = "select"
  /\ queue # <<>> /\ queue[Len(queue)] # Goodbye
  /\ item' = queue[Len(queue)]
  /\ queue' = SubSeq(queue, 1, Len(queue) - 1)
  /\ pump' = "write"
  /\ UNCHANGED <<serving, full, around, transport>>

\* The cases of the select: a frame, the instruction to close, the ticker, ctx.Done.
Take ==
  /\ pump = "select"
  /\ queue # <<>> /\ Head(queue) # Goodbye
  /\ item' = Head(queue)
  /\ queue' = Tail(queue)
  /\ pump' = "write"
  /\ UNCHANGED <<serving, full, around, transport>>

\* Faulty variant: the instruction ends the pump and nothing else.
TakeGoodbyeSilently ==
  /\ pump = "select"
  /\ queue # <<>> /\ Head(queue) = Goodbye
  /\ queue' = Tail(queue)
  /\ pump' = "over"
  /\ UNCHANGED <<serving, full, item, around, transport>>

TakeGoodbye ==
  /\ pump = "select"
  /\ queue # <<>> /\ Head(queue) = Goodbye
  /\ queue' = Tail(queue)
  /\ Close("policy")
  /\ pump' = "handshake"
  /\ UNCHANGED <<serving, full, item, around, received>>

Tick ==
  /\ pump = "select"
  /\ pump' = "ping"
  /\ UNCHANGED <<serving, outbound, item, around, transport>>

PumpStops ==
  /\ pump = "select"
  /\ ctxDone
  /\ pump' = "over"
  /\ UNCHANGED <<serving, outbound, item, around, transport>>

Write ==
  /\ pump = "write"
  /\ socket = "open"
  /\ received' = received \cup {item}
  /\ pump' = "select"
  /\ UNCHANGED <<serving, outbound, item, around, socket, code>>

\* The pong arrives through the reader.
Pong ==
  /\ pump = "ping"
  /\ socket = "open"
  /\ reader # "over"
  /\ pump' = "select"
  /\ UNCHANGED <<serving, outbound, item, around, transport>>

\* PongTimeout, or the context's end, while Ping waits: writePump returns with the
\* socket as it is.
PongLate ==
  /\ pump = "ping"
  /\ pump' = "silent"
  /\ UNCHANGED <<serving, outbound, item, around, transport>>

\* A frame or a ping cannot be written: WriteTimeout, the context's end, a broken or
\* closing socket.
WriteFails ==
  /\ pump \in {"write", "ping"}
  /\ socket' = "closed"
  /\ pump' = "over"
  /\ UNCHANGED <<serving, outbound, item, around, code, received>>

\* Close returns: the peer has answered, or the library waits no longer.
Closed == socket' = IF socket = "closing" THEN "closed" ELSE socket

PumpClosed ==
  /\ pump = "handshake"
  /\ Closed
  /\ pump' = "over"
  /\ UNCHANGED <<serving, outbound, item, around, code, received>>

-----------------------------------------------------------------------------
(* The watcher, and the process                                            *)

\* Faulty variant: the overflow is logged only.
WatchFullOnlyLogs ==
  /\ watcher = "select"
  /\ full
  /\ watcher' = "over"
  /\ UNCHANGED <<serving, outbound, pumping, ctxDone, transport>>

WatchFull ==
  /\ watcher = "select"
  /\ full
  /\ Close("slow_client")
  /\ watcher' = "handshake"
  /\ UNCHANGED <<serving, outbound, pumping, ctxDone, received>>

\* Faulty variant: the watcher waits for an overflow alone.
WatchStopsNever ==
  /\ watcher = "select"
  /\ ctxDone /\ full
  /\ watcher' = "over"
  /\ UNCHANGED <<serving, outbound, pumping, ctxDone, transport>>

WatchStops ==
  /\ watcher = "select"
  /\ ctxDone
  /\ watcher' = "over"
  /\ UNCHANGED <<serving, outbound, pumping, ctxDone, transport>>

WatcherClosed ==
  /\ watcher = "handshake"
  /\ Closed
  /\ watcher' = "over"
  /\ UNCHANGED <<serving, outbound, pumping, ctxDone, code, received>>

\* The process's shutdown context, the parent of this one, is cancelled.
Shutdown ==
  /\ ~ctxDone
  /\ ctxDone' = TRUE
  /\ UNCHANGED <<serving, outbound, pumping, watcher, transport>>

-----------------------------------------------------------------------------
Serve == Greet \/ Read \/ ReadFails \/ Reply \/ Hangup
WritePump ==
  \/ Take \/ TakeGoodbye \/ Tick \/ PumpStops
  \/ Write \/ Pong \/ PongLate \/ WriteFails \/ PumpClosed
Watch == WatchFull \/ WatchStops \/ WatcherClosed

Next == Serve \/ WritePump \/ Watch \/ Shutdown

Spec == Init /\ [][Next]_vars

\* Goroutines run, and every call they make returns: Write and Ping have timeouts
\* and Close gives up on its peer. Read alone may wait for ever, unless its
\* context has ended or its socket is closed: then at most frames already received
\* come before the error. A select that keeps finding ctx.Done or the queue ready
\* takes it in the end.
FairSpec ==
  /\ Spec
  /\ WF_vars(Greet \/ Reply \/ Hangup)
  /\ SF_vars((ctxDone \/ socket = "closed") /\ ReadFails)
  /\ WF_vars(WritePump)
  /\ SF_vars(PumpStops)
  /\ SF_vars(Take \/ TakeGoodbye)
  /\ WF_vars(Watch)

-----------------------------------------------------------------------------
(* Properties                                                              *)

\* The frames accepted and not yet written: in the queue or in the pump's hands.
Pending ==
  {n \in 1 .. MaxFrames :
     (\E i \in DOMAIN queue : queue[i] = n) \/ (pump = "write" /\ item = n)}

\* However reader, pump and watcher interleave, the client sees ascending numbers,
\* none twice, and nothing once the socket is closing.
Stream == INSTANCE FrameStream WITH
  issued <- seq, pending <- Pending, received <- received, open <- socket = "open"

RefinesStream == Stream!Spec

\* What is queued before CloseAfterDrain is written before its close frame, and
\* what the reader answers later never reaches the client (conn.go: "ordering is
\* automatic").
DrainPrecedesClose ==
  code = "policy" =>
    /\ \A n \in Pending : n > asked
    /\ \A n \in received : n <= asked

\* An overflow ends in a close, unless the connection is ending anyway: "close and
\* let the client resync".
OverflowCloses == full ~> (socket = "closed" \/ ctxDone)

\* A frame that does not parse, or of another version, ends the connection
\* (docs/protocol.md: "error, then close"), whatever fills the queue meanwhile, as
\* long as the pump that takes the instruction to close did not give up on a pong.
BadFrameCloses ==
  (reader = "reply" /\ frame = "bad") ~> (socket = "closed" \/ ctxDone \/ pump = "silent")

\* Nothing waits for Done: that the pump has gone, after a failed write, a close
\* instruction or the context's end, reaches the reader through the socket or the
\* context, or the connection would stay half alive.
DeadPumpIsNoticed == pump = "over" ~> reader = "over"

\* What the comment on PingInterval says: a connection that has gone silent is
\* "detected and closed rather than left as a phantom that never receives a reply".
SilentIsClosed == pump = "silent" ~> (socket = "closed" \/ ctxDone)

\* Once the context has ended, all three goroutines end: a deploy is not held up
\* by open sockets.
ConnectionEnds ==
  ctxDone ~> /\ reader = "over"
             /\ pump \in {"over", "silent"}
             /\ watcher \in {"none", "over"}
=============================================================================
