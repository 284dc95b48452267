-------------------------- MODULE WsConnectionProofs ---------------------------
(***************************************************************************)
(* A connection of WsConnection implements FrameStream, and CloseAfterDrain *)
(* drains, for every size of the queue.                                    *)
(***************************************************************************)
EXTENDS WsConnection, SequenceTheorems, TLAPS

\* The number a frame in the queue carries; the instruction to close has none.
IsFrame(i) == i \in DOMAIN queue /\ queue[i] # Goodbye

\* Numbers ascend from the wire through the pump's hands to the end of the queue.
Ascending ==
  /\ \A i, j \in DOMAIN queue : IsFrame(i) /\ IsFrame(j) /\ i < j => queue[i] < queue[j]
  /\ \A i \in DOMAIN queue : queue[i] <= seq
  /\ \A k \in received : k <= seq /\ \A i \in DOMAIN queue : IsFrame(i) => k < queue[i]
  /\ pump = "write" =>
       /\ item \in 1 .. seq
       /\ \A k \in received : k < item
       /\ \A i \in DOMAIN queue : IsFrame(i) => item < queue[i]

Stopped == pump \in {"handshake", "over"}

\* The first instruction to close is at g: what was accepted before it is ahead of
\* it, what is answered later behind it.
SplitAt(g) ==
  /\ queue[g] = Goodbye
  /\ \A i \in DOMAIN queue : i < g => queue[i] \in 1 .. asked
  /\ \A i \in DOMAIN queue : i > g /\ IsFrame(i) => asked < queue[i]
  /\ pump = "write" => item <= asked

\* The pump has taken it and writes no more.
Drained ==
  /\ Stopped
  /\ \A i \in DOMAIN queue : IsFrame(i) => asked < queue[i]

Drains ==
  /\ reader # "greet" => seq # 0
  /\ asked <= seq
  /\ asked = 0 => code # "policy" /\ \A i \in DOMAIN queue : IsFrame(i)
  /\ asked # 0 =>
       /\ \A k \in received : k <= asked
       /\ Drained \/ \E g \in DOMAIN queue : SplitAt(g)
  /\ code = "policy" => Drained

WsInv == TypeOK /\ Ascending /\ Drains

-----------------------------------------------------------------------------
(* The steps, by what they do to the frames                                *)

\* Nothing, except that a write under way may fail and that a socket may close.
Quiet ==
  /\ UNCHANGED <<seq, queue, item, received, asked>>
  /\ pump' = "write" => pump = "write"
  /\ pump = "write" => pump' = "write" \/ socket' # "open"
  /\ Stopped => Stopped'
  /\ reader' # "greet" => reader # "greet"
  /\ code' = "policy" => code = "policy"
  /\ socket' = "open" => socket = "open"

Answers == SendNext /\ UNCHANGED <<pumping, received, asked, socket, code>>

LEMMA NextShapes ==
  ASSUME TypeOK, [Next]_vars
  PROVE  Quiet \/ Answers \/ Hangup \/ Take \/ TakeGoodbye \/ Write
<1> USE DEF serving, outbound, pumping, around, transport
<1>1. CASE UNCHANGED vars
  BY <1>1 DEF vars, Quiet, Stopped
<1>2. CASE Greet \/ Reply
  BY <1>2 DEF Greet, Reply, Answers
<1>3. CASE Read
  BY <1>3 DEF Read, Quiet, Stopped
<1>4. CASE ReadFails
  BY <1>4 DEF ReadFails, Quiet, Stopped
<1>5. CASE Tick \/ PumpStops \/ Pong \/ PongLate
  BY <1>5 DEF Tick, PumpStops, Pong, PongLate, Quiet, Stopped
<1>6. CASE WriteFails \/ PumpClosed
  BY <1>6 DEF WriteFails, PumpClosed, Closed, Quiet, Stopped
<1>7. CASE WatchFull
  BY <1>7 DEF WatchFull, Close, Quiet, Stopped
<1>8. CASE WatchStops \/ WatcherClosed \/ Shutdown
  BY <1>8 DEF WatchStops, WatcherClosed, Closed, Shutdown, Quiet, Stopped
<1>9. QED
  BY <1>1, <1>2, <1>3, <1>4, <1>5, <1>6, <1>7, <1>8 DEF Next, Serve, WritePump, Watch

LEMMA QueueFacts ==
  ASSUME TypeOK
  PROVE  /\ DOMAIN queue = 1 .. Len(queue)
         /\ Len(queue) \in Nat
         /\ \A i \in DOMAIN queue : queue[i] \in 0 .. MaxFrames
<1>1. queue \in Seq(0 .. MaxFrames)
  BY DEF TypeOK
<1>2. DOMAIN queue = 1 .. Len(queue) /\ Len(queue) \in Nat
  BY <1>1
<1>3. \A i \in 1 .. Len(queue) : queue[i] \in 0 .. MaxFrames
  BY <1>1, ElementOfSeq
<1>4. QED
  BY <1>2, <1>3

\* What Offer does to the queue.
LEMMA OfferShape ==
  ASSUME TypeOK, NEW i \in 0 .. MaxFrames, Offer(i)
  PROVE  /\ queue' \in Seq(0 .. MaxFrames)
         /\ Len(queue') <= QueueSize
         /\ full' \in BOOLEAN
         /\ \/ queue' = queue
            \/ /\ DOMAIN queue' = 1 .. Len(queue) + 1
               /\ \A k \in DOMAIN queue : queue'[k] = queue[k]
               /\ queue'[Len(queue) + 1] = i
<1>0. queue \in Seq(0 .. MaxFrames) /\ Len(queue) <= QueueSize /\ full \in BOOLEAN
  BY DEF TypeOK
<1>1. CASE Len(queue) < QueueSize
  <2>1. queue' = Append(queue, i) /\ full' = full
    BY <1>1 DEF Offer
  <2>2. queue' \in Seq(0 .. MaxFrames) /\ Len(queue') = Len(queue) + 1
    BY <1>0, <2>1
  <2>3. Len(queue') <= QueueSize
    BY <1>0, <1>1, <2>2, QueueSizeAssumption
  <2>4. /\ DOMAIN queue' = 1 .. Len(queue) + 1
        /\ \A k \in DOMAIN queue : queue'[k] = queue[k]
        /\ queue'[Len(queue) + 1] = i
    BY <1>0, <2>1
  <2>5. QED
    BY <1>0, <2>1, <2>2, <2>3, <2>4
<1>2. CASE ~(Len(queue) < QueueSize)
  BY <1>0, <1>2 DEF Offer
<1>3. QED
  BY <1>1, <1>2

\* What taking the head leaves.
LEMMA TailShape ==
  ASSUME TypeOK, queue # <<>>, queue' = Tail(queue)
  PROVE  /\ queue' \in Seq(0 .. MaxFrames)
         /\ Len(queue') <= QueueSize
         /\ DOMAIN queue = 1 .. Len(queue) /\ Len(queue) \in Nat \ {0}
         /\ DOMAIN queue' = 1 .. Len(queue) - 1
         /\ \A k \in DOMAIN queue' : queue'[k] = queue[k + 1]
         /\ Head(queue) = queue[1]
BY QueueSizeAssumption DEF TypeOK

-----------------------------------------------------------------------------
(* Types                                                                   *)

LEMMA TypeStep ==
  ASSUME WsInv, [Next]_vars
  PROVE  TypeOK'
<1> USE DEF serving, outbound, pumping, around, transport
<1>0. TypeOK
  BY DEF WsInv
<1>1. CASE UNCHANGED vars
  BY <1>0, <1>1 DEF vars, TypeOK
<1>2. CASE Greet \/ Reply
  <2>1. seq' \in 1 .. MaxFrames /\ Offer(seq')
    BY <1>0, <1>2, MaxFramesAssumption DEF Greet, Reply, SendNext, TypeOK
  <2>2. /\ queue' \in Seq(0 .. MaxFrames) /\ Len(queue') <= QueueSize /\ full' \in BOOLEAN
    BY <1>0, <2>1, OfferShape
  <2>3. CASE Greet
    BY <1>0, <2>1, <2>2, <2>3 DEF Greet, TypeOK
  <2>4. CASE Reply
    BY <1>0, <2>1, <2>2, <2>4 DEF Reply, TypeOK
  <2>5. QED
    BY <1>2, <2>3, <2>4
<1>3. CASE Read \/ ReadFails
  BY <1>0, <1>3 DEF Read, ReadFails, TypeOK
<1>4. CASE Hangup
  <2>1. /\ queue' \in Seq(0 .. MaxFrames) /\ Len(queue') <= QueueSize /\ full' \in BOOLEAN
    BY <1>0, <1>4, OfferShape, MaxFramesAssumption DEF Hangup, Goodbye
  <2>2. QED
    BY <1>0, <1>4, <2>1 DEF Hangup, TypeOK
<1>5. CASE Take
  <2>1. /\ queue' \in Seq(0 .. MaxFrames) /\ Len(queue') <= QueueSize
        /\ Head(queue) \in 0 .. MaxFrames
    BY <1>0, <1>5, TailShape, QueueFacts DEF Take
  <2>2. QED
    BY <1>0, <1>5, <2>1 DEF Take, TypeOK
<1>6. CASE TakeGoodbye
  <2>1. /\ queue' \in Seq(0 .. MaxFrames) /\ Len(queue') <= QueueSize
    BY <1>0, <1>6, TailShape DEF TakeGoodbye
  <2>2. QED
    BY <1>0, <1>6, <2>1 DEF TakeGoodbye, Close, TypeOK
<1>7. CASE Tick \/ PumpStops \/ Pong \/ PongLate \/ WriteFails \/ PumpClosed
  BY <1>0, <1>7 DEF Tick, PumpStops, Pong, PongLate, WriteFails, PumpClosed, Closed, TypeOK
<1>8. CASE Write
  <2>1. item \in 1 .. MaxFrames
    BY <1>0, <1>8 DEF WsInv, Ascending, Write, TypeOK
  <2>2. QED
    BY <1>0, <1>8, <2>1 DEF Write, TypeOK
<1>9. CASE WatchFull \/ WatchStops \/ WatcherClosed \/ Shutdown
  BY <1>0, <1>9 DEF WatchFull, Close, WatchStops, WatcherClosed, Closed, Shutdown, TypeOK
<1>10. QED
  BY <1>1, <1>2, <1>3, <1>4, <1>5, <1>6, <1>7, <1>8, <1>9 DEF Next, Serve, WritePump, Watch

-----------------------------------------------------------------------------
(* Numbers                                                                 *)

LEMMA AscendingStep ==
  ASSUME WsInv, [Next]_vars
  PROVE  Ascending'
<1> USE DEF IsFrame, Goodbye
<1>0. TypeOK /\ Ascending /\ TypeOK'
  BY TypeStep DEF WsInv
<1>00. /\ seq \in Nat /\ received \subseteq Nat /\ item \in Nat
       /\ \A i \in DOMAIN queue : queue[i] \in Nat
       /\ DOMAIN queue = 1 .. Len(queue) /\ Len(queue) \in Nat
  <2>1. seq \in Nat /\ received \subseteq Nat /\ item \in Nat
    BY <1>0 DEF TypeOK
  <2>2. QED
    BY <1>0, <2>1, QueueFacts
<1>1. CASE Quiet
  BY <1>0, <1>1 DEF Quiet, Ascending
<1>2. CASE Answers
  <2>1. /\ seq' = seq + 1 /\ seq' \in 0 .. MaxFrames /\ Offer(seq')
        /\ UNCHANGED <<pump, item, received>>
    BY <1>0, <1>2 DEF Answers, SendNext, pumping, TypeOK
  <2>2. CASE queue' = queue
    BY <1>0, <1>00, <2>1, <2>2 DEF Ascending
  <2>3. CASE queue' # queue
    <3>1. /\ DOMAIN queue' = 1 .. Len(queue) + 1
          /\ \A k \in DOMAIN queue : queue'[k] = queue[k]
          /\ queue'[Len(queue) + 1] = seq + 1
      BY <1>0, <2>1, <2>3, OfferShape
    <3>2. \A i, j \in DOMAIN queue' : queue'[i] # 0 /\ queue'[j] # 0 /\ i < j => queue'[i] < queue'[j]
      BY <1>0, <1>00, <3>1 DEF Ascending
    <3>3. QED
      BY <1>0, <1>00, <2>1, <3>1, <3>2 DEF Ascending
  <2>4. QED
    BY <2>2, <2>3
<1>3. CASE Hangup
  <2>1. Offer(0) /\ UNCHANGED <<seq, pump, item, received>> /\ 0 \in 0 .. MaxFrames
    BY <1>3, MaxFramesAssumption DEF Hangup, pumping, transport
  <2>2. CASE queue' = queue
    BY <1>0, <2>1, <2>2 DEF Ascending
  <2>3. CASE queue' # queue
    <3>1. /\ DOMAIN queue' = 1 .. Len(queue) + 1
          /\ \A k \in DOMAIN queue : queue'[k] = queue[k]
          /\ queue'[Len(queue) + 1] = 0
      BY <1>0, <2>1, <2>3, OfferShape
    <3>2. QED
      BY <1>0, <1>00, <2>1, <3>1 DEF Ascending
  <2>4. QED
    BY <2>2, <2>3
<1>4. ASSUME Take \/ TakeGoodbye
      PROVE  /\ \A k \in DOMAIN queue' : k + 1 \in DOMAIN queue /\ queue'[k] = queue[k + 1]
             /\ \A i, j \in DOMAIN queue' :
                  IsFrame(i + 1) /\ IsFrame(j + 1) /\ i < j => queue'[i] < queue'[j]
             /\ \A i \in DOMAIN queue' : queue'[i] <= seq'
             /\ \A k \in received' : k <= seq' /\
                  \A i \in DOMAIN queue' : IsFrame(i + 1) => k < queue'[i]
             /\ \A i \in DOMAIN queue' : queue[1] # 0 /\ IsFrame(i + 1) => queue[1] < queue'[i]
             /\ 1 \in DOMAIN queue /\ Head(queue) = queue[1] /\ UNCHANGED <<seq, received>>
  <2>1. /\ DOMAIN queue' = 1 .. Len(queue) - 1 /\ Len(queue) # 0
        /\ \A k \in DOMAIN queue' : queue'[k] = queue[k + 1]
        /\ Head(queue) = queue[1]
        /\ UNCHANGED <<seq, received>>
    BY <1>0, <1>4, TailShape DEF Take, TakeGoodbye, serving, transport
  <2>2. 1 \in DOMAIN queue /\ \A k \in DOMAIN queue' :
          k \in Nat /\ 1 < k + 1 /\ k + 1 \in DOMAIN queue /\ queue'[k] = queue[k + 1]
    BY <1>00, <2>1
  <2>3. \A i, j \in DOMAIN queue' : i < j => i + 1 < j + 1
    BY <2>2
  <2>4. QED
    BY <1>0, <2>1, <2>2, <2>3 DEF Ascending
<1>5. CASE Take
  <2>1. pump' = "write" /\ item' = queue[1] /\ queue[1] # 0
    BY <1>4, <1>5 DEF Take
  <2>2. item' \in 1 .. seq' /\ \A k \in received' : k < item'
    <3>1. queue[1] \in Nat /\ queue[1] <= seq /\ IsFrame(1)
      BY <1>0, <1>00, <1>4, <1>5, <2>1 DEF Ascending
    <3>2. \A k \in received : k < queue[1]
      BY <1>0, <3>1 DEF Ascending
    <3>3. seq' = seq /\ received' = received
      BY <1>4, <1>5
    <3>4. queue[1] \in 1 .. seq
      BY <1>00, <2>1, <3>1
    <3>5. QED
      BY <2>1, <3>2, <3>3, <3>4
  <2>3. QED
    BY <1>4, <1>5, <2>1, <2>2 DEF Ascending
<1>6. CASE TakeGoodbye
  <2>1. pump' # "write"
    BY <1>6 DEF TakeGoodbye
  <2>2. QED
    BY <1>4, <1>6, <2>1 DEF Ascending
<1>7. CASE Write
  BY <1>0, <1>00, <1>7 DEF Write, Ascending, serving, outbound
<1>8. QED
  BY <1>0, <1>1, <1>2, <1>3, <1>5, <1>6, <1>7, NextShapes

-----------------------------------------------------------------------------
(* CloseAfterDrain                                                         *)

LEMMA DrainsStep ==
  ASSUME WsInv, [Next]_vars
  PROVE  Drains'
<1> USE DEF IsFrame, Goodbye
<1>0. TypeOK /\ Ascending /\ Drains
  BY DEF WsInv
<1>00. /\ seq \in Nat /\ asked \in Nat /\ received \subseteq Nat /\ item \in Nat
       /\ \A i \in DOMAIN queue : queue[i] \in Nat
       /\ DOMAIN queue = 1 .. Len(queue) /\ Len(queue) \in Nat
  <2>1. seq \in Nat /\ asked \in Nat /\ received \subseteq Nat /\ item \in Nat
    BY <1>0 DEF TypeOK
  <2>2. QED
    BY <1>0, <2>1, QueueFacts
<1>1. CASE Quiet
  <2>1. \A g \in DOMAIN queue : SplitAt(g) => SplitAt(g)'
    BY <1>1 DEF Quiet, SplitAt
  <2>2. Drained => Drained'
    BY <1>1 DEF Quiet, Drained
  <2>3. QED
    BY <1>0, <1>1, <2>1, <2>2 DEF Quiet, Drains
<1>2. ASSUME NEW i \in 0 .. MaxFrames, Offer(i), i # 0 => asked < i,
             UNCHANGED <<pump, item, received, asked, code>>
      PROVE  /\ \A k \in DOMAIN queue : k \in DOMAIN queue'
             /\ asked # 0 => Drained \/ \E g \in DOMAIN queue : SplitAt(g)
             /\ \A g \in DOMAIN queue : SplitAt(g) => SplitAt(g)'
             /\ Drained => Drained'
  <2>1. CASE queue' = queue
    BY <1>0, <1>2, <2>1 DEF Drains, SplitAt, Drained, Stopped
  <2>2. CASE queue' # queue
    <3>1. /\ DOMAIN queue' = 1 .. Len(queue) + 1
          /\ \A k \in DOMAIN queue : k \in DOMAIN queue' /\ queue'[k] = queue[k]
          /\ queue'[Len(queue) + 1] = i
      BY <1>0, <1>00, <1>2, <2>2, OfferShape
    <3>2. \A k \in DOMAIN queue' : k \in DOMAIN queue \/ k = Len(queue) + 1
      BY <1>00, <3>1
    <3>3. \A g \in DOMAIN queue : SplitAt(g) => SplitAt(g)'
      BY <1>00, <1>2, <3>1, <3>2 DEF SplitAt
    <3>4. Drained => Drained'
      BY <1>2, <3>1, <3>2 DEF Drained, Stopped
    <3>5. QED
      BY <1>0, <3>1, <3>3, <3>4 DEF Drains
  <2>3. QED
    BY <2>1, <2>2
<1>3. CASE Answers
  <2>0. seq \in 0 .. MaxFrames
    BY <1>0 DEF TypeOK
  <2>1. /\ seq' = seq + 1 /\ seq' \in 0 .. MaxFrames /\ Offer(seq')
        /\ UNCHANGED <<pump, item, received, asked, code>>
    BY <1>3, <2>0, MaxFramesAssumption DEF Answers, SendNext, pumping
  <2>2. asked < seq'
    BY <1>0, <1>00, <2>1 DEF Drains
  <2>3. asked = 0 => \A i \in DOMAIN queue' : queue'[i] # 0
    BY <1>0, <1>00, <2>1, OfferShape DEF Drains
  <2>4. /\ \A k \in DOMAIN queue : k \in DOMAIN queue'
        /\ asked # 0 => Drained \/ \E g \in DOMAIN queue : SplitAt(g)
        /\ \A g \in DOMAIN queue : SplitAt(g) => SplitAt(g)'
        /\ Drained => Drained'
    BY <1>2, <2>1, <2>2
  <2>5. seq' # 0 /\ asked <= seq'
    BY <1>00, <2>1, <2>2
  <2>6. QED
    BY <1>0, <2>1, <2>3, <2>4, <2>5 DEF Drains
<1>4. CASE Hangup
  <2>1. /\ Offer(0) /\ 0 \in 0 .. MaxFrames /\ seq # 0
        /\ UNCHANGED <<seq, pump, item, received, code>>
    BY <1>0, <1>4, MaxFramesAssumption DEF Hangup, pumping, transport, Drains
  <2>2. CASE asked' = asked
    <3>1. /\ \A k \in DOMAIN queue : k \in DOMAIN queue'
          /\ asked # 0 => Drained \/ \E g \in DOMAIN queue : SplitAt(g)
          /\ \A g \in DOMAIN queue : SplitAt(g) => SplitAt(g)'
          /\ Drained => Drained'
      BY <1>2, <2>1, <2>2
    <3>2. asked = 0 => queue' = queue
      BY <1>4, <2>1, <2>2 DEF Hangup
    <3>3. QED
      BY <1>0, <2>1, <2>2, <3>1, <3>2 DEF Drains
  <2>3. CASE asked' # asked
    <3>1. asked = 0 /\ asked' = seq /\ queue' # queue
      BY <1>4, <2>3 DEF Hangup
    <3>2. /\ DOMAIN queue' = 1 .. Len(queue) + 1
          /\ \A k \in DOMAIN queue : queue'[k] = queue[k]
          /\ queue'[Len(queue) + 1] = 0
      BY <1>0, <2>1, <3>1, OfferShape
    <3>3. /\ \A i \in DOMAIN queue : queue[i] \in 1 .. seq
          /\ \A k \in received : k <= seq
          /\ pump = "write" => item <= seq
          /\ code # "policy"
      BY <1>0, <1>00, <3>1 DEF Drains, Ascending
    <3>4. PICK g \in DOMAIN queue' : g = Len(queue) + 1
      BY <1>00, <3>2
    <3>5. queue'[g] = 0
      BY <3>2, <3>4
    <3>6. \A i \in DOMAIN queue' : i < g => queue'[i] \in 1 .. asked'
      BY <1>00, <3>1, <3>2, <3>3, <3>4
    <3>7. \A i \in DOMAIN queue' : ~(i > g)
      BY <1>00, <3>2, <3>4
    <3>8. SplitAt(g)'
      BY <2>1, <3>1, <3>3, <3>5, <3>6, <3>7 DEF SplitAt
    <3>9. asked' # 0 /\ asked' <= seq'
      BY <1>00, <2>1, <3>1
    <3>10. QED
      BY <2>1, <3>1, <3>3, <3>4, <3>8, <3>9 DEF Drains
  <2>4. QED
    BY <2>2, <2>3
<1>5. ASSUME Take \/ TakeGoodbye
      PROVE  /\ DOMAIN queue' = 1 .. Len(queue) - 1
             /\ \A k \in DOMAIN queue' : k + 1 \in DOMAIN queue /\ queue'[k] = queue[k + 1]
             /\ 1 \in DOMAIN queue /\ Head(queue) = queue[1]
             /\ UNCHANGED <<serving, received>>
             /\ ~Stopped
  BY <1>0, <1>00, <1>5, TailShape DEF Take, TakeGoodbye, transport, Stopped
<1>6. CASE Take
  <2>1. queue[1] # 0 /\ item' = queue[1] /\ code' = code /\ code # "policy"
    BY <1>0, <1>5, <1>6 DEF Take, transport, Drains, Drained
  <2>2. CASE asked = 0
    <3>1. \A i \in DOMAIN queue' : queue'[i] # 0
      BY <1>0, <1>5, <1>6, <2>2 DEF Drains
    <3>2. QED
      BY <1>0, <1>5, <1>6, <2>1, <2>2, <3>1 DEF Drains, serving
  <2>3. CASE asked # 0
    <3>1. PICK g \in DOMAIN queue : SplitAt(g)
      BY <1>0, <1>5, <1>6, <2>3 DEF Drains, Drained
    <3>2. g # 1 /\ g \in 2 .. Len(queue)
      BY <1>00, <2>1, <3>1 DEF SplitAt
    <3>3. g - 1 \in DOMAIN queue' /\ (g - 1) + 1 = g
      BY <1>00, <1>5, <1>6, <3>2
    <3>4. queue'[g - 1] = 0
      BY <1>5, <1>6, <3>1, <3>3 DEF SplitAt
    <3>5. \A i \in DOMAIN queue' : i < g - 1 => queue'[i] \in 1 .. asked
      BY <1>00, <1>5, <1>6, <3>1, <3>2 DEF SplitAt
    <3>6. \A i \in DOMAIN queue' : i > g - 1 /\ queue'[i] # 0 => asked < queue'[i]
      BY <1>00, <1>5, <1>6, <3>1, <3>2 DEF SplitAt
    <3>7. item' <= asked
      BY <1>00, <1>5, <1>6, <2>1, <3>1, <3>2 DEF SplitAt
    <3>8. SplitAt(g - 1)'
      BY <1>5, <1>6, <3>4, <3>5, <3>6, <3>7 DEF SplitAt, serving
    <3>9. QED
      BY <1>0, <1>5, <1>6, <2>1, <2>3, <3>3, <3>8 DEF Drains, serving
  <2>4. QED
    BY <2>2, <2>3
<1>7. CASE TakeGoodbye
  <2>1. queue[1] = 0 /\ pump' = "handshake"
    BY <1>5, <1>7 DEF TakeGoodbye
  <2>2. asked # 0
    BY <1>0, <1>5, <1>7, <2>1 DEF Drains
  <2>3. PICK g \in DOMAIN queue : SplitAt(g)
    BY <1>0, <1>5, <1>7, <2>2 DEF Drains, Drained
  <2>4. g = 1
    BY <1>00, <1>5, <1>7, <2>1, <2>3 DEF SplitAt
  <2>5. \A i \in DOMAIN queue' : queue'[i] # 0 => asked < queue'[i]
    BY <1>00, <1>5, <1>7, <2>3, <2>4 DEF SplitAt
  <2>6. Drained'
    BY <1>5, <1>7, <2>1, <2>5 DEF Drained, Stopped, serving
  <2>7. QED
    BY <1>0, <1>5, <1>7, <2>2, <2>6 DEF Drains, serving
<1>8. CASE Write
  <2>1. /\ UNCHANGED <<serving, queue, item, code>> /\ received' = received \cup {item}
        /\ pump = "write" /\ pump' = "select"
    BY <1>8 DEF Write, outbound
  <2>2. code # "policy" /\ ~Drained
    BY <1>0, <2>1 DEF Drains, Drained, Stopped
  <2>3. \A g \in DOMAIN queue : SplitAt(g) => SplitAt(g)' /\ item <= asked
    BY <2>1 DEF SplitAt, serving
  <2>4. QED
    BY <1>0, <2>1, <2>2, <2>3 DEF Drains, serving
<1>9. QED
  BY <1>0, <1>1, <1>3, <1>4, <1>6, <1>7, <1>8, NextShapes

-----------------------------------------------------------------------------
(* The invariant                                                           *)

LEMMA WsInit == Init => WsInv
<1> SUFFICES ASSUME Init
             PROVE  WsInv
  OBVIOUS
<1>1. TypeOK
  <2>1. queue \in Seq(0 .. MaxFrames) /\ Len(queue) = 0
    BY DEF Init, Accepted
  <2>2. 0 <= QueueSize /\ 0 \in 0 .. MaxFrames
    BY MaxFramesAssumption, QueueSizeAssumption
  <2>3. QED
    BY <2>1, <2>2 DEF Init, Accepted, TypeOK
<1>2. Ascending
  BY DEF Init, Accepted, Ascending
<1>3. Drains
  BY DEF Init, Accepted, Drains
<1>4. QED
  BY <1>1, <1>2, <1>3 DEF WsInv

LEMMA WsAlways == Spec => []WsInv
<1>1. WsInv /\ [Next]_vars => WsInv'
  BY TypeStep, AscendingStep, DrainsStep DEF WsInv
<1>2. QED
  BY WsInit, <1>1, PTL DEF Spec

\* The queue never holds more than QueueSize items and every variable keeps its
\* type, whatever the bound.
THEOREM ConnectionTypes == Spec => []TypeOK
<1>1. WsInv => TypeOK
  BY DEF WsInv
<1>2. QED
  BY WsAlways, <1>1, PTL

\* CloseAfterDrain's ordering holds for every length of the queue: when its close
\* frame goes out, nothing accepted before it is pending and nothing answered after
\* it has been sent.
THEOREM CloseFollowsDrain == Spec => []DrainPrecedesClose
<1>1. WsInv => DrainPrecedesClose
  <2> SUFFICES ASSUME WsInv, code = "policy"
               PROVE  /\ \A n \in Pending : n > asked
                      /\ \A n \in received : n <= asked
    BY DEF DrainPrecedesClose
  <2>1. Drained /\ asked # 0 /\ \A n \in received : n <= asked
    BY DEF WsInv, Drains
  <2>2. ASSUME NEW n \in Pending
        PROVE  n > asked
    <3>1. n \in 1 .. MaxFrames /\ pump # "write" /\ asked \in Nat
      BY <2>1 DEF Pending, Drained, Stopped, WsInv, TypeOK
    <3>2. PICK i \in DOMAIN queue : queue[i] = n
      BY <3>1 DEF Pending
    <3>3. queue[i] # Goodbye
      BY <3>1, <3>2 DEF Goodbye
    <3>4. asked < queue[i]
      BY <2>1, <3>3 DEF Drained, IsFrame
    <3>5. QED
      BY <3>1, <3>2, <3>4
  <2>3. QED
    BY <2>1, <2>2
<1>2. QED
  BY WsAlways, <1>1, PTL

-----------------------------------------------------------------------------
(* The stream                                                              *)

\* A step that keeps what is pending, or loses some of it while it closes.
LEMMA StutterOrCut ==
  ASSUME UNCHANGED <<seq, received>>, Pending' \subseteq Pending,
         socket' = "open" => socket = "open" /\ Pending' = Pending,
         socket # "open" => socket' # "open"
  PROVE  [Stream!Next]_(Stream!vars) \/ Stream!Cut
<1>1. CASE socket' = "open"
  BY <1>1 DEF Stream!vars
<1>2. CASE socket' # "open"
  BY <1>2 DEF Stream!Cut
<1>3. QED
  BY <1>1, <1>2

LEMMA StreamStep ==
  ASSUME WsInv, [Next]_vars
  PROVE  [Stream!Next]_(Stream!vars)
<1>0. TypeOK /\ Ascending
  BY DEF WsInv
<1>00. DOMAIN queue = 1 .. Len(queue) /\ Len(queue) \in Nat
  BY <1>0, QueueFacts
<1>1. CASE Quiet
  <2>1. /\ Pending' \subseteq Pending
        /\ socket' = "open" => socket = "open" /\ Pending' = Pending
    BY <1>1 DEF Quiet, Pending
  <2>2. QED
    BY <1>1, <2>1, StutterOrCut DEF Quiet, Stream!Next
<1>2. CASE Answers
  <2>1. seq \in 0 .. MaxFrames
    BY <1>0 DEF TypeOK
  <2>2. /\ seq' = seq + 1 /\ seq' \in 1 .. MaxFrames /\ Offer(seq')
        /\ UNCHANGED <<pump, item, received, socket>>
    BY <1>2, <2>1, MaxFramesAssumption DEF Answers, SendNext, pumping
  <2>3. Pending' \in {Pending, Pending \cup {seq'}}
    <3>1. CASE queue' = queue
      BY <2>2, <3>1 DEF Pending
    <3>2. CASE queue' # queue
      <4>1. /\ DOMAIN queue' = 1 .. Len(queue) + 1
            /\ \A k \in DOMAIN queue : queue'[k] = queue[k]
            /\ queue'[Len(queue) + 1] = seq'
        BY <1>0, <2>2, <3>2, OfferShape
      <4>2. \A k \in DOMAIN queue' : k \in DOMAIN queue \/ k = Len(queue) + 1
        BY <1>00, <4>1
      <4>3. DOMAIN queue \subseteq DOMAIN queue' /\ Len(queue) + 1 \in DOMAIN queue'
        BY <1>00, <4>1
      <4>4. Pending' = Pending \cup {seq'}
        BY <2>2, <4>1, <4>2, <4>3 DEF Pending
      <4>5. QED
        BY <4>4
    <3>3. QED
      BY <3>1, <3>2
  <2>4. QED
    BY <2>2, <2>3 DEF Stream!Next, Stream!Issue
<1>3. CASE Hangup
  <2>1. Offer(0) /\ UNCHANGED <<seq, pump, item, received, socket>> /\ 0 \in 0 .. MaxFrames
    BY <1>3, MaxFramesAssumption DEF Hangup, Goodbye, pumping, transport
  <2>2. Pending' = Pending
    <3>1. CASE queue' = queue
      BY <2>1, <3>1 DEF Pending
    <3>2. CASE queue' # queue
      <4>1. /\ DOMAIN queue' = 1 .. Len(queue) + 1
            /\ \A k \in DOMAIN queue : queue'[k] = queue[k]
            /\ queue'[Len(queue) + 1] = 0
        BY <1>0, <2>1, <3>2, OfferShape
      <4>2. \A k \in DOMAIN queue' : k \in DOMAIN queue \/ k = Len(queue) + 1
        BY <1>00, <4>1
      <4>3. DOMAIN queue \subseteq DOMAIN queue' /\ 0 \notin 1 .. MaxFrames
        BY <1>00, <4>1
      <4>4. QED
        BY <2>1, <4>1, <4>2, <4>3 DEF Pending
    <3>3. QED
      BY <3>1, <3>2
  <2>3. QED
    BY <2>1, <2>2 DEF Stream!vars
<1>4. ASSUME Take \/ TakeGoodbye
      PROVE  /\ \A k \in DOMAIN queue' : k + 1 \in DOMAIN queue /\ queue'[k] = queue[k + 1]
             /\ \A k \in DOMAIN queue : k = 1 \/ (k - 1 \in DOMAIN queue' /\ queue'[k - 1] = queue[k])
             /\ 1 \in DOMAIN queue /\ Head(queue) = queue[1]
             /\ UNCHANGED <<seq, received>>
  <2>1. /\ DOMAIN queue' = 1 .. Len(queue) - 1 /\ Len(queue) # 0
        /\ \A k \in DOMAIN queue' : queue'[k] = queue[k + 1]
        /\ Head(queue) = queue[1]
        /\ UNCHANGED <<seq, received>>
    BY <1>0, <1>4, TailShape DEF Take, TakeGoodbye, serving, transport
  <2>2. 1 \in DOMAIN queue /\ \A k \in DOMAIN queue' : k + 1 \in DOMAIN queue
    BY <1>00, <2>1
  <2>3. \A k \in DOMAIN queue : k = 1 \/ (k - 1 \in DOMAIN queue' /\ (k - 1) + 1 = k)
    BY <1>00, <2>1
  <2>4. QED
    BY <2>1, <2>2, <2>3
<1>5. CASE Take
  <2>1. pump # "write" /\ pump' = "write" /\ item' = queue[1] /\ socket' = socket
    BY <1>4, <1>5 DEF Take, transport
  <2>2. Pending' = Pending
    BY <1>4, <1>5, <2>1 DEF Pending
  <2>3. QED
    BY <1>4, <1>5, <2>1, <2>2 DEF Stream!vars
<1>6. CASE TakeGoodbye
  <2>1. pump # "write" /\ pump' # "write" /\ queue[1] = 0
    BY <1>4, <1>6 DEF TakeGoodbye, Goodbye
  <2>2. Pending' = Pending
    <3>1. 0 \notin 1 .. MaxFrames
      OBVIOUS
    <3>2. QED
      BY <1>4, <1>6, <2>1, <3>1 DEF Pending
  <2>3. (socket' = "open" => socket = "open") /\ (socket # "open" => socket' # "open")
    BY <1>6 DEF TakeGoodbye, Close
  <2>4. QED
    BY <1>4, <1>6, <2>2, <2>3, StutterOrCut DEF Stream!Next
<1>7. CASE Write
  <2>1. /\ UNCHANGED <<seq, queue, item, socket>> /\ socket = "open"
        /\ pump = "write" /\ pump' # "write" /\ received' = received \cup {item}
    BY <1>7 DEF Write, serving, outbound
  <2>2. item \in 1 .. MaxFrames /\ seq \in Nat
    BY <1>0, <2>1 DEF Ascending, TypeOK
  <2>3. /\ \A k \in received : k < item
        /\ \A i \in DOMAIN queue : queue[i] # 0 => item < queue[i]
    BY <1>0, <2>1 DEF Ascending, IsFrame, Goodbye
  <2>4. item \in Pending /\ \A n \in Pending : item <= n
    BY <2>1, <2>2, <2>3 DEF Pending
  <2>5. Pending' = Pending \ {item}
    <3>1. \A i \in DOMAIN queue : queue[i] # item
      BY <2>2, <2>3
    <3>2. QED
      BY <2>1, <2>2, <3>1 DEF Pending
  <2>6. Stream!Deliver(item)
    BY <2>1, <2>3, <2>4, <2>5 DEF Stream!Deliver
  <2>7. QED
    BY <2>4, <2>6 DEF Stream!Next
<1>8. QED
  BY <1>0, <1>1, <1>2, <1>3, <1>5, <1>6, <1>7, NextShapes

\* Reader, pump and watcher together implement FrameStream: the client sees numbers
\* that ascend, none twice, and nothing once the socket is closing, for every size
\* of the queue and every number of frames.
THEOREM ConnectionImplementsStream == Spec => RefinesStream
<1>1. Init => Stream!Init
  BY DEF Init, Accepted, Stream!Init, Pending
<1>2. WsInv /\ [Next]_vars => [Stream!Next]_(Stream!vars)
  BY StreamStep
<1>3. QED
  BY WsAlways, <1>1, <1>2, PTL DEF Spec, Stream!Spec, RefinesStream

-----------------------------------------------------------------------------
(* The end of a connection                                                 *)

\* A close in progress has left the socket; a goroutine that has gone leaves the socket
\* closed or the context ended, unless it is the pump and no pong came; the watcher is there before anything can be refused; and
\* what a bad frame asked for has been accepted or has overflowed.
Wakes ==
  /\ reader = "greet" <=> watcher = "none"
  /\ reader = "greet" => queue = <<>> /\ ~full /\ frame = "none"
  /\ pump = "handshake" \/ watcher = "handshake" => socket # "open"
  /\ pump = "over" \/ watcher = "over" => socket = "closed" \/ ctxDone
  /\ code # "none" => socket # "open"
  /\ reader = "over" => ctxDone
  /\ frame = "bad" /\ reader = "read" => asked # 0 \/ full

\* Where a context that ends and a socket that closes are one way, a goroutine may
\* leave by either.
LEMMA WakesStep ==
  ASSUME WsInv, Wakes, [Next]_vars
  PROVE  Wakes'
<1> USE DEF serving, outbound, pumping, around, transport
<1>0. socket \in {"open", "closing", "closed"}
  BY DEF WsInv, TypeOK
<1>1. CASE UNCHANGED vars
  BY <1>1 DEF vars, Wakes
<1>2. CASE Greet
  <2>1. Len(queue) < QueueSize
    BY <1>2, QueueSizeAssumption DEF Greet, Wakes
  <2>2. full' = full
    BY <1>2, <2>1 DEF Greet, SendNext, Offer
  <2>3. QED
    BY <1>2, <2>2 DEF Greet, Wakes
<1>3. CASE Read \/ ReadFails
  BY <1>0, <1>3 DEF Read, ReadFails, Wakes
<1>4. CASE Reply
  <2>1. full => full'
    BY <1>4 DEF Reply, SendNext, Offer
  <2>2. QED
    BY <1>4, <2>1 DEF Reply, Wakes
<1>5. CASE Hangup
  <2>1. Len(queue) < QueueSize => queue' # queue
    <3>1. queue \in Seq(0 .. MaxFrames)
      BY DEF WsInv, TypeOK
    <3>2. \A i : Len(Append(queue, i)) = Len(queue) + 1 /\ Len(queue) \in Nat
      BY <3>1
    <3>3. QED
      BY <1>5, <3>2 DEF Hangup, Offer
  <2>2. asked' # 0 \/ full'
    <3>1. seq # 0
      BY <1>5 DEF WsInv, Drains, Hangup
    <3>2. QED
      BY <1>5, <2>1, <3>1 DEF Hangup, Offer
  <2>3. QED
    BY <1>5, <2>2 DEF Hangup, Wakes
<1>6. CASE Take \/ TakeGoodbye
  BY <1>0, <1>6 DEF Take, TakeGoodbye, Close, Wakes
<1>7. CASE Tick \/ PumpStops \/ Write \/ Pong \/ PongLate
  BY <1>7 DEF Tick, PumpStops, Write, Pong, PongLate, Wakes
<1>8. CASE WriteFails \/ PumpClosed
  BY <1>0, <1>8 DEF WriteFails, PumpClosed, Closed, Wakes
<1>9. CASE WatchFull
  BY <1>0, <1>9 DEF WatchFull, Close, Wakes
<1>10. CASE WatchStops \/ WatcherClosed \/ Shutdown
  BY <1>0, <1>10 DEF WatchStops, WatcherClosed, Closed, Shutdown, Wakes
<1>11. QED
  BY <1>1, <1>2, <1>3, <1>4, <1>5, <1>6, <1>7, <1>8, <1>9, <1>10 DEF Next, Serve, WritePump, Watch

LEMMA WakesAlways == Spec => []Wakes
<1>1. Init => Wakes
  BY DEF Init, Accepted, Wakes
<1>2. WsInv /\ Wakes /\ [Next]_vars => Wakes'
  BY WakesStep
<1>3. QED
  BY <1>1, <1>2, WsAlways, PTL DEF Spec

\* Nobody waits for Conn's done channel: a connection whose pump has gone, with the
\* socket and the context as they were, answers into a queue nobody empties.
HalfAlive == pump \in {"over", "silent"} /\ socket # "closed" /\ ~ctxDone

\* An unanswered ping is the only way into that state, and in it the reader still
\* reads and the watcher, which serve starts after its greeting, still waits for an
\* overflow: whenever the queue has overflowed it is there, or the end has come.
PhantomsAreWatched ==
  /\ HalfAlive =>
       /\ pump = "silent"
       /\ reader # "over"
       /\ reader = "greet" \/ watcher \in {"select", "handshake"}
  /\ full => watcher \in {"select", "handshake"} \/ socket = "closed" \/ ctxDone

\* The safety half of DeadPumpIsNoticed and OverflowCloses, for every size of the queue:
\* failed writes, close instructions and the context's end leave no connection half
\* alive, in no interleaving of the three goroutines; a pong that does not come may,
\* and then nothing but an overflow is sure to end it.
THEOREM OnlySilenceHalvesConnections == Spec => []PhantomsAreWatched
<1>1. WsInv /\ Wakes => PhantomsAreWatched
  BY DEF WsInv, TypeOK, Wakes, HalfAlive, PhantomsAreWatched
<1>2. QED
  BY <1>1, WsAlways, WakesAlways, PTL

\* The pump and the watcher may both close; the client is told one reason, and the
\* first one stands.
FirstCodeStands == [][code # "none" => code' = code]_vars

\* Whichever of the two comes second finds the socket closing and sends nothing.
THEOREM CloseCodeStands == Spec => FirstCodeStands
<1>1. ASSUME Wakes, [Next]_vars, code # "none"
      PROVE  code' = code
  <2>1. socket # "open"
    BY <1>1 DEF Wakes
  <2>2. CASE TakeGoodbye \/ WatchFull
    BY <2>1, <2>2 DEF TakeGoodbye, WatchFull, Close
  <2>3. CASE ~TakeGoodbye /\ ~WatchFull
    BY <1>1, <2>3 DEF vars, transport, Next, Serve, Greet, Read, ReadFails, Reply, Hangup,
       WritePump, Take, Tick, PumpStops, Write, Pong, PongLate, WriteFails, PumpClosed,
       Watch, WatchStops, WatcherClosed, Shutdown
  <2>4. QED
    BY <2>2, <2>3
<1>2. Wakes /\ [Next]_vars => [code # "none" => code' = code]_vars
  BY <1>1
<1>3. QED
  BY <1>2, WakesAlways, PTL DEF Spec, FirstCodeStands

\* The hangup handle asked for after a bad frame is not forgotten while there is a pump
\* to carry it out: the instruction is in the queue, the pump is past it, or the queue
\* overflowed and the watcher closes. A pump that gave up on a pong takes nothing more.
HangupIsUnderWay ==
  frame = "bad" /\ reader = "read" =>
    \/ pump # "silent" /\ \E i \in DOMAIN queue : queue[i] = Goodbye
    \/ pump \in {"handshake", "over"}
    \/ full
    \/ pump = "silent" /\ code # "policy"

\* The safety half of BadFrameCloses: whatever filled the queue before or after it, an
\* answered bad frame leaves something behind that will end the connection, unless the
\* pump went silent before it took the instruction.
THEOREM HangupsAreKept == Spec => []HangupIsUnderWay
<1>1. WsInv /\ Wakes => HangupIsUnderWay
  BY DEF WsInv, Drains, Drained, Stopped, SplitAt, Wakes, HangupIsUnderWay
<1>2. QED
  BY <1>1, WsAlways, WakesAlways, PTL
=============================================================================
