----------------------------- MODULE FrameStream ------------------------------
(***************************************************************************)
(* What a connection promises its client about the server's frames, without *)
(* goroutines, queues or close handshakes: they carry ascending numbers,   *)
(* arrive in the order of their numbers, none twice, until the stream is   *)
(* cut, and none after. A frame may be refused when it is issued.          *)
(***************************************************************************)
EXTENDS Naturals

VARIABLES
  issued,    \* the last number given to a frame
  pending,   \* the numbers of the frames accepted and not yet sent
  received,  \* the numbers of the frames put on the wire
  open       \* nothing has cut the stream

vars == <<issued, pending, received, open>>

Init ==
  /\ issued = 0
  /\ pending = {}
  /\ received = {}
  /\ open = TRUE

Issue ==
  /\ issued' = issued + 1
  /\ pending' \in {pending, pending \cup {issued'}}
  /\ UNCHANGED <<received, open>>

Deliver(n) ==
  /\ open
  /\ n \in pending
  /\ \A k \in pending : n <= k
  /\ \A k \in received : k < n
  /\ pending' = pending \ {n}
  /\ received' = received \cup {n}
  /\ UNCHANGED <<issued, open>>

\* Whatever was still pending may be lost, at once or later.
Cut ==
  /\ open' = FALSE
  /\ pending' \subseteq pending
  /\ UNCHANGED <<issued, received>>

Next == Issue \/ (\E n \in pending : Deliver(n)) \/ Cut

Spec == Init /\ [][Next]_vars
=============================================================================
