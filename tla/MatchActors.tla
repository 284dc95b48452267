----------------------------- MODULE MatchActors ------------------------------
(***************************************************************************)
(* Match actors in a server process (internal/matches/actor.go, registry.go *)
(* and service.go, with the shutdown of apps/server/cmd/server/main.go).   *)
(*                                                                         *)
(* A Start request commits a match row and hands the match to Registry.    *)
(* Start, which spawns the one goroutine that owns it. The goroutine       *)
(* changes its copy in memory first and then writes the row; a failed      *)
(* write is logged and forgotten. The process may be told to stop, which   *)
(* cancels the actors' context and drains requests within a budget, may    *)
(* die at any point, and may be started again on the same database.        *)
(*                                                                         *)
(* The HTTP side of a Start request is module Rooms; here it is reduced to *)
(* its transaction, which holds a connection of the pool, and its call of  *)
(* StartActor. Timestamps and events are left out: onEvent is nil in the   *)
(* server. The database may fail any UPDATE, and one that was sent and     *)
(* then reported failed, because its context or its connection ended, may  *)
(* still be executed later. Actor.Stop, which nothing in the server calls  *)
(* yet, may be called at any time.                                         *)
(***************************************************************************)
EXTENDS MatchModel

CONSTANTS
  InboxCapacity   \* inboxCapacity

ASSUME InboxAssumption == InboxCapacity \in Nat \ {0}

VARIABLES
  row,       \* row[m]: the row of table matches, as Service.Get sees it
  afloat,    \* afloat[m]: the last UPDATE of m that was sent and given up
  mem,       \* mem[m]: the actor's own Match
  pc,        \* pc[m]: how far the request, then the actor, of m has come
  inbox,     \* inbox[m]: the commands waiting in the actor's channel
  registry,  \* Registry.actors
  wg,        \* Registry.wg
  ctxDone,   \* the process's shutdown context is cancelled
  main,      \* the main goroutine
  spent,     \* the shutdown budget is exhausted
  out,       \* the actors whose connections the closing pool waits for
  faulted    \* history: the matches an UPDATE of which the database did not execute
             \* in time, though nothing in the process stood in its way

vars == <<row, afloat, mem, pc, inbox, registry, wg, ctxDone, main, spent, out, faulted>>

\* The request: accepted, in its transaction and so holding a connection, committed,
\* registered (the map has it, wg does not).
Requesting == {"request", "tx", "committed", "registered"}
\* The actor: run begins; a state or turn write is pending; the select loop; run
\* has returned; the deferred remove is done and wg.Done is not.
Running == {"run", "state", "turn", "loop", "returned", "removed"}
\* "over": this process's actor for m is gone. "orphan": m will have none.
Phases == {"none", "over", "orphan"} \cup Requesting \cup Running

Position == [state : States, turn : Turns \cup {NoTurn}]
Unstarted == [state |-> "waiting", turn |-> NoTurn]

\* An UPDATE sets the state or the turn; what it leaves alone is "none" or NoTurn.
Updates == [state : States \cup {"none"}, turn : Turns \cup {NoTurn}]
NoUpdate == [state |-> "none", turn |-> NoTurn]

TypeOK ==
  /\ row \in [Matches -> Position]
  /\ afloat \in [Matches -> Updates]
  /\ mem \in [Matches -> Position]
  /\ pc \in [Matches -> Phases]
  /\ inbox \in [Matches -> 0 .. InboxCapacity]
  /\ registry \subseteq Matches
  /\ wg \in 0 .. Cardinality(Matches)
  /\ ctxDone \in BOOLEAN
  /\ main \in {"serving", "draining", "drained", "closing", "exited"}
  /\ spent \in BOOLEAN
  /\ out \subseteq Matches
  /\ faulted \subseteq Matches

Init ==
  /\ row = [m \in Matches |-> Unstarted]
  /\ afloat = [m \in Matches |-> NoUpdate]
  /\ mem = [m \in Matches |-> Unstarted]
  /\ pc = [m \in Matches |-> "none"]
  /\ inbox = [m \in Matches |-> 0]
  /\ registry = {}
  /\ wg = 0
  /\ ctxDone = FALSE
  /\ main = "serving"
  /\ spent = FALSE
  /\ out = {}
  /\ faulted = {}

Alive == main # "exited"

\* Nobody has closed the pool: a statement can get a connection.
PoolOpen == main \in {"serving", "draining", "drained"}

Goto(m, phase) == pc' = [pc EXCEPT ![m] = phase]

database == <<row, afloat, faulted>>
directory == <<registry, wg>>
process == <<ctxDone, main, spent, out>>

-----------------------------------------------------------------------------
(* The request that creates a match                                        *)

\* The listener takes requests until public.Shutdown closes it.
Accept(m) ==
  /\ main = "serving"
  /\ pc[m] = "none"
  /\ Goto(m, "request")
  /\ UNCHANGED <<database, mem, inbox, directory, process>>

\* InTx has a connection, and keeps it until the transaction has ended.
BeginTx(m) ==
  /\ PoolOpen
  /\ pc[m] = "request"
  /\ Goto(m, "tx")
  /\ UNCHANGED <<database, mem, inbox, directory, process>>

\* InTx returns without an error: the row exists, in state waiting. A pool that is
\* being closed leaves a connection in use alone.
Commit(m) ==
  /\ Alive
  /\ pc[m] = "tx"
  /\ Goto(m, "committed")
  /\ UNCHANGED <<database, mem, inbox, directory, process>>

\* No connection, a rollback, or a commit that is never acknowledged.
Refuse(m) ==
  /\ Alive
  /\ \/ pc[m] \in {"request", "tx"} /\ Goto(m, "none")
     \/ pc[m] = "tx" /\ Goto(m, "orphan")
  /\ UNCHANGED <<database, mem, inbox, directory, process>>

\* StartActor, Registry.Start: the map entry ...
Register(m) ==
  /\ Alive
  /\ pc[m] = "committed"
  /\ registry' = registry \cup {m}
  /\ Goto(m, "registered")
  /\ UNCHANGED <<database, mem, inbox, wg, process>>

\* Faulty variant: the goroutine is not counted.
SpawnUncounted(m) ==
  /\ Alive
  /\ pc[m] = "registered"
  /\ Goto(m, "run")
  /\ UNCHANGED <<database, mem, inbox, directory, process>>

\* ... then, outside the mutex, wg.Add and the goroutine.
Spawn(m) ==
  /\ Alive
  /\ pc[m] = "registered"
  /\ wg' = wg + 1
  /\ Goto(m, "run")
  /\ UNCHANGED <<database, mem, inbox, registry, process>>

-----------------------------------------------------------------------------
(* Actor.run                                                               *)

Move(m, phase) == Goto(m, phase) /\ UNCHANGED mem

\* transition: a legal request changes the copy in memory and has a write to do;
\* an illegal one is logged, ignored, and followed by what run does next.
Transition(m, to, next) ==
  IF to \in LegalFrom[mem[m].state]
  THEN mem' = [mem EXCEPT ![m].state = to] /\ Goto(m, "state")
  ELSE next

\* setTurn, up to its write.
SetTurn(m, t) ==
  /\ mem' = [mem EXCEPT ![m].turn = t]
  /\ Goto(m, "turn")

Begin(m) ==
  /\ Alive
  /\ pc[m] = "run"
  /\ Transition(m, "starting", SetTurn(m, FirstTurn))
  /\ UNCHANGED <<database, inbox, directory, process>>

\* Faulty variant: the Abandoned write uses the cancelled context too.
CanWriteCancelled(m) == (PoolOpen \/ m \in out) /\ ~ctxDone

\* Exec fails at once on a cancelled context, where the Abandoned write alone has a
\* context of its own, and on a closed pool, where a connection in use still works.
CanWrite(m) ==
  /\ PoolOpen \/ m \in out
  /\ ctxDone => mem[m].state = "abandoned"

\* The UPDATE the actor is in the middle of, and what an UPDATE does to the row.
Pending(m) ==
  IF pc[m] = "state" THEN [NoUpdate EXCEPT !.state = mem[m].state]
                     ELSE [NoUpdate EXCEPT !.turn = mem[m].turn]

\* Faulty variant: one UPDATE sets both columns, and empties the turn it is not given.
AppliedWhole(m, u) ==
  [row EXCEPT ![m] = [state |-> IF u.state = "none" THEN @.state ELSE u.state,
                      turn  |-> u.turn]]

Applied(m, u) ==
  [row EXCEPT ![m] = [state |-> IF u.state = "none" THEN @.state ELSE u.state,
                      turn  |-> IF u.turn = NoTurn THEN @.turn ELSE u.turn]]

\* An error the actor only logs. Had the statement been sent, it may be afloat.
GiveUp(m) ==
  /\ row' = row
  /\ IF CanWrite(m)
     THEN /\ faulted' = faulted \cup {m}
          /\ afloat' \in {afloat, [afloat EXCEPT ![m] = Pending(m)]}
     ELSE UNCHANGED <<afloat, faulted>>

\* Exec of the pending UPDATE: done or failed, and its connection is back.
Write(m) ==
  /\ \/ CanWrite(m) /\ row' = Applied(m, Pending(m)) /\ UNCHANGED <<afloat, faulted>>
     \/ GiveUp(m)
  /\ out' = out \ {m}
  /\ UNCHANGED <<ctxDone, main, spent>>

\* Faulty variant: run does not return after its last transition.
AfterStateLingering(m) ==
  IF mem[m].state = "starting"
  THEN SetTurn(m, FirstTurn)
  ELSE Move(m, "loop")

\* What run does next once a state write is over: deal the first turn, enter the
\* loop, or return.
AfterState(m) ==
  CASE mem[m].state = "starting"    -> SetTurn(m, FirstTurn)
    [] mem[m].state = "in_progress" -> Move(m, "loop")
    [] OTHER                        -> Move(m, "returned")

\* updateMatchState, its error only logged.
PersistState(m) ==
  /\ Alive
  /\ pc[m] = "state"
  /\ Write(m)
  /\ AfterState(m)
  /\ UNCHANGED <<inbox, directory>>

\* updateMatchTurn likewise; then play begins, or the timer is reset.
PersistTurn(m) ==
  /\ Alive
  /\ pc[m] = "turn"
  /\ Write(m)
  /\ IF mem[m].state = "starting"
     THEN Transition(m, "in_progress", Move(m, "loop"))
     ELSE Move(m, "loop")
  /\ UNCHANGED <<inbox, directory>>

\* Faulty variant: the context is looked at only when a command arrives.
AbandonOnCommand(m) ==
  /\ Alive
  /\ pc[m] = "loop"
  /\ ctxDone /\ inbox[m] > 0
  /\ Transition(m, "abandoned", Move(m, "returned"))
  /\ UNCHANGED <<database, inbox, directory, process>>

\* The three cases of the select, any of them when several are ready.
Abandon(m) ==
  /\ Alive
  /\ pc[m] = "loop"
  /\ ctxDone
  /\ Transition(m, "abandoned", Move(m, "returned"))
  /\ UNCHANGED <<database, inbox, directory, process>>

TakeStop(m) ==
  /\ Alive
  /\ pc[m] = "loop"
  /\ inbox[m] > 0
  /\ inbox' = [inbox EXCEPT ![m] = @ - 1]
  /\ Transition(m, "cancelled", Move(m, "returned"))
  /\ UNCHANGED <<database, directory, process>>

Timeout(m) ==
  /\ Alive
  /\ pc[m] = "loop"
  /\ SetTurn(m, NextTurn(mem[m].turn))
  /\ UNCHANGED <<database, inbox, directory, process>>

\* Faulty variant: the deferred remove is missing.
ReturnWithoutRemove(m) ==
  /\ Alive
  /\ pc[m] = "returned"
  /\ Goto(m, "removed")
  /\ UNCHANGED <<database, mem, inbox, directory, process>>

\* The goroutine's deferred calls, last first: remove, then wg.Done.
Remove(m) ==
  /\ Alive
  /\ pc[m] = "returned"
  /\ registry' = registry \ {m}
  /\ Goto(m, "removed")
  /\ UNCHANGED <<database, mem, inbox, wg, process>>

Done(m) ==
  /\ Alive
  /\ pc[m] = "removed"
  /\ wg' = wg - 1
  /\ Goto(m, "over")
  /\ UNCHANGED <<database, mem, inbox, registry, process>>

\* The database executes an UPDATE nobody waits for any more.
Land(m) ==
  /\ afloat[m] # NoUpdate
  /\ row' = Applied(m, afloat[m])
  /\ afloat' = [afloat EXCEPT ![m] = NoUpdate]
  /\ UNCHANGED <<mem, pc, inbox, directory, process, faulted>>

\* Actor.Stop, by whoever got the actor from the registry; dropped when full.
Stop(m) ==
  /\ Alive
  /\ m \in registry
  /\ inbox[m] < InboxCapacity
  /\ inbox' = [inbox EXCEPT ![m] = @ + 1]
  /\ UNCHANGED <<database, mem, pc, directory, process>>

-----------------------------------------------------------------------------
(* The process                                                             *)

\* The actors that are waiting for the answer to an UPDATE.
Writing == {m \in Matches : pc[m] \in {"state", "turn"}}

\* SIGTERM or SIGINT cancels the context everyone shares; main sees it later.
\* Statements already sent are given up.
Signal ==
  /\ main \in {"serving", "closing"}
  /\ ~ctxDone
  /\ ctxDone' = TRUE
  /\ \E sent \in SUBSET {m \in Writing : CanWrite(m)} :
       /\ afloat' = [m \in Matches |-> IF m \in sent THEN Pending(m) ELSE afloat[m]]
       /\ faulted' = faulted \cup sent
  /\ UNCHANGED <<row, mem, pc, inbox, directory, main, spent, out>>

\* shutdown: both Shutdown goroutines are started, then registry.Wait.
Drain ==
  /\ main = "serving"
  /\ ctxDone
  /\ main' = "draining"
  /\ UNCHANGED <<database, mem, pc, inbox, directory, ctxDone, spent, out>>

Elapse ==
  /\ main \in {"draining", "drained"}
  /\ ~spent
  /\ spent' = TRUE
  /\ UNCHANGED <<database, mem, pc, inbox, directory, ctxDone, main, out>>

\* registry.Wait returns when the counter is zero or the budget is exhausted.
WaitReturns ==
  /\ main = "draining"
  /\ wg = 0 \/ spent
  /\ main' = "drained"
  /\ UNCHANGED <<database, mem, pc, inbox, directory, ctxDone, spent, out>>

\* run returns and its deferred pool.Close begins: no connection is given out any
\* more, and those in use are waited for.
ClosePool ==
  /\ main' = "closing"
  /\ out' \in SUBSET Writing
  /\ UNCHANGED <<database, mem, pc, inbox, directory, ctxDone, spent>>

\* Faulty variant: the listeners are shut down without a deadline.
CloseUnbudgeted ==
  /\ main = "drained"
  /\ \A m \in Matches : pc[m] \notin Requesting
  /\ ClosePool

\* public.Shutdown has returned: no request in flight, or the budget exhausted.
Close ==
  /\ main = "drained"
  /\ (\A m \in Matches : pc[m] \notin Requesting) \/ spent
  /\ ClosePool

\* A listener's error ends run at once: the context lives, nobody is waited for.
ListenerFails ==
  /\ main = "serving"
  /\ ClosePool

\* pool.Close returns when every connection is back, those of requests that shutdown
\* no longer waits for included; then the process ends.
Exit ==
  /\ main = "closing"
  /\ out = {} /\ \A m \in Matches : pc[m] # "tx"
  /\ main' = "exited"
  /\ UNCHANGED <<database, mem, pc, inbox, directory, ctxDone, spent, out>>

\* The end of the process and of every goroutine in it, at any moment.
Kill ==
  /\ Alive
  /\ main' = "exited"
  /\ out' = {}
  /\ UNCHANGED <<database, mem, pc, inbox, directory, ctxDone, spent>>

\* A new process: an empty registry. Nothing looks for matches without an actor.
Restart ==
  /\ main = "exited"
  /\ pc' = [m \in Matches |->
              IF pc[m] \in {"none", "request", "tx"} THEN "none" ELSE "orphan"]
  /\ inbox' = [m \in Matches |-> 0]
  /\ registry' = {}
  /\ wg' = 0
  /\ ctxDone' = FALSE
  /\ main' = "serving"
  /\ spent' = FALSE
  /\ UNCHANGED <<database, mem, out>>

-----------------------------------------------------------------------------
Request(m) ==
  Accept(m) \/ BeginTx(m) \/ Commit(m) \/ Refuse(m) \/ Register(m) \/ Spawn(m)

\* What the actor's goroutine does of itself; Timeout needs the clock.
Run(m) ==
  \/ Begin(m) \/ PersistState(m) \/ PersistTurn(m)
  \/ Abandon(m) \/ TakeStop(m) \/ Timeout(m)
  \/ Remove(m) \/ Done(m)

Shutdown == Drain \/ WaitReturns \/ Close \/ Exit

Next ==
  \/ \E m \in Matches : Request(m) \/ Run(m) \/ Stop(m) \/ Land(m)
  \/ Signal \/ Elapse \/ Shutdown \/ ListenerFails \/ Kill \/ Restart

Spec == Init /\ [][Next]_vars

\* A goroutine that can run does, and its UPDATEs return, done or failed; a select
\* that finds ctx.Done ready again and again takes it in the end (Go chooses among
\* ready cases at random); main carries its shutdown through. Nothing is assumed of
\* requests, which may hang on their client or in the database, of signals and
\* kills, nor that the budget runs out in time.
FairSpec ==
  /\ Spec
  /\ \A m \in Matches :
       /\ WF_vars(Run(m))
       /\ SF_vars(Abandon(m))
  /\ WF_vars(Shutdown)

-----------------------------------------------------------------------------
(* Properties                                                              *)

\* Through writes that fail, timeouts, stops and shutdowns, the match in the
\* actor's memory only ever does what the lifecycle allows: run never asks
\* Transition for an illegal edge, never loops without a turn, never moves a
\* turn after the end.
Lifecycle == INSTANCE MatchLifecycle WITH
  state <- [m \in Matches |-> mem[m].state],
  turn <- [m \in Matches |-> mem[m].turn]

ActorsFollowLifecycle == Lifecycle!Spec

\* The registry and the wait group agree with the goroutines there really are:
\* an actor can be found from before it runs until it has returned, and Wait
\* cannot return early because of one that was counted, nor hang after the last.
RegistryCountsActors ==
  Alive =>
    /\ wg = Cardinality({m \in Matches : pc[m] \in Running})
    /\ registry = {m \in Matches : pc[m] \in {"registered"} \cup (Running \ {"removed"})}

\* The actor changes its memory first and then writes: the row is its memory, but for
\* the one write it is about to make.
OneBehind(m) ==
  mem[m] = IF pc[m] \in {"state", "turn"} THEN Applied(m, Pending(m))[m] ELSE row[m]

\* What Service.Get reads of a match this process owns is what its actor knows but
\* for one write, "never more than one write behind" (service.go), while the server
\* serves and as long as the database has failed no UPDATE of that match.
RowsOneBehind ==
  main = "serving" /\ ~ctxDone =>
    \A m \in Matches \ faulted : pc[m] # "orphan" => OneBehind(m)

\* A match the database says is over stays exactly as it ended: no timeout, second
\* ending, failure or new process touches its row (Terminal's promise), unless the
\* database executes an UPDATE its actor had long given up.
EndedRowsAreFinal ==
  [][\A m \in Matches :
       row[m].state \in Terminal /\ row'[m] # row[m] => afloat[m] # NoUpdate]_vars

\* Registry.Get's promise to its callers: a match whose actor has come and gone is
\* found ended in the database, while the database can be asked and has failed no
\* UPDATE of it. A Stop overtaken by the shutdown is the one exception: its Cancelled
\* is written with the context that is no more.
FinishedMatchesAreOver ==
  main \notin {"closing", "exited"} =>
    \A m \in Matches \ faulted :
      pc[m] = "over" /\ ~(ctxDone /\ mem[m].state = "cancelled") => row[m].state \in Terminal

\* While play lasts, the clock alone brings the turn to every player of the match.
EveryPlayerGetsTheTurn ==
  \A m \in Matches : \A t \in Turns :
    pc[m] = "loop" ~> (mem[m].turn = t \/ mem[m].state = "cancelled" \/ ctxDone \/ ~Alive)

\* When the process is told to stop every actor returns of itself, however long
\* the budget: registry.Wait is "never what triggers them to stop" (main.go).
ActorsStop ==
  \A m \in Matches : (ctxDone /\ pc[m] \in Running) ~> (pc[m] \notin Running \/ ~Alive)

\* The database answers the transaction of m's request, one way or the other.
Answer(m) == pc[m] = "tx" /\ (Commit(m) \/ Refuse(m))

\* A process told to stop does stop once the budget runs out and the database has
\* answered the transactions in progress, whose connections pool.Close waits for:
\* shutdown waits for no client and no actor for ever.
ShutdownEnds ==
  WF_vars(Elapse) /\ (\A m \in Matches : WF_vars(Answer(m))) => (ctxDone ~> ~Alive)
=============================================================================
