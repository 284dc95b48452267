-------------------------- MODULE MatchActorsProofs --------------------------
(***************************************************************************)
(* The actors of MatchActors follow MatchLifecycle, are counted by their   *)
(* registry and end their rows for good, for any number of matches and     *)
(* through any failures.                                                   *)
(***************************************************************************)
EXTENDS MatchActors, FiniteSetTheorems, TLAPS

\* What run does between its first line and its return.
Plays(m) ==
  Begin(m) \/ PersistState(m) \/ PersistTurn(m) \/ Abandon(m) \/ TakeStop(m) \/ Timeout(m)

Playing == {"run", "state", "turn", "loop"}

\* The actor's copy at each point of run.
MemFits(m) ==
  /\ pc[m] \in Requesting \cup {"none", "run"} => mem[m] = Unstarted
  /\ pc[m] = "state" =>
       \/ mem[m].state = "starting" /\ mem[m].turn = NoTurn
       \/ mem[m].state \in {"in_progress", "cancelled", "abandoned"} /\ mem[m].turn \in Turns
  /\ pc[m] = "turn" => mem[m].state \in {"starting", "in_progress"} /\ mem[m].turn \in Turns
  /\ pc[m] = "loop" => mem[m].state = "in_progress" /\ mem[m].turn \in Turns

MemInv == \A m \in Matches : MemFits(m)

\* How an action may change the memory of actor m: not at all, along an edge, by
\* dealing or by passing the turn.
Changes(m) ==
  \E to \in LegalFrom[mem[m].state] :
    /\ to = "in_progress" => mem[m].turn # NoTurn
    /\ mem' = [mem EXCEPT ![m].state = to]
Deals(m) ==
  /\ mem[m].state = "starting"
  /\ mem[m].turn = NoTurn
  /\ mem' = [mem EXCEPT ![m].turn = FirstTurn]
Passes(m) ==
  /\ mem[m].state = "in_progress"
  /\ mem[m].turn \in Turns
  /\ mem' = [mem EXCEPT ![m].turn = NextTurn(mem[m].turn)]

-----------------------------------------------------------------------------
(* Turns and edges                                                         *)

LEMMA FirstTurnFits == FirstTurn \in Turns
BY PlayersAssumption DEF FirstTurn, Turns

\* nextTurn never leaves the sides of the match.
LEMMA NextTurnFits ==
  ASSUME NEW t \in Turns
  PROVE  NextTurn(t) \in Turns
<1>1. /\ t.side \in {0, 1} /\ t.idx \in 0 .. PlayersPerSide - 1
  BY DEF Turns
<1>2. CASE PlayersPerSide = 1
  <2>1. t.idx = 0
    BY <1>1, <1>2
  <2>2. QED
    BY <1>1, <1>2, <2>1 DEF NextTurn, Turns
<1>3. CASE PlayersPerSide = 2
  <2>1. t.idx \in {0, 1}
    BY <1>1, <1>3
  <2>2. QED
    BY <1>1, <1>3, <2>1 DEF NextTurn, Turns
<1>4. QED
  BY <1>2, <1>3, PlayersAssumption

LEMMA Edges ==
  /\ LegalFrom["waiting"] = {"starting"}
  /\ LegalFrom["starting"] = {"in_progress", "cancelled", "abandoned"}
  /\ LegalFrom["in_progress"] = {"completed", "paused", "cancelled", "abandoned"}
  /\ \A s \in States : LegalFrom[s] \subseteq States
BY DEF LegalFrom, States

\* The shape of the actions of run, whatever else they do.
LEMMA PlayShape ==
  ASSUME NEW m \in Matches, TypeOK, MemInv, Plays(m)
  PROVE  /\ Alive
         /\ pc[m] \in Playing
         /\ \E p \in {"state", "turn", "loop", "returned"} : Goto(m, p)
         /\ UNCHANGED <<directory, ctxDone, main, spent>>
         /\ out' \subseteq out
<1> USE DEF process
<1>1. CASE Begin(m)
  BY <1>1 DEF Begin, Transition, SetTurn, Goto, Playing
<1>2. CASE PersistState(m)
  BY <1>2 DEF PersistState, Write, AfterState, SetTurn, Move, Goto, Playing
<1>3. CASE PersistTurn(m)
  BY <1>3 DEF PersistTurn, Write, Transition, Move, Goto, Playing
<1>4. CASE Abandon(m)
  BY <1>4 DEF Abandon, Transition, Move, Goto, Playing
<1>5. CASE TakeStop(m)
  BY <1>5 DEF TakeStop, Transition, Move, Goto, Playing
<1>6. CASE Timeout(m)
  BY <1>6 DEF Timeout, SetTurn, Goto, Playing
<1>7. QED
  BY <1>1, <1>2, <1>3, <1>4, <1>5, <1>6 DEF Plays

-----------------------------------------------------------------------------
(* The actor's memory                                                      *)

LEMMA MemTypes ==
  ASSUME NEW m \in Matches, TypeOK
  PROVE  /\ mem \in [Matches -> Position]
         /\ mem[m].state \in States
         /\ mem[m].turn \in Turns \cup {NoTurn}
         /\ pc \in [Matches -> Phases]
         /\ \A s : [mem EXCEPT ![m].state = s][m] = [mem[m] EXCEPT !.state = s]
         /\ \A t : [mem EXCEPT ![m].turn = t][m] = [mem[m] EXCEPT !.turn = t]
BY DEF TypeOK, Position

\* Memory and point of run change together.
LEMMA PlayMemory ==
  ASSUME NEW m \in Matches, TypeOK, MemInv, Plays(m)
  PROVE  /\ UNCHANGED mem \/ Changes(m) \/ Deals(m) \/ Passes(m)
         /\ MemFits(m)'
<1> USE Edges, FirstTurnFits, NoTurnAssumption
<1>1. MemFits(m)
  BY DEF MemInv
<1>2. CASE Begin(m)
  <2>1. mem[m] = Unstarted
    BY <1>1, <1>2 DEF Begin, MemFits
  <2>2. /\ mem' = [mem EXCEPT ![m].state = "starting"] /\ pc' = [pc EXCEPT ![m] = "state"]
    BY <1>2, <2>1 DEF Begin, Transition, Unstarted, Goto
  <2>3. Changes(m)
    <3>1. mem[m].state = "waiting"
      BY <2>1 DEF Unstarted
    <3>2. "starting" \in LegalFrom[mem[m].state] /\ "starting" # "in_progress"
      BY <3>1
    <3>3. QED
      BY <2>2, <3>2 DEF Changes
  <2>4. mem'[m].state = "starting" /\ mem'[m].turn = NoTurn /\ pc'[m] = "state"
    BY <2>1, <2>2, MemTypes DEF Unstarted
  <2>5. MemFits(m)'
    BY <2>4 DEF MemFits, Requesting
  <2>6. QED
    BY <2>3, <2>5
<1>3. CASE PersistState(m)
  <2>1. CASE mem[m].state = "starting"
    <3>1. mem[m].turn = NoTurn
      BY <1>1, <1>3, <2>1 DEF MemFits, PersistState
    <3>2. mem' = [mem EXCEPT ![m].turn = FirstTurn] /\ pc' = [pc EXCEPT ![m] = "turn"]
      BY <1>3, <2>1 DEF PersistState, AfterState, SetTurn, Goto
    <3>3. mem'[m].state = "starting" /\ mem'[m].turn = FirstTurn /\ pc'[m] = "turn"
      BY <2>1, <3>2, MemTypes
    <3>4. QED
      BY <2>1, <3>1, <3>2, <3>3 DEF Deals, MemFits, Requesting
  <2>2. CASE mem[m].state # "starting"
    <3>1. mem[m].state \in {"in_progress", "cancelled", "abandoned"} /\ mem[m].turn \in Turns
      BY <1>1, <1>3, <2>2 DEF MemFits, PersistState
    <3>2. mem' = mem /\ pc' = [pc EXCEPT ![m] =
            IF mem[m].state = "in_progress" THEN "loop" ELSE "returned"]
      BY <1>3, <2>2, <3>1 DEF PersistState, AfterState, Move, Goto
    <3>3. pc'[m] = IF mem[m].state = "in_progress" THEN "loop" ELSE "returned"
      BY <3>2, MemTypes
    <3>4. QED
      BY <3>1, <3>2, <3>3 DEF MemFits, Requesting
  <2>3. QED
    BY <2>1, <2>2
<1>4. CASE PersistTurn(m)
  <2>1. mem[m].state \in {"starting", "in_progress"} /\ mem[m].turn \in Turns
    BY <1>1, <1>4 DEF MemFits, PersistTurn
  <2>2. CASE mem[m].state = "starting"
    <3>1. mem' = [mem EXCEPT ![m].state = "in_progress"] /\ pc' = [pc EXCEPT ![m] = "state"]
      BY <1>4, <2>2 DEF PersistTurn, Transition, Goto
    <3>2. mem'[m].state = "in_progress" /\ mem'[m].turn \in Turns /\ pc'[m] = "state"
      BY <2>1, <3>1, MemTypes
    <3>3. QED
      BY <2>1, <2>2, <3>1, <3>2 DEF Changes, MemFits, Requesting
  <2>3. CASE mem[m].state = "in_progress"
    <3>1. mem' = mem /\ pc' = [pc EXCEPT ![m] = "loop"]
      BY <1>4, <2>3 DEF PersistTurn, Move, Goto
    <3>2. QED
      BY <2>1, <2>3, <3>1, MemTypes DEF MemFits, Requesting
  <2>4. QED
    BY <2>1, <2>2, <2>3
<1>5. ASSUME NEW to \in {"abandoned", "cancelled"}, pc[m] = "loop",
             Transition(m, to, Move(m, "returned"))
      PROVE  Changes(m) /\ MemFits(m)'
  <2>1. mem[m].state = "in_progress" /\ mem[m].turn \in Turns
    BY <1>1, <1>5 DEF MemFits
  <2>2. mem' = [mem EXCEPT ![m].state = to] /\ pc' = [pc EXCEPT ![m] = "state"]
    BY <1>5, <2>1 DEF Transition, Goto
  <2>3. mem'[m].state = to /\ mem'[m].turn \in Turns /\ pc'[m] = "state"
    BY <2>1, <2>2, MemTypes
  <2>4. QED
    BY <2>1, <2>2, <2>3 DEF Changes, MemFits, Requesting
<1>6. CASE Abandon(m)
  BY <1>5, <1>6 DEF Abandon
<1>7. CASE TakeStop(m)
  BY <1>5, <1>7 DEF TakeStop
<1>8. CASE Timeout(m)
  <2>1. mem[m].state = "in_progress" /\ mem[m].turn \in Turns
    BY <1>1, <1>8 DEF MemFits, Timeout
  <2>2. mem' = [mem EXCEPT ![m].turn = NextTurn(mem[m].turn)] /\ pc' = [pc EXCEPT ![m] = "turn"]
    BY <1>8 DEF Timeout, SetTurn, Goto
  <2>3. mem'[m].state = "in_progress" /\ mem'[m].turn \in Turns /\ pc'[m] = "turn"
    BY <2>1, <2>2, MemTypes, NextTurnFits
  <2>4. QED
    BY <2>1, <2>2, <2>3 DEF Passes, MemFits, Requesting
<1>9. QED
  BY <1>2, <1>3, <1>4, <1>6, <1>7, <1>8 DEF Plays

\* The steps that leave every actor's memory alone.
Others(m) ==
  \/ Accept(m) \/ BeginTx(m) \/ Commit(m) \/ Refuse(m) \/ Register(m) \/ Spawn(m)
  \/ Remove(m) \/ Done(m)
Environment ==
  \/ \E m \in Matches : Stop(m) \/ Land(m)
  \/ Signal \/ Elapse \/ Shutdown \/ ListenerFails \/ Kill

LEMMA NextCases ==
  ASSUME Next
  PROVE  (\E m \in Matches : Plays(m) \/ Others(m)) \/ Environment \/ Restart
BY DEF Next, Request, Run, Plays, Others, Environment

LEMMA EnvironmentShape ==
  ASSUME Environment
  PROVE  UNCHANGED <<mem, pc, directory>>
<1>1. ASSUME NEW m \in Matches, Stop(m) \/ Land(m)
      PROVE  UNCHANGED <<mem, pc, directory>>
  BY <1>1 DEF Stop, Land
<1>2. CASE Signal
  BY <1>2 DEF Signal
<1>3. CASE Elapse \/ Shutdown
  BY <1>3 DEF Shutdown, Drain, Elapse, WaitReturns, Close, ClosePool, Exit
<1>4. CASE ListenerFails \/ Kill
  BY <1>4 DEF ListenerFails, ClosePool, Kill
<1>5. QED
  BY <1>1, <1>2, <1>3, <1>4 DEF Environment

\* A request or a goroutine's end moves its own match and no memory.
LEMMA OtherShape ==
  ASSUME NEW m \in Matches, TypeOK, Others(m)
  PROVE  /\ UNCHANGED <<mem, database, process>>
         /\ Alive
         /\ Goto(m, pc'[m])
         /\ pc[m] \in Phases \ Playing
         /\ \/ pc'[m] \in Phases \ Playing
            \/ pc[m] = "registered" /\ pc'[m] = "run"
         /\ pc'[m] \in Requesting \cup {"none"} => pc[m] \in Requesting \cup {"none"}
<1> DEFINE Moves(p, q) == /\ UNCHANGED <<mem, database, process>>
                          /\ Alive
                          /\ pc[m] = p
                          /\ Goto(m, q)
<1>1. ASSUME NEW p, NEW q, Moves(p, q)
      PROVE  pc'[m] = q /\ Goto(m, pc'[m]) /\ pc[m] = p
  BY <1>1 DEF TypeOK, Goto
<1>2. \/ Moves("none", "request") \/ Moves("request", "tx") \/ Moves("tx", "committed")
      \/ Moves("request", "none") \/ Moves("tx", "none") \/ Moves("tx", "orphan")
      \/ Moves("committed", "registered") \/ Moves("registered", "run")
      \/ Moves("returned", "removed") \/ Moves("removed", "over")
  <2>1. CASE Accept(m)
    BY <2>1 DEF Accept, Alive
  <2>2. CASE BeginTx(m) \/ Commit(m)
    BY <2>2 DEF BeginTx, PoolOpen, Commit, Alive
  <2>3. CASE Refuse(m)
    BY <2>3 DEF Refuse
  <2>4. CASE Register(m)
    BY <2>4 DEF Register, process
  <2>5. CASE Spawn(m)
    BY <2>5 DEF Spawn
  <2>6. CASE Remove(m)
    BY <2>6 DEF Remove
  <2>7. CASE Done(m)
    BY <2>7 DEF Done
  <2>8. QED
    BY <2>1, <2>2, <2>3, <2>4, <2>5, <2>6, <2>7 DEF Others
<1>3. QED
  BY <1>1, <1>2 DEF Phases, Playing, Requesting, Running

\* Every step keeps memory fit, and changes it only as MatchLifecycle knows.
LEMMA MemStep ==
  ASSUME TypeOK, MemInv, [Next]_vars
  PROVE  /\ MemInv'
         /\ \/ UNCHANGED mem
            \/ \E m \in Matches : Changes(m) \/ Deals(m) \/ Passes(m)
<1>0. /\ mem \in [Matches -> Position] /\ pc \in [Matches -> Phases]
  BY DEF TypeOK
<1>1. CASE UNCHANGED <<mem, pc>>
  BY <1>1 DEF MemInv, MemFits
<1>2. ASSUME NEW m \in Matches, Plays(m)
      PROVE  MemInv' /\ (UNCHANGED mem \/ Changes(m) \/ Deals(m) \/ Passes(m))
  <2>1. /\ UNCHANGED mem \/ Changes(m) \/ Deals(m) \/ Passes(m)
        /\ MemFits(m)'
    BY <1>2, PlayMemory
  <2>2. \A n \in Matches : n # m => mem'[n] = mem[n]
    BY <1>0, <2>1 DEF Changes, Deals, Passes
  <2>3. \A n \in Matches : n # m => pc'[n] = pc[n]
    BY <1>0, <1>2, PlayShape DEF Goto
  <2>4. ASSUME NEW n \in Matches, n # m
        PROVE  MemFits(n)'
    BY <2>2, <2>3, <2>4 DEF MemInv, MemFits
  <2>5. QED
    BY <2>1, <2>4 DEF MemInv
<1>3. ASSUME NEW m \in Matches, Others(m)
      PROVE  MemInv' /\ UNCHANGED mem
  <2>1. /\ UNCHANGED mem
        /\ \A n \in Matches : n # m => pc'[n] = pc[n]
        /\ pc'[m] \notin Playing \/ (pc'[m] = "run" /\ pc[m] = "registered")
        /\ pc'[m] \in Requesting \cup {"none"} => pc[m] \in Requesting \cup {"none"}
    BY <1>0, <1>3, OtherShape DEF Goto, Requesting
  <2>2. ASSUME NEW n \in Matches
        PROVE  MemFits(n)'
    BY <2>1 DEF MemInv, MemFits, Playing, Requesting
  <2>3. QED
    BY <2>1, <2>2 DEF MemInv
<1>4. CASE Restart
  <2>1. /\ UNCHANGED mem
        /\ \A n \in Matches : pc'[n] = IF pc[n] \in {"none", "request", "tx"} THEN "none" ELSE "orphan"
    BY <1>4 DEF Restart
  <2>2. ASSUME NEW n \in Matches
        PROVE  MemFits(n)'
    BY <2>1 DEF MemInv, MemFits, Requesting
  <2>3. QED
    BY <2>1, <2>2 DEF MemInv
<1>5. QED
  BY <1>1, <1>2, <1>3, <1>4, NextCases, EnvironmentShape DEF vars

-----------------------------------------------------------------------------
(* The registry and the wait group                                         *)

Counted == {m \in Matches : pc[m] \in Running}
Listed == {m \in Matches : pc[m] \in {"registered"} \cup (Running \ {"removed"})}

LEMMA CountedIsFinite ==
  /\ IsFiniteSet(Counted)
  /\ Cardinality(Counted) \in Nat
  /\ Cardinality(Counted) <= Cardinality(Matches)
  /\ Cardinality(Matches) \in Nat
<1>1. Counted \in SUBSET Matches
  BY DEF Counted
<1>2. QED
  BY <1>1, MatchesAssumption, FS_Subset, FS_CardinalityType

\* A step that keeps a match on its side of every line keeps the counts.
LEMMA SameCounts ==
  ASSUME TypeOK, RegistryCountsActors, Alive, UNCHANGED directory,
         NEW m \in Matches, Goto(m, pc'[m]),
         pc[m] \in Running <=> pc'[m] \in Running,
         pc[m] \in {"registered"} \cup (Running \ {"removed"})
           <=> pc'[m] \in {"registered"} \cup (Running \ {"removed"})
  PROVE  RegistryCountsActors'
<1>1. \A n \in Matches : n # m => pc'[n] = pc[n]
  BY DEF TypeOK, Goto
<1>2. Counted' = Counted /\ Listed' = Listed
  BY <1>1 DEF Counted, Listed
<1>3. QED
  BY <1>2 DEF RegistryCountsActors, Counted, Listed, directory

\* Each step changes the registry and the wait group together with the goroutine
\* they stand for.
LEMMA CountStep ==
  ASSUME TypeOK, MemInv, RegistryCountsActors, [Next]_vars
  PROVE  RegistryCountsActors'
<1> USE DEF directory
<1>0. pc \in [Matches -> Phases]
  BY DEF TypeOK
<1>1. CASE UNCHANGED <<pc, directory, main>>
  BY <1>1 DEF RegistryCountsActors, Alive
<1>2. ASSUME NEW m \in Matches, Plays(m)
      PROVE  RegistryCountsActors'
  <2>1. /\ Alive /\ pc[m] \in Playing /\ UNCHANGED directory
        /\ \E p \in {"state", "turn", "loop", "returned"} : Goto(m, p)
    BY <1>2, PlayShape
  <2>2. pc'[m] \in {"state", "turn", "loop", "returned"} /\ Goto(m, pc'[m])
    BY <1>0, <2>1 DEF Goto
  <2>3. QED
    BY <2>1, <2>2, SameCounts DEF Playing, Running
<1>3. ASSUME NEW m \in Matches, Others(m)
      PROVE  RegistryCountsActors'
  <2>1. Alive /\ Goto(m, pc'[m])
    BY <1>3, OtherShape
  <2>2. \A n \in Matches : n # m => pc'[n] = pc[n]
    BY <1>0, <2>1 DEF Goto
  <2>3. wg = Cardinality(Counted) /\ registry = Listed
    BY <2>1 DEF RegistryCountsActors, Counted, Listed
  <2>4. CASE Accept(m) \/ BeginTx(m) \/ Commit(m) \/ Refuse(m)
    <3>1. /\ pc[m] \in {"none", "request", "tx"}
          /\ pc'[m] \in {"request", "tx", "committed", "none", "orphan"}
          /\ UNCHANGED directory
      BY <1>0, <2>4 DEF Accept, BeginTx, Commit, Refuse, Goto
    <3>2. QED
      BY <2>1, <3>1, SameCounts DEF Running
  <2>5. CASE Register(m)
    <3>1. pc[m] = "committed" /\ pc'[m] = "registered" /\ registry' = registry \cup {m} /\ wg' = wg
      BY <1>0, <2>5 DEF Register, Goto
    <3>2. Counted' = Counted /\ Listed' = Listed \cup {m}
      BY <2>2, <3>1 DEF Counted, Listed, Running
    <3>3. QED
      BY <2>3, <3>1, <3>2 DEF RegistryCountsActors, Counted, Listed
  <2>6. CASE Spawn(m)
    <3>1. pc[m] = "registered" /\ pc'[m] = "run" /\ registry' = registry /\ wg' = wg + 1
      BY <1>0, <2>6 DEF Spawn, Goto
    <3>2. Counted' = Counted \cup {m} /\ m \notin Counted /\ Listed' = Listed
      BY <2>2, <3>1 DEF Counted, Listed, Running
    <3>3. Cardinality(Counted') = wg'
      BY <2>3, <3>1, <3>2, CountedIsFinite, FS_AddElement
    <3>4. QED
      BY <2>3, <3>1, <3>2, <3>3 DEF RegistryCountsActors, Counted, Listed
  <2>7. CASE Remove(m)
    <3>1. pc[m] = "returned" /\ pc'[m] = "removed" /\ registry' = registry \ {m} /\ wg' = wg
      BY <1>0, <2>7 DEF Remove, Goto
    <3>2. Counted' = Counted /\ Listed' = Listed \ {m}
      BY <2>2, <3>1 DEF Counted, Listed, Running
    <3>3. QED
      BY <2>3, <3>1, <3>2 DEF RegistryCountsActors, Counted, Listed
  <2>8. CASE Done(m)
    <3>1. pc[m] = "removed" /\ pc'[m] = "over" /\ registry' = registry /\ wg' = wg - 1
      BY <1>0, <2>8 DEF Done, Goto
    <3>2. Counted' = Counted \ {m} /\ m \in Counted /\ Listed' = Listed
      BY <2>2, <3>1 DEF Counted, Listed, Running
    <3>3. Cardinality(Counted') = wg'
      BY <2>3, <3>1, <3>2, CountedIsFinite, FS_RemoveElement
    <3>4. QED
      BY <2>3, <3>1, <3>2, <3>3 DEF RegistryCountsActors, Counted, Listed
  <2>9. QED
    BY <1>3, <2>4, <2>5, <2>6, <2>7, <2>8 DEF Others
<1>4. CASE Restart
  <2>1. /\ \A n \in Matches : pc'[n] \in {"none", "orphan"}
        /\ registry' = {} /\ wg' = 0
    BY <1>4 DEF Restart
  <2>2. Counted' = {} /\ Listed' = {}
    BY <2>1 DEF Counted, Listed, Running
  <2>3. QED
    BY <2>1, <2>2, FS_EmptySet DEF RegistryCountsActors, Counted, Listed
<1>5. CASE Environment
  <2>1. UNCHANGED <<pc, directory>>
    BY <1>5, EnvironmentShape
  <2>2. main' # "exited" => Alive
    BY <1>5 DEF Environment, Stop, Land, Signal, Shutdown, Drain, Elapse, WaitReturns,
         Close, ListenerFails, ClosePool, Exit, Kill, Alive, process
  <2>3. QED
    BY <2>1, <2>2 DEF RegistryCountsActors, Alive
<1>6. QED
  BY <1>1, <1>2, <1>3, <1>4, <1>5, NextCases DEF vars

-----------------------------------------------------------------------------
(* Types                                                                   *)

LEMMA SubsetCount ==
  ASSUME NEW S \in SUBSET Matches
  PROVE  Cardinality(S) \in 0 .. Cardinality(Matches)
BY MatchesAssumption, FS_Subset, FS_CardinalityType

LEMMA PositionParts ==
  ASSUME NEW p \in Position
  PROVE  /\ \A s \in States : [p EXCEPT !.state = s] \in Position
         /\ \A t \in Turns \cup {NoTurn} : [p EXCEPT !.turn = t] \in Position
BY DEF Position

LEMMA ConstantsFit ==
  /\ Unstarted \in Position
  /\ NoUpdate \in Updates
BY DEF Unstarted, Position, States, NoUpdate, Updates

LEMMA PendingFits ==
  ASSUME NEW m \in Matches, TypeOK
  PROVE  Pending(m) \in Updates
<1>1. mem[m].state \in States /\ mem[m].turn \in Turns \cup {NoTurn}
  BY MemTypes
<1>2. QED
  BY <1>1 DEF Pending, NoUpdate, Updates

LEMMA AppliedFits ==
  ASSUME NEW m \in Matches, TypeOK, NEW u \in Updates
  PROVE  /\ Applied(m, u) \in [Matches -> Position]
         /\ \A n \in Matches : n # m => Applied(m, u)[n] = row[n]
         /\ Applied(m, u)[m] = [state |-> IF u.state = "none" THEN row[m].state ELSE u.state,
                               turn  |-> IF u.turn = NoTurn THEN row[m].turn ELSE u.turn]
<1>1. row \in [Matches -> Position]
  BY DEF TypeOK
<1>2. row[m].state \in States /\ row[m].turn \in Turns \cup {NoTurn}
  BY <1>1 DEF Position
<1>3. u.state \in States \cup {"none"} /\ u.turn \in Turns \cup {NoTurn}
  BY DEF Updates
<1> DEFINE p == [state |-> IF u.state = "none" THEN row[m].state ELSE u.state,
                 turn  |-> IF u.turn = NoTurn THEN row[m].turn ELSE u.turn]
<1>4. p \in Position
  BY <1>2, <1>3 DEF Position
<1>5. Applied(m, u) = [row EXCEPT ![m] = p]
  BY DEF Applied
<1> HIDE DEF p
<1>6. /\ Applied(m, u) \in [Matches -> Position]
      /\ \A n \in Matches : n # m => Applied(m, u)[n] = row[n]
      /\ Applied(m, u)[m] = p
  BY <1>1, <1>4, <1>5
<1>7. QED
  BY <1>6 DEF p

LEMMA AppliedState ==
  ASSUME NEW m \in Matches, TypeOK, NEW u \in Updates
  PROVE  Applied(m, u)[m].state = IF u.state = "none" THEN row[m].state ELSE u.state
<1> DEFINE s == IF u.state = "none" THEN row[m].state ELSE u.state
           t == IF u.turn = NoTurn THEN row[m].turn ELSE u.turn
<1>1. Applied(m, u)[m] = [state |-> s, turn |-> t]
  BY AppliedFits
<1> HIDE DEF s, t
<1>2. Applied(m, u)[m].state = s
  BY <1>1
<1>3. QED
  BY <1>2 DEF s

\* What the actor's steps do to the database: nothing, or the pending write.
LEMMA PlayDatabase ==
  ASSUME NEW m \in Matches, Plays(m)
  PROVE  UNCHANGED database \/ (pc[m] \in {"state", "turn"} /\ Write(m))
<1>1. CASE Begin(m)
  BY <1>1 DEF Begin
<1>2. CASE PersistState(m)
  BY <1>2 DEF PersistState
<1>3. CASE PersistTurn(m)
  BY <1>3 DEF PersistTurn
<1>4. CASE Abandon(m) \/ TakeStop(m) \/ Timeout(m)
  BY <1>4 DEF Abandon, TakeStop, Timeout
<1>5. QED
  BY <1>1, <1>2, <1>3, <1>4 DEF Plays

\* The four things a step may do to the row of m and to what is afloat for it.
Kept(m) == row'[m] = row[m] /\ afloat'[m] = afloat[m]
Written(m) ==
  /\ pc[m] \in {"state", "turn"}
  /\ row'[m] = Applied(m, Pending(m))[m]
  /\ afloat'[m] = afloat[m]
Lost(m) ==
  /\ pc[m] \in {"state", "turn"}
  /\ row'[m] = row[m]
  /\ afloat'[m] = Pending(m)
  /\ m \in faulted'
Landed(m) ==
  /\ afloat[m] # NoUpdate
  /\ row'[m] = Applied(m, afloat[m])[m]
  /\ afloat'[m] = NoUpdate

\* Nobody but its own actor and the database touch the row of a match.
LEMMA RowChanges ==
  ASSUME TypeOK, [Next]_vars
  PROVE  /\ row' \in [Matches -> Position]
         /\ afloat' \in [Matches -> Updates]
         /\ faulted \subseteq faulted' /\ faulted' \subseteq Matches
         /\ \A m \in Matches : Kept(m) \/ Written(m) \/ Lost(m) \/ Landed(m)
<1> DEFINE Goal == /\ row' \in [Matches -> Position]
                   /\ afloat' \in [Matches -> Updates]
                   /\ faulted \subseteq faulted' /\ faulted' \subseteq Matches
                   /\ \A m \in Matches : Kept(m) \/ Written(m) \/ Lost(m) \/ Landed(m)
<1>0. /\ row \in [Matches -> Position]
      /\ afloat \in [Matches -> Updates]
      /\ faulted \subseteq Matches
  BY DEF TypeOK
<1>1. CASE UNCHANGED database
  BY <1>0, <1>1 DEF database, Kept
<1>2. ASSUME NEW n \in Matches, pc[n] \in {"state", "turn"}, Write(n)
      PROVE  Goal
  <2>1. Pending(n) \in Updates
    BY PendingFits
  <2>2. CASE row' = Applied(n, Pending(n)) /\ UNCHANGED <<afloat, faulted>>
    <3>1. row' \in [Matches -> Position] /\ \A m \in Matches : m # n => row'[m] = row[m]
      BY <2>1, <2>2, AppliedFits
    <3>2. ASSUME NEW m \in Matches
          PROVE  Kept(m) \/ Written(m)
      BY <1>2, <2>2, <3>1 DEF Kept, Written
    <3>3. QED
      BY <1>0, <2>2, <3>1, <3>2
  <2>3. CASE GiveUp(n)
    <3>1. /\ row' = row /\ faulted \subseteq faulted' /\ faulted' \subseteq Matches
          /\ \/ afloat' = afloat
             \/ afloat' = [afloat EXCEPT ![n] = Pending(n)] /\ n \in faulted'
      BY <1>0, <2>3 DEF GiveUp
    <3>2. ASSUME NEW m \in Matches
          PROVE  Kept(m) \/ Lost(m)
      BY <1>0, <1>2, <3>1 DEF Kept, Lost
    <3>3. afloat' \in [Matches -> Updates]
      BY <1>0, <2>1, <3>1
    <3>4. QED
      BY <1>0, <3>1, <3>2, <3>3
  <2>4. QED
    BY <1>2, <2>2, <2>3 DEF Write
<1>3. ASSUME NEW n \in Matches, Land(n)
      PROVE  Goal
  <2>1. afloat[n] \in Updates
    BY <1>0
  <2>2. /\ row' = Applied(n, afloat[n]) /\ afloat[n] # NoUpdate
        /\ afloat' = [afloat EXCEPT ![n] = NoUpdate] /\ faulted' = faulted
    BY <1>3 DEF Land
  <2>3. row' \in [Matches -> Position] /\ \A m \in Matches : m # n => row'[m] = row[m]
    BY <2>1, <2>2, AppliedFits
  <2>4. ASSUME NEW m \in Matches
        PROVE  Kept(m) \/ Landed(m)
    BY <1>0, <2>2, <2>3 DEF Kept, Landed
  <2>5. QED
    BY <1>0, <2>2, <2>3, <2>4, ConstantsFit
<1>4. CASE Signal
  <2>1. PICK sent \in SUBSET {m \in Writing : CanWrite(m)} :
          /\ afloat' = [m \in Matches |-> IF m \in sent THEN Pending(m) ELSE afloat[m]]
          /\ faulted' = faulted \cup sent
    BY <1>4 DEF Signal
  <2>2. row' = row
    BY <1>4 DEF Signal
  <2>3. ASSUME NEW m \in Matches
        PROVE  Kept(m) \/ Lost(m)
    BY <2>1, <2>2 DEF Writing, Kept, Lost
  <2>4. afloat' \in [Matches -> Updates]
    BY <1>0, <2>1, PendingFits
  <2>5. QED
    BY <1>0, <2>1, <2>2, <2>3, <2>4 DEF Writing
<1>5. ASSUME NEW m \in Matches, Plays(m)
      PROVE  Goal
  BY <1>1, <1>2, <1>5, PlayDatabase
<1>6. ASSUME NEW m \in Matches, Others(m) \/ Stop(m)
      PROVE  UNCHANGED database
  BY <1>6, OtherShape DEF Stop
<1>7. CASE Elapse \/ Shutdown \/ ListenerFails \/ Kill \/ Restart
  BY <1>1, <1>7 DEF Shutdown, Drain, Elapse, WaitReturns, Close, ListenerFails, ClosePool,
     Exit, Kill, Restart
<1>8. QED
  BY <1>1, <1>3, <1>4, <1>5, <1>6, <1>7, NextCases DEF Environment, vars, database

LEMMA MemTypeStep ==
  ASSUME TypeOK, MemInv, [Next]_vars
  PROVE  mem' \in [Matches -> Position]
<1>0. mem \in [Matches -> Position]
  BY DEF TypeOK
<1>1. ASSUME NEW m \in Matches, Changes(m)
      PROVE  mem' \in [Matches -> Position]
  <2>1. mem[m] \in Position /\ mem[m].state \in States
    BY <1>0, MemTypes
  <2>2. PICK to \in LegalFrom[mem[m].state] : mem' = [mem EXCEPT ![m].state = to]
    BY <1>1 DEF Changes
  <2>3. to \in States
    BY <2>1, <2>2, Edges
  <2>4. QED
    BY <1>0, <2>1, <2>2, <2>3, PositionParts
<1>2. ASSUME NEW m \in Matches, Deals(m)
      PROVE  mem' \in [Matches -> Position]
  BY <1>0, <1>2, PositionParts, FirstTurnFits DEF Deals
<1>3. ASSUME NEW m \in Matches, Passes(m)
      PROVE  mem' \in [Matches -> Position]
  BY <1>0, <1>3, PositionParts, NextTurnFits DEF Passes
<1>4. QED
  BY <1>0, <1>1, <1>2, <1>3, MemStep

LEMMA TypeStep ==
  ASSUME TypeOK, MemInv, RegistryCountsActors, [Next]_vars
  PROVE  TypeOK'
<1>1. /\ row' \in [Matches -> Position]
      /\ afloat' \in [Matches -> Updates]
      /\ mem' \in [Matches -> Position]
      /\ faulted' \subseteq Matches
  BY RowChanges, MemTypeStep
<1> DEFINE Rest == /\ pc' \in [Matches -> Phases]
                   /\ inbox' \in [Matches -> 0 .. InboxCapacity]
                   /\ registry' \subseteq Matches
                   /\ wg' \in 0 .. Cardinality(Matches)
                   /\ ctxDone' \in BOOLEAN
                   /\ main' \in {"serving", "draining", "drained", "closing", "exited"}
                   /\ spent' \in BOOLEAN
                   /\ out' \subseteq Matches
<1> SUFFICES Rest
  BY <1>1 DEF TypeOK
<1>2. /\ pc \in [Matches -> Phases]
      /\ inbox \in [Matches -> 0 .. InboxCapacity]
      /\ registry \subseteq Matches
      /\ wg \in 0 .. Cardinality(Matches)
      /\ ctxDone \in BOOLEAN
      /\ main \in {"serving", "draining", "drained", "closing", "exited"}
      /\ spent \in BOOLEAN
      /\ out \subseteq Matches
  BY DEF TypeOK
<1>3. CASE UNCHANGED vars
  BY <1>2, <1>3 DEF vars
<1>4. ASSUME NEW m \in Matches, Plays(m)
      PROVE  Rest
  <2>1. inbox' \in [Matches -> 0 .. InboxCapacity]
    <3>1. CASE TakeStop(m)
      <4>1. inbox' = [inbox EXCEPT ![m] = inbox[m] - 1] /\ inbox[m] > 0
        BY <3>1 DEF TakeStop
      <4>2. inbox[m] - 1 \in 0 .. InboxCapacity
        BY <1>2, <4>1, InboxAssumption
      <4>3. QED
        BY <1>2, <4>1, <4>2
    <3>2. CASE ~TakeStop(m)
      BY <1>2, <1>4, <3>2 DEF Plays, Begin, PersistState, PersistTurn, Abandon, Timeout
    <3>3. QED
      BY <3>1, <3>2
  <2>2. /\ pc' \in [Matches -> Phases]
        /\ UNCHANGED <<directory, ctxDone, main, spent>> /\ out' \subseteq out
    <3>1. {"state", "turn", "loop", "returned"} \subseteq Phases
      BY DEF Phases, Running
    <3>2. QED
      BY <1>2, <1>4, <3>1, PlayShape DEF Goto
  <2>3. QED
    BY <1>2, <2>1, <2>2 DEF directory
<1>5. ASSUME NEW m \in Matches, Others(m)
      PROVE  Rest
  <2>1. UNCHANGED process /\ Alive /\ Goto(m, pc'[m]) /\ pc'[m] \in Phases
    BY <1>5, OtherShape DEF Phases, Running
  <2>2. pc' \in [Matches -> Phases]
    BY <1>2, <2>1 DEF Goto
  <2>3. UNCHANGED inbox
    BY <1>5 DEF Others, Accept, BeginTx, Commit, Refuse, Register, Spawn, Remove, Done
  <2>4. registry' = Listed' /\ wg' = Cardinality(Counted')
    BY <2>1, CountStep DEF RegistryCountsActors, Listed, Counted, Alive, process
  <2>5. registry' \subseteq Matches /\ wg' \in 0 .. Cardinality(Matches)
    BY <2>4, SubsetCount DEF Listed, Counted
  <2>6. QED
    BY <1>2, <2>1, <2>2, <2>3, <2>5 DEF process
<1>6. CASE Environment
  <2>1. UNCHANGED <<pc, directory>>
    BY <1>6, EnvironmentShape
  <2>2. ASSUME NEW m \in Matches, Stop(m)
        PROVE  Rest
    <3>1. /\ inbox' = [inbox EXCEPT ![m] = inbox[m] + 1] /\ inbox[m] < InboxCapacity
          /\ UNCHANGED process
      BY <2>2 DEF Stop
    <3>2. inbox[m] + 1 \in 0 .. InboxCapacity
      BY <1>2, <3>1, InboxAssumption
    <3>3. QED
      BY <1>2, <2>1, <3>1, <3>2 DEF directory, process
  <2>3. ASSUME NEW m \in Matches, Land(m)
        PROVE  Rest
    BY <1>2, <2>1, <2>3 DEF Land, directory, process
  <2>4. CASE Signal \/ Elapse \/ Shutdown \/ ListenerFails \/ Kill
    BY <1>2, <2>1, <2>4 DEF Signal, Shutdown, Drain, Elapse, WaitReturns, Close, ListenerFails,
       ClosePool, Writing, Exit, Kill, directory
  <2>5. QED
    BY <1>6, <2>2, <2>3, <2>4 DEF Environment
<1>7. CASE Restart
  <2>1. pc' \in [Matches -> Phases]
    BY <1>7 DEF Restart, Phases
  <2>2. inbox' \in [Matches -> 0 .. InboxCapacity]
    BY <1>7, InboxAssumption DEF Restart
  <2>3. wg' \in 0 .. Cardinality(Matches)
    BY <1>7, CountedIsFinite DEF Restart
  <2>4. QED
    BY <1>2, <1>7, <2>1, <2>2, <2>3 DEF Restart
<1>8. QED
  BY <1>3, <1>4, <1>5, <1>6, <1>7, NextCases

-----------------------------------------------------------------------------
(* The rows                                                                *)

Ending == {"returned", "removed", "over"}

Open == main \notin {"closing", "exited"}

\* An end in the database, or on its way there, is the one the actor chose; only a
\* write the database failed is ever afloat.
RowFits(m) ==
  /\ row[m].state \in Terminal => row[m].state = mem[m].state
  /\ afloat[m].state \in Terminal => afloat[m].state = mem[m].state
  /\ afloat[m] # NoUpdate => m \in faulted

RowInv == \A m \in Matches : RowFits(m)

\* What FinishedMatchesAreOver says, from the moment run has returned.
EndFits(m) ==
  /\ pc[m] \in Ending
  /\ m \notin faulted
  /\ ~(ctxDone /\ mem[m].state = "cancelled")
  => row[m].state \in Terminal

EndInv == Open => \A m \in Matches : EndFits(m)

\* A match that has ended in memory keeps its end.
LEMMA EndStays ==
  ASSUME TypeOK, MemInv, [Next]_vars, NEW m \in Matches, mem[m].state \in Terminal
  PROVE  mem'[m].state = mem[m].state
<1>1. CASE UNCHANGED mem
  BY <1>1
<1>2. ASSUME NEW n \in Matches, Changes(n) \/ Deals(n) \/ Passes(n)
      PROVE  mem'[m].state = mem[m].state
  <2>1. CASE n # m
    BY <1>2, <2>1, MemTypes DEF Changes, Deals, Passes
  <2>2. CASE n = m
    <3>1. LegalFrom[mem[m].state] = {}
      BY DEF LegalFrom, Terminal, States
    <3>2. FALSE
      BY <1>2, <2>2, <3>1 DEF Changes, Deals, Passes, Terminal
    <3>3. QED
      BY <3>2
  <2>3. QED
    BY <2>1, <2>2
<1>3. QED
  BY <1>1, <1>2, MemStep

\* What the pending write would make of the row: an end it writes is the actor's.
LEMMA PendingEnd ==
  ASSUME TypeOK, NEW m \in Matches
  PROVE  Pending(m).state \in Terminal => pc[m] = "state" /\ Pending(m).state = mem[m].state
BY DEF Pending, NoUpdate, Terminal

LEMMA RowStep ==
  ASSUME TypeOK, MemInv, RowInv, [Next]_vars
  PROVE  RowInv'
<1> SUFFICES ASSUME NEW m \in Matches
             PROVE  RowFits(m)'
  BY DEF RowInv
<1>1. RowFits(m) /\ faulted \subseteq faulted'
  BY RowChanges DEF RowInv
<1>2. mem[m].state \in Terminal => mem'[m].state = mem[m].state
  BY EndStays
<1>3. CASE Kept(m)
  BY <1>1, <1>2, <1>3 DEF RowFits, Kept
<1>4. CASE Written(m)
  <2>1. row'[m].state = IF Pending(m).state = "none" THEN row[m].state ELSE Pending(m).state
    BY <1>4, AppliedState, PendingFits DEF Written
  <2>2. afloat'[m] = afloat[m]
    BY <1>4 DEF Written
  <2>3. QED
    BY <1>1, <1>2, <2>1, <2>2, PendingEnd DEF RowFits
<1>5. CASE Lost(m)
  BY <1>1, <1>2, <1>5, PendingEnd DEF RowFits, Lost
<1>6. CASE Landed(m)
  <2>1. afloat[m] \in Updates
    BY DEF TypeOK
  <2>2. row'[m].state = IF afloat[m].state = "none" THEN row[m].state ELSE afloat[m].state
    BY <1>6, <2>1, AppliedState DEF Landed
  <2>3. afloat'[m] = NoUpdate
    BY <1>6 DEF Landed
  <2>4. "none" \notin Terminal
    BY DEF Terminal
  <2>5. QED
    BY <1>1, <1>2, <2>2, <2>3, <2>4 DEF RowFits, NoUpdate
<1>7. QED
  BY <1>3, <1>4, <1>5, <1>6, RowChanges

\* Only the end of the process undoes a signal, and only a new one serves again.
LEMMA ProcessStep ==
  ASSUME TypeOK, MemInv, [Next]_vars, ~Restart
  PROVE  /\ ctxDone => ctxDone'
         /\ main' = "serving" => main = "serving"
         /\ Open' => Open
<1>1. ASSUME NEW m \in Matches, Plays(m) \/ Others(m)
      PROVE  UNCHANGED <<ctxDone, main>>
  BY <1>1, PlayShape, OtherShape DEF process
<1>2. CASE Environment
  BY <1>2 DEF Environment, Stop, Land, Signal, Elapse, Shutdown, Drain, WaitReturns, Close,
       ListenerFails, ClosePool, Exit, Kill, process, Open
<1>3. QED
  BY <1>1, <1>2, NextCases DEF vars, Open

\* Only its own goroutine changes a match's memory, and brings it to its end.
LEMMA OthersKeep ==
  ASSUME TypeOK, MemInv, [Next]_vars, NEW m \in Matches, ~Plays(m)
  PROVE  mem'[m] = mem[m] /\ (pc'[m] \in Ending => pc[m] \in Ending)
<1> USE DEF Ending
<1>0. pc \in [Matches -> Phases]
  BY DEF TypeOK
<1>1. ASSUME NEW n \in Matches, Plays(n)
      PROVE  mem'[m] = mem[m] /\ pc'[m] = pc[m]
  <2>1. n # m
    BY <1>1
  <2>2. mem'[m] = mem[m]
    BY <1>1, <2>1, PlayMemory, MemTypes DEF Changes, Deals, Passes
  <2>3. pc'[m] = pc[m]
    BY <1>0, <1>1, <2>1, PlayShape DEF Goto
  <2>4. QED
    BY <2>2, <2>3
<1>2. ASSUME NEW n \in Matches, Others(n)
      PROVE  mem'[m] = mem[m] /\ (pc'[m] \in Ending => pc[m] \in Ending)
  <2>1. mem' = mem /\ Goto(n, pc'[n])
    BY <1>2, OtherShape
  <2>2. CASE n # m
    BY <1>0, <2>1, <2>2 DEF Goto
  <2>3. CASE n = m
    BY <1>0, <1>2, <2>1, <2>3
       DEF Others, Accept, BeginTx, Commit, Refuse, Register, Spawn, Remove, Done, Goto
  <2>4. QED
    BY <2>1, <2>2, <2>3
<1>3. CASE Environment \/ UNCHANGED vars
  BY <1>3, EnvironmentShape DEF vars
<1>4. CASE Restart
  BY <1>0, <1>4 DEF Restart
<1>5. QED
  BY <1>1, <1>2, <1>3, <1>4, NextCases

\* Only a last write leaves run: in the loop a transition to an end is legal.
LEMMA ReturnStep ==
  ASSUME NEW m \in Matches, TypeOK, MemInv, Plays(m), pc'[m] \in Ending
  PROVE  /\ PersistState(m)
         /\ mem[m].state \in {"cancelled", "abandoned"}
         /\ mem' = mem
<1> USE Edges DEF Ending, Goto
<1>0. pc \in [Matches -> Phases] /\ MemFits(m)
  BY DEF TypeOK, MemInv
<1>1. ~Begin(m)
  BY <1>0 DEF Begin, Transition, SetTurn
<1>2. ~PersistTurn(m)
  BY <1>0 DEF PersistTurn, Transition, Move
<1>3. ~Abandon(m) /\ ~TakeStop(m)
  BY <1>0 DEF Abandon, TakeStop, Transition, Move, MemFits
<1>4. ~Timeout(m)
  BY <1>0 DEF Timeout, SetTurn
<1>5. PersistState(m)
  BY <1>1, <1>2, <1>3, <1>4 DEF Plays
<1>6. mem[m].state \notin {"starting", "in_progress"}
  BY <1>0, <1>5 DEF PersistState, AfterState, SetTurn, Move
<1>7. mem[m].state \in {"cancelled", "abandoned"}
  BY <1>0, <1>5, <1>6 DEF PersistState, MemFits
<1>8. QED
  BY <1>5, <1>7 DEF PersistState, AfterState, Move

LEMMA EndStep ==
  ASSUME TypeOK, MemInv, RowInv, EndInv, [Next]_vars
  PROVE  EndInv'
<1> SUFFICES ASSUME Open', NEW m \in Matches, pc'[m] \in Ending, m \notin faulted',
                    ~(ctxDone' /\ mem'[m].state = "cancelled")
             PROVE  row'[m].state \in Terminal
  BY DEF EndInv, EndFits
<1>1. pc \in [Matches -> Phases] /\ RowFits(m)
  BY DEF TypeOK, RowInv
<1>2. ~Restart
  BY DEF Restart, Ending
<1>3. Open /\ (ctxDone => ctxDone') /\ m \notin faulted
  BY <1>2, ProcessStep, RowChanges
<1>4. ~Landed(m) /\ ~Lost(m)
  BY <1>1, <1>3 DEF RowFits, Landed, Lost
<1>5. CASE ~Plays(m)
  <2>1. mem'[m] = mem[m] /\ pc[m] \in Ending
    BY <1>5, OthersKeep
  <2>2. row[m].state \in Terminal
    BY <1>3, <2>1 DEF EndInv, EndFits
  <2>3. ~Written(m)
    BY <2>1 DEF Written, Ending
  <2>4. Kept(m)
    BY <1>4, <2>3, RowChanges
  <2>5. QED
    BY <2>2, <2>4 DEF Kept
<1>6. CASE Plays(m)
  <2>1. /\ PersistState(m) /\ mem' = mem
        /\ mem[m].state \in {"cancelled", "abandoned"}
    BY <1>6, ReturnStep
  <2>2. pc[m] = "state" /\ Write(m)
    BY <2>1 DEF PersistState
  <2>3. ctxDone' = ctxDone
    BY <2>2 DEF Write
  <2>4. CanWrite(m)
    <3>1. PoolOpen
      BY <1>3 DEF Open, PoolOpen, TypeOK
    <3>2. ctxDone => mem[m].state = "abandoned"
      BY <2>1, <2>3
    <3>3. QED
      BY <3>1, <3>2 DEF CanWrite
  <2>5. ~GiveUp(m)
    BY <2>4 DEF GiveUp
  <2>6. row' = Applied(m, Pending(m))
    BY <2>2, <2>5 DEF Write
  <2>7. Pending(m).state = mem[m].state
    BY <2>2 DEF Pending, NoUpdate
  <2>8. row'[m].state = mem[m].state
    BY <2>1, <2>6, <2>7, AppliedState, PendingFits
  <2>9. QED
    BY <2>1, <2>8 DEF Terminal
<1>7. QED
  BY <1>5, <1>6

-----------------------------------------------------------------------------
(* The theorems                                                            *)

\* The inductive invariant.
ActorsInv == TypeOK /\ MemInv /\ RegistryCountsActors /\ RowInv /\ EndInv

LEMMA ActorsInit == Init => ActorsInv
<1> SUFFICES ASSUME Init
             PROVE  ActorsInv
  OBVIOUS
<1>1. TypeOK
  <2>1. row \in [Matches -> Position] /\ mem \in [Matches -> Position]
    BY ConstantsFit DEF Init
  <2>2. afloat \in [Matches -> Updates]
    BY ConstantsFit DEF Init
  <2>3. pc \in [Matches -> Phases]
    BY DEF Init, Phases
  <2>4. inbox \in [Matches -> 0 .. InboxCapacity]
    BY InboxAssumption DEF Init
  <2>5. wg \in 0 .. Cardinality(Matches)
    BY CountedIsFinite DEF Init
  <2>6. QED
    BY <2>1, <2>2, <2>3, <2>4, <2>5 DEF Init, TypeOK
<1>2. MemInv
  BY DEF Init, MemInv, MemFits
<1>3. RegistryCountsActors
  <2>1. Counted = {} /\ Listed = {}
    BY DEF Init, Counted, Listed, Running
  <2>2. QED
    BY <2>1, FS_EmptySet DEF Init, RegistryCountsActors, Counted, Listed
<1>4. RowInv
  BY DEF Init, RowInv, RowFits, Unstarted, NoUpdate, Terminal
<1>5. EndInv
  BY DEF Init, EndInv, EndFits, Ending
<1>6. QED
  BY <1>1, <1>2, <1>3, <1>4, <1>5 DEF ActorsInv

LEMMA ActorsStep == ActorsInv /\ [Next]_vars => ActorsInv'
BY TypeStep, MemStep, CountStep, RowStep, EndStep DEF ActorsInv

\* The invariant holds for ever, whatever the database and the process do.
THEOREM ActorsAlways == Spec => []ActorsInv
BY ActorsInit, ActorsStep, PTL DEF Spec

\* Every variable keeps its type: no inbox overflows and the wait group is never
\* negative, which would panic.
THEOREM TypeCorrect == Spec => []TypeOK
<1>1. ActorsInv => TypeOK
  BY DEF ActorsInv
<1>2. QED
  BY <1>1, ActorsAlways, PTL

\* The registry and the wait group agree with the goroutines at every moment.
THEOREM RegistryAlwaysCounts == Spec => []RegistryCountsActors
<1>1. ActorsInv => RegistryCountsActors
  BY DEF ActorsInv
<1>2. QED
  BY <1>1, ActorsAlways, PTL

\* Both modules extend MatchModel, on the same constants.
LEMMA SameDiagram ==
  /\ Lifecycle!States = States
  /\ Lifecycle!LegalFrom = LegalFrom
  /\ Lifecycle!FirstTurn = FirstTurn
  /\ \A t : Lifecycle!NextTurn(t) = NextTurn(t)
BY DEF Lifecycle!States, States, Lifecycle!LegalFrom, LegalFrom, Lifecycle!FirstTurn,
   FirstTurn, Lifecycle!NextTurn, NextTurn

\* The actors implement the lifecycle: in memory no match leaves the diagram, plays
\* without a turn or passes one after the end, through any failures and restarts.
THEOREM ActorsImplementLifecycle == Spec => ActorsFollowLifecycle
<1> DEFINE stateOf == [m \in Matches |-> mem[m].state]
           turnOf == [m \in Matches |-> mem[m].turn]
<1>1. Init => Lifecycle!Init
  BY DEF Init, Lifecycle!Init, Unstarted
<1>2. ASSUME ActorsInv, [Next]_vars
      PROVE  [Lifecycle!Next]_(Lifecycle!vars)
  <2>0. /\ mem \in [Matches -> Position]
        /\ UNCHANGED mem \/ \E m \in Matches : Changes(m) \/ Deals(m) \/ Passes(m)
    BY <1>2, MemStep DEF ActorsInv, TypeOK
  <2>1. CASE UNCHANGED mem
    BY <2>1 DEF Lifecycle!vars
  <2>2. ASSUME NEW m \in Matches, Changes(m)
        PROVE  Lifecycle!Next
    <3>1. PICK to \in LegalFrom[mem[m].state] :
            /\ to = "in_progress" => mem[m].turn # NoTurn
            /\ mem' = [mem EXCEPT ![m].state = to]
      BY <2>2 DEF Changes
    <3>2. mem[m].state \in States /\ to \in States
      BY <2>0, <3>1, Edges DEF Position
    <3>3. stateOf' = [stateOf EXCEPT ![m] = to] /\ turnOf' = turnOf
      BY <2>0, <3>1 DEF Position
    <3>4. Lifecycle!Change(m, to)
      BY <3>1, <3>2, <3>3, SameDiagram DEF Lifecycle!Change
    <3>5. QED
      BY <3>2, <3>4, SameDiagram DEF Lifecycle!Next
  <2>3. ASSUME NEW m \in Matches, Deals(m)
        PROVE  Lifecycle!Next
    <3>1. stateOf' = stateOf /\ turnOf' = [turnOf EXCEPT ![m] = FirstTurn]
      BY <2>0, <2>3 DEF Deals, Position
    <3>2. Lifecycle!Deal(m)
      BY <2>3, <3>1, SameDiagram DEF Deals, Lifecycle!Deal
    <3>3. QED
      BY <3>2 DEF Lifecycle!Next
  <2>4. ASSUME NEW m \in Matches, Passes(m)
        PROVE  Lifecycle!Next
    <3>1. stateOf' = stateOf /\ turnOf' = [turnOf EXCEPT ![m] = NextTurn(mem[m].turn)]
      <4>1. PICK t : t = NextTurn(mem[m].turn)
        OBVIOUS
      <4>2. mem' = [mem EXCEPT ![m].turn = t]
        BY <2>4, <4>1 DEF Passes
      <4>3. stateOf' = stateOf /\ turnOf' = [turnOf EXCEPT ![m] = t]
        BY <2>0, <4>2 DEF Position
      <4>4. QED
        BY <4>1, <4>3
    <3>2. Lifecycle!Pass(m)
      BY <2>4, <3>1, SameDiagram DEF Passes, Lifecycle!Pass
    <3>3. QED
      BY <3>2 DEF Lifecycle!Next
  <2>5. QED
    BY <2>0, <2>1, <2>2, <2>3, <2>4
<1>3. QED
  BY <1>1, <1>2, ActorsAlways, PTL DEF Spec, ActorsFollowLifecycle, Lifecycle!Spec

\* Once the row of a match says that it is over, nothing the server does changes it:
\* no timeout, second ending, failed write, shutdown or new process. Only the database
\* can, by executing an UPDATE its actor had given up.
THEOREM EndedRowsStayFinal == Spec => EndedRowsAreFinal
<1> DEFINE Final == \A m \in Matches :
                      row[m].state \in Terminal /\ row'[m] # row[m] => afloat[m] # NoUpdate
<1>1. ASSUME ActorsInv, [Next]_vars
      PROVE  Final
  <2> SUFFICES ASSUME NEW m \in Matches, row[m].state \in Terminal, row'[m] # row[m]
               PROVE  Landed(m)
    BY DEF Landed
  <2>0. TypeOK /\ MemFits(m) /\ RowFits(m)
    BY <1>1 DEF ActorsInv, MemInv, RowInv
  <2>1. ~Kept(m) /\ ~Lost(m)
    BY DEF Kept, Lost
  <2>2. ~Written(m)
    <3> SUFFICES ASSUME Written(m)
                 PROVE  row'[m] = row[m]
      OBVIOUS
    <3>1. mem[m].state = row[m].state /\ mem[m].state \in Terminal
      BY <2>0 DEF RowFits
    <3>2. pc[m] = "state"
      BY <2>0, <3>1 DEF Written, MemFits, Terminal
    <3>3. Pending(m).state = row[m].state /\ Pending(m).turn = NoTurn
      BY <3>1, <3>2 DEF Pending, NoUpdate
    <3>4. row'[m] = [state |-> row[m].state, turn |-> row[m].turn]
      BY <2>0, <3>3, AppliedFits, PendingFits DEF Written
    <3>5. row[m] \in Position
      BY <2>0 DEF TypeOK
    <3>6. QED
      BY <3>4, <3>5 DEF Position
  <2>3. QED
    BY <1>1, <2>0, <2>1, <2>2, RowChanges
<1>2. ActorsInv /\ [Next]_vars => [Final]_vars
  BY <1>1
<1>3. QED
  BY <1>2, ActorsAlways, PTL DEF Spec, EndedRowsAreFinal

\* A match whose actor has gone is found ended while the database can be asked, unless
\* the database failed an UPDATE of it or a Stop met the shutdown.
THEOREM FinishedAreOver == Spec => []FinishedMatchesAreOver
<1>1. ActorsInv => FinishedMatchesAreOver
  BY DEF ActorsInv, EndInv, EndFits, Open, Ending, FinishedMatchesAreOver
<1>2. QED
  BY <1>1, ActorsAlways, PTL

-----------------------------------------------------------------------------
(* Turns in their order                                                    *)

\* The turns of a round, counted from the first: the inverse of what nextTurn takes
\* apart.
Number(t) == t.idx * 2 + t.side

\* nextTurn adds one around the round and changes sides; no two turns have the same
\* number, and every number below 2 * PlayersPerSide is a turn's. It follows by
\* counting that 2 * PlayersPerSide turns in a row are each player's once.
LEMMA NextTurnCounts ==
  /\ \A t \in Turns : /\ Number(t) \in 0 .. 2 * PlayersPerSide - 1
                      /\ Number(NextTurn(t)) = (Number(t) + 1) % (2 * PlayersPerSide)
                      /\ NextTurn(t).side = 1 - t.side
  /\ \A t, u \in Turns : Number(t) = Number(u) => t = u
  /\ \A n \in 0 .. 2 * PlayersPerSide - 1 : \E t \in Turns : Number(t) = n
<1>1. \A t \in Turns : t.side \in {0, 1} /\ t.idx \in 0 .. PlayersPerSide - 1
                       /\ t = [side |-> t.side, idx |-> t.idx]
  BY DEF Turns
<1>2. ASSUME NEW t \in Turns
      PROVE  /\ Number(t) \in 0 .. 2 * PlayersPerSide - 1
             /\ Number(NextTurn(t)) = (Number(t) + 1) % (2 * PlayersPerSide)
             /\ NextTurn(t).side = 1 - t.side
  <2>1. t.side \in {0, 1} /\ t.idx \in 0 .. PlayersPerSide - 1
    BY <1>1
  <2>2. CASE PlayersPerSide = 1
    <3>1. t.idx = 0
      BY <2>1, <2>2
    <3>2. QED
      BY <2>1, <2>2, <3>1 DEF NextTurn, Number
  <2>3. CASE PlayersPerSide = 2
    <3>1. t.idx \in {0, 1}
      BY <2>1, <2>3
    <3>2. QED
      BY <2>1, <2>3, <3>1 DEF NextTurn, Number
  <2>4. QED
    BY <2>2, <2>3, PlayersAssumption
<1>3. ASSUME NEW t \in Turns, NEW u \in Turns, Number(t) = Number(u)
      PROVE  t = u
  <2>1. t.idx \in Nat /\ u.idx \in Nat /\ t.side \in {0, 1} /\ u.side \in {0, 1}
    BY <1>1, PlayersAssumption
  <2>2. t.idx = u.idx /\ t.side = u.side
    BY <1>3, <2>1 DEF Number
  <2>3. QED
    BY <1>1, <2>2
<1>4. ASSUME NEW n \in 0 .. 2 * PlayersPerSide - 1
      PROVE  \E t \in Turns : Number(t) = n
  <2>1. CASE n = 0 \/ n = 1
    <3>1. [side |-> n, idx |-> 0] \in Turns
      BY <2>1, PlayersAssumption DEF Turns
    <3>2. QED
      BY <2>1, <3>1 DEF Number
  <2>2. CASE PlayersPerSide = 2 /\ (n = 2 \/ n = 3)
    <3>1. [side |-> n - 2, idx |-> 1] \in Turns
      BY <2>2 DEF Turns
    <3>2. QED
      BY <2>2, <3>1 DEF Number
  <2>3. QED
    BY <2>1, <2>2, PlayersAssumption
<1>5. QED
  BY <1>2, <1>3, <1>4

\* Once a match has a turn, it only ever passes to the next one, on the other side:
\* nobody is skipped and nobody plays twice, whatever fails between two timeouts.
TurnsGoRound ==
  [][\A m \in Matches :
       mem[m].turn # NoTurn /\ mem'[m].turn # mem[m].turn =>
         /\ Number(mem'[m].turn) = (Number(mem[m].turn) + 1) % (2 * PlayersPerSide)
         /\ mem'[m].turn.side = 1 - mem[m].turn.side]_vars

\* The safety half of EveryPlayerGetsTheTurn: the clock makes the turn move, and
\* wherever it moves from, the next player of the round has it.
THEOREM TurnsAlwaysGoRound == Spec => TurnsGoRound
<1> DEFINE Round == \A m \in Matches :
                      mem[m].turn # NoTurn /\ mem'[m].turn # mem[m].turn =>
                        /\ Number(mem'[m].turn) = (Number(mem[m].turn) + 1) % (2 * PlayersPerSide)
                        /\ mem'[m].turn.side = 1 - mem[m].turn.side
<1>1. ASSUME ActorsInv, [Next]_vars
      PROVE  Round
  <2> SUFFICES ASSUME NEW m \in Matches, mem[m].turn # NoTurn, mem'[m].turn # mem[m].turn
               PROVE  /\ Number(mem'[m].turn) = (Number(mem[m].turn) + 1) % (2 * PlayersPerSide)
                      /\ mem'[m].turn.side = 1 - mem[m].turn.side
    OBVIOUS
  <2>0. TypeOK /\ MemInv
    BY <1>1 DEF ActorsInv
  <2>1. PICK n \in Matches : Changes(n) \/ Deals(n) \/ Passes(n)
    BY <1>1, <2>0, MemStep
  <2>2. n = m
    <3>1. ASSUME n # m
          PROVE  mem'[m] = mem[m]
      BY <2>0, <2>1, <3>1, MemTypes DEF Changes, Deals, Passes
    <3>2. QED
      BY <3>1
  <2>3. ~Changes(m)
    <3>1. ASSUME NEW s, mem' = [mem EXCEPT ![m].state = s]
          PROVE  mem'[m].turn = mem[m].turn
      BY <2>0, <3>1, MemTypes
    <3>2. QED
      BY <3>1 DEF Changes
  <2>4. mem[m].turn \in Turns /\ mem'[m].turn = NextTurn(mem[m].turn)
    <3>1. Passes(m)
      BY <2>1, <2>2, <2>3 DEF Deals
    <3>2. mem'[m] = [mem[m] EXCEPT !.turn = NextTurn(mem[m].turn)]
      BY <2>0, <3>1, MemTypes DEF Passes
    <3>3. mem[m] \in Position
      BY <2>0, MemTypes
    <3>4. QED
      BY <3>1, <3>2, <3>3 DEF Passes, Position
  <2>5. QED
    BY <2>4, NextTurnCounts
<1>2. ActorsInv /\ [Next]_vars => [Round]_vars
  BY <1>1
<1>3. QED
  BY <1>2, ActorsAlways, PTL DEF Spec, TurnsGoRound

-----------------------------------------------------------------------------
(* How far a row may be behind                                             *)

\* The inductive invariant: a match that is not committed has no row to be behind.
BehindInv ==
  /\ \A m \in Matches :
       pc[m] \in {"none", "request", "tx"} => row[m] = Unstarted /\ afloat[m] = NoUpdate
  /\ RowsOneBehind

\* What the actor does next, once its row is its memory: change one of the two and be
\* about to write it, or change nothing.
LEMMA PlayEffect ==
  ASSUME NEW m \in Matches, TypeOK, MemInv, Plays(m)
  PROVE  \/ \E s \in States : mem'[m] = [mem[m] EXCEPT !.state = s] /\ pc'[m] = "state"
         \/ \E t \in Turns : mem'[m] = [mem[m] EXCEPT !.turn = t] /\ pc'[m] = "turn"
         \/ mem'[m] = mem[m] /\ pc'[m] \in {"loop", "returned"}
<1> DEFINE Writes(s) == mem' = [mem EXCEPT ![m].state = s] /\ Goto(m, "state")
           Turned(t) == mem' = [mem EXCEPT ![m].turn = t] /\ Goto(m, "turn")
           Stays == mem' = mem /\ (Goto(m, "loop") \/ Goto(m, "returned"))
<1>1. (\E s \in States : Writes(s)) \/ (\E t \in Turns : Turned(t)) \/ Stays
  <2>1. CASE Begin(m)
    BY <2>1, FirstTurnFits DEF Begin, Transition, SetTurn, States
  <2>2. CASE PersistState(m)
    BY <2>2, FirstTurnFits DEF PersistState, AfterState, SetTurn, Move
  <2>3. CASE PersistTurn(m)
    BY <2>3 DEF PersistTurn, Transition, Move, States
  <2>4. CASE Abandon(m)
    BY <2>4 DEF Abandon, Transition, Move, States
  <2>5. CASE TakeStop(m)
    BY <2>5 DEF TakeStop, Transition, Move, States
  <2>6. CASE Timeout(m)
    <3>1. mem[m].turn \in Turns
      BY <2>6 DEF MemInv, MemFits, Timeout
    <3>2. QED
      BY <2>6, <3>1, NextTurnFits DEF Timeout, SetTurn
  <2>7. QED
    BY <2>1, <2>2, <2>3, <2>4, <2>5, <2>6 DEF Plays
<1>2. \A p : Goto(m, p) => pc'[m] = p
  BY DEF TypeOK, Goto
<1>3. QED
  BY <1>1, <1>2, MemTypes

\* The actor's own step: it writes what is pending, and only then goes on.
LEMMA PlayBehind ==
  ASSUME NEW m \in Matches, ActorsInv, Plays(m),
         main = "serving", ~ctxDone, m \notin faulted', OneBehind(m)
  PROVE  OneBehind(m)'
<1>0. TypeOK /\ MemInv /\ mem[m] \in Position /\ mem[m].state \in States
  BY MemTypes DEF ActorsInv
<1>1. row'[m] = mem[m]
  <2>1. CASE pc[m] \in {"state", "turn"}
    <3>1. PersistState(m) \/ PersistTurn(m)
      BY <2>1 DEF Plays, Begin, Abandon, TakeStop, Timeout
    <3>2. CanWrite(m) /\ ~GiveUp(m)
      BY DEF CanWrite, PoolOpen, GiveUp
    <3>3. row' = Applied(m, Pending(m))
      BY <3>1, <3>2 DEF PersistState, PersistTurn, Write
    <3>4. QED
      BY <2>1, <3>3 DEF OneBehind
  <2>2. CASE pc[m] \notin {"state", "turn"}
    BY <2>2, PlayDatabase DEF OneBehind, database
  <2>3. QED
    BY <2>1, <2>2
<1>2. TypeOK'
  BY <1>0, TypeStep DEF ActorsInv, Next, Plays, Run
<1>3. /\ row' \in [Matches -> Position]
      /\ row'[m].state = mem[m].state /\ row'[m].turn = mem[m].turn
  BY <1>1, <1>2 DEF TypeOK
<1>4. ASSUME NEW s \in States, mem'[m] = [mem[m] EXCEPT !.state = s], pc'[m] = "state"
      PROVE  OneBehind(m)'
  <2>1. mem'[m].state = s /\ s # "none" /\ mem'[m] = [state |-> s, turn |-> mem[m].turn]
    BY <1>0, <1>4 DEF Position, States
  <2>2. QED
    BY <1>3, <1>4, <2>1 DEF OneBehind, Applied, Pending, NoUpdate
<1>5. ASSUME NEW t \in Turns, mem'[m] = [mem[m] EXCEPT !.turn = t], pc'[m] = "turn"
      PROVE  OneBehind(m)'
  <2>1. mem'[m].turn = t /\ t # NoTurn /\ mem'[m] = [state |-> mem[m].state, turn |-> t]
    BY <1>0, <1>5, NoTurnAssumption DEF Position
  <2>2. QED
    BY <1>3, <1>5, <2>1 DEF OneBehind, Applied, Pending, NoUpdate
<1>6. ASSUME mem'[m] = mem[m], pc'[m] \in {"loop", "returned"}
      PROVE  OneBehind(m)'
  BY <1>1, <1>6 DEF OneBehind
<1>7. QED
  BY <1>0, <1>4, <1>5, <1>6, PlayEffect

\* What leaves a match's row, memory and phase alone leaves it as far behind as it was.
LEMMA KeepsBehind ==
  ASSUME NEW m \in Matches, TypeOK, TypeOK', OneBehind(m),
         row'[m] = row[m], mem'[m] = mem[m], pc'[m] = pc[m]
  PROVE  OneBehind(m)'
<1>1. row \in [Matches -> Position] /\ row' \in [Matches -> Position]
  BY DEF TypeOK
<1>2. QED
  BY <1>1 DEF OneBehind, Applied, Pending

\* Outside the actors only a late UPDATE reaches a row.
LEMMA EnvironmentRows ==
  ASSUME TypeOK, Environment, NEW m \in Matches
  PROVE  row'[m] = row[m] \/ Landed(m)
<1>1. ASSUME NEW n \in Matches, Land(n)
      PROVE  row'[m] = row[m] \/ Landed(m)
  <2>1. afloat[n] \in Updates /\ afloat \in [Matches -> Updates]
    BY DEF TypeOK
  <2>2. CASE n # m
    BY <1>1, <2>1, <2>2, AppliedFits DEF Land
  <2>3. CASE n = m
    BY <1>1, <2>1, <2>3 DEF Land, Landed
  <2>4. QED
    BY <2>2, <2>3
<1>2. CASE ~\E n \in Matches : Land(n)
  BY <1>2 DEF Environment, Stop, Signal, Elapse, Shutdown, Drain, WaitReturns, Close,
     ListenerFails, ClosePool, Exit, Kill, database
<1>3. QED
  BY <1>1, <1>2

LEMMA BehindStep ==
  ASSUME ActorsInv, BehindInv, [Next]_vars
  PROVE  BehindInv'
<1>0. TypeOK /\ MemInv /\ RowInv /\ TypeOK'
  BY TypeStep DEF ActorsInv
<1>00. pc \in [Matches -> Phases] /\ mem \in [Matches -> Position] /\ faulted \subseteq faulted'
  BY <1>0, RowChanges DEF TypeOK
<1> DEFINE Quiet == main = "serving" /\ ~ctxDone
           Fresh(m) == /\ pc[m] \in {"none", "request", "tx"}
                       /\ row[m] = Unstarted /\ afloat[m] = NoUpdate
           Owned(m) == m \notin faulted /\ pc[m] # "orphan"
           Goal(m) == /\ pc'[m] \in {"none", "request", "tx"} => Fresh(m)'
                      /\ Quiet' /\ Owned(m)' => OneBehind(m)'
<1> SUFFICES \A m \in Matches : Goal(m)
  BY DEF BehindInv, RowsOneBehind
<1>1. ASSUME NEW m \in Matches
      PROVE  /\ pc[m] \in {"none", "request", "tx"} => Fresh(m)
             /\ Quiet /\ Owned(m) => OneBehind(m)
  BY DEF BehindInv, RowsOneBehind
<1>2. ~Restart /\ Quiet' => Quiet
  BY <1>0, ProcessStep
<1>4. ASSUME NEW n \in Matches, Plays(n), NEW m \in Matches
      PROVE  Goal(m)
  <2>1. /\ UNCHANGED <<main, ctxDone>> /\ pc[n] \in Playing
        /\ pc'[n] \in {"state", "turn", "loop", "returned"}
        /\ m # n => pc'[m] = pc[m]
    BY <1>0, <1>00, <1>4, PlayShape DEF Goto
  <2>2. CASE m = n
    BY <1>1, <1>00, <1>4, <2>1, <2>2, PlayBehind DEF Playing
  <2>3. CASE m # n
    <3>1. row'[m] = row[m] /\ afloat'[m] = afloat[m]
      <4>1. UNCHANGED database \/ Write(n)
        BY <1>4, PlayDatabase
      <4>2. ASSUME Write(n)
            PROVE  row'[m] = row[m] /\ afloat'[m] = afloat[m]
        <5>0. Pending(n) \in Updates
          BY <1>0, PendingFits
        <5>1. Applied(n, Pending(n))[m] = row[m]
          BY <1>0, <2>3, <5>0, AppliedFits
        <5>2. afloat \in [Matches -> Updates]
          BY <1>0 DEF TypeOK
        <5>3. CASE GiveUp(n)
          BY <2>3, <5>2, <5>3 DEF GiveUp
        <5>4. QED
          BY <4>2, <5>1, <5>3 DEF Write
      <4>3. QED
        BY <4>1, <4>2 DEF database
    <3>2. mem'[m] = mem[m]
      BY <1>0, <1>00, <1>4, <2>3, PlayMemory DEF Changes, Deals, Passes
    <3>3. QED
      BY <1>0, <1>00, <1>1, <2>1, <2>3, <3>1, <3>2, KeepsBehind
  <2>4. QED
    BY <2>2, <2>3
<1>5. ASSUME NEW n \in Matches, Others(n), NEW m \in Matches
      PROVE  Goal(m)
  <2>1. /\ UNCHANGED <<mem, database, process>>
        /\ pc[n] \in Phases \ Playing
        /\ pc'[n] \in (Phases \ Playing) \cup {"run"}
        /\ m # n => pc'[m] = pc[m]
    BY <1>0, <1>00, <1>5, OtherShape DEF Goto
  <2>2. CASE m = n
    <3>1. /\ pc[n] # "orphan"
          /\ pc'[n] \in {"none", "request", "tx"} => pc[n] \in {"none", "request", "tx"}
      BY <1>00, <1>5
         DEF Others, Accept, BeginTx, Commit, Refuse, Register, Spawn, Remove, Done, Goto
    <3>2. QED
      BY <1>1, <2>1, <2>2, <3>1 DEF OneBehind, Playing, database, process
  <2>3. CASE m # n
    BY <1>0, <1>1, <2>1, <2>3, KeepsBehind DEF database, process
  <2>4. QED
    BY <2>2, <2>3
<1>6. ASSUME Environment \/ UNCHANGED vars, NEW m \in Matches
      PROVE  Goal(m)
  <2>1. mem' = mem /\ pc' = pc
    BY <1>6, EnvironmentShape DEF vars
  <2>2. row'[m] = row[m] \/ Landed(m)
    BY <1>0, <1>6, EnvironmentRows DEF vars
  <2>3. ASSUME Fresh(m)
        PROVE  Fresh(m)'
    <3>1. Kept(m)
      BY <1>0, <2>3, RowChanges DEF Written, Lost, Landed
    <3>2. QED
      BY <2>1, <2>3, <3>1 DEF Kept
  <2>4. ASSUME Quiet', Owned(m)'
        PROVE  OneBehind(m)'
    <3>1. main = "serving" /\ ~ctxDone
      BY <1>6, <2>4 DEF Environment, Stop, Land, Signal, Elapse, Shutdown, Drain,
         WaitReturns, Close, ListenerFails, ClosePool, Exit, Kill, vars, process
    <3>2. Quiet /\ Owned(m)
      BY <1>00, <2>1, <2>4, <3>1
    <3>3. row'[m] = row[m]
      BY <1>0, <2>2, <3>2 DEF RowInv, RowFits, Landed
    <3>4. QED
      BY <1>0, <1>1, <2>1, <3>2, <3>3, KeepsBehind
  <2>5. QED
    BY <1>1, <2>1, <2>3, <2>4
<1>7. ASSUME Restart, NEW m \in Matches
      PROVE  Goal(m)
  <2>1. /\ UNCHANGED <<database, mem>>
        /\ pc'[m] = IF pc[m] \in {"none", "request", "tx"} THEN "none" ELSE "orphan"
    BY <1>7 DEF Restart
  <2>2. pc[m] \in {"none", "request", "tx"} => mem[m] = Unstarted
    BY <1>0 DEF MemInv, MemFits, Requesting
  <2>3. QED
    BY <1>1, <2>1, <2>2 DEF OneBehind, database
<1>8. QED
  BY <1>4, <1>5, <1>6, <1>7, NextCases

\* While the server serves, what Service.Get reads of a match this process owns is what
\* its actor knows, but for the state or the turn the actor is about to write, unless
\* the database failed an UPDATE of it: "never more than one write behind"
\* (service.go:89).
THEOREM RowsFollowMemory == Spec => []RowsOneBehind
<1>1. Init => BehindInv
  BY DEF Init, BehindInv, RowsOneBehind, OneBehind
<1>2. ActorsInv /\ BehindInv /\ [Next]_vars => BehindInv'
  BY BehindStep
<1>3. BehindInv => RowsOneBehind
  BY DEF BehindInv
<1>4. QED
  BY <1>1, <1>2, <1>3, ActorsAlways, PTL DEF Spec
=============================================================================
