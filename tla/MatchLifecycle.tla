---------------------------- MODULE MatchLifecycle ----------------------------
(***************************************************************************)
(* What a match promises its players, without goroutines, rows or failures: *)
(* it moves along the diagram of model.go and nowhere else, a turn is dealt *)
(* before play begins, passes to the next player while it lasts, and stays  *)
(* where it is once play has stopped.                                      *)
(***************************************************************************)
EXTENDS MatchModel

VARIABLES
  state,  \* state[m]: the lifecycle position
  turn    \* turn[m]: whose turn it is

vars == <<state, turn>>

Init ==
  /\ state = [m \in Matches |-> "waiting"]
  /\ turn = [m \in Matches |-> NoTurn]

Deal(m) ==
  /\ state[m] = "starting"
  /\ turn[m] = NoTurn
  /\ turn' = [turn EXCEPT ![m] = FirstTurn]
  /\ UNCHANGED state

Change(m, to) ==
  /\ to \in LegalFrom[state[m]]
  /\ to = "in_progress" => turn[m] # NoTurn
  /\ state' = [state EXCEPT ![m] = to]
  /\ UNCHANGED turn

Pass(m) ==
  /\ state[m] = "in_progress"
  /\ turn' = [turn EXCEPT ![m] = NextTurn(turn[m])]
  /\ UNCHANGED state

Next ==
  \E m \in Matches :
    \/ Deal(m)
    \/ \E to \in States : Change(m, to)
    \/ Pass(m)

Spec == Init /\ [][Next]_vars
=============================================================================
