------------------------------ MODULE MatchModel ------------------------------
(***************************************************************************)
(* The values and pure functions of internal/matches: the state diagram of *)
(* a match (model.go) and the order of turns (turn.go).                    *)
(***************************************************************************)
EXTENDS Naturals, FiniteSets

CONSTANTS
  Matches,        \* the matches, by id
  PlayersPerSide, \* Mode.PlayersPerSide: 1 in a duel, 2 in doubles
  NoTurn          \* Match.Turn is nil

ASSUME MatchesAssumption == IsFiniteSet(Matches)
ASSUME PlayersAssumption == PlayersPerSide \in {1, 2}

States == {"waiting", "starting", "in_progress", "paused",
           "completed", "cancelled", "abandoned"}

Terminal == {"completed", "cancelled", "abandoned"}

\* legalTransitions: the states a match may go to from each state.
LegalFrom ==
  [s \in States |->
     CASE s = "waiting"     -> {"starting"}
       [] s = "starting"    -> {"in_progress", "cancelled", "abandoned"}
       [] s = "in_progress" -> {"completed", "paused", "cancelled", "abandoned"}
       [] s = "paused"      -> {"in_progress", "cancelled", "abandoned"}
       [] OTHER             -> {}]

\* TurnRef: a side and a player of that side.
Turns == [side : {0, 1}, idx : 0 .. PlayersPerSide - 1]

ASSUME NoTurnAssumption == NoTurn \notin Turns

FirstTurn == [side |-> 0, idx |-> 0]

\* Faulty variant: the player index is not brought back to the side's first.
NextTurnUnwrapped(t) ==
  LET n == t.idx * 2 + t.side + 1
  IN  [side |-> n % 2, idx |-> n \div 2]

\* Faulty variant: each side keeps its first player.
NextTurnStuck(t) ==
  LET n == t.idx * 2 + t.side + 1
  IN  [side |-> n % 2, idx |-> t.idx]

\* nextTurn: the turn after number idx * 2 + side, taken apart again.
NextTurn(t) ==
  LET n == t.idx * 2 + t.side + 1
  IN  [side |-> n % 2, idx |-> (n \div 2) % PlayersPerSide]
=============================================================================
