\* One doubles match through failing and late writes, stops, shutdown, kills and
\* restarts, under the fairness of the Go scheduler and the clock.
\* Matches run out and processes stop: deadlock is not an error.
CONSTANTS
  Matches = {m1}
  PlayersPerSide = 2
  NoTurn = NoTurn
  InboxCapacity = 1
SPECIFICATION FairSpec
CHECK_DEADLOCK FALSE
INVARIANTS
  TypeOK
  RegistryCountsActors
  RowsOneBehind
  FinishedMatchesAreOver
PROPERTIES
  ActorsFollowLifecycle
  EndedRowsAreFinal
  EveryPlayerGetsTheTurn
  ActorsStop
  ShutdownEnds
