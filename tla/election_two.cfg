SPECIFICATION Spec
CONSTANTS
  Computer = {1, 2}
  Identifier <- TwoIdentifiers
  Off = {}
  Apart <- AllConnected
  Waiting = {1, 2}
  Losses = 2
  Restarts = 1
INVARIANTS
  TypeOK
  LeadersKnown
  NothingForgotten
  DownMeansNoLocks
PROPERTIES
  NewestElectionWins
\* The cluster comes to rest once everything is read and the bounds are used up.
CHECK_DEADLOCK FALSE
