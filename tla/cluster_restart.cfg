CONSTANTS
  Leader = {1, 2}
  Client = {11, 12}
  MaxNumber = 4
  Duration = 1
  UnlockDuration = 1
  AliveTimeout = 1
  Obtention = 1
  UnlockWait = 1
  MaxEntering = 2
  Local <- OnOneAndTwo
  CheckAlive = TRUE
  Cancels = FALSE
  MaxTries = 2
  MaxTime = 1
  Identifier <- TwoIdentifiers
  Holder <- Nobody
  Mortal = {}
  Crashes = 0
  Restarts = 1
SPECIFICATION Spec
INVARIANTS
  InTurn
  LeadersKeepRunning
PROPERTIES
  ImplementsLock
\* Every client makes MaxTries attempts at most.
CHECK_DEADLOCK FALSE
