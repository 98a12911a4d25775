CONSTANTS
  L1 = L1
  L2 = L2
  L3 = L3
  Leader = {L1, L2, L3}
  Client = {1}
  MaxNumber = 4
  Duration = 1
  UnlockDuration = 1
  AliveTimeout = 1
  Obtention = 1
  UnlockWait = 1
  MaxEntering = 2
  Local <- Anywhere
  CheckAlive = TRUE
  Cancels = FALSE
  MaxTries = 1
  MaxTime = 1
SPECIFICATION FairSpec
INVARIANTS
  LeadersKeepRunning
PROPERTIES
  Served
\* Every client makes MaxTries attempts at most, and the dates end with MaxTime.
CHECK_DEADLOCK FALSE
