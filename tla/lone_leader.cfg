CONSTANTS
  L1 = L1
  Leader = {L1}
  Client = {1, 2, 3}
  MaxNumber = 2
  Duration = 1
  UnlockDuration = 1
  AliveTimeout = 1
  Obtention = 1
  UnlockWait = 1
  MaxEntering = 2
  Local <- Anywhere
  CheckAlive = TRUE
  Cancels = FALSE
  MaxTries = 1
  MaxTime = 3
SPECIFICATION Spec
INVARIANTS
  TypeOK
  OneGrant
  MutualExclusion
  InTurn
PROPERTIES
  ImplementsLock
\* Every client makes MaxTries attempts at most, and the dates end with MaxTime.
CHECK_DEADLOCK FALSE
