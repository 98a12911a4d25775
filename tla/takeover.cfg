CONSTANTS
  Leader = {1, 2, 3, 4}
  Client = {11}
  MaxNumber = 4
  Duration = 1
  UnlockDuration = 1
  AliveTimeout = 1
  Obtention = 1
  UnlockWait = 1
  MaxEntering = 2
  Local <- OnFour
  CheckAlive = TRUE
  Cancels = FALSE
  MaxTries = 1
  MaxTime = 1
  Identifier <- FourIdentifiers
  Holder <- ThroughOne
  Mortal = {1, 2}
  Crashes = 2
  Restarts = 0
SPECIFICATION Spec
INVARIANTS
  TypeOK
  LeadersKeepRunning
  HolderKnown
  OwnersAgree
  NotRefused
\* The client unlocks once and asks for nothing more.
CHECK_DEADLOCK FALSE
