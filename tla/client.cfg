CONSTANTS
  Obtention = 1
  Duration = 1
  UnlockDuration = 1
  UnlockWait = 1
  MaxSent = 2
  MaxMail = 2
SPECIFICATION FairSpec
INVARIANTS
  TypeOK
  OneFinally
  NeverStuck
PROPERTIES
  EveryLockEnds
