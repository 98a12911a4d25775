SPECIFICATION FairSpec
CONSTANTS
  Computer = {1, 2, 3}
  Identifier <- ThreeIdentifiers
  Off = {}
  Apart <- OneAndTwoApart
  Waiting = {1}
  Losses = 0
  Restarts = 0
INVARIANTS
  OneElector
  KnowsItself
PROPERTIES
  EventuallyReady
\* The cluster comes to rest once everything is read and the bounds are used up.
CHECK_DEADLOCK FALSE
