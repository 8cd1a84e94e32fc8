CONSTANTS
  QueueSize = 3
  MaxDeltas = 6
  Legacies = {TRUE, FALSE}
SPECIFICATION FairSpec
INVARIANTS NothingOutlivesItsLock EndsWithVerdict
PROPERTIES GivesBack
CHECK_DEADLOCK FALSE
