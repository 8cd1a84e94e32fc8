CONSTANTS
  Request = {r1, r2, r3}
  Session = {"s1"}
  Key = {"k1", "k2"}
  None = None
  Asks <- Meeting
  MaxInvokes = 2
  MaxEntries = 1
SPECIFICATION FairSpec
INVARIANTS TurnsSerialized NothingLeaks RepliesSound
PROPERTIES EveryoneLeaves
CHECK_DEADLOCK FALSE
