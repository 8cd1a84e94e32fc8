CONSTANTS
  Threshold = 4
  RecentWindow = 2
  BatchRows = 3
  Skew = 2
  Reuse = TRUE
  MaxRows = 8
SPECIFICATION Spec
INVARIANTS DeletedIsForgotten
CHECK_DEADLOCK FALSE
