CONSTANTS
  Threshold = 4
  RecentWindow = 2
  BatchRows = 3
  Skew = 2
  Reuse = FALSE
  MaxRows = 8
SPECIFICATION Spec
INVARIANTS SummarySound NothingForgotten
CHECK_DEADLOCK FALSE
