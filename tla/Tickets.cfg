CONSTANTS
  StepId = {"a", "b", "c", "d", "r", "t", "z", "end", "gone"}
  Field = {"f", "g"}
  Value = {"v1"}
  NoStep = NoStep
  NoField = NoField
  Always = Always
  Definitions <- Versions
  Edits = TRUE
  MaxDepth = 3
  MaxSnapshots = 2
  MaxRetries = 0
  MaxRuns = 2
SPECIFICATION Spec
INVARIANTS RunIsolation
PROPERTIES GateConfirmed LivesAsPromised
CHECK_DEADLOCK FALSE
