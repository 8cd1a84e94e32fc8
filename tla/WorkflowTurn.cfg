CONSTANTS
  StepId = {"a", "b", "c", "d", "r", "t", "z", "end", "gone"}
  Field = {"f", "g"}
  Value = {"v1", "v2"}
  NoStep = NoStep
  NoField = NoField
  Always = Always
  Definitions <- Shapes
  Edits = FALSE
  MaxDepth = 3
  MaxSnapshots = 2
  MaxRetries = 1
  MaxRuns = 1
SPECIFICATION FairSpec
INVARIANTS NoPhantomEvents AnnouncedHonestly
PROPERTIES OnlyWhatWasAsked TurnEnds
CHECK_DEADLOCK FALSE
