SPECIFICATION AdminSpec
CONSTANTS
  Admin = {a1, a2}
  Body <- MCBody
  Ids <- MCIds
  OwnTools = {"mine"}
  MaxSteps = 3
  MaxRequests = 3
  MaxDepth = 3
  Text <- ToString
SYMMETRY Symmetric
CHECK_DEADLOCK FALSE
INVARIANTS DefinitionsSound CycleCheckExact
