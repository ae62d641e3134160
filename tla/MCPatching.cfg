SPECIFICATION Spec
CONSTANTS
  Sids <- MCOne
  Me = 5
  Documents <- MCDocuments
  Targets <- MCTargets
  Paths <- MCPaths
  Sources <- MCSources
  Values <- MCValues
  Texts <- MCTexts
  MaxSteps = 2
INVARIANTS
  ShowsJson
  AgreesWithValues
  CodecsAgree
  FailuresLeaveNothing
  DiffReaches
