SPECIFICATION Spec
CONSTANTS
  Characters <- MCCharacters
  Letters = {"a", "A", "X"}
  Lower <- MCLower
  None = None
  Inputs <- MCInputs
  Others <- MCOthers
  Names <- MCNames
  Templates <- MCTemplates
  Cwd <- MCCwd
  MaxLen = 3
  MaxInput = 3
  MaxBody = 1

PROPERTY EveryComparisonEnds
CHECK_DEADLOCK FALSE
