SPECIFICATION Spec
CONSTANTS
  Characters <- MCCharacters
  Letters = {"a", "A", "X"}
  Lower <- MCLower
  None = None
  Inputs <- MCInputs
  Others <- MCOthers
  Names <- MCNames
  Templates <- MCTemplates
  Cwd <- MCCwd
  MaxLen = 5
  MaxInput = 6
  MaxBody = 2
INVARIANTS SplitOrdered PartsReadBack ResolvesComponents NormalizesOnce 
PROPERTIES MostComparisonsEnd
CHECK_DEADLOCK FALSE
