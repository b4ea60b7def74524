SPECIFICATION Spec
CHECK_DEADLOCK FALSE
CONSTANTS
  Nil = Nil
  Unbound = Unbound
  v1 = v1
  v2 = v2
  bad = bad
  true = true
  false = false
  dashed = dashed
  message = message
  MaxArgs = 3
  MaxFlatArgs = 5
  Root = "root"
  Garbled = "num=v"
  Hyphenated <- Hyphens
  Commands <- Three
  Options <- TreeOptions
  Arguments <- TreeArguments
  options <- TreeLocals
  globals <- TreeGlobals
  arguments <- TreeArgs
  commands <- TreeCommands
  called <- TreeCalled
  flag <- TreeFlag
  writes <- TreeWrites
  Names <- TreeNames
  Values <- MCValues
  TrueValue = true
  FalseValue = false
  OptionText = dashed
  MessageText = message
  KeyOf <- MCKeyOf
  ArgLists <- TreeLines
INVARIANTS TypeOK ReadInOrder ExcessEndsOptions FilledInOrder RequirementsMet ContextAsGiven
PROPERTIES ReadsTheLine Terminates
