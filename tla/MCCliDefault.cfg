SPECIFICATION Spec
CHECK_DEADLOCK FALSE
CONSTANTS
  Nil = Nil
  Unbound = Unbound
  v1 = v1
  v2 = v2
  bad = bad
  true = true
  false = false
  dashed = dashed
  message = message
  MaxArgs = 3
  MaxFlatArgs = 3
  Root = "root"
  Garbled = "num=v"
  Hyphenated = {}
  Commands <- Two
  Options <- QuirkOptions
  Arguments <- QuirkArguments
  options <- QuirkLocals
  globals <- QuirkGlobals
  arguments <- QuirkArgs
  commands <- QuirkCommands
  called <- QuirkCalled
  flag <- QuirkFlag
  writes <- QuirkWrites
  Names <- QuirkNames
  Values <- MCValues
  TrueValue = true
  FalseValue = false
  OptionText = dashed
  MessageText = message
  KeyOf <- MCKeyOf
  ArgLists <- QuirkLines
INVARIANT GivenValueWins
