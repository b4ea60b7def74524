SPECIFICATION Spec
CONSTANTS
  Threshold = 1024
  Header = 8
  MaxSize = 10000
  MaxBlocks = 3
  None = None
  Gone = Gone
  Junk = Junk
  Lengths <- MCLengths
INVARIANTS TypeOK NeverOverrun StringWasThere AllGivenBack
PROPERTIES OnlyOwnBlocks CallsEnd
