SPECIFICATION Spec
CONSTANTS
  None = None
  Descriptors <- MCDescriptors
  Signatures <- MCSignatures
  Frames <- MCFrames
  Places = {1, 2}
  Custom = {"own", "file"}
INVARIANTS EveryAlternativeCounts
