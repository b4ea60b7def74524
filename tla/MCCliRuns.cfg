SPECIFICATION Spec
CONSTANTS
  Nil = Nil
  Names = {"app", "help", "version", "other", "make", "all"}
  App <- Root
  Own <- Plain
  Versioned <- RootOnly
  Failing <- FailingOnly
  short <- Shorts
  HideChoices <- Hiding
  Lines <- AllLines
  MaxRuns = 4
INVARIANTS NoDuplicates TreeWired RunsAgree
CHECK_DEADLOCK FALSE
