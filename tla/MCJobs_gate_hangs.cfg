SPECIFICATION FairSpec
CONSTANTS
  Jobs = {j1}
  Requests = {}
  NumStages = 3
  Gate = 2
  MaxAttempts = 2
  SharedNested = FALSE
  StoreFaults = TRUE
  MaxCrashes = 0
PROPERTIES
  GateNeverHangs
CHECK_DEADLOCK FALSE
