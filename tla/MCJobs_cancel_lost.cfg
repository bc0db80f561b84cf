SPECIFICATION Spec
CONSTANTS
  Jobs = {j1}
  Requests = {r1}
  NumStages = 3
  Gate = 2
  MaxAttempts = 1
  SharedNested = FALSE
  StoreFaults = FALSE
  MaxCrashes = 0
PROPERTIES
  CancelStopsFurtherStages
CHECK_DEADLOCK FALSE
