SPECIFICATION Spec
CONSTANTS
  Jobs = {j1}
  Requests = {}
  NumStages = 3
  Gate = 2
  MaxAttempts = 1
  SharedNested = FALSE
  StoreFaults = FALSE
  MaxCrashes = 0
INVARIANTS
  ConfirmedClickIsFollowed
CHECK_DEADLOCK FALSE
