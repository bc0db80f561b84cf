SPECIFICATION Spec
CONSTANTS
  Jobs = {j1}
  Requests = {}
  NumStages = 3
  Gate = 2
  MaxAttempts = 2
  SharedNested = FALSE
  StoreFaults = TRUE
  MaxCrashes = 1
PROPERTIES
  ImplementsLifecycle
CHECK_DEADLOCK FALSE
