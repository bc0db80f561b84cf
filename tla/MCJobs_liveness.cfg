SPECIFICATION FairSpec
CONSTANTS
  Jobs = {j1}
  Requests = {r1}
  NumStages = 3
  Gate = 2
  MaxAttempts = 2
  SharedNested = TRUE
  StoreFaults = FALSE
  MaxCrashes = 0
INVARIANTS
  GateHasResolver
  RejectionIsFinal
  PublishSeesApiApproval
PROPERTIES
  RunnersReturn
  JobsSettle
CHECK_DEADLOCK FALSE
