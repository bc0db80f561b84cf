SPECIFICATION Spec
CONSTANTS
  Jobs = {j1}
  Requests = {r1}
  NumStages = 3
  Gate = 2
  MaxAttempts = 2
  SharedNested = FALSE
  StoreFaults = TRUE
  MaxCrashes = 1
INVARIANTS
  TypeOK
  NothingRunsUnapproved
  RowIsCoherent
  AckedDecisionWins
  EntryIsOpen
PROPERTIES
  EndedJobsStay
CHECK_DEADLOCK FALSE
