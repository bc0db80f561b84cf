SPECIFICATION SyncSpec
CONSTANTS
    DayLen = 2
    Overlap = 2
    Lookback = 1
    Settles = 1
    MaxHold = 1
    MaxTime = 4
    MaxRecords = 2
    EmptyToStop = 1
    Ranges <- MCRanges
    Campaigns = {c1, c2}
    LeadMonths = {1}
    Accounts = {a1, a2}
    AdsCallers = {worker, cli}
    MaxRuns = 2
    MaxVersion = 1
CONSTRAINT AtMostAHole
INVARIANT CoverageWasPulled
CHECK_DEADLOCK FALSE
