SPECIFICATION OperationsSpec
CONSTANTS
    MaxFirings = 1
    Scheduled <- Instances
    Overlaps <- MCOverlaps
    MaxUnsaved = 0
    MaxAttempts = 1
    DaysOfMonth = {2}
    Absent = Absent
    Days = {d1}
    Imports = {i1}
    MaxEdits = 0
    Malformed = Malformed
    NoticedJobs = {j1}
    NoThread = NoThread
    Tasks = {k1}
    Mails = {m1}
    MailPage = 1
    MaxLapses = 0
    Instants <- MCInstants
    Years = {2023, 2024, 2025}
INVARIANTS HvacMonthEndsYesterday
CHECK_DEADLOCK FALSE
