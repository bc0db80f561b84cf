SPECIFICATION OperationsSpec
CONSTANTS
    MaxFirings = 2
    Scheduled <- Instances
    Overlaps <- MCOverlaps
    MaxUnsaved = 1
    MaxAttempts = 2
    DaysOfMonth = {1, 2}
    Absent = Absent
    Days = {d1, d2}
    Imports = {i1, i2}
    MaxEdits = 2
    Malformed = Malformed
    NoticedJobs = {j1, j2}
    NoThread = NoThread
    Tasks = {k1, k2}
    Mails = {m1, m2}
    MailPage = 1
    MaxLapses = 1
    Instants <- MCInstants
    Years = {2023, 2024, 2025}
INVARIANTS PostedOnce FiguresAreNotOverstated TokensAreBookedOnce NoticesStayInTheirThread RequestsAreTakenOnce PeriodsHoldTheirDates
PROPERTIES ImportedDaysStay
CHECK_DEADLOCK FALSE
