SPECIFICATION AssistantSpec
CONSTANTS
    McTasks = {t1}
    McStages <- MCStages
    McMaxAttempts = 2
    ToolCallers = {q1}
    PageSize = 1
    RowCap = 2
    MaxSource = 4
    ToolAttempts = 2
    SlackMessages <- MCMessages
    MaxDeliveries = 2
    MaxAsked = 1
    MaxRestarts = 1
    MaxIterations = 1
    MaxImages = 2
    MaxImageBytes = 2
    MaxTotalBytes = 3
INVARIANTS McNothingUngated McRerunsAreOwed AnswersAreWholeOrFlagged WritesAreReported CallsAreAuditedOnce AnsweredOnce AckedIsAnswered ImagesFit
PROPERTIES AnswersEnd
CHECK_DEADLOCK FALSE
