CONSTANTS
    Net = Net
    NoTask = NoTask
    Caller = {ui}
    TaskId = {t1, t2}
    RetryCount = 1
SPECIFICATION FairNetSpec
PROPERTIES EndedTaskCallsBack
CHECK_DEADLOCK FALSE
