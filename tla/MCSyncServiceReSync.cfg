CONSTANTS
    UI = UI
    Alarm = Alarm
    Net = Net
    NoTask = NoTask
    Caller = {UI, Alarm}
    TaskId = {t1, t2, t3}
    RetryCount = 0
    MaxMsg = 1
    MaxLogin = 2
    NetFaults = FALSE
SPECIFICATION FairSyncSpec
PROPERTIES ReSyncFollows
CHECK_DEADLOCK FALSE
