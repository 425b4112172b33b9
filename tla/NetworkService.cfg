CONSTANTS
    Net = Net
    NoTask = NoTask
    Caller = {ui, alarm}
    TaskId = {t1, t2}
    RetryCount = 1
SPECIFICATION FairNetSpec
INVARIANTS NetTypeOK TableMatchesMars PTaskAlive
PROPERTIES EveryTaskReleased TableLifeSpec
CHECK_DEADLOCK FALSE
