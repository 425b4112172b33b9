SPECIFICATION FairSpec
CONSTANTS
    Task = {t1}
    SendOnly = {}
    NoTask = NoTask
    RetryCount = 1
    MaxBacklog = 0
PROPERTIES
    JoinEnds
    HearsOrDrops
    LinkComesBack
