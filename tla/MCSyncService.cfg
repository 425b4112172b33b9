CONSTANTS
    UI = UI
    Alarm = Alarm
    Net = Net
    NoTask = NoTask
    Caller = {UI, Alarm}
    TaskId = {t1, t2, t3}
    RetryCount = 1
    MaxMsg = 1
    MaxLogin = 2
    NetFaults = TRUE
SPECIFICATION SyncSpec
INVARIANTS SyncTypeOK SingleFlight NeedReSyncOnlyWhileSyncing
PROPERTIES GateRefined ReportNeverLosesGate
SYMMETRY Symmetry
CHECK_DEADLOCK FALSE
