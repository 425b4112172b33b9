CONSTANTS
    UI = UI
    Net = Net
    NoTask = NoTask
    NoUser = NoUser
    Caller = {UI}
    TaskId = {t1, t2, t3}
    User = {u1, u2}
    RetryCount = 1
    MaxLogin = 2
    MaxSend = 1
    MaxPack = 4
SPECIFICATION LoginSpec
INVARIANTS LoginTypeOK AnswerFitsTask TicketOfNumber OneMainWindow
SYMMETRY Symmetry
CHECK_DEADLOCK FALSE
