SPECIFICATION Spec
CONSTANTS
    Task = {t1, t2}
    SendOnly = {t2}
    NoTask = NoTask
    RetryCount = 1
    MaxBacklog = 1
INVARIANTS
    LinkTypeOK
    WholeRequests
    FramesWhole
    StatusTrue
    RunningHasFate
    AnswerToLastSending
PROPERTIES
    LifeSpec
