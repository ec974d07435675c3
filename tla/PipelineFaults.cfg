\* One job, every kind of failure, any two of them.
SPECIFICATION Spec
CONSTANTS
    Jobs = {j1}
    Tasks = {t1, t2}
    Audios = {a1, a2}
    MaxAttempts = 2
    PollFallback = TRUE
    MaxCallbacks = 1
    Faults <- FaultKinds
    MaxFaults = 2
    NoTask = NoTask
    NoJob = NoJob
    NoMsg = NoMsg
SYMMETRY Symmetry
CHECK_DEADLOCK FALSE
INVARIANTS
    TypeOK
    ReadyHasTracks
    PushIsComplete
PROPERTIES
    NoneAbandoned
    GenerateOnce
