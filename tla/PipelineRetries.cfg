\* One crash of the worker, or one failure of a call that is retried; callbacks may
\* come early.  Every loaded row stays in one pair of hands.
SPECIFICATION FairSpec
CONSTANTS
    Jobs = {j1}
    Tasks = {t1, t2}
    Audios = {a1, a2}
    MaxAttempts = 2
    PollFallback = TRUE
    MaxCallbacks = 1
    Faults = {"worker_crash", "generate", "reject", "write", "storage"}
    MaxFaults = 1
    NoTask = NoTask
    NoJob = NoJob
    NoMsg = NoMsg
CHECK_DEADLOCK FALSE
PROPERTIES
    FinalStays
    PushesMoveForward
    ImplementsLifecycle
    JobFinishes
    QueuedIsStarted
    ReadyIsPushed
