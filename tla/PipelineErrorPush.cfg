\* No failure on our side; Suno may fail.
SPECIFICATION FairSpec
CONSTANTS
    Jobs = {j1}
    Tasks = {t1}
    Audios = {a1}
    MaxAttempts = 2
    PollFallback = TRUE
    MaxCallbacks = 1
    Faults = {}
    MaxFaults = 0
    NoTask = NoTask
    NoJob = NoJob
    NoMsg = NoMsg
CHECK_DEADLOCK FALSE
PROPERTIES
    FailureIsPushed
