\* The deployed shape: one worker process; callbacks may be enqueued twice.
SPECIFICATION FairSpec
CONSTANTS
    Payloads = {p1, p2}
    Workers = {w1}
    MaxAttempts = 3
    MaxEnqueues = 2
    MaxCrashes = 1
    MaxErrors = 0
    NoMsg = NoMsg
CHECK_DEADLOCK FALSE
INVARIANTS
    ReservationBacked
PROPERTY
    EventuallySettled
