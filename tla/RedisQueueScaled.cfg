\* Two worker processes started at different times; no failure at all.
SPECIFICATION Spec
CONSTANTS
    Payloads = {p1}
    Workers = {w1, w2}
    MaxAttempts = 2
    MaxEnqueues = 1
    MaxCrashes = 0
    MaxErrors = 0
    NoMsg = NoMsg
CHECK_DEADLOCK FALSE
INVARIANT
    ExclusiveReservation
