\* Two workers share the queue; two commands may fail or lose their reply, which
\* also leaves equal copies of a message.
SPECIFICATION Spec
CONSTANTS
    Payloads = {p1, p2}
    Workers = {w1, w2}
    MaxAttempts = 3
    MaxEnqueues = 1
    MaxCrashes = 1
    MaxErrors = 2
    NoMsg = NoMsg
SYMMETRY Symmetry
CHECK_DEADLOCK FALSE
INVARIANTS
    TypeOK
    Conservation
    AttemptsLeft
PROPERTIES
    DeadLettersStay
    ImplementsPromise
