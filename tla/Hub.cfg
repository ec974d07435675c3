\* One connection, a buffer of two, four updates.
SPECIFICATION FairSpec
CONSTANTS
    Clients = {c1}
    Buffer = 2
    Pong = Pong
    Error = Error
    NoPayload = NoPayload
    MaxEvents = 4
CHECK_DEADLOCK FALSE
INVARIANTS
    TypeOK
    HubNeverPanics
    NoSilentGap
PROPERTIES
    SlowClientIsCut
    NothingLeaks
