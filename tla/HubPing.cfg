\* One connection that pings.
SPECIFICATION FairSpec
CONSTANTS
    Clients = {c1}
    Buffer = 1
    Pong = Pong
    Error = Error
    NoPayload = NoPayload
    MaxEvents = 1
CHECK_DEADLOCK FALSE
PROPERTIES
    PingIsAnswered
