SPECIFICATION FairSpec
CONSTANTS
    Missing = Missing
    NoRequest = NoRequest
    Forms <- MCForms
    Style <- MCStyle
    Untitled <- MCUntitled
    Channels = {c1, c2}
    MaxSubmits = 2
INVARIANTS TypeOK SubmittingIsBacked DialogIsBacked OneOutcome RefusedOnlyForLength
PROPERTIES PlayerStays ToldWaitEnds
CHECK_DEADLOCK FALSE
