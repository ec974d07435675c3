SPECIFICATION FairSpec
CONSTANTS
    Missing = Missing
    NoRequest = NoRequest
    Forms <- MCForms
    Style <- MCStyle
    Untitled <- MCUntitled
    Channels = {c1}
    MaxSubmits = 1
PROPERTIES WaitEnds
CHECK_DEADLOCK FALSE
