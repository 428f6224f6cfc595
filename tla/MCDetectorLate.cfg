SPECIFICATION Spec
CONSTANTS
    Names = {"a"}
    Starts <- MCStarts
    Counts <- MCCounts
    Rates <- MCRates
    SetLast = "size"
    CircularBufferSize = 2
    CircularBufferDuration = 300
    MaxCalls = 4
PROPERTY AnyOrderIsAllowed
CHECK_DEADLOCK FALSE
