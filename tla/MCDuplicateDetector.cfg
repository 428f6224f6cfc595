SPECIFICATION Spec
CONSTANTS
    Names = {"a"}
    Starts <- MCStarts
    Counts <- MCCounts
    Rates <- MCRates
    SetLast = "size"
    CircularBufferSize = 2
    CircularBufferDuration = 300
    MaxCalls = 6
INVARIANTS
    TypeOK
    Sorted
    OneRate
    DisjointUnlessNested
PROPERTIES
    NoReadmissionUnlessNested
    ForwardIsAllowed
CHECK_DEADLOCK FALSE
