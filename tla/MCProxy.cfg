SPECIFICATION FairSpec
CONSTANTS
    Publishers = {p1, p2}
    p1 = p1
    p2 = p2
    QueueCapacity = 2
    RemoveDuplicates = TRUE
    MaxPackets = 3
INVARIANTS
    TypeOK
    Accounted
    PublisherOrder
    LossNeedsPressure
PROPERTIES
    StopTerminates
    QueueDrains
    ImplementsRelay
