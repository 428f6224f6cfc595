SPECIFICATION FairSpec
CONSTANTS
    w1 = w1
    w2 = w2
    Writers = {w1, w2}
    Stalled = {w2}
    MaxSubscribers = 2
    QueueCapacity = 1
    BatchSize = 1
    MaxPackets = 2
PROPERTIES
    CancelledEnds
    StopTerminates
    Delivered
