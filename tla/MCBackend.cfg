SPECIFICATION Spec
CONSTANTS
    w1 = w1
    w2 = w2
    Writers = {w1, w2}
    Stalled = {}
    MaxSubscribers = 2
    QueueCapacity = 2
    BatchSize = 2
    MaxPackets = 4
SYMMETRY WriterSymmetry
INVARIANTS
    TypeOK
    QueueBounds
    OneContinuation
    MapMatchesWriters
    InOrder
    LossOnlyByOverflow
PROPERTIES
    ImplementsBroadcast
