SPECIFICATION Spec
CONSTANTS
    w1 = w1
    w2 = w2
    Writers = {w1, w2}
    Stalled = {}
    MaxSubscribers = 1
    QueueCapacity = 1
    BatchSize = 1
    MaxPackets = 1
INVARIANT SubscriberLimit
