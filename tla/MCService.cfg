SPECIFICATION FairSpec
CONSTANTS
    p1 = p1
    s1 = s1
    Publishers = {p1}
    Subscribers = {s1}
    Stalled = {s1}
    MaxPublishers = 1
    MaxInvalid = 0
    ImportCapacity = 1
    RemoveDuplicates = TRUE
    MaxSubscribers = 1
    ExportCapacity = 1
    BatchSize = 1
    MaxPackets = 3
INVARIANTS
    EndToEnd
    NoneTurnedAway
    ExitIsOrderly
    ProvidersOutlive
PROPERTIES
    SignalStops
    ProxySpec
    BackendSpec
