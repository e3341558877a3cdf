SPECIFICATION Spec
CONSTANTS
    p1 = p1
    p2 = p2
    p3 = p3
    self = p1
    Peer = {p2, p3}
    NoData = NoData
    Settings <- SomeSettings
    exponential_retry_base = 100
    exponential_retry_max = 60000
INVARIANTS
    BackoffDoubles
    FileIsCurrent
    DiskStopsAtFirstBlock
    ThresholdsInForce
    
