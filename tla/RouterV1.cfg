CONSTANTS
    WsGateways = {w1}
    WssGateways = {s1, s2}
    Stranger = Stranger
    Malformed = Malformed
    NoGateway = NoGateway
    WsQueueLimit = 3
    WssQueueLimit = 3
    RateLimit = 1
    SendBatch = 1
    FlushBatch = 2
    MaxMessages = 3
    MaxFaults = 1
    MaxResets = 1
SPECIFICATION FairSpec
INVARIANTS
    TypeOK
    RateIsLimited
    SourceOrderKept
PROPERTIES
    QueuesDrain
