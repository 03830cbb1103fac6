CONSTANTS
    WsGateways = {w1}
    WssGateways = {s1}
    Stranger = Stranger
    Malformed = Malformed
    NoGateway = NoGateway
    WsQueueLimit = 3
    WssQueueLimit = 3
    RateLimit = 1
    SendBatch = 1
    FlushBatch = 2
    MaxMessages = 2
    MaxFaults = 0
    MaxResets = 1
SPECIFICATION FairSpec
PROPERTIES
    DelayedIsSent
