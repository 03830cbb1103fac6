CONSTANTS
    WsGateways = {w1}
    WssGateways = {s1}
    Stranger = Stranger
    Malformed = Malformed
    NoGateway = NoGateway
    BadUrls = {}
    QueueLimit <- MCQueueLimit
    RateLimit <- MCRateLimit
    Batch = 1
    MaxMessages = 3
    MaxLosses = 1
    MaxSendErrors = 1
    MaxTicks = 1
SPECIFICATION Spec
INVARIANTS
    RouteIsSafe
