CONSTANTS
    WsGateways = {w1}
    WssGateways = {s1, s2}
    Stranger = Stranger
    Malformed = Malformed
    NoGateway = NoGateway
    BadUrls = {s2}
    QueueLimit <- MCQueueLimit
    RateLimit <- MCRateLimit
    Batch = 2
    MaxMessages = 3
    MaxLosses = 1
    MaxSendErrors = 1
    MaxTicks = 1
SPECIFICATION FairSpec
INVARIANTS
    TypeOK
    OneLinkPerGateway
    QueueBelowLimit
    CountersBalance
    NoStrandedMessage
    AtMostOneCopy
    SourceOrderKept
PROPERTIES
    ImplementsLossyQueue
    QueuesDrain
    RoutedMessagesSettle
    Reconnects
