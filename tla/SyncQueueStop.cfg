CONSTANTS
    Consumers = {c1}
    Values = 2
SPECIFICATION FairSpec
PROPERTY
    ConsumersEnd
