CONSTANTS
    Consumers = {c1, c2, c3}
    Values = 4
SPECIFICATION FairSpec
INVARIANTS
    TypeOK
    PoppedInOrder
    NoSleeperWithWork
PROPERTY
    PushedArePopped
