CONSTANTS
    PoolSize = 7
    Padding = 4
    MaxLength = 3
    Lengths = {1, 2, 3, 6}
    MaxOffset = 24
SPECIFICATION Spec
INVARIANTS
    TypeOK
    ViewsIntact
    AllSpaceReturns
