CONSTANTS
    Producers = {p1, p2}
    Executors = {x1}
    BatchSize = 2
    PoolLimit = 1
    MaxAdds = 2
SPECIFICATION FairSpec
INVARIANTS
    TypeOK
    ProducerOrderKept
    NothingLeftAfterFlush

    
