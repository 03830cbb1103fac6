CONSTANTS
    Producers = {p1}
    Executors = {x1, x2}
    BatchSize = 2
    PoolLimit = 1
    MaxAdds = 3
SPECIFICATION Spec
INVARIANT
    FinishedMeansAllRan
