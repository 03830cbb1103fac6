CONSTANTS
    Producers = {p1, p2}
    Consumers = {c1, c2}
    Solo = c1
    PoolLimit = 1
    MaxPosts = 2
SPECIFICATION FairSpec
INVARIANTS
    TypeOK
    VectorsDisjoint
    RunInOrder
    NoLostWakeup
PROPERTY
    PostedTasksRun
