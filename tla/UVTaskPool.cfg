CONSTANTS
    Producers = {p1, p2}
    Stoppers = {s1}
    Kinds = {"once", "repeat", "cancel"}
    MaxPosts = 2
    Repeaters = {p1}
SPECIFICATION FairSpec
INVARIANTS
    TypeOK
    ExecutedInOrder
    BuffersDisjoint
    NoSendToClosedHandle
    DrainedBeforeEnd
    NoLostWakeup
    CancelledStaysCancelled
PROPERTIES
    QueuedTasksRun
    StopReturns
