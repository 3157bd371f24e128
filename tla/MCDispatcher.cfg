CONSTANTS
    Tasks = {t1, t2, t3, t4, t5}
    NoTask = NoTask
    Pids = {p1, p2, p3}
    WorkerLimit = 2
    QueueCapacity = 2
    MaxBatch = 3
SPECIFICATION Spec
SYMMETRY Symmetry
\* The manager exits, or sleeps in msgsnd with nobody to wake it: the system
\* may stop.
CHECK_DEADLOCK FALSE
INVARIANTS
    TypeOK
    BookkeepingExact
    WorkConserving
    LimitRespected
    ZombieFlagged
    TaskOnce
    NothingLeftToReap
PROPERTIES
    PoolSpec
    LostOnlyAtFullQueue
