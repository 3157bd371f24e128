CONSTANTS
    Tasks = {t1, t2, t3}
    NoTask = NoTask
    Pids = {p1, p2}
    WorkerLimit = 1
    QueueCapacity = 3
    MaxBatch = 3
SPECIFICATION BusySpec
\* The manager exits and its workers end: the system may stop.
CHECK_DEADLOCK FALSE
PROPERTIES
    FinishedIsReaped
    AskedIsLogged
    ShutdownCompletes
