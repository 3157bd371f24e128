CONSTANTS
    d1 = d1
    d2 = d2
    d3 = d3
    d4 = d4
    Dirs = {d1, d2, d3, d4}
    Config <- MCConfig
    AddArgs <- MCAddArgs
    Removable = {d3}
    EventOps = {"MODIFIED"}
    Slots = {s1}
    NoTask = NoTask
    WorkerLimit = 1
    QueueCapacity = 2
    MaxEvents = 1
    MaxWatch = 2
    MaxCrashes = 1
SPECIFICATION Spec
INVARIANTS
    TypeOK
    NoDirTwice
    WatchLeadsToPair
    ActiveIsWatched
    EventFindsItsPair
    SourceOnList
PROPERTIES
    PoolSpec
    LiveEventBecomesTask
