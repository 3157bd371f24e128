CONSTANTS
    d1 = d1
    d2 = d2
    d3 = d3
    d4 = d4
    Dirs = {d1, d2, d3, d4}
    Config <- MCConfig
    AddArgs <- MCAddArgs
    Removable = {d1}
    EventOps = {"MODIFIED"}
    Slots = {s1, s2}
    NoTask = NoTask
    WorkerLimit = 2
    QueueCapacity = 2
    MaxEvents = 1
    MaxWatch = 3
    MaxCrashes = 0
SPECIFICATION Spec
PROPERTIES
    SyncInProgressIgnored
