CONSTANTS
    Workers = {w1, w2}
    MaxActive = 2
    ErrorCapacity = 4
    MaxFiles = 1
    MaxKills = 1
SPECIFICATION FairSpec
\* Every worker runs once: the system comes to a stop.
CHECK_DEADLOCK FALSE
INVARIANTS
    TypeOK
    NoQueueLeft
    MessagesOfTheLiving
    OwnErrors
PROPERTIES
    WorkersEnd
