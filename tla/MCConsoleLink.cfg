CONSTANTS
    d1 = d1
    d2 = d2
    Dirs <- MCDirs
    Config <- MCConfig
    Commands <- MCCommands
    NoCommand = NoCommand
    MaxCommands = 2
    MaxSessions = 2
    MaxStarts = 2
    MaxClock = 2
SPECIFICATION HeardSpec
\* Commands, sessions, starts and seconds are bounded: at the end all may rest.
CHECK_DEADLOCK FALSE
INVARIANTS
    TypeOK
    InStep
    ListsAreTrue
    ListsPartition
    StatusAgreesWithListAll
PROPERTIES
    ShortAnswersReturn
