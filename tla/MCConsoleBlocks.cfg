CONSTANTS
    d1 = d1
    d2 = d2
    Dirs <- MCDirs
    Config <- MCConfig
    Commands <- MCShortCommands
    NoCommand = NoCommand
    MaxCommands = 1
    MaxSessions = 1
    MaxStarts = 1
    MaxClock = 0
SPECIFICATION HeardSpec
\* One command is sent: at the end all may rest.
CHECK_DEADLOCK FALSE
PROPERTIES
    ConsoleReturns
