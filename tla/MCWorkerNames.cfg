CONSTANTS
    Workers = {w1, w2}
    MaxActive = 2
    ErrorCapacity = 3
    MaxFiles = 1
    MaxKills = 0
SPECIFICATION Spec
SYMMETRY Symmetry
\* Every worker runs once: the system comes to a stop.
CHECK_DEADLOCK FALSE
INVARIANTS
    NamesItsFile
