CONSTANTS
    Files = {f1}
    Absent = Absent
    Workers = {w1, w2}
    MaxBlocks = 2
    MaxChanges = 2
    MaxSyncs = 1
SPECIFICATION Spec
SYMMETRY MCSymmetry
\* Changes and syncs are bounded: at the end everything rests.
CHECK_DEADLOCK FALSE
INVARIANTS
    TypeOK
    Converged
PROPERTIES
    ReportIsTrue
