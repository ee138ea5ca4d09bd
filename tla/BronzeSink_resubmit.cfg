SPECIFICATION Spec
CONSTANTS
    Splits = {s1}
    Jobs = {j1, j2}
    MaxOffset = 2
    MaxFaults = 1
SYMMETRY Symmetry
INVARIANTS
    CheckpointCovers
    OncePerAttempt
PROPERTIES
    ImplementsArchive
CHECK_DEADLOCK FALSE
