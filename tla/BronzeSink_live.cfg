SPECIFICATION FairSpec

CONSTANTS
    Splits = {s1, s2}
    Jobs = {j1}
    MaxOffset = 1
    MaxFaults = 2

INVARIANTS
    TypeOK
    CheckpointCovers
    ReplayBounded

PROPERTIES
    CheckpointsAdvance
    EventuallyArchived

CHECK_DEADLOCK FALSE
