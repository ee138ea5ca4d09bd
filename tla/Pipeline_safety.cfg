SPECIFICATION Spec
CONSTANTS
    a = a
    b = b
    c = c
    p1 = p1
    p2 = p2
    Symbols = {a, b, c}
    Splits = {p1, p2}
    Partition <- MCPartition
    Ids = {1}
    Times = {1}
    MaxRecords = 4
    MaxCopies = 2
    MaxWipes = 1
SYMMETRY Symmetry
INVARIANTS
    TypeOK
    SilverComplete
    SilverDeterministic
PROPERTIES
    CopiesAreInvisible
    RowsOnlyGetNewer
CHECK_DEADLOCK FALSE
