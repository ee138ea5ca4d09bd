SPECIFICATION Spec
CONSTANTS
    a = a
    b = b
    c = c
    p1 = p1
    p2 = p2
    Symbols = {a, b}
    Splits = {p1, p2}
    Partition <- MCPartition
    Ids = {1, 2}
    Times = {1}
    MaxRecords = 2
    MaxCopies = 2
    MaxWipes = 1
INVARIANT
    DistinctTradesKept
CHECK_DEADLOCK FALSE
