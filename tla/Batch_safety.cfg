SPECIFICATION Spec

CONSTANTS
    f1 = f1
    f2 = f2
    r1 = r1
    r2 = r2
    Files = {f1, f2}
    Runs = {r1, r2}
    Ints = {"int_ohlcv_1m", "int_rest_quotes_1m"}
    Reader <- MCReader
    Shares = {r1, r2}
    Syncs = {r2}
    Blind = FALSE
    Rule = FALSE
    Lifetime = 0
    MaxFaults = 3

INVARIANT
    TypeOK

PROPERTIES
    MartIsReplicated
    GoldMatchesBronze
    SyncDelivers

CHECK_DEADLOCK FALSE
