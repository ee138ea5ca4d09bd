SPECIFICATION Spec
CONSTANTS
    trades = trades
    depth = depth
    coingecko = coingecko
    Splits = {trades, depth, coingecko}
    Listed = {trades, depth}
    MaxOffset = 2
    MaxCopies = 1
CHECK_DEADLOCK FALSE
INVARIANT
    TypeOK
PROPERTY
    ReportedLagIsReal
