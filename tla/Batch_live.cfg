SPECIFICATION FairSpec

CONSTANTS
    f1 = f1
    f2 = f2
    r1 = r1
    r2 = r2
    Files = {f1}
    Runs = {r1, r2}
    Ints = {"int_ohlcv_1m"}
    Reader <- MCTrades
    Shares = {r1}
    Syncs = {}
    Blind = TRUE
    Rule = TRUE
    Lifetime = 4
    MaxFaults = 2

PROPERTIES
    BronzeIsReplicated
    EverythingIsReported
    OnlyTheRuleTakesBack

CHECK_DEADLOCK FALSE
