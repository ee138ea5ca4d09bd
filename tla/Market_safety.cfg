SPECIFICATION Spec
CONSTANTS
    PerMinute = 2
    Exchanges <- MCExchanges
    BaseAsset <- MCBaseAsset
    Unmapped = "none"
    Pairs = {"BTCUSDT", "PEPEUSDT"}
    Books = {"XBT-USDT", "ETH-USDT"}
    Coins <- MCCoins
    Times = {0, 1, 12}
    Prices = {1, 2}
    MaxTies = 2
    MaxEvents = 4
INVARIANTS
    TypeOK
    UniqueGrain
    ReportAgrees
    RebuildRepeats
PROPERTY
    LateEventsStayLocal
CHECK_DEADLOCK FALSE
