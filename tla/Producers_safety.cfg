SPECIFICATION FairSpec

CONSTANTS
    Binance = binance
    Kraken = kraken
    CoinGecko = coingecko
    CryptoCompare = cryptocompare
    Pollers = {coingecko}
    Ids = 2
    Base = 2
    Cap = 3
    MaxInputs = 2
    MaxRetries = 1
    MaxFaults = 2

INVARIANTS
    TypeOK
    NoLossUndisturbed
    BackoffFollowsRetries

PROPERTIES
    FailedTaskComesBack
    StopTerminates

CHECK_DEADLOCK FALSE
