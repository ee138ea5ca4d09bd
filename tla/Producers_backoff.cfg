SPECIFICATION Spec
CONSTANTS
    Binance = binance
    Kraken = kraken
    CoinGecko = coingecko
    CryptoCompare = cryptocompare
    Pollers = {cryptocompare}
    Ids = 1
    Base = 1
    Cap = 2
    MaxInputs = 1
    MaxRetries = 1
    MaxFaults = 0
PROPERTY
    DropsAreFollowedByBackoff
CHECK_DEADLOCK FALSE
