SPECIFICATION FairSpec
CONSTANTS
    btc = btc
    eth = eth
    NoSymbol = NoSymbol
    Symbols = {btc}
    MaxPairs = 1
    MaxBackoff = 1
    Exchange = "binance"
    Private = FALSE
PROPERTIES
    StopDrains
CHECK_DEADLOCK FALSE
