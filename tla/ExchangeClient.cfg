SPECIFICATION FairSpec
CONSTANTS
    btc = btc
    eth = eth
    NoSymbol = NoSymbol
    Symbols = {btc}
    MaxPairs = 2
    MaxBackoff = 2
    Exchange = "bybit"
    Private = TRUE
INVARIANTS
    TypeOK
    NeverClosesClosedChannel
    PublishedConnIsOpen
    SinglePairConnReachable
PROPERTIES
    NoDialAfterStop
    CancelDrains
    ClosedLoopExits
    LostConnectionRedials
CHECK_DEADLOCK FALSE
