SPECIFICATION Spec
CONSTANTS
    btc = btc
    eth = eth
    NoSymbol = NoSymbol
    Symbols <- MCSymbols
    MaxPairs = 2
    MaxBackoff = 1
    Exchange = "binance"
    Private = FALSE
SYMMETRY MCSymmetry
INVARIANTS
    BooksUnderOwnSymbol
CHECK_DEADLOCK FALSE
