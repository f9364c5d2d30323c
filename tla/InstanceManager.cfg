SPECIFICATION FairSpec
CONSTANTS
    i1 = i1
    i2 = i2
    bybit = bybit
    binance = binance
    kraken = kraken
    main = main
    Ids = {i1, i2}
    Exchanges = {bybit, binance, kraken}
    Registered = {bybit, binance}
    Keys = {k1, k2}
    Callers = {main, g1}
    Main = main
    ConfigEnabled = {bybit}
    DefaultId <- MCDefaultId
    Ops = {"start", "stop", "update", "close"}
    Modules = {m1, m2, m3}
    None = None
INVARIANTS
    TypeOK
    NoOrphanModule
    
    CheckedStillHolds
    OnlyCloseBlocks
PROPERTIES
    ImplementsRegistry
    CallsReturn
VIEW MCView
CHECK_DEADLOCK FALSE
