SPECIFICATION Spec
CONSTANTS
    i1 = i1
    i2 = i2
    bybit = bybit
    binance = binance
    kraken = kraken
    main = main
    Ids = {i1, i2}
    Exchanges = {bybit, kraken}
    Registered = {bybit}
    Keys = {k1, k2}
    Callers = {main, g1}
    Main = main
    ConfigEnabled = {bybit}
    DefaultId <- MCDefaultId
    Ops = {"start", "stop", "update"}
    Modules = {m1, m2, m3}
    None = None
INVARIANTS
    ExistsMeansRunning
