SPECIFICATION DSpec
CONSTANTS
    bybit = bybit
    kraken = kraken
    k1 = k1
    k2 = k2
    k3 = k3
    c1 = c1
    c2 = c2
    i1 = i1
    i2 = i2
    Creds = {c1, c2}
    Keys = {k1, k2, k3}
    Instances = {i1, i2}
    IPs = {a1}
    Workers = {w1}
    None = None
    Exchanges = {bybit, kraken}
    Unnamed = Unnamed
    ExchangeOf <- MCExchangeOf
    ChannelSize = 2
VIEW MCView
CONSTRAINT Bounds
INVARIANTS
    DTypeOK
    HoldsOnlyAssigned
    HeldAsReached
    HeldAsStored
PROPERTIES
    KeptUntilTold
