SPECIFICATION Spec
CONSTANTS
    Loops = {l1, l2}
    Symbols = {btc}
    Updates <- MCUpdates
    MaxUpdates = 2
    MaxStamp = 1
    Garbage = Garbage
    None = None
SYMMETRY MCSymmetry
INVARIANTS
    TypeOK
    OnlySentOrders
    BeginningIsStored
