SPECIFICATION Spec
CONSTANTS
    Loops = {l1}
    Symbols = {btc}
    Updates <- MCUpdates
    MaxUpdates = 2
    MaxStamp = 1
    Garbage = Garbage
    None = None
INVARIANTS
    SavedIsStored
