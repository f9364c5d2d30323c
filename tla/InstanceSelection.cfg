SPECIFICATION FairSpec
CONSTANTS
    N = 2
    MaxInt = 2
INVARIANTS
    TypeOK
    SelectsLeastLoaded
    SelectsLeastOfSeen
PROPERTIES
    SelectionAnswers
