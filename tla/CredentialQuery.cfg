SPECIFICATION QSpec
CONSTANTS
    Creds = {c1}
    Keys = {k1, k2}
    Instances = {i1, i2}
    IPs = {a1}
    Workers = {w1, w2}
    None = None
SYMMETRY MCSymmetry
INVARIANTS
    TypeOK
    AgreeUnlessTorn
    QTypeOK
    QueryIsExact
    BoundIsReadable
PROPERTIES
    ImplementsLifecycle
