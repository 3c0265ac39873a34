SPECIFICATION Spec
CONSTANTS
    k1 = k1
    k2 = k2
    k3 = k3
    r1 = r1
    r2 = r2
    Kids = {k1, k2}
    Rotating = {k1}
    Requests = {r1, r2}
    Interval = 2
    DefaultTtl = 2
    MinTtl = 2
    MaxTtl = 3
    MaxAges = {4}
    StaleTtl = 1
    FetchTime = 1
    MaxTime = 5
    UnreadableKeyMayBeServed = TRUE
SYMMETRY Symmetry
INVARIANTS
    KnownKeyServed
