SPECIFICATION Spec
CONSTANTS
    k1 = k1
    k2 = k2
    k3 = k3
    r1 = r1
    r2 = r2
    Kids = {k1, k2, k3}
    Rotating = {k1}
    Requests = {r1, r2}
    Interval = 2
    DefaultTtl = 2
    MinTtl = 2
    MaxTtl = 6
    MaxAges = {6}
    StaleTtl = 1
    FetchTime = 1
    MaxTime = 6
    UnreadableKeyMayBeServed = FALSE
SYMMETRY Symmetry
INVARIANTS
    NewKeyFound
    KnownKeyServed
    OneFetchLong
PROPERTIES
    CallsSpaced
