CONSTANTS
    Clients = {alice, bob}
    Items = {i1, i2}
    Subs = {p1, p2}
    BucketSeconds = 2
    MaxTime = 3
    MaxStored = 3
SPECIFICATION Spec
SYMMETRY Symmetry
INVARIANTS TypeOK RowsTrue NothingDenied Balanced Bracketed
