CONSTANTS
    Clients = {alice, bob}
    Tables = {"traffic", "sessions"}
    MaxId = 2
    MaxTime = 2
    MaxCount = 1
    MaxRows = 2
    MaxBatch = 1
    Faults = {"manual_prune"}
    Shielded = FALSE
SPECIFICATION Spec
SYMMETRY Symmetry
INVARIANT OrphanFree
