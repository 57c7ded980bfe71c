CONSTANTS
    Clients = {alice, bob}
    Tables = {"traffic", "sessions"}
    MaxId = 2
    MaxTime = 2
    MaxCount = 1
    MaxRows = 2
    MaxBatch = 2
    Faults = {"busy", "interrupt", "rollback", "manual_prune"}
    Shielded = TRUE
SPECIFICATION Spec
SYMMETRY Symmetry
INVARIANTS OrphanFree IInv LockReleased
PROPERTIES ImplementsLedger AllOrNothing
