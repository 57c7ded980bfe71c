CONSTANTS
    BucketSeconds = 2
    FlushInterval = 1
    PruneInterval = 2
    Retention = 0
    MaxLag = 1
    MaxGap = 5
    MaxTime = 8
    MaxPackets = 2
    Faults = {}
SPECIFICATION Spec
INVARIANT FlushedOnTime
