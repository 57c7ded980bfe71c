CONSTANTS
    BucketSeconds = 2
    FlushInterval = 1
    PruneInterval = 2
    Retention = 4
    MaxLag = 1
    MaxGap = 1
    MaxTime = 8
    MaxPackets = 2
    Faults = {"flush_fails", "killed"}
SPECIFICATION Spec
INVARIANTS TypeOK ExactCount RowSpan FlushLag Window
