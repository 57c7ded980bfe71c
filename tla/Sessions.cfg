CONSTANTS
    Sessions = {s1, s2}
    StatusPeriod = 2
    PollGap = 2
    Keeps = {2, 4}
    MaxAge = 5
    Outages = FALSE
SPECIFICATION FairSpec
INVARIANTS ConnectedKept SeenInTime
PROPERTIES PickedUp Forgotten
