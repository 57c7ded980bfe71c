CONSTANTS
    Sessions = {s1, s2}
    StatusPeriod = 2
    PollGap = 2
    Keeps = {2, 4}
    MaxAge = 5
    Outages = TRUE
SPECIFICATION Spec
INVARIANT ConnectedKept
