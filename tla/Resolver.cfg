CONSTANTS
    Processes = {p1, p2}
    Ips = {ip1}
    Hosts = {h1}
    Failed = failed
    NoEntry = none
    Ttl = 3
    FailureTtl = 2
    Budget = 2
    Workers = 1
    MaxTime = 8
SPECIFICATION FairSpec
INVARIANTS TypeOK CacheHonest FreshAnswer
PROPERTY Returns
