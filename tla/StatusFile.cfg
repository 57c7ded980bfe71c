CONSTANTS
    Names = {alice, bob}
    Ips = {ip1, ip2}
    Gateway = alice
    Net = net
    Real = real
    Other = other
    Torn = torn
    None = none
SPECIFICATION ParseSpec
INVARIANTS ParseTypeOK RoutesSound SessionsSound WholeFile
CHECK_DEADLOCK FALSE
