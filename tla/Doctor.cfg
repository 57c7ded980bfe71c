CONSTANTS
    Leases <- MCLeases
    Others <- MCOthers
    Ports = {53}
    Lengths = {0, 100}
    Traffic <- MCTraffic
    MaxPackets = 2
    MaxLines = 1
SPECIFICATION FairSpec
INVARIANTS SampleTrue SilenceTrue AllClear NoFalseAlarm
PROPERTIES Terminates
CHECK_DEADLOCK FALSE
