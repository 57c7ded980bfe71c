CONSTANTS
    Clients = {alice, bob, carol}
    Ips = {ip1}
    Remote = remote
    Nobody = nobody
    Subnet = {ip1}
    KeepUnmapped = TRUE
    MaxPipe = 1
    Faults = {"torn", "unreadable"}
SPECIFICATION Spec
SYMMETRY Symmetry
INVARIANTS TypeOK RightClient
