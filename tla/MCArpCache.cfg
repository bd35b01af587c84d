CONSTANTS
    h1 = h1
    h2 = h2
    dead = dead
    h3 = h3
    Own = own
    Hosts = {h1, h2, h3}
    Absent = {dead}
    Packets <- MCPackets
    MAX_ARP_SIZE = 2
    ARP_ENTRY_TIMEOUT = 2
    ARP_REQUEST_MAX_RETRIES = 2
SPECIFICATION Spec
CHECK_DEADLOCK FALSE
INVARIANTS PacketsConserved NoneWaitsForKnown
PROPERTY PacketsLeave
