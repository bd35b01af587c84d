SPECIFICATION Spec
CONSTANTS
    W = 3
    Devices <- MCDevices
    Kernel <- MCKernel
    Hosts = {3, 5}
    Packets <- MCPackets
    MAX_ARP_SIZE = 2
    ARP_ENTRY_TIMEOUT = 1
    ARP_REQUEST_MAX_RETRIES = 1
INVARIANTS PacketsConserved NoneWaitsForKnown SentRight
PROPERTY LeavesOrStops
CHECK_DEADLOCK FALSE
