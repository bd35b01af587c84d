CONSTANTS
    h = h
    gate = gate
    far = far
    Me = me
    Hosts = {h, gate}
    Others = {far}
    None = none
    Kernel <- MCKernel
    Segments <- MCSegments
    Incoming <- MCIncoming
    MAX_ARP_SIZE = 2
    ARP_ENTRY_TIMEOUT = 2
    ARP_REQUEST_MAX_RETRIES = 2
SPECIFICATION Spec
CHECK_DEADLOCK FALSE
INVARIANTS InOrder OnePlace
PROPERTY Rests
