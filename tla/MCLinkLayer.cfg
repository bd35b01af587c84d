CONSTANTS
    h1 = h1
    h2 = h2
    h3 = h3
    b1 = b1
    b2 = b2
    b3 = b3
    Nets <- RingAndTree
    Hashes <- Assigned
    MANY = 2
    HOST_ROOM = 1
    MAC_PORT_TIMEOUT = 0
    MAX_TIME = 1
    Switch = {1, 2, 3, 4}
    Links <- FourRing
    ROOM = 1
SPECIFICATION LinkSpec
INVARIANTS NotLost Once Private TwoCopiesStay CostsAreReal LeastIsRoot
CHECK_DEADLOCK FALSE
