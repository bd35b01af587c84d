CONSTANTS
    a = a
    b = b
    r1 = r1
    x = x
    nowhere = nowhere
    Inside <- mc_Inside
    Outside <- mc_Outside
    Unrouted <- mc_Unrouted
    ExternalIp = x
    Ports = {80}
    Closing <- mc_Closing
    Bucket = {0, 1}
    hash8 <- mc_hash8
    NAT_PORT_MIN = 1
    NAT_PORT_MAX = 3
    TCP_ESTABLISHED_TIMEOUT = 1
SPECIFICATION Spec
CHECK_DEADLOCK FALSE
INVARIANTS UniqueExternalPorts ReplyReachesOpener
PROPERTIES FlowKeepsPort IdleFlowsGo
