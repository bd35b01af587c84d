SPECIFICATION Spec
CONSTANTS
    Self = 1
    Rid = {2, 3, 4}
    Ifaces = {2, 3}
    Lsus <- MCLsus
    OwnSubnets <- MCOwnSubnets
    HELLOINT = 0
    DB_TIMEOUT = 2
    MAX_IN = 5
    MAX_SEQ = 1
PROPERTY RoutesAreMade
CHECK_DEADLOCK FALSE
