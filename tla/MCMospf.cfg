CONSTANTS
    Router = {1, 2, 3}
    Links <- Ring
    MOSPF_DEFAULT_HELLOINT = 1
    MOSPF_DEFAULT_LSUINT = 5
    MOSPF_MAX_LSU_TTL = 4
    Advertisers = {1}
    MAX_LSU = 4
    LATE = 3
    MAX_CUTS = 1
    CUT_ROOM = 3
SPECIFICATION Spec
INVARIANTS DbSound
PROPERTIES ConsistentOrCrashed FloodsEnd
