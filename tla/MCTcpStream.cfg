CONSTANTS
    SEQ_MOD = 32
    TCP_DEFAULT_WINDOW = 10
    ISS = {1, 14}
    Rounds = 2
SPECIFICATION Spec
CHECK_DEADLOCK FALSE
INVARIANTS StreamIntegrity NoLostWakeup AcksOnlyWhatWasSent
PROPERTIES WriteReturns
