CONSTANTS
    SEQ_MOD = 16
    TCP_DEFAULT_WINDOW = 4
    ISS = {1, 7}
    MaxRestarts = 1
SPECIFICATION Spec
CHECK_DEADLOCK FALSE
INVARIANTS RefCountExact AcksOnlyWhatWasSent OrderlyClose
PROPERTIES AcceptReturns CloseEnds
