CONSTANTS
    W = 4
    Files <- MCFiles
    MaxAsked = 1
    Byte = {b1, b2}
    size = 4
    MaxChunk = 3
    Chunks <- MCChunks
    Sizes <- MCSizes
SPECIFICATION DataSpec
INVARIANTS SingleNeverWrong LongestAtLeaves CvLikeMul
PROPERTY IsQueue
CHECK_DEADLOCK FALSE
