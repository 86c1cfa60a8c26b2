SPECIFICATION FairSpec
CONSTANTS
    Nil = Nil
    Base = 2
    N = 5
    M = 3
    MaxBulkBytesLen = 3
    MaxArrayLen = 2
    MaxBuffered = 1
    MayFail = TRUE
    MayBreak = TRUE
    Byte <- MCByte
    Values <- MCValues
    Programs <- MCPrograms
    MultiPrograms <- MCMultiPrograms
    Inputs <- MCInputs
    MultiInputs <- MCMultiInputs
INVARIANT RejectsExactly
PROPERTIES
    RefinesChannel
    RefinesStream
    FlushedArrives
CHECK_DEADLOCK FALSE
