SPECIFICATION MCSpec
CONSTANTS
    answer = answer
    Garbage = Garbage
    Invalid = Invalid
    short = short
    long = long
    Json <- MCJson
    Messages <- MCMessages
    Size <- MCSize
    InCap = 1
    OutCap = 1
    MaxLines = 3
    MaxSends = 2
INVARIANTS TypeOK NothingLost HeardInOrder FailsForCause
PROPERTIES Delivers RecvReturns DropReturns PipeDrains
CHECK_DEADLOCK FALSE
