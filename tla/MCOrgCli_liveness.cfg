SPECIFICATION FairCliSpec
CONSTANTS
    Garbage = Garbage
    Invalid = Invalid
    Json <- MCJson
    Messages <- ClientMessages
    Size <- MCSize
    CallSize = 2
    InCap = 1
    OutCap = 1
    Noise <- MCChatter
    MaxNoise = 3
PROPERTIES Terminates ResponsiveTerminates
CHECK_DEADLOCK FALSE
