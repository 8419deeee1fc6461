SPECIFICATION CliSpec
CONSTANTS
    Garbage = Garbage
    Invalid = Invalid
    Json <- MCJson
    Messages <- ClientMessages
    Size <- MCSize
    CallSize = 2
    InCap = 2
    OutCap = 1
    Noise <- MCNoise
    MaxNoise = 1
INVARIANTS ExitCodeTable
CHECK_DEADLOCK FALSE
