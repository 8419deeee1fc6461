SPECIFICATION SignalledSpec
CONSTANTS
    Garbage = Garbage
    Invalid = Invalid
    Json <- MCJson
    Messages <- ClientMessages
    Size <- MCSize
    CallSize = 2
    InCap = 2
    OutCap = 1
    Noise <- MCNoise
    MaxNoise = 1
INVARIANTS CliTypeOK OneEnvelope ChildReaped CallAfterHandshake SuccessIsTheAnswer
PROPERTIES Promised
CHECK_DEADLOCK FALSE
