SPECIFICATION FairSpec
CONSTANTS
    Callers = {a, b, c}
    MaxTrouble = 3
CHECK_DEADLOCK FALSE
INVARIANTS
    EditedOnce
    DoneMeansDone
PROPERTIES
    NoUpdateLost
    EveryoneGetsThrough
