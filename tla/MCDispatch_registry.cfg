SPECIFICATION Spec
CONSTANTS
    Ids = {n}
    Texts = {x, y}
    Keys = {"EFFORT", "-key"}
    Segments <- MCSegments
    Dashed = {y, "-key"}
    MaxPrefixes = 2
    MaxWords = 6
CHECK_DEADLOCK FALSE
INVARIANTS
    DispatchTypeOK
    RequestAsRegistered
    PropertiesMerged
    AcceptedAsRegistered
