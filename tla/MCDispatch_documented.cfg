SPECIFICATION Spec
CONSTANTS
    Ids = {n}
    Texts = {x, y}
    Keys = {"EFFORT", "-key"}
    Segments <- MCSegments
    Dashed = {y, "-key"}
    MaxPrefixes = 2
    MaxWords = 4
CHECK_DEADLOCK FALSE
INVARIANT
    DispatchAsDocumented
