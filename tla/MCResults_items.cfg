SPECIFICATION Spec
CONSTANTS
    Plain = {x, y}
    Items <- MCItems
    JsonOf <- MCJsonOf
    MaxItems = 2
CHECK_DEADLOCK FALSE
INVARIANTS
    ItemsInPlace
    ToldApart
