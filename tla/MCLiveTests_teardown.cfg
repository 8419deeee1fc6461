SPECIFICATION DaemonSpec
CONSTANTS
    MaxProbes = 3
CHECK_DEADLOCK FALSE
INVARIANTS
    LiveTypeOK
    OwnedTornDown
    GreenMeansTested
PROPERTIES
    SettledEnds
