SPECIFICATION DaemonSpec
CONSTANTS
    MaxProbes = 3
CHECK_DEADLOCK FALSE
PROPERTIES
    TornDown
