SPECIFICATION Spec
CONSTANTS
    Sentinel = "--"
    Subcommands <- MCSubcommands
    ValueFlags <- MCValueFlags
    OtherTokens <- MCOtherTokens
    MaxLen = 6
CHECK_DEADLOCK FALSE
INVARIANTS
    SentinelIsFirstTopLevel
    PartsRejoin
