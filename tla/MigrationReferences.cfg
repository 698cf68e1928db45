SPECIFICATION Spec
CONSTANTS
    Accounts <- TwoAccounts
    Legacy <- SharedServer
    MaxFaults = 0
    MaxRetries = 0
    MaxStops = 0
    MaxStarts = 0
    Null = Null
INVARIANT ReferencesResolve
CHECK_DEADLOCK FALSE
