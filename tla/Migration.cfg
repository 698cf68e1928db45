SPECIFICATION LiveSpec
CONSTANTS
    Accounts <- OneAccount
    Legacy <- SmallServer
    MaxFaults = 1
    MaxRetries = 1
    MaxStops = 1
    MaxStarts = 1
    Null = Null
INVARIANTS NoRowLost DuplicatesExplained
PROPERTY Settles
CHECK_DEADLOCK FALSE
