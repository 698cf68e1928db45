SPECIFICATION LiveSpec
CONSTANTS
    w1 = w1
    w2 = w2
    Writer = {w1}
    Flags = {"Seen", "Deleted"}
    InitMsgs = 2
    MaxUid = 3
    MaxModSeq = 3
    MaxWrites = 2
    MaxCmds = 2
    Written <- MCWritten
    Requested <- MCRequested
    QResync = FALSE
INVARIANTS TrackerAgrees RefreshTruthful QuietMeansCurrent
PROPERTIES MoveDropsMoved CatchesUp
CHECK_DEADLOCK FALSE
