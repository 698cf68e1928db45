SPECIFICATION LiveSpec
CONSTANTS
    m1 = m1
    m2 = m2
    u1 = u1
    u2 = u2
    team = team
    ring = ring
    x = x
    s = s
    nobody = nobody
    Null = Null
    Account = {u1, u2}
    MaxAliasDepth = 2
    Mail = {m1, m2}
    Inputs <- MCInputs
    Configs <- MCConfigs
    Away = {u1}
    RateLimit = 3
    MaxFaults = 1
INVARIANTS AcceptedIsPlaced CopiesExplained OneReplyPerWindow
PROPERTIES Decided
CHECK_DEADLOCK FALSE
