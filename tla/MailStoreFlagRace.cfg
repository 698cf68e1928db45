SPECIFICATION Spec
CONSTANTS
    p1 = p1
    p2 = p2
    b1 = b1
    b2 = b2
    Null = Null
    Proc = {p1, p2}
    MboxId = {b1}
    InitMbox = {b1}
    Flag = {seen, flagged}
    MaxOps = 3
    MayFail = FALSE
    Roles <- FlagRoles
INVARIANT FlagsApplied
\* Every process stops after MaxOps operations.
CHECK_DEADLOCK FALSE
