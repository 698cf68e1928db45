SPECIFICATION Spec
CONSTANTS
    p1 = p1
    p2 = p2
    b1 = b1
    b2 = b2
    Null = Null
    Proc = {p1, p2}
    MboxId = {b1, b2}
    InitMbox = {b1}
    Flag = {seen}
    MaxOps = 4
    MayFail = TRUE
    Roles <- StoreRoles
INVARIANTS ExpungedIsGone BodyPresent RefsCover VanishedIsLogged
PROPERTY UidNeverReused
\* Every process stops after MaxOps operations.
CHECK_DEADLOCK FALSE
