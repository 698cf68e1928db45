SPECIFICATION FairSpec
CONSTANTS
    c1 = c1
    c2 = c2
    ip1 = ip1
    Acct = Acct
    Client = {c1, c2}
    IP = {ip1}
    IpOf <- Addresses
    Threshold <- Limits
    Decay = 1
    MaxLogins = 2
    MaxChanges = 2
INVARIANTS OldSessionsExplained BudgetHolds
PROPERTY Unblocks
