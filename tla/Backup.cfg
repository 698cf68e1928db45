SPECIFICATION Spec
CONSTANTS
    inbox = inbox
    work = work
    Name = {inbox, work}
    Inbox = inbox
    MaxMail = 2
    MaxOps = 2
    MaxRestores = 2
    MaxFaults = 2
    MaxEvents = 4
INVARIANTS RestoreExact UidsHold  
\* Every bound is used up in the end.
CHECK_DEADLOCK FALSE
