SPECIFICATION LiveSpec
CONSTANTS
    Caller = {p1, p2, p3}
    MaxBreaks = 3
    MaxStops = 1
    None = None
INVARIANTS DialsExplained OneOpenConnection TwiceOnlyWhenLost
PROPERTY Unpoisoned
