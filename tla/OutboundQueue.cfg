SPECIFICATION LiveSpec
CONSTANTS
    r1 = r1
    r2 = r2
    bare = bare
    snd = snd
    d1 = d1
    d2 = d2
    mx1 = mx1
    mx2 = mx2
    Null = Null
    Rcpt = {r1, r2, bare, snd}
    Domain = {d1, d2}
    DomainOf <- MCDomainOf
    MxOf <- MCMxOf
    Policies <- MCPolicies
    SenderAddr = snd
    Envelopes <- MCEnvelopes
    BatchSize = 2
    MaxAttempts = 2
    BaseBackoff = 5
    MaxBackoff = 8
    MaxRows = 5
    MaxSubmits = 1
    MaxFaults = 2
INVARIANTS RowHasBody OneVerdict NobodyForgotten BouncesBounded
PROPERTY KeepsPromise
