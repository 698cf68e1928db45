SPECIFICATION Spec
CONSTANTS
    w1 = w1
    alice = alice
    bob = bob
    ext = ext
    list = list
    self = self
    Smtp = Smtp
    Window = {w1}
    Account = {alice, bob}
    Alias <- AliasTable
    Envelope <- Envelopes
    MaxAliasDepth = 2
    Submitted = {alice, list}
    MaxRcpts = 2
    MaxJobs = 3
    MaxFaults = 2
INVARIANTS SavedDraftKept DraftsDoNotPileUp RemotesQueuedOnce SentExactly
\* Requests and failures are used up in the end.
CHECK_DEADLOCK FALSE
