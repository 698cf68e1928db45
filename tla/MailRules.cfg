SPECIFICATION Spec
CONSTANTS
    Like <- LikeText
    Programs <- MCPrograms
    Messages <- MCMessages
    Forwarder = "fwd"
    MaxAge = 504
    Senders <- MCSenders
    Homes <- MCHomes
    Times <- MCTimes
    Delays <- MCDelays
    Views <- MCViews
    Criteria <- MCCriteria
    Queries <- MCQueries
    Listed <- MCListed
INVARIANTS  SrsReturnsToSender SearchFindsExactly
\* Every input is run once.
CHECK_DEADLOCK FALSE
