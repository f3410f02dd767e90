SPECIFICATION FairSpec
CONSTANTS
    Path = {1, 2}
    Sources <- Relay
    Covered <- Both
    Holds <- FirstOf
    NeedsPerPeer = 1
    PublishedPerPeer = 1
    MaxId = 2
    MayLeave = TRUE
    MayRestart = TRUE
INVARIANT NothingLeaks
PROPERTY Fetched
CHECK_DEADLOCK FALSE
