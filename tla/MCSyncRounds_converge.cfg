SPECIFICATION FairSpec
CONSTANTS
    Device = {a, b}
    Base = {1}
    MaxContent = 2
    Writes <- OwnWrites
    MaxEvents = 3
    MaxLegs = 1
    PendingPerPath = 2
    VersionId <- MCVersionId
    MayLock = FALSE
    MayCrash = FALSE
    MayTear = FALSE
PROPERTY Convergence
CHECK_DEADLOCK FALSE
