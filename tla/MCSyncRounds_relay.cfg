SPECIFICATION Spec
CONSTANTS
    Device = {a, b, c}
    Base = {1}
    MaxContent = 1
    Writes <- AnyWrites
    MaxEvents = 2
    MaxLegs = 1
    PendingPerPath = 1
    VersionId <- MCVersionId
    MayLock = FALSE
    MayCrash = TRUE
    MayTear = FALSE
SYMMETRY Symmetry
INVARIANT NoHole
CHECK_DEADLOCK FALSE
