SPECIFICATION Spec
CONSTANTS
    Device = {a, b}
    Base = {1}
    MaxContent = 2
    Writes <- AnyWrites
    MaxEvents = 3
    MaxLegs = 1
    PendingPerPath = 2
    VersionId <- MCVersionId
    MayLock = TRUE
    MayCrash = TRUE
    MayTear = TRUE
SYMMETRY Symmetry
INVARIANTS NoEditLost NoImpossibleClaim WatermarkBehindPeer
CHECK_DEADLOCK FALSE
