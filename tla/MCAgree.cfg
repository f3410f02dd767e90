SPECIFICATION AgreeSpec
CONSTANTS
    Parts = {"clock", "order", "leave", "plane"}
    Block = 2
    Ceiling = 4
    MaxNow = 2
    LeaseWriteMayFail = FALSE
    Device = {1, 2, 3}
    Creator = 1
    UnverifiedCap = 2
    MaxSigned = 4
    MaxMessages = 1
    MayLeave = FALSE
    MayReinstall = FALSE
INVARIANTS TypeOK NeverReissued DiskCoversIssued ReinstallIsFresh
    SameRecordsSameView LeaverSeqsIncrease
PROPERTIES LeaverDoorNeverSlips PlanesConverge
CHECK_DEADLOCK FALSE
