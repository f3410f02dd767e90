SPECIFICATION Spec
CONSTANTS
    src = src
    dst1 = dst1
    dst2 = dst2
    Core = {1, 2}
    Conn = {src, dst1, dst2}
    Home <- OneAndTwo
    Slot = {s1, s2}
    MaxNow = 2
    MaxTx = 3
    Workloads <- Mixes
SYMMETRY Alike
INVARIANTS ElectsTheLast ClipsHeldByReaders NoLostWake GrantsHaveHolders
PROPERTY PasteNotCutByCopy
CHECK_DEADLOCK FALSE
