SPECIFICATION FairInputSpec
CONSTANTS
    Parts = {"sessions"}
    ma = ma
    mb = mb
    mc = mc
    left = left
    right = right
    Nodes <- TwoNodes
    Drives <- OneWay
    Grants <- OneWay
    Pipes <- TwoPipes
    Warm <- WarmPair
    Dialling <- NoDial
    Kinds <- FaultKinds
    MaxKeys = 0
    MaxEvents = 3
PROPERTY ComesHome
CHECK_DEADLOCK FALSE
