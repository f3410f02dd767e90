SPECIFICATION InputSpec
CONSTANTS
    Parts = {"sessions", "crossing", "portal", "typing", "capture"}
    ma = ma
    mb = mb
    mc = mc
    left = left
    right = right
    Nodes <- ThreeNodes
    Drives <- Hub
    Grants <- Hub
    Pipes <- TwoPipes
    Warm <- WarmHub
    Dialling <- NoDial
    Kinds <- AllKinds
    MaxKeys = 1
    MaxEvents = 2
SYMMETRY Sides
INVARIANTS HandsBack TypesOnlyWithGrant EdgesSound CaptureSound
CHECK_DEADLOCK FALSE
