SPECIFICATION Spec
CONSTANTS
    ma = ma
    mb = mb
    mc = mc
    left = left
    right = right
    Nodes <- TwoNodes
    Drives <- OneWay
    Grants <- OneWay
    Pipes <- TwoPipes
    Warm <- WarmPair
    Dialling <- NoDial
    Kinds <- HotkeyKinds
    MaxKeys = 0
    MaxEvents = 2
INVARIANT Unheld
CHECK_DEADLOCK FALSE
