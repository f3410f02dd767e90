SPECIFICATION FairSpec
CONSTANTS
    Mods <- MCMods
    Chars <- MCChars
    Bit <- MCBit
    BitOrder <- MCBitOrder
    Layout <- MCLayout
    ModKey <- MCModKey
    Symbols <- MCSymbols
    PressMax = 2
    MaxCrashes = 1
    MaxSaveFails = 1
    MaxTurns = 1
INVARIANTS Guarded StrokeRestores
PROPERTY Unstuck
