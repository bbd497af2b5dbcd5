CONSTANTS
    ByteTicks = 1
    Group = 2
    LineTicks = 2
    MaxDbc = 4
    RenderMod = 2
    AgeCap = 4
    Destinations = {0, 3, 4, 7}
    DbcValues = {3}
    LineCounts = {0, 1}
    MaxWords = 0
SPECIFICATION Spec
INVARIANTS TypeOK WaitIsForMain GfxOnTime
PROPERTIES MainKeepsWordRam ImplementsHandOff OnlyTimeMovesWords
CHECK_DEADLOCK FALSE
