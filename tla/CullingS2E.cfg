SPECIFICATION Spec
CONSTANTS
    MapSize = 3
    MaxFactor = 2
    MaxEntries = 3
    SkipAbove = 1
    CAL_CHANCES = 2
    CONFIG_S2E = TRUE
INVARIANT FavoredCover
