SPECIFICATION FairSpec
CONSTANTS
    MaxPids = 1
    Calls = {k1, k2}
    Exits = {"exitZero", "exitError", "exitSignal"}
    MaxBoots = 1
PROPERTIES
    StopEndsOnWindows
    ShutdownEnds
CHECK_DEADLOCK FALSE
