SPECIFICATION Spec
CONSTANTS
    MaxPids = 2
    Calls = {k1, k2}
    Exits = {"exitError"}
    MaxBoots = 0
SYMMETRY CallSymmetry
INVARIANTS
    TypeOK
    OnlyTargetsTouched
    StoppingIsWatched
    ShutdownReaps
PROPERTY
    ReplacesOnlyRaced
CHECK_DEADLOCK FALSE
