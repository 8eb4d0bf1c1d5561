SPECIFICATION Spec
CONSTANTS
    once = once
    weekly = weekly
    i1 = i1
    Due = {1, 5}
    Tasks = {once, weekly}
    Insts = {i1}
    OneShots = {once}
    ManualOnly = {}
    Kind <- MCKind
    Targets <- MCTargets
    Fires <- MCFires
    Lists <- MCLists
    Early = 1
    Window = 1
    TickMax = 1
    JobMax = 1
    Horizon = 4
    NTicks = 2
    NJobs = 2
    MaxManual = 0
    MaxEdits = 0
    MaxBoots = 0
INVARIANT
    LockClearsAtEnd
