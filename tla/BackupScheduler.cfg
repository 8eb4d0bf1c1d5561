SPECIFICATION Spec
CONSTANTS
    Runs = {1, 2}
    Intervals = {1, 2, 4}
    MaxDelay = 3
    Cap = 5
    MaxSaves = 2
    MaxDowns = 1
INVARIANTS
    TypeOK
    TimerArmed
PROPERTIES
    BackupsSpaced
    OverdueIsRun
