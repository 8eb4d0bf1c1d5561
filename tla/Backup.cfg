SPECIFICATION Spec
CONSTANTS
    Restores = {1, 2}
    MaxCommits = 2
    MaxDowns = 2
INVARIANTS
    TypeOK
    BootKeepsData
PROPERTIES
    BackupIsCurrent
    RestoreTakesEffect
