SPECIFICATION Spec
CONSTANTS
    Packages = {2, 3, 4}
    Attempts = 4
INVARIANT
    TypeOK
PROPERTIES
    VerdictIsTrue
    BootstrapEnds
