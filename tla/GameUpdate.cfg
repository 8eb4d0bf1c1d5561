SPECIFICATION Spec
CONSTANTS
    Calls = {k1, k2}
    MaxVersion = 3
SYMMETRY Symmetry
INVARIANTS
    TypeOK
    ReportIsTrue
PROPERTY
    PatchFits
