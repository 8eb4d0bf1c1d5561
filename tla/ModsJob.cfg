SPECIFICATION Spec
CONSTANTS
    flib = flib
    quality = quality
    Items <- MCItems
    Held <- MCHeld
    Plans <- MCPlans
    NJobs = 2
    MaxWorkers = 2
    Attempts = 2
    MaxLate = 2
INVARIANTS TypeOK DoneMeansInstalled PartialIsWritten ModKept
PROPERTIES QuietAfterEnd ServerKeepsMods ImplementsModJob
