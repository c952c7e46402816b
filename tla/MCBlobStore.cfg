CONSTANTS
    p = p
    q = q
    x = x
    y = y
    Procs <- MCProcs
    Blobs <- MCBlobs
    MaxAttempts = 3
SPECIFICATION BSSpec
SYMMETRY Symmetry
INVARIANT TargetIsWhole
PROPERTIES PersistedSurvives
