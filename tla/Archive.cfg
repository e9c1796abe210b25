SPECIFICATION Spec
CONSTANTS
    p1 = p1
    p2 = p2
    Procs <- MCProcs
    MaxBorn = 2
    MaxRev = 1
    Gone = Gone
    Nobody = Nobody
    Nothing = Nothing
SYMMETRY Symmetric
INVARIANTS
    TypeOK
    NoSessionLost
    PutBackOrCleared
    SlugIsWhole
    ExportIsOneInstant
    MigratesIntoItsClaim
PROPERTIES
    ForceReplacesWhatItSaw
CHECK_DEADLOCK FALSE
