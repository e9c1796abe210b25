SPECIFICATION Spec
CONSTANTS
    c1 = c1
    c2 = c2
    f1 = f1
    f2 = f2
    w1 = w1
    w2 = w2
    Clients <- MCClients
    Facts <- MCFacts
    Whys <- MCWhys
    Retries = 1
    Ceiling = 2
    MaxRevs <- MCMaxRevs
    Nobody = Nobody
    Nothing = Nothing
SYMMETRY Symmetric
INVARIANTS
    TypeOK
    RowNamesWhatItWasWrittenFrom
    FreshIsCurrent
    SpendIsRecorded
    CeilingPassedByOneCheckedCall
    CountedOnce
PROPERTY AbsorbsWithoutUndoing
CHECK_DEADLOCK FALSE
