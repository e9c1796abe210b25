SPECIFICATION Spec
CONSTANTS
    p1 = p1
    p2 = p2
    Procs <- MCProcs
    Requests = {"one", "two"}
    Cards = {"all", "billing"}
    AllCards = "all"
    Perimeters = {"software", "go-to-market"}
    Default = "software"
    Slugs <- MCSlugs
    Bases = {"base"}
    Suffixed <- MCSuffixed
    Asked <- MCAsked
    AskedByHand <- MCAskedByHand
    Nobody = Nobody
    Absent = Absent
    MaxByHand = 1
    Ready = Ready
    Ended = Ended
    Crashed = Crashed
SYMMETRY Symmetric
INVARIANT ClaimedInPeace
CHECK_DEADLOCK FALSE
