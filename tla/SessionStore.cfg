\* Three revisions, three models, two document types, crashes anywhere.  One
\* client is enough: what it has read may be as old as the session when it
\* writes, and the writes it makes in between are any other client's.
SPECIFICATION Spec
CONSTANTS
    Clients = {cli}
    Slots = {"workflow", "payer"}
    Reasoning = "reasoning"
    Models <- MCModels
    Types = {"criteria", "estimate"}
    SlotsOf <- MCSlotsOf
    Cards = {"all", "none"}
    MaxRev = 3
    Any = Any
    Nothing = Nothing
    Idle = Idle
INVARIANTS
    TypeOK
    OnlyTears
    FreshUnlessTorn
    RowNamesItsSource
PROPERTIES
    ApplyHeals
    NoLostUpdate
    RescopeKeepsTheModel
    ImplementsVersionedSession
CHECK_DEADLOCK FALSE
