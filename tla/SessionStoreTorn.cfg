\* The smallest instance in which a torn apply is repaired: one client, two
\* revisions, the models of the passing run.
SPECIFICATION Spec
CONSTANTS
    Clients = {cli}
    Slots = {"workflow", "payer"}
    Reasoning = "reasoning"
    Models <- MCModels
    Types = {"criteria", "estimate"}
    SlotsOf <- MCSlotsOf
    Cards = {"all"}
    MaxRev = 2
    Any = Any
    Nothing = Nothing
    Idle = Idle
INVARIANT FreshOnceRepaired
CHECK_DEADLOCK FALSE
