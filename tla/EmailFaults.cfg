SPECIFICATION FairSpec
CHECK_DEADLOCK FALSE
CONSTANTS
    Workers = {k1}
    Clients = {c1, c2}
    MaxTime = 2
    MaxAsks = 2
    MaxCrashes = 2
    MaxEvents = 3
    Faults = {"db", "queue", "reply", "ses", "config", "stall", "abort"}
    Nobody = Nobody
INVARIANTS
    SendsBounded
    CancelHolds
PROPERTIES
    NotEarly
    AcceptedIsSettled
