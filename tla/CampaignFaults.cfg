SPECIFICATION FairSpec
CHECK_DEADLOCK FALSE
CONSTANTS
    N = 2
    BatchSize = 1
    Workers = {k1, k2}
    MaxAsks = 2
    MaxCrashes = 2
    Mixes = {
        {"stall"},
        {"queue", "crash"},
        {"crash", "again"},
        {"join", "leave", "again"},
        {"join", "leave", "contact", "render"},
        {"campaign", "again"},
        {"domain", "again"},
        {"queue", "again"},
        {"db", "reply"}}
    Nobody = Nobody
INVARIANTS
    OneEmailPerContact
    FailedIsNotQueued
    SteadySentIsComplete
    LinkedIsSettled
PROPERTIES
    BatchesFinish
