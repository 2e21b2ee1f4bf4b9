SPECIFICATION FairSpec
CONSTANTS
    Webhooks = {w1}
    MaxCalls = 2
    Workers = {k1, k2}
    Producers = {p1}
    MaxAttempts = 2
    Threshold = 2
    MaxRetries = 1
    Mixes = {
        {"crash", "joblock"},
        {"crash", "retry"},
        {"joblock", "retry"},
        {"crash", "db", "redis", "status"},
        {"db", "redis", "retry", "status"},
        {"calls", "redis"}}
    Nobody = Nobody
INVARIANTS
    PostMutex
    ActiveCountExact
    OneRunPerCall
PROPERTIES
    ImplementsLifecycle
    JobEnds
CHECK_DEADLOCK FALSE
