SPECIFICATION Spec
CHECK_DEADLOCK FALSE
CONSTANTS
    N = 3
    BatchSize = 1
    Workers = {k1}
    MaxAsks = 1
    MaxCrashes = 0
    Mixes = {{"leave"}}
    Nobody = Nobody
INVARIANTS
    SentIsComplete
