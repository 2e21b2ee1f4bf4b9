SPECIFICATION Spec
CONSTANTS
    Webhooks = {w1}
    MaxCalls = 1
    Workers = {k1}
    Producers = {p1}
    MaxAttempts = 6
    Threshold = 30
    MaxRetries = 1
    Mixes = {{"retry"}}
    Nobody = Nobody
INVARIANTS
    RetryIsQueued
CHECK_DEADLOCK FALSE
