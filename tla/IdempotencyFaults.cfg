SPECIFICATION KeyFairSpec
CONSTANTS
    Requests = {r1, r2, r3}
    Bodies = {b1, b2}
    KeyFaults = {"crash", "redis", "slow"}
    NoRequest = NoRequest
INVARIANTS
    OneOperation
    RetrySendsNothing
    AnswerMatches
PROPERTIES
    LockIsReturned
