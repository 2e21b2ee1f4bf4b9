SPECIFICATION KeySpec
CONSTANTS
    Requests = {r1, r2}
    Bodies = {b1}
    KeyFaults = {}
    NoRequest = NoRequest
INVARIANTS
    SentOnce
