SPECIFICATION Spec
CONSTANTS
    Requests = {r1, r2}
    Customers = {c1, c2}
    Users = {u1, u2, u3}
    Mixes = {
        {"limit", "admin", "checkout"},
        {"invite", "accept", "revoke", "password"},
        {"admin", "invite", "password"},
        {"password", "setRole", "remove"}}
    MaxAsks = 3
    MaxChanges = 2
    MaxStops = 1
    MaxInvites = 2
SYMMETRY Interchangeable
INVARIANTS
    CacheHasReason
    RowFollowsStripe
    PayerIsKnown
    OnlyOverlapTakesLastAdmin
    InviteAdmitsOne
CHECK_DEADLOCK FALSE
