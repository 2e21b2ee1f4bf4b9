SPECIFICATION Spec
CONSTANTS
    Handlers = {h1, h2}
    Mixes = {
        {"call", "install", "apart"},
        {"call", "install"},
        {"customer", "event", "redact"},
        {"sync", "event"},
        {"customer", "evaluate"},
        {"redact", "evaluate"}}
    MaxAsks = 3
    MaxIssued = 4
    MaxFaults = 1
    Visitors = {v1}
    Products = {p1, p2}
    Customers = {c1, c2}
    MaxPerWeek = 1
    MaxMails = 2
SYMMETRY Symmetry
INVARIANTS
    TokenIsCurrent
    RefreshesRun
    ProfileFollowsCustomer
    CooldownHolds
    WeekLimitHolds
PROPERTIES
    MailFollowsConsent
CHECK_DEADLOCK FALSE
