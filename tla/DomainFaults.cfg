SPECIFICATION FairSpec
CHECK_DEADLOCK FALSE
CONSTANTS
    Requests = {r1, r2}
    Readers = {r1}
    Job = Job
    Unsettled = {"PENDING", "NOT_STARTED", "TEMPORARY_FAILURE"}
    Mixes = {
        {"create", "delete", "region", "stop", "again"},
        {"ses", "mail", "stop"},
        {"get", "ses"}}
    MaxAsks = 2
    MaxChanges = 2
    MaxStops = 1
INVARIANTS
    RowHasIdentity
    IdentityHasRow
    EventsFollowRow
PROPERTIES
    MailNotRepeated
    RowFollowsSes
    VerifiedIsMailed
