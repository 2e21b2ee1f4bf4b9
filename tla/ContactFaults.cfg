SPECIFICATION Spec
CONSTANTS
    Requests = {r1, r2, r3}
    Ops = {"add", "update", "delete", "resend", "confirm", "leave", "bounce", "rejoin"}
    Answers = {"yes", "no", "unset"}
    Changes = {"optin"}
    Faults = {"stop", "mail"}
    MaxRows = 2
SYMMETRY Symmetry
INVARIANTS 
    OnlyOverlapBringsBack
    SubscribedWasAsked
CHECK_DEADLOCK FALSE
