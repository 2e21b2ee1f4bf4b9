SPECIFICATION Spec
CHECK_DEADLOCK FALSE
CONSTANTS
    Hooks = {h1, h2}
    Kinds = {"Reject", "DeliveryDelay", "Delivery", "Soft Bounce", "Hard Bounce", "Open", "Click", "Unsubscribe Click", "Complaint"}
    Faults = {"db", "queue", "crash"}
SYMMETRY Symmetry
INVARIANTS
    EventIsCounted
    LatestIsHighest
    BadAddressIsDropped
