\* The deploy path with its missing import in place.
SPECIFICATION Spec
CONSTANTS
    Approvals = {a1}
    Containers = {c1, c2}
    NoOne = none
    MaxContainers = 1
    ViewsImported = TRUE
    MaxFaults = 1
INVARIANTS
    QuotaHolds
PROPERTIES
    ApprovalUsedOnce
    TTLEnforced
CHECK_DEADLOCK FALSE
