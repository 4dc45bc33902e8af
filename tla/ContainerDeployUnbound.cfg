\* The deploy path as it is: apply_package_runtime_views is not bound.
SPECIFICATION Spec
CONSTANTS
    Approvals = {a1}
    Containers = {c1, c2}
    NoOne = none
    MaxContainers = 1
    ViewsImported = FALSE
    MaxFaults = 0
PROPERTIES
    DeployTakesEffect
CHECK_DEADLOCK FALSE
