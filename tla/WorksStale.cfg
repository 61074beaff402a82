SPECIFICATION WorksSpec
CONSTANTS
    s = s
    p = p
    e = e
    PlanSteps = {s}
    Packages = {p}
    Edits = {e}
    Changes <- Blocking
    MaxVersion = 2
PROPERTIES
    StalePackagesFailClosed
CHECK_DEADLOCK FALSE
