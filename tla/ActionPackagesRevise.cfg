SPECIFICATION Spec
CONSTANTS
    p1 = p1
    e1 = e1
    e2 = e2
    work = work
    step1 = step1
    r1 = r1
    Packages = {p1}
    Targets = {work}
    Requests = {r1}
    Executors = {e1}
    Work = work
    NumSteps = 1
    MaxRevision = 2
    MaxFaults = 0
    NoPackage = NoPackage
INVARIANTS
    UnapprovedNeverApplies
