SPECIFICATION PackagesSpec
CONSTANTS
    p1 = p1
    e1 = e1
    e2 = e2
    work = work
    step1 = step1
    r1 = r1
    Packages = {p1}
    Targets = {work, step1}
    Requests = {r1}
    Executors = {e1}
    Work = work
    NumSteps = 2
    MaxRevision = 2
    MaxFaults = 2
    NoPackage = NoPackage
    PlanSteps = {"s"}
    PlanPackages = {"p", "q"}
    Edits = {"e1"}
    Changes <- PlanChanges
    MaxVersion = 3
INVARIANTS
    TypeOK
    ApprovedStepsApplyOnce
    ExecutingIsHeld
    LoopsExcludeEachOther
PROPERTIES
    ApprovalsBind
    ApprovedPackagesSettle
    PackagesDoNotStack
