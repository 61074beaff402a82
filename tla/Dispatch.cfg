SPECIFICATION DispatchSpec
CONSTANTS
    w1 = w1
    w2 = w2
    t1 = t1
    t2 = t2
    a1 = a1
    a2 = a2
    r1 = r1
    r2 = r2
    j1 = j1
    j2 = j2
    work = work
    c1 = c1
    c2 = c2
    NumRows = 2
    Workers = {w1, w2}
    NoWorker = NoWorker
    MaxAttempts = 2
    BatchSize = 2
    MaxCuts = 2
    SlowPosts = FALSE
    TaskIds = {t1, t2}
    ActionIds = {a1, a2}
    Requests = {r1, r2}
    NoTask = NoTask
    NoAction = NoAction
    WorkspaceTaskIds = {t1, t2}
    JobIds = {j1, j2}
    Works = {work}
    Windows = {c1, c2}
    MaxTaskVersion = 3
INVARIANTS
    TypeOK
    TasksAgree
PROPERTIES
    OutboxIsOrderly
    DispatchEnds
    WorkspaceAgrees
CHECK_DEADLOCK FALSE
