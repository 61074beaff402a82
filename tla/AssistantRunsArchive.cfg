SPECIFICATION Spec
CONSTANTS
    t1 = t1
    w1 = w1
    w2 = w2
    Threads = {t1}
    Workers = {w1}
    MaxRuns = 1
    MaxFaults = 0
    MaxStalls = 0
    NoRun = NoRun
    NoOwner = NoOwner
    Dead = Dead
INVARIANTS
    ArchivedThreadsAreQuiet
