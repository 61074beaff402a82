SPECIFICATION FairSpec
CONSTANTS
    t1 = t1
    w1 = w1
    w2 = w2
    Threads = {t1}
    Workers = {w1, w2}
    MaxRuns = 1
    MaxFaults = 1
    MaxStalls = 1
    NoRun = NoRun
    NoOwner = NoOwner
    Dead = Dead
PROPERTIES
    ImplementsFairTurns
