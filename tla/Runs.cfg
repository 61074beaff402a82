SPECIFICATION RunsSpec
CONSTANTS
    t1 = t1
    w1 = w1
    w2 = w2
    Threads = {t1}
    Workers = {w1, w2}
    MaxRuns = 2
    MaxFaults = 1
    MaxStalls = 1
    NoRun = NoRun
    NoOwner = NoOwner
    Dead = Dead
    Sources = {"w", "c", "a", "b", "m", "n", "d", "k"}
    Kind <- KindOf
    Rank <- RankOf
    Bytes <- BytesOf
    Reached = {"w", "c", "a", "b", "m", "n", "k"}
    Selected = {"a"}
    Cap = 1
    ByteLimit = 10
    MaxChanges = 1
    Folders = {"f1", "f2"}
    Inodes = {"i1", "i2"}
    Systems = {"posix", "windows"}
    MaxTime = 2
SYMMETRY WorkerSymmetry
CONSTRAINT OneTrouble
INVARIANTS
    TypeOK
    RunTurnAndTextAgree
    RunsAreExclusive
    WalksLackOnlyTheDeep
PROPERTIES
    EndsAreFinal
    ImplementsTurns
    PackIsGoverned
    TextsAreWhole
CHECK_DEADLOCK FALSE
