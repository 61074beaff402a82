SPECIFICATION Spec
CONSTANTS
    w1 = w1
    w2 = w2
    NumRows = 1
    Workers = {w1}
    NoWorker = NoWorker
    MaxAttempts = 5
    BatchSize = 10
    MaxCuts = 0
    SlowPosts = FALSE
INVARIANTS
    AcceptedIsNotGivenUp
CHECK_DEADLOCK FALSE
