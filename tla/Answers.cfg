SPECIFICATION AnswersSpec
CONSTANTS
    c1 = c1
    c2 = c2
    c3 = c3
    NumTurns = 2
    Conns = {c1, c2, c3}
    NoConn = NoConn
    QueueMax = 2
    MaxTokens = 2
    MaxRepeats = 1
    MaxReloads = 1
    MaxFailures = 1
    Streams = {"t1"}
    MaxModels = 4
    LearnTurns = 3
    Candidates = {"p", "r", "bad"}
    PassLimit = 2
    LearnFaults = 1
INVARIANTS
    TypeOK
    SingleSubscriber
    ClosingIsHonest
    LearningIsBounded
PROPERTIES
    AnswersComeThrough
CHECK_DEADLOCK FALSE
