SPECIFICATION StoredSpec
CONSTANTS
    r1 = r1
    r2 = r2
    r3 = r3
    c1 = c1
    c2 = c2
    Requests = {r1, r2, r3}
    NoRequest = NoRequest
    Payloads = {"p", "q"}
    FileRequests = {1, 2, 3, 4}
    Ask <- FourFiles
    Nobody = 0
    FileQuota = 2
    FileFaults = 1
    RecordIds = {"h1", "h2", "h3"}
    Reviews = {c1, c2}
    Legacy = {"l1"}
    NoRecord = "none"
    Asked <- ThreeProposals
    Size <- RecordSizes
    PackBytes = 2
    MaxHubVersion = 2
    Texts = {"s", "t"}
    Readers = {"r1", "r2"}
    Does <- ReadersDo
    Reviewers = {c1, c2}
    KnowledgeIds = {"k1"}
    Authorities = {"regulatory", "expert"}
    MaxExtractions = 2
    Models = {"m1", "m2"}
    Providers = {"p1"}
    Owner <- OneOwner
    Priority <- TwoPriorities
    Tiers = {"fast", "vision"}
    ZenModels = {"m1"}
    ZenDefault = "m1"
    Settings = {c1, c2}
    MaxSettings = 3
    FoundationModules = {"m1", "m2"}
    Seeded <- SeededOrder
    Primary = {"m1"}
    Clients = {c1, c2}
    Names = {"n"}
    MaxRevision = 4
SYMMETRY ClientSymmetry
INVARIANTS
    TypeOK
    TruthIsTold
    ReplaysAreTheSame
    FilesMatchRegistry
    RoutesAreFit
    KnowledgeIsGrounded
    MigrationsHold
PROPERTIES
    OutcomeStands
    HubIsGoverned
    ModulesAgree
CHECK_DEADLOCK FALSE
