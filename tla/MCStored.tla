------------------------------ MODULE MCStored ------------------------------
(* What requests read, decide on and write, for the model checker: operation *)
(* claims, and beside them the managed files, the Memory Hub, DIRAP's        *)
(* knowledge, the models a prompt may be routed to, the modules of the       *)
(* interface, and the migrations that make the tables. They share no rows    *)
(* that both change, so each behaviour is one part's, chosen at the start,   *)
(* and the others keep still.                                                *)
EXTENDS OperationClaims, Naturals, FiniteSets, TLC

CONSTANTS r1, r2, r3, c1, c2

CONSTANTS
    FileRequests, Ask, Nobody, FileQuota, FileFaults,                         \* ManagedFiles
    RecordIds, Reviews, Legacy, NoRecord, Asked, Size, PackBytes, MaxHubVersion, \* MemoryHub
    Texts, Readers, Does, Reviewers, KnowledgeIds, Authorities, MaxExtractions, \* Knowledge
    Models, Providers, Owner, Priority, Tiers, ZenModels, ZenDefault, Settings, MaxSettings, \* ModelRegistry
    FoundationModules, Seeded, Primary, Clients, Names, MaxRevision                     \* ModuleInstances

\* Two clients of whatever moves; nothing tells them apart.
ClientSymmetry == Permutations(Clients)

\* A text and an import of one name, a folder and a report.
FourFiles == <<[kind |-> "text", path |-> "a", key |-> "k"],
               [kind |-> "import", path |-> "a", key |-> "k"],
               [kind |-> "folder", path |-> "f", key |-> "k"],
               [kind |-> "report", path |-> "r", key |-> "k"]>>

\* Two agents' proposals and one of the user's, of which two have one identity;
\* and records of two sizes, which add up.
ThreeProposals ==
    {[actor |-> "agent", kind |-> "preference", scope |-> "global", sens |-> "normal"],
     [actor |-> "agent", kind |-> "lesson", scope |-> "task", sens |-> "restricted"],
     [actor |-> "user", kind |-> "preference", scope |-> "task", sens |-> "normal"]}
RecordSizes == [rs \in SUBSET RecordIds |-> Cardinality(rs) + Cardinality(rs \cap {"h1"})]

ReadersDo == [r \in Readers |-> IF r = "r1" THEN {"list", "show"} ELSE {"extract", "create"}]

\* A model of the Zen list and another of the same provider.
OneOwner == [m \in Models |-> "p1"]
TwoPriorities == [m \in Models |-> IF m = "m1" THEN 2 ELSE 1]

SeededOrder == [m \in FoundationModules |-> IF m = "m1" THEN 1 ELSE 2]

\* Reports have a folder of their own, outside the one texts and imports go to.
ASSUME FilesAssumption ==
    /\ \A r \in FileRequests : Ask[r].kind \in {"text", "import", "folder", "report"}
    /\ \A q, r \in FileRequests :
          Ask[q].kind = "report" /\ Ask[r].kind \in {"text", "import"} => Ask[q].path # Ask[r].path
    /\ Nobody \notin FileRequests /\ FileFaults \in Nat

\* A pack of more records is no shorter, and an empty one fits.
ASSUME HubAssumption ==
    /\ IsFiniteSet(RecordIds) /\ NoRecord \notin RecordIds /\ MaxHubVersion \in Nat \ {0}
    /\ PackBytes \in Nat /\ Size \in [SUBSET RecordIds -> Nat] /\ Size[{}] <= PackBytes
    /\ \A few, many \in SUBSET RecordIds : few \subseteq many => Size[few] <= Size[many]
    /\ \A p \in Asked : /\ p.kind \in {"preference", "lesson"} /\ p.scope \in {"global", "task"}
                        /\ p.sens \in {"normal", "restricted"}

ASSUME KnowledgeAssumption ==
    /\ "gone" \notin Texts /\ "idle" \notin KnowledgeIds /\ "free" \notin Reviewers
    /\ "none" \notin Authorities /\ MaxExtractions \in Nat
    /\ \A r \in Readers : Does[r] \subseteq {"extract", "list", "show", "create"}

\* The time of creation and the id leave no two models of one rank.
ASSUME RegistryAssumption ==
    /\ IsFiniteSet(Models) /\ Owner \in [Models -> Providers] /\ "vision" \in Tiers
    /\ "fast" \in Tiers /\ "none" \notin Models \cup Providers /\ Models \cap Providers = {}
    /\ MaxSettings \in Nat
    /\ Priority \in [Models -> Nat] /\ \A m, n \in Models : Priority[m] = Priority[n] => m = n

\* Module migration 0037 seeds every module with a place of its own.
ASSUME ModulesAssumption ==
    /\ IsFiniteSet(FoundationModules) /\ MaxRevision \in Nat \ {0}
    /\ Seeded \in [FoundationModules -> Nat]
    /\ \A m, n \in FoundationModules : Seeded[m] = Seeded[n] => m = n

VARIABLES
    part,                                                    \* what moves
    files, registry, fileClaims, asked, troubles,            \* ManagedFiles
    hub, imports, hubReview,                                 \* MemoryHub
    item, disk, extractions, reader, knowledge, evidence, review, writeLock, \* Knowledge
    providers, models, setting, routing, needs, chosen, left,               \* ModelRegistry
    ranks, seeing, given, withdrawn, barred, touched, requests,
    rows, view, due,                                         \* ModuleInstances
    tables, schema, inTx, keys, pc, step                     \* Migrations

filesVars == <<files, registry, fileClaims, asked, troubles>>
memoryVars == <<hub, imports, hubReview>>
dirapVars == <<item, disk, extractions, reader, knowledge, evidence, review, writeLock>>
registryVars == <<providers, models, setting, routing, needs, chosen, left, ranks, seeing, given,
                  withdrawn, barred, touched, requests>>
modulesVars == <<rows, view, due>>
tableVars == <<tables, schema, inTx, keys, pc, step>>
workParts == <<dirapVars, registryVars, modulesVars, tableVars>>
allVars == <<part, vars, filesVars, memoryVars, workParts>>

Files == INSTANCE ManagedFiles WITH claims <- fileClaims
Hub == INSTANCE MemoryHub WITH MaxVersion <- MaxHubVersion, review <- hubReview
Dirap == INSTANCE Knowledge
Registry == INSTANCE ModelRegistry
Interface == INSTANCE ModuleInstances WITH Modules <- FoundationModules
Tables == INSTANCE Migrations WITH disk <- tables, view <- schema, at <- step

Parts == {"claims", "files", "hub", "dirap", "registry", "modules", "tables"}

\* A part that keeps still has one initial state.
StoredInit ==
    /\ part \in Parts
    /\ Tables!MigrationsInit /\ (part = "tables" \/ tables.applied = {})
    /\ Init /\ Files!FilesInit /\ Hub!HubInit
    /\ Dirap!KnowledgeInit /\ disk = "s"  \* the two texts are alike
    /\ Registry!RegistryInit /\ Interface!ModulesInit

WorkStep ==
    \/ part = "dirap" /\ Dirap!KnowledgeNext /\ UNCHANGED <<registryVars, modulesVars, tableVars>>
    \/ part = "registry" /\ Registry!RegistryNext /\ UNCHANGED <<dirapVars, modulesVars, tableVars>>
    \/ part = "modules" /\ Interface!ModulesNext /\ UNCHANGED <<dirapVars, registryVars, tableVars>>
    \/ part = "tables" /\ Tables!MigrationsNext /\ UNCHANGED <<dirapVars, registryVars, modulesVars>>

StoredNext ==
    /\ UNCHANGED part
    /\ \/ part = "claims" /\ Next /\ UNCHANGED <<filesVars, memoryVars, workParts>>
       \/ part = "files" /\ Files!FilesNext /\ UNCHANGED <<vars, memoryVars, workParts>>
       \/ part = "hub" /\ Hub!HubNext /\ UNCHANGED <<vars, filesVars, workParts>>
       \/ WorkStep /\ UNCHANGED <<vars, filesVars, memoryVars>>

StoredSpec == StoredInit /\ [][StoredNext]_allVars
-----------------------------------------------------------------------------
(* What a request answered with 201 imported or created stays readable and   *)
(* is its own, and a file that is not registered belongs to a request that   *)
(* is not over or was cut off (services/security_artifact_create.py).        *)
FilesMatchRegistry ==
    Files!FilesTypeOK /\ Files!FilesMatchRegistry

(* One record of an identity is in force, nothing is used without its        *)
(* review, packs keep their limits, and a record in force is not lost to a   *)
(* replacement that fails (services/memory_hub.py).                          *)
HubIsGoverned ==
    /\ [](Hub!HubTypeOK /\ Hub!HubIsGoverned)
    /\ Hub!ReplacedNotLost

(* A knowledge record holds what was read, and is found and usable exactly   *)
(* where the evidence filed with it says so (api/dirap.py).                  *)
KnowledgeIsGrounded ==
    Dirap!KnowledgeTypeOK /\ Dirap!KnowledgeIsGrounded

(* A routing that reads rows and keys while settings are written hands on    *)
(* what is fit in the order of its standing, and nothing that was retired    *)
(* before it began (services/gyo_registry.py, api/model_config.py).          *)
RoutesAreFit == Registry!RegistryTypeOK /\ Registry!RoutesAreFit

(* Foundation modules keep one order, and no client overwrites a change it   *)
(* has not seen (services/module_instances.py).                              *)
ModulesAgree ==
    /\ [](Interface!ModulesTypeOK /\ Interface!OrderIsTotal /\ Interface!RevisionTellsContent)
    /\ Interface!NoEditIsLost

(* Starts that die at any point leave a database of which schema_migrations  *)
(* tells the truth and in which nothing was done twice (db/migrations.py).   *)
MigrationsHold == part = "tables" => Tables!MigrationsTypeOK /\ Tables!MigrationsHold
=============================================================================
