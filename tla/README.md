# PQG Workspace: TLA+ models, checks and proofs

PQG Workspace is a local, single-user workspace with an assistant ("GYO"): a FastAPI backend on one
SQLite database, background loops in the same process, and a React page. This directory models the
parts of it whose correctness depends on the order in which things happen, checks the models with TLC
on small instances, and proves the results that matter most with TLAPS for every instance.

Contents: [parts of the system](#parts-of-the-system) ·
[modules](#modules-and-how-they-correspond-to-the-code) · [runs](#runs) · [fairness](#fairness) ·
[theorems](#theorems) · [what the checks found](#what-the-checks-found) ·
[limits of the models](#limits-of-the-models) · [plan](#plan)

Paths below are relative to `src/`; `app/` stands for `src/backend/app/`.

## Parts of the system

One process runs the API, the MCP server and four loops started by the lifespan in `app/main.py`:
the assistant run worker, the action package executor, the outbox dispatcher (optional, on by
default) and the learning worker. They share the database and nothing else, except for three
dictionaries in memory: pending approvals, the event bus's queues, and the streams GYO can cancel.

Three facts about the database decide how the models cut the code into steps:

* a connection opens a transaction at its first INSERT, UPDATE or DELETE (the driver's default, not
  the autocommit its docstring announces, `app/db/connection.py:10`), so that a SELECT before it
  is a step of its own and what it read may be stale when it is used;
* SQLite admits one writer at a time, and another one waits five seconds and then fails;
* `log_audit_event` commits unless it is told not to, so that an audit entry in the middle of a
  function ends its transaction there.

| Part | State | Operations | What makes it hard | What makes it correct | Module |
| --- | --- | --- | --- | --- | --- |
| Durable assistant runs | `assistant_runs`, `assistant_turns`, visible parts, leases | ask, retry, cancel, archive; recover, claim, stream, store, settle | leases lapse under live workers, crashes anywhere, answers after a cancellation, one question per thread | a question gets one final outcome, which the text, the turn and the run agree on | AssistantRuns, AssistantTurns |
| Context of a run | the sources, the memory policy frozen with the turn | discover, filter, rank, load | sources change between catalogue and load | what was rejected, switched off or altered itself stays out; nothing fit is lost | ContextPack |
| GYO orchestrator | cancellations and routing by turn | stream, fall back, cancel, stop | cancellation before registration, errors after the first token | one honest closing event, no fall-back after output | Orchestrator |
| Model routing | providers, models, keys | create, edit, retire, import; select | edits by id of rows read earlier; rows and keys read one by one meanwhile | a prompt goes to the models fit for it | ModelRegistry |
| Action packages | `action_packages`, `action_steps`, versions of Works and plan steps | propose, revise, approve, deny, cancel; watchdog, claim, apply | a revision under the executor, a crash between steps, stale versions, leases that nobody renews | what applies was approved, once, on the version it was approved for | ActionPackages |
| Works and plans | `sessions`, `work_plan_steps` | edit, archive; verify and apply a step | edits by id; packages for one step | of two packages for one version one applies | Works |
| Approval requests | `approval_requests`, `pending_approvals` and its events | register, wait, time out, decide | contradictory decisions at once, a decision against the deadline, a restart | one winner, and the waiter does what the row says | Approvals |
| Event bus and live updates | a queue and a subscriber per thread, the page's stream and view | publish, subscribe, deliver, reload | a page that reopens its stream, full queues, events without a subscriber | the answer is shown, or is lost in a known way | LiveUpdates |
| Notification outbox | `notification_outbox`, its lease, the open write transaction | enqueue, claim, post, audit, mark | the dispatcher's open transaction, n8n slow or down, a second dispatcher | a notice is delivered at least once or known to be undeliverable | Outbox |
| Tasks | `tasks`, `task_actions`, notices | create, start, ask, decide, cancel; prompts | requests that validated the same state, decisions on another task's action, ends that are not written | a task that waits can be decided, an end is announced | Tasks |
| Operation claims | `operation_claims` | claim, finalise, fail, expire | duplicates, crashes and work that outlasts its claim | one effect per key, and answers that are true | OperationClaims |
| Memory Hub | `memory_hub_records` | propose, verify, activate, reject, import, pack | decisions on a lifecycle read earlier | one record in force per identity, reviewed by the role its kind asks for | MemoryHub |
| Learning worker | `gyo_learning_jobs` and what they made | enqueue; put back, claim, decide | an effect committed before its job | what is made is accounted for, one a day, every job ends | LearningWorker |
| Skills | `skills` | edit, review, enable, delete | an edit and a decision on one reading | what is enabled was reviewed | Skills |
| Managed files | `artifacts`, files below the workspace | create, import, report, save | file, row and claim are three steps | an answered file is there and its own | ManagedFiles |
| Sandbox | files and folders | read, write, delete, walk | other programs on the machine | texts are whole, walks that do not say so lack only what is too deep | SandboxFiles, SandboxTree |
| DIRAP knowledge | source, extractions, knowledge records | attach, extract, file, review, search | extractions going stale under a request | usable is what its evidence supports | Knowledge |
| Foundation modules | `module_instances` and revisions | attach, rename, reorder | concurrent windows | one order, no edit is lost | ModuleInstances |
| Workspace tasks | `workspace_tasks`, `workspace_ai_jobs` | edit, hand off | concurrent edits and hand-offs | one open hand-off per task | WorkspaceTasks |
| Migrations | the schema, `schema_migrations` | run at every start | a start that dies half-way | what is recorded is there, and nothing is done twice | Migrations |
| The rest | conversation lists, Hermes's process, MCP tools, Telegram, marketplace, backup, status pages, settings, the other pages | | single requests with single effects | | |

How they interact: a question to GYO inserts a run, whose worker publishes to the event bus and whose
end the page learns from the bus and reads from the database. GYO proposes an action package, which
the executor applies to Works and plan steps. A prompt run creates a task; a task's end writes an
outbox row in the same transaction; the dispatcher posts it to n8n. Tool calls of an agent wait on an
approval request. Whatever creates something for a client's key does so under an operation claim. A
run's worker asks the context broker for a pack and the orchestrator for a stream; a completed turn may
leave a learning job, which ends as a proposal of the Memory Hub or a draft of a skill. A task of the
workspace is handed to GYO as a job with a thread of its own.

PROJECT.json lists every component with its sources and status, and every hazard with its line and the
properties that cover it.

## Modules and how they correspond to the code

Every module follows one pattern: state in the order database, memory, bookkeeping; one action per
transaction, or per read that a later transaction relies on; bounds as constants with named
assumptions; properties at the end. An operator marked *mutant* is a plausible mistake in the operator
below it; it is used nowhere, and PROJECT.json pairs each with the property that notices it.

The `MC*` modules give TLC its instances. Six of them (`MCRuns`, `MCPackages`, `MCApprovals`,
`MCAnswers`, `MCDispatch`, `MCStored`) hold several components side by side: a variable `part`, chosen at the
start, says which one moves, and the others keep still in one pinned initial state. The components of
one such module share no rows that both change (a run reads a finished pack; a learning job is made of
a turn nobody writes any more), so an interleaving of two of them shows nothing that each does not show
alone, and the state spaces add up instead of multiplying. The properties an MC module defines put the
component's type invariant and properties together for the part they are about. The MC module declares the
constants of the parts' INSTANCEs, the .cfg gives them their values, and a theorem about a part names the
run's own property, so that run and theorem speak of the same thing. `MCRunParts` is `MCRuns` without the
walks of SandboxTree, whose operators are RECURSIVE: the module of the proofs extends it.

### AssistantRuns, AssistantTurns (`app/services/assistant_runs.py`, `app/api/assistant_runs.py`)

`AssistantTurns` is what the user is promised, without workers: ask, accept a cancellation, show an
outcome, let go. `AssistantRuns` is the implementation: a run's `status`, `owner` and `lease`, the
turn and its visible `parts`, and for each worker loop where it stands (`pc`), what it holds (`claim`),
what it is about to store (`result`) and to publish (`outbox`).

* Requests: `CreateRun`; `RetryCheck`/`RetryCommit` (the checks and the BEGIN IMMEDIATE transaction of
  `retry_turn`, which does not look at the thread again); `CancelTurn`; `ArchiveCheck`/`ArchiveCommit`
  (two statements of the PATCH handler, no transaction around them); `Reopen`.
* The loop: `RecoverStale`, `FinalizeCancelRequested`, `ClaimRun`/`ClaimNothing`, `StreamAnswer`,
  `CheckCancelled`, `StoreAnswer`, `ReconcileClaim`, `FailClaim`, `SettleOpen`, `Publish`.
* What goes wrong: `ExecutorFails`, `ExecutorTimesOut` (ten minutes, also between a commit and its
  publication), `LoopError`, `Crash`/`Restart`, `LeaseLapses` (nobody holds the lease, or the
  heartbeat has stopped because a cancellation was requested), `HolderStalls`/`Heartbeat` (a worker
  suspended for thirty seconds, which then comes back).

### ActionPackages (`app/services/action_packages.py`, `app/api/action_packages.py`)

A package, its rows, and for each executor the steps it has loaded (`plan`, `todo`) and the versions it
has itself produced (`written`, which is `run_written` and dies with the process). `Create`,
`ReviseCheck` with `ReviseText`/`ReviseSteps`/`ReviseConflict`, `Approve`, `Cancel`, `Expire` and
`ArchiveOrRestore` are the user's; `RecoverScan` to `Finish` are `recover_stale_leases`, `_claim_next`
and `execute_one_approved_package`, one transaction at a time. `_claim_next` is two steps, `Select` and
`Claim` or `ClaimLost`, because the guarded update comes after a SELECT outside its transaction; so two
loops may hold one selected package (`picked`). The claim sets the lease and nothing renews it:
`LeaseLapses` may come whether the executor is dead or slow. The histories `applied`, `signed`, `raced` and
`overdue` exist only to state properties: how often each step of each content took effect, which
contents the creator approved, which packages were revised while an executor held them, and which
leases lapsed and were not yet replaced by the claim of a package nobody else has.

### Approvals (`app/api/approvals.py`)

The row, the dictionary entry and its event, the waiter and the decisions in flight. `Register` and
`Insert` are two steps because the dictionary is filled first; `Timeout` and `Expire` are two because
the entry goes before the row is marked; `Claim`, `ApplyMemory`, `Resolve` and `Signal` are the stages
of `submit_approval`, cut where it commits.

### LiveUpdates (`app/services/event_bus.py`, the streaming route, `AssistantChatSidebar.tsx`)

The channel's queue and subscriber, SSE connections as the server sees them, and the page: its stream
(`source`), what it shows (`view`), the load under way and the POST whose answer it awaits. `Effect` is
the React effect that closes and opens a stream whenever the list of turns changes. The history `missed`
names the turns whose end something has kept from the page, each at the step that did it: a final event
that finds the queue full (`Announce`), one that the cleanup of a stream the page has left takes with it
(`Cleanup`), a load that fails (`LoadFails`), and a load and the answer to a POST that overtake each other
(`Sent`, `ShowLoad`).

### Outbox (`app/repositories/outbox_repository.py`, `app/services/outbox_dispatcher.py`, `app/services/n8n_webhook.py`)

`Select` reads the ids of a batch, `Claim` locks those that are claimable still, or finds none or a locked
database (`ClaimLost`). `writer` is the dispatcher whose transaction is open: a claim is not committed until the
first audit of the cycle. `SenderAudits` is the sender's audit over a second connection, which cannot write while
that transaction is open.

### Tasks (`app/services/task_service.py`, `app/services/legacy_task_adapter.py`, `app/repositories/task_repository.py`, `app/services/state_machine.py`)

A request goes through `Check` (the task, its session), `Validate` (the state machine) and `Write` (a
transaction that does not look at the status again; `WriteFails` if the database stays locked). A decision
names any action, its task's or not. `Submit`, `RunEnds` and `RunWrites` are the task of a prompt;
`RunWriteFails` is the write of its end that fails, which `_run_prompt_task` logs and forgets. The history
`crossed` names the tasks whose action was decided under another's name.

### OperationClaims (`app/repositories/idempotency_repository.py` and its callers)

All requests have one identity. `Acquire`, `Replay` and `Refuse` are the outcomes of
`claim_operation`; `Finalize` commits the work together with the claim; `Rollback` and `FailOperation`
are the two halves of the error path; `Expire` may come while work is under way.

### ContextPack (`app/services/context_broker.py`, `security_context_mcp.py`, `assistant_context.py`)

`AttachTo`, `Attach` and `Ask` are the request that freezes the memory policy with the turn, with its looks at the
Work's `archived` flag and at the conversation; `Start` to `Finish` are `build_pack`, of which `Scope` is the last
to look at the Work (`admitted` remembers what it saw): one `Discover` per kind of source (`listed` counts them,
`Reached` are the rows within a listing's LIMIT 100), `FilterAndRank`, one `Load` per source that is `left`, with
its revalidation and the cut at the bytes `remaining`. `Change*` is what other requests and programs do to the
sources in between. The artifact's hydrate is the one of `SecureContextBroker`, which replaces the broker's own;
the Work's plan and its tasks are loaded without another look at the Work, so one that is archived in between
(`ChangeWork`) is still shown. `data_scope` is read once per pack (`open`).

### Orchestrator (`app/services/gyo_orchestrator.py`), ModelRegistry (`app/api/model_config.py`, `app/services/gyo_registry.py`)

A stream is a generator with a program counter: `Register`, `ReadPolicy`, `BeginAttempt`, `Token`,
`ProviderError`, `EndOfStream`, `Decide`, and the closings. `Cancel` and `StopAll` may come between any
two of them, and `Abandon` is a consumer that goes away. `Decide` is the code after the loop, from
unregistering to the closing event: it never waits. In ModelRegistry, a settings request is a read and
a write by id. `select_model_candidates` is a step for each thing it reads, between which settings are
written: the chosen model (`SelectChosen`), the rows of all (`SelectRows`), the key of the chosen one
(`TryChosen`) and those of the others in their order (`TryRow`), and its end (`EndRows`). The histories:
`withdrawn` is what was retired and not brought back, `barred` the models withdrawn when the routing began and
ever since, `touched` those changed since then, themselves or their provider.

### Works (`app/api/works.py`, `app/services/action_packages.py`)

Edits of the Work and of plan steps (`ReadStep`/`WriteStep`, `ReadWork`/`WriteWork`) beside packages
that are approved for a version (`Approve`), compared with it (`Verify`) and applied (`Apply`).
ActionPackages has the packages' life in full and takes a target to be its version; Works has the rows
in full and takes a package to be one step.

### MemoryHub (`app/services/memory_hub.py`, `work_memory_scope.py`), LearningWorker (`gyo_learning_worker.py`, `learning.py`), Skills (`app/api/skills.py`)

MemoryHub: `Propose`, `ImportLegacy`; a review is `ReadRecord`, for an activation `ReadPrevious`, and
`WriteDecision` or `Activate`; an activation that violates the unique index (`Conflict`) rolls back with the
supersession of its predecessor. `Search` and `Pack` are what is read: rows in any order, passing over what no
longer fits (`Size`). LearningWorker: `CompleteTurn`, then a pass of the worker (`StartPass`, `Skip`, `Refuse`,
`Store`, `Settle`, `Overtaken`), which goes through its `todo` from the oldest job on (`Current`) and which
`Interrupt` may cut between the candidate's commit and the job's. Skills: every request is a read and a write;
`vetted` is the history of texts an approval was written for.

### ManagedFiles (`security_artifact_create.py`, `security_artifact_import.py`, `app/api/artifacts.py`), SandboxFiles, SandboxTree (`sandbox_io_posix.py`, `sandbox_io_windows.py`)

ManagedFiles: `ClaimOperation`, `Create*` or the three stages of an import, `Register` (the row and the
audit entry, whose commit is theirs), `FinalizeOperation`; `Break` may come at each, `FailOperation` and
`ClearUp` are the error path, `ExpireClaim` and `CrashServer` the rest. SandboxFiles is the protocol
below it: descriptors and handles, identity before and after, temporary file, replacement, while
`EditInPlace`, `PutFile`, `PutOther` and `MoveFolder` are other programs. The two systems share what they
do alike; where they do, "map" names one of the two. SandboxTree has no protocol: it compares the three
walks with definitions without limits on every small folder.

### Knowledge (`app/api/dirap.py`, `security_dirap.py`, `knowledge_search.py`, `usability_policy.py`)

A request about the source file reads its hash (`ReadSource`), selects the outdated extractions
(`SelectStale`), marks them one transaction at a time (`MarkStale`), and then lists, shows, extracts or
files a record. Reviews hold the write lock from `BeginReview` to `EndReview`. `EvaluateUsability` and
the searches are the policy by use.

### ModuleInstances (`app/services/module_instances.py`), WorkspaceTasks (`app/api/workspace.py`)

One BEGIN IMMEDIATE transaction each, preceded by what the window has seen or the request has read, and
followed by the read that its answer carries.

### Migrations (`app/db/migrations.py`, `migrations_0001_0036.py`, `module_migrations.py`, `assistant_run_migrations.py`)

`Registry` is the list of the versions, each a sequence of statements (begin, commit, script, create, alter, add,
shadow, drop, rename, unless, update, audit), the rebuilds of tables statement by statement; `Execute` does what
the driver does with each: it opens a transaction before a change of rows, keeps a change of the schema outside
one at once, and `executescript` commits first. `Stop` ends a start at any statement and rolls the open
transaction back.

## Runs

| Run | Instance | Shows | Distinct states |
| --- | --- | --- | --- |
| assistant_runs_safe | 1 thread, 2 runs, 2 workers, one crash, error or stall; and by part: a pack of 8 sources of all six kinds under one change, 2 inodes in 2 folders on 2 systems, folders of up to 3 entries | the run, the turn and the text agree; one active run per thread, "done" only about what is durable, one executor per run while no lease lapses; ends are final; implements `AssistantTurns`; a pack holds what is fit and loses nothing; texts are whole; walks that do not say they were cut lack no more than what is too deep | 891 k |
| assistant_runs_live | 1 run, 2 workers, a crash and a stall | every question is settled and an accepted cancellation honoured, through crashes: implements `AssistantTurns` with its fairness | 123 k |
| assistant_runs_archive | 1 run, 1 worker | *violated:* an archived thread is not responding | |
| packages | 1 package, 2 steps on 2 targets, 2 revisions, 1 executor, 2 faults; beside it a package of one step with 2 executors, a revise request and a death; a plan step with 2 packages and an edit | steps apply once and only what was approved; a package executes under a current approval and lease; versions are checked and ends are final; packages settle; two loops that select one package do not work on it together unless its lease lapsed or it was revised (`LoopsExcludeEachOther`), and packages for one version do not stack | 1.05 M |
| packages_unapproved | 1 step, 1 executor | *violated:* nothing applies that was not approved | |
| works_stale | 1 plan step, 1 package, 1 edit | *violated:* a stale package fails closed | |
| approvals | a webhook call and a curator's memory, 3 decisions, 1 fault; a skill and 2 requests | one winner and one effect, the waiter returns what the row says, open rows can be settled; waits end; an enabled skill was reviewed | 310 k |
| answers | 2 turns, 3 connections, queue of 2, 2 tokens, a repeat, a reload, a failure; a stream of up to 4 candidates; 3 turns to learn from, 1 fault | one subscriber; streams close honestly; learning is accounted for, one a day and kind; and all comes through: an answer is shown, or lost in one of four named ways and no fifth, a stream closes, a job ends (`AnswersComeThrough`) | 374 k |
| dispatch | 2 rows, 2 dispatchers, 2 attempts, batches of 2, 2 cuts; a task, 2 actions, 2 requests at once, a prompt; 2 tasks whose decisions may name either's actions; 2 tasks of the day, 2 jobs, 2 windows | rows settle for a reason and for good, each posted by one dispatcher; a waiting task can be decided, ends are announced; one hand-off per task; every row settles and prompt tasks end, or their end could not be written (`DispatchEnds`) | 538 k |
| outbox_lock | 1 row, 1 dispatcher, 5 attempts, no faults | *violated:* what n8n accepted is not a dead letter | |
| stored | 3 requests, 2 payloads for a claim; and by part: 4 files under a quota of 2, 3 records and 2 reviews, a source of 2 texts with 2 readers and 2 reviewers, a provider with 2 models, 3 settings requests and a routing, 2 modules and 2 clients, all migrations | claims and answers tell the truth (`TruthIsTold`), replays answer the same question, outcomes stand; files match the registry, the Hub is governed, knowledge is grounded, routes are fit, modules agree, migrations hold | 696 k |
| migrations_restart | all migrations | *violated:* no start is refused | |

Why the bounds are enough. *Runs:* two turns are needed for a thread to hold a retry beside an open question, two
workers for a stale one and its successor; a second crash finds the same states, because a dead worker leaves
nothing but rows, and `OneTrouble` (crashes, errors and stalls together at most one) keeps the run with two turns
small, while assistant_runs_live has one of each. *Packages:* two steps on one target exercise the run's own
writes, on two targets a conflict; two revisions are one race; two faults are a crash and a crash of the recovery;
of two loops one may die, and either may be slow beyond its lease. *Tasks:* two requests on one task are the race
of its writes, two tasks the decision that names the other's action. *Approvals:* three decisions are a
contradiction and a decision after a failed one. *Live updates:* three connections are the stream that ends, the
one that takes over and one the server has not yet missed; two tokens fill the queue of two, so that a final event
can find no room. *Outbox:* the last attempt and the one before it. *Claims:* an owner whose claim expired, its
successor, and a replay. *Orchestrator:* four candidates are one more than `max_attempts`. *Learning:* three jobs
are a day's allowance, its breach and a duplicate. *Memory Hub:* two records of one identity and one of another,
two reviews that overlap. *Files:* two requests for one path and key, a folder, a report, a quota of two.
*Sandbox:* two inodes are the file and what replaces it; folders are nested one deeper than the depth at which the
walks stop. *Knowledge:* a text, another, and one reader that files what the other has marked. *Packs:* sources of
every kind, two each of two capped ones, one beyond its listing, more bytes than there is room for. *Model
routing:* two models are a choice and an alternative; three settings requests (`MaxSettings`) are an edit read
before a retirement, the retirement, and a change during the one routing that is followed, which changes nothing
it reads. *Workspace, modules, skills, settings, works:* two clients whose reads overlap, and versions enough for
both to write. *Migrations:* no bound, the file's versions as they are, and starts without number.

Symmetry is used where no liveness is checked: the worker loops of assistant_runs_safe, and in stored two
clients that stand for the reviewers, settings requests and windows of every part.

CHECK_DEADLOCK is off where an instance really has nothing left to do: all decisions sent (approvals), all
questions answered (answers), all rows settled (dispatch), a bound reached or a start refused (stored,
migrations_restart, works_stale), a pack refused or built (assistant_runs_safe; the same queue is checked
for deadlock in assistant_runs_live).

## Fairness

Fairness is weak, per loop and per request, and never on anything a user or n8n does: the loops catch
every exception and go on (`run_assistant_run_worker_loop`, `run_action_package_executor_loop`,
`run_outbox_dispatcher_loop`, `run_gyo_learning_worker_loop`); the local launcher starts the backend again
(`Restart`); a request the server has begun runs to its end unless the process dies; provider calls, posts
and waits have timeouts in the code, so that a step which waits for them ends; the clock moves
(`LeaseLapses`, `Lapse`). The user's decisions, cancellations and reloads, crashes and errors are never
assumed to happen. In a module with several parts the fairness is the component's own, for the part that
moves. `stored` has no fairness: what it checks is safety.

## Theorems

| Theorem | Says, for every value of the constants |
| --- | --- |
| AssistantRunsProofs!TypeCorrect | `Spec => []TypeOK` |
| AssistantRunsProofs!Agreement | `Spec => []RunTurnAndTextAgree` |
| AssistantRunsProofs!Exclusion | `Spec => []RunsAreExclusive`: one active run per thread, "done" only about what is durable, one executor per run |
| AssistantRunsProofs!Ends | `Spec => EndsAreFinal` |
| AssistantRunsProofs!Refinement | `Spec => ImplementsTurns`: the queue implements `AssistantTurns` |
| AssistantRunsProofs!PackGoverned | `Pack!PackSpec => PackIsGoverned`: a body enters the pack only for a run that found its Work open and while it is fit itself, and a finished pack lacks nothing fit but for want of bytes or because its kind is full |
| AssistantRunsProofs!WholeTexts | `Sandbox!SandboxSpec => TextsAreWhole`: no read mixes two texts, a write brings its whole text or nothing |
| ActionPackagesProofs!TypeCorrect (`OneLoop`) | `Spec => []TypeOK`; no version grows past one more than the steps that took effect |
| ActionPackagesProofs!ApplyOnce (`OneLoop`) | `Spec => []ApprovedStepsApplyOnce`: through revisions, crashes and recoveries a step takes effect at most once, and a package that succeeded has made every change |
| ActionPackagesProofs!Held (`OneLoop`) | `Spec => []ExecutingIsHeld` |
| ActionPackagesProofs!Binding (`OneLoop`) | `Spec => ApprovalsBind`: ends, denials and versions |
| ActionPackagesProofs!LoopsExclude | `Spec => []OneExecutorPerPackage`: of any number of executors that select and claim, one works on a package unless its lease lapsed or it was revised |
| ActionPackagesProofs!DoNotStack | `Plan!WorksSpec => PackagesDoNotStack`: of the packages for one version of a plan step one applies |
| ApprovalsProofs!TypeCorrect | `Spec => []TypeOK` |
| ApprovalsProofs!Agreement | `Spec => []DecisionsAgree`: one winner, one effect, a waiter that returns what the row says, rows that can be settled |
| ApprovalsProofs!SkillsAreVetted | `SkillsSpec => []EnabledIsVetted`: what is enabled was reviewed, however edits and decisions overlap |
| LiveUpdatesProofs!TypeCorrect, OneReader | `Spec => []TypeOK` and `Spec => []SingleSubscriber` |
| LiveUpdatesProofs!HonestClosing | `Models!OrchestratorSpec => []ClosingIsHonest`: a stream's closing event agrees with what it showed and with what a cancel was told |
| LiveUpdatesProofs!LearningBounded | `Learning!LearningSpec => []LearningIsBounded`: what is stored is accounted for, one a day and kind |
| DispatchProofs!SentWasAccepted | `Spec => []SentIsAccepted`: a row marked as sent was accepted by n8n |
| DispatchProofs!TypeCorrect, Orderly (`LeasesSuffice`) | `Spec => []TypeOK` and `Spec => OutboxIsOrderly`: a row ends for a reason and for good, and one dispatcher posts it |
| DispatchProofs!TasksStayDecidable | `Lifecycle!Spec => []TasksAgree`: whatever actions decisions name, a task that waits can be decided unless its action was decided under another's name, and an end is announced |
| DispatchProofs!HandOffsAgree | `HandOff!WorkspaceSpec => WorkspaceAgrees`: one open hand-off per task, answers that name their job, edits that overwrite only what they saw |
| OperationClaimsProofs!TypeCorrect, ClaimsAreTrue, Replays, Outcomes | `Spec => []TypeOK`, `[]TruthIsTold`, `[]ReplaysAreTheSame` and `Spec => OutcomeStands`: claims and answers are true, a replay answers the same question |
| StoredProofs!FilesMatch | `Files!FilesSpec => []FilesMatchRegistry`: what a request was told is there and its own |
| StoredProofs!HubGoverned | `Hub!HubSpec => HubIsGoverned`: one record of an identity in force, only reviewed ones used, packs that keep to their bytes, no record lost to a failed replacement |
| StoredProofs!KnowledgeGrounded | `Dirap!KnowledgeSpec => []KnowledgeIsGrounded`: found and usable is what its evidence supports |
| StoredProofs!RoutesFit | `Registry!RegistrySpec => []RoutesAreFit`: whatever is written between its reads, a routing hands on no model retired before it began or without a key, and of those nobody touched the fit ones, once, in their order, and no other |
| StoredProofs!ModulesAgreed | `Interface!ModulesSpec => ModulesAgree`: one order, and no edit over one that was not seen |

*Assumptions.* Those of the modules say that the bounds are naturals (those that a first value has to
fit in, positive), that the null values are none of the values they complete, that a Work is a target of
its own package's steps, and that packages and decisions are finitely many, so that what they do can be
counted. For the parts they say further: the ranking of a pack's sources, the priorities of models and the
seeded places of modules are each without ties, which an id as the last sort key, or the migration, sees
to; a rendered section has a byte at least, and what a user attaches is an artifact; the bytes of a
Hub pack grow with its records, and an empty one fits; reports have a folder of their own, apart from the
paths of texts and imports; records, models and modules are finitely many. TLC evaluates all of them on every
run. Two hypotheses belong to theorems. `OneLoop`: there
is one executor loop, which is what the lifespan of `app/main.py` starts; `LoopsExclude` says what is true
of several. `LeasesSuffice`: there is one dispatcher, which again is what the lifespan starts, and its batches
may be as slow as they like; or there are several, in several backends, and no batch outlasts its lease
(`~SlowPosts`), which ten posts of up to 30 seconds under a lease of 30 seconds do not promise. Without
either, TLC shows the property broken.

*AssistantRuns.* `TypeInv` adds to `TypeOK` which workers hold a claim and which an answer: without it,
a step that writes "the result of worker w" into a turn could write anything. The many actions of
workers, requests and clocks change the tables in nine ways only; `RowStep` names them (enqueue,
cancel, requeue, finalise, claim, store, fail, reconcile, nothing), and `StepsAreRowSteps` shows that
every step is one of them. Everything after that is about nine cases and not about thirty: `RowInv`
(runs not yet created have no turn; a settled run has a settled turn; the text agrees with the turn) is
inductive under `RowStep`, and so are the two halves of `EndsAreFinal` and the refinement, in which
requeueing and claiming are invisible, storing is `Answer`, and finalising and failing are `Settle`.
`Exclusion` needs more of the workers than the rows say. `ClaimsAreHeld`: as long as no worker has
stalled, whoever holds a running run's claim owns its live lease, and a queued run is nobody's; so a claim
finds no other holder, and recovery, which takes only lapsed leases, takes nobody's. `AnnounceInv`: what a
worker is still to publish was ended by the step that wrote it down, at the latest.

*ContextPack and SandboxFiles.* `PackInv` says what the pack under construction owes to the catalogue.
`CatalogueFits`: of a source that was fit all along, the descriptor is still true once its kind is listed.
`OrderFits`: the pack is in rank order and ahead of what is left. `NothingIsLostYet` is the property itself with
"or is still to be loaded" added, which a finished pack, with nothing left, turns into `NothingFitIsLost`. `LeftFits`
is for the other half, `OnlyFit`: what the revalidation does not look at again is either frozen, as the
policy is, or said by the property to be as `Scope` found it, as the Work is, of which `ProgressFits` keeps that
the run found it open. `SandInv` is about the descriptor in hand: `ReadFits` says that what
a read took is the file's own unless the file has changed after the time it noted; `WriteFits` says that no name
leads to the temporary file before its own, and that it holds what was written.

*ActionPackages.* `VersionsTyped` is stated over a set of versions that is closed under counting, because
no bound of the model limits a version: `Effects`, the steps that took effect, grow by one with each
version, and there is a version for each of them at most. `Shape` relates a package to its rows and to what
executors have loaded: the rows are the content's, only packages not yet executed are revised, an approval
was signed for the content unless a revision raced the claim (`raced`), and a plan is the content it was
loaded from. `LoopInv` is the argument for "once": a row is recorded as succeeded exactly if its change was
made (`StepsAreRecorded`, through crashes because both are one transaction); what is still to do is not
done, and what is dealt with without trouble is (`TodoIsUndone`); a claimed package is executing under its
approval and lease (`ClaimsAreApproved`); and between its check and its update a step's version stands
(`VersionsHold`). The last is where `OneLoop` comes in: another loop's step on the same target would move
the version between the two. `LoopsExclude` needs no `OneLoop`. Its invariant `LoopsAreExclusive` says of the
packages neither overdue nor revised under a loop that one loop at most has them and that they are executing;
so the update, which looks at the status and the lease again, finds them neither approved nor lapsed, whatever
was selected before. A lapsed lease makes its package overdue, as does a place on the list of a watchdog that
has yet to hand it back; and only the claim of a package that nobody has or is about to hand back ends that.
In Works the one loop is in the guard of `Verify`, which takes one package at a
time: `VersionsFit` (a row's version is the approved one between check and update, and beyond it
afterwards) and `OneIsVerified` are inductive with its types, and two packages for one version cannot both apply.

*Approvals.* `RecordInv` follows an approval from two sides. `WaitersFit`: before the row is there nobody
has an answer, and a row expires only together with the denial its waiter returns. `WinnersFit`: a request
that has won is the only one, and the row is its own until it expires. `HeardIsOnRecord`: what a waiter can
hear through the event is in the row. From these follow the winner and the waiter; that a memory is stored
once needs the stage in which a decision stores it (`MemoriesFit`), and for `TypeOK` the requests that may
have stored it (`MemoriesAreCounted`, bounded by the finite set of decisions). `Settleable` is
`OpenIsSettleable` with the entry each waiter and each decision has seen. Skills: `SkillsFit` says that a
row, and every text an update has read and may still write, is fair by the approvals there are; as
approvals are only added while a skill is there, an update that waits stays fair.

*LiveUpdates.* `TypeOK` and `SingleSubscriber` are inductive together: the publisher keeps the bound of the
queue, and whoever subscribes finds the flag down, which says that nobody has subscribed.
`StreamsInv` is about the stream of a turn: `RowFits` ties its place in the code to the text, the attempt it came
from and the errors shown (an error that is retried came before any text), `SharedFits` ties it to who is
registered and who was told "cancelled"; only a stop of everything unregisters others, hence its exceptions.
`JobsInv`: a pass has pending jobs to go through, except for the one it has just stored (`PassFits`), and while
that one waits for its outcome nothing of its kind was created that day (`StoredFits`), so that settling it
keeps `OneADay`. Each uses that `Current` is the least of a set, which FiniteNumbers proves of any set of
naturals that is not empty.

*Outbox.* `BaseInv` is about one dispatcher: its batch and the row at hand fit where it is, and what it is to mark
as sent was accepted. `LeaseInv` adds what is between dispatchers: a row that is not only selected but claimed
(`Held`) is locked by its dispatcher, is unfinished, and has not lapsed unless cycles may outlast their leases
(`BatchesAreHeld`). So claimed batches are disjoint: of what it has selected a claim takes only what is claimable
then, which is in no other dispatcher's batch, either because none has lapsed or because there is no other.
Attempts count the marks, and posts are counted by attempts and cut cycles (`AttemptsAreBounded`,
`PostsAreCounted`).

*Tasks and the workspace.* `TasksInv` is `TasksAgree` with `RequestsFit`: a request under way has its task, and a
decision its action. A task that waits got an action of its own with the step that made it wait; from then on
only a decision changes that action, and either it names this task, which then waits no more, or the task is
`crossed`. `DayInv`: a hand-off is bound to a task that
is there and to its Work or to none (`JobsFit`), and what a request saw is not newer than the row and is the
row if their versions agree (`CallsFit`), which is why an update conditional on the version overwrites
nothing but what its window showed. These proofs, like the one about skills, are about INSTANCEs in an MC module
(`Lifecycle` and `HandOff` in MCDispatch, `Review` in MCApprovals), whose constants are declared there and
valued in the .cfg, so that the theorem states the run's own property; the theorem is about the component's
own specification, without the other parts of the run.

*Stored parts.* Files: `EntriesFit` (whatever is at a path is nobody's or what a request of that path puts there)
and `RequestsFit` (from its publication to its end a text or an import has its file, and a failed one that clears
up removes its own or none; what was registered is in the registry). A report's clean-up may remove another
report's file, which is why the property excepts reports. Hub: `RecordsFit`, and `ReviewsFit` for the reviews
under way: the kind of their record, and so the role it asks for, is what it was when they read it, an
activation's record was verified, and what it replaces was activated and is of its identity; that one is in force
is then the index. `PacksFit` counts through the rows of a pack. Knowledge: `ReadersFit` (what a reader holds is
the text it read, and an extraction it files a record from has that text or is still to be marked), `RowsFit`
(each status with the evidence it was given). Routing: what routing has read and what settings requests have
written since meet in the histories. `Known` says that what was withdrawn and not brought back is retired, because
an edit, whenever it was read, leaves `retired` alone; so no model that is `barred` is ever eligible again while
it stays so. `RowsRead` and `ChosenFits`: what was read of a model nobody touched is still true. `GivenFit`: what
is handed on and what is left to try make up the fit ones among these, in the order of their ranks, and keys once
there are never taken away. Modules: `PlacesDiffer` and `ViewsFit` (a client shows no revision newer than the row,
and the row if the revisions agree), from which an update that compares revisions overwrites nothing unseen.

*FiniteNumbers* has what several proofs need of numbers: a least and a greatest element, the size of an
interval, and counting up from 0 for a set in place of a predicate, since the library's induction takes an
operator, which the provers cannot instantiate.

*OperationClaims.* `IInv` adds that a completed claim holds the answer of committed work, which is what
makes a replay true. `Replays` needs a history as well: as long as no work has outlasted its claim,
every request that works or fails does so under the claim that stands, with the claim's hash.

*Only model-checked.* Liveness, for fairness and ENABLED are out of the prover's reach: `ImplementsFairTurns`,
`ApprovedPackagesSettle`, `EveryApprovalEnds`, `AnswersComeThrough`, `DispatchEnds`. `WalksLackOnlyTheDeep`:
SandboxTree's walks are RECURSIVE operators, and what they return for every folder is induction over data.
`MigrationsHold`: it has no parameter; it compares a file of 36 concrete versions, of which the instance is the
whole truth already. `LoopsExcludeEachOther` and the type invariants of the MC modules speak of the parts of a
run; `LoopsExclude` and the theorems above state the same for the components.

## What the checks found

Five runs end in a counterexample on purpose: they state what the repository says and the code does
not do.

* `ArchivedThreadsAreQuiet`: the check "cannot archive while GYO is responding" and the update are two
  statements; a question asked between them leaves an archived thread that is responding
  (`app/api/assistant.py:1147`). A retry that passed its checks before the archive has the same effect.
* `UnapprovedNeverApplies`: a revision is guarded by the revision number and not by the status it
  checked; if the executor claims the package in between, it loads and applies the steps of a revision
  nobody approved (`app/api/action_packages.py:366`, `app/services/action_packages.py:436`).
* `AcceptedIsNotGivenUp`: the sender audits a success over its own connection while the dispatcher's
  claim is uncommitted; it waits for the lock, fails, and the delivery counts as failed. With single
  rows this repeats at every attempt and a delivered notice ends as a dead letter
  (`app/services/outbox_dispatcher.py:53`).
* `StalePackagesFailClosed`: an edit by hand does not move the version of a Work or plan step, which is
  all a package's step is compared with; the step applies over the edit (`app/api/works.py:437`).
* `NoStartIsRefused`: versions 4, 6, 9 and 18 add a column without looking for it, outside a
  transaction; a start that dies before the version is recorded makes every later start fail
  (`app/db/migrations_0001_0036.py:165`).

Modelling showed more such differences. They can be read off the modules, and no run states them:

* Approvals: the resolving update's rowcount is not looked at and an expiring waiter marks the row by
  id (`app/api/approvals.py:335`), so a user can be answered "recorded" about a row that says expired,
  against "Notify waiters only after durable state ..." (`:359`). A failure after the curator's memory
  was committed lets a second decision deny or repeat it (`:119`), against "one winner and one side
  effect" (`docs/implementation/REMEDIATION_V1_2_POLICY_MATRIX.md:13`). `WaiterAgreesWithRow` and
  `OneWinnerOneEffect` state what does hold.
* Packages: the executor's last update names the package by id, so that a package cancelled after its last check
  ends as succeeded (`app/services/action_packages.py:507`, against `:413`). `run_written` is lost in a crash, and
  the second of two steps on one target is then blocked by the first (`:441`, against `:519`). A lease is set once
  and not renewed (`:248`), so that the watchdog of a second backend hands back the package of an executor that is
  merely slow, and both work on it. The executor's checks of the archived flag and of the version are reads of
  their own, before the writing transaction.
* Live updates: an answer can be kept from the page, against "No infinite spinner"
  (`docs/08_TEST_DATA_SCENARIOS.md:182`), in four ways: its final event finds a queue full of tokens and is
  dropped (`app/services/event_bus.py:54`); a stream the page has left takes it with it (`:89`); a load fails and
  is not tried again; the answer to the POST is shown after a load that knew better, or an older load after it
  (`frontend/src/components/AssistantChatSidebar.tsx:436`, `:569`). `EveryAnswerIsShown` names them and shows that
  there is no fifth.
* Tasks: two requests that validated one state both write, so that a terminal task can leave it
  (`app/repositories/task_repository.py:81`, against `app/services/state_machine.py:22`). A decision is
  not bound to an action of the task, and one that decides another task's leaves that task waiting with nothing to
  decide on (`app/services/task_service.py:165`); a denial fails the task without a notice (`:170`). A write of a
  prompt task's end that fails is logged or passed over, and the task stays running
  (`app/api/sessions.py:200`, `:230`). Recovery at start marks runs as failed and leaves their tasks running
  (`app/services/task_recovery.py:36`).
* n8n gets no Idempotency-Key from the dispatcher, so a post that is repeated is a new one
  (`app/services/n8n_webhook.py:50`).
* Files: a report whose path another key has taken fails with 409 after it has noted the path as its
  own, and its clean-up deletes the first report's file (`app/services/security_artifact_create.py:212`,
  `:247`; folders likewise, `:145`, `:168`): `PublishedReportsStay` in ManagedFiles states what is lost. A row
  outlives its file if finalising fails after the audit entry has committed (`:96`). Reports and editor
  saves are not held against the quota, an import is checked against it before its bytes have come, and an
  editor save leaves the artifact's hash as it was.
* Knowledge: a list reads the hash before the file changes and calls its extraction fresh
  (`OldIsNeverShownFresh`). Routing settings: an edit read before a model was switched off makes it the default
  (`DisabledIsNotDefault`). Works: two edits that each keep the rule leave a blocked step without an explanation
  (`BlockedStepsAreExplained`). Workspace: a task made human-led after the check is handed off
  (`HumanTasksStayHuman`). Packs: the line ends between sections are not counted, so the text can exceed its limit
  by them (`PackFitsItsLimit`); and a listing stops after 100 rows before any is judged, so that rows which will
  be denied push a usable one out (`app/services/context_broker.py:302`, against "Denied resources never consume
  those caps", `:473`), which is why `KindIsFull` looks at what is `Reached`. A Work archived after the broker has
  read it is shown all the same, with its plan and its tasks, which are loaded without another look at it (`:553`,
  against "fail-closed revalidation", `:551`); archiving looks for active task runs only
  (`app/api/sessions.py:388`).
* Sandbox: the tree stops at `MAX_DEPTH` (`app/api/files.py:40`) and does not say so: what lies deeper is missing
  from an answer that is not marked as truncated (`app/services/sandbox_io_posix.py:341`,
  `sandbox_io_windows.py:645`). `WalksLackOnlyTheDeep` states what is missing then.
* Orchestrator: a cancellation before registration is answered not_active; one answered "cancelled"
  while an exception is handled ends as failed; a completed run may hold nothing but the fall-back note; a
  provider that ends without a token or an error fails the run without an error event.
* Migrations: the driver's transactions are the default ones, against the docstring of
  `app/db/connection.py`; versions 27 to 36 commit before the runner records them, against the comment in
  `app/db/migrations.py:65`; version 32's BEGIN is committed by its script.

## Limits of the models

Deliberate merges, each of which removes behaviours the properties do not depend on:

* AssistantRuns: what the provider streams is abstract; ids are ranks in the queue. Prompts,
  attachments, routing and memory are outside; a missing one is `ExecutorFails`.
* ActionPackages: approve and cancel read the Work's archived flag and update in one step. One
  `lapsed` stands for the claim's threshold and the watchdog's longer grace. A handler
  raises before its update, which is its last statement. Hand edits are left to Works, so the versions
  part of `ApprovalsBind` is about changes that move versions.
* Approvals: risk classification and the session-wide allowance are reduced to whether a request is
  external.
* LiveUpdates: the delivery of the final event and the generator's cleanup are one step; `done` and
  `error` are one event.
* Outbox: n8n's inner retries are one post, rows are
  numbered in the order of creation. The second dispatcher is a second backend; with `SlowPosts = TRUE`
  (a batch slower than its lease) two of them break `OutboxIsOrderly`; a single one does not (`DispatchProofs`).
  `MaxCuts` bounds cycles cut short.
* Tasks: a service call's write and commit are one step, and so is the archive of a session. A prompt whose task
  asks for an action ends without its task (`app/services/legacy_task_adapter.py:59`); `PromptTasksEnd`
  excepts it.
* OperationClaims: one identity. A crash is the only way a processing claim is left behind. Callers
  whose work is files do not commit it with the claim: they are in ManagedFiles, with the claim reduced to
  what they use of it.
* ContextPack: bodies are lengths; a source's rank, and whether a listing reaches it, do not change in a run.
  Orchestrator: candidates are a number, tokens are the attempt they came from. ModelRegistry: the catalogue is
  any subset of the Zen list; a keyring that fails has no key.
* MemoryHub: one memory key; roles are agent, codex and user; a pack's bytes are any function that grows
  with its records. Skills: name, description and content are
  one text, and names are not compared. LearningWorker: a candidate is its hash.
* ManagedFiles: content is its writer, sizes are one unit. SandboxFiles: a text is two halves, and the
  server works on one path at a time. Knowledge: one work item and one source; a hash is its text.
* Works: a Work's own edits share the columns of a step's; no phases. WorkspaceTasks: one version counter and the
  fields the hand-off looks at; a hand-off's idempotency key, which is finalised only after the hand-off is
  committed (`app/api/workspace.py:246`), is left out. ModuleInstances: no configuration, which nothing writes.
* Migrations: rows are left out, except for the audit entries of backfills and for tables that a rebuild
  could empty. Version 21's failure on duplicates among older records, and the payloads version 34
  computes for older approvals, are not there.

### Not modelled

PROJECT.json says it for every component; in short: what is one statement per request has nothing to
interleave (conversation lists, labels, the overview, marketplace, Telegram's callback, status pages);
what is pure I/O has no protocol (provider and Hermes wire formats, backup, subprocesses); MCP's tools pass a
request on to services that are modelled; field validation (`schemas.py`), settings and prompt wording are
data; of the page only the assistant's stream keeps state that events can put out of order. Code nothing
calls is left out as well: `context.py`'s `build_context`, `model_resilience.py`, `execute_idempotent`, and
the functions of `artifacts.py`, `files.py` and `dirap.py` that `security_overrides.py` replaces.

## Plan

Every safety property of the passing runs but `WalksLackOnlyTheDeep` and `MigrationsHold` is a theorem. What would
come next:

1. SandboxTree with recursive functions in place of operators, and its walks proved for folders of a
   given depth; for every depth it is induction over data.
2. The parts listed as partly modelled: phases and revisions of Works, the remaining edits of DIRAP items and
   artifacts, and the Telegram callback beside the decisions of Approvals.
3. Pairs of components that are checked apart because neither writes what the other holds: a learning job
   and the review of what it proposed, a prompt run and the approval its tool call waits for.
