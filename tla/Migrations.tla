----------------------------- MODULE Migrations -----------------------------
(***************************************************************************)
(* The migrations every start of the application applies, on SQLite        *)
(* through Python's driver, with a process that may die between any two    *)
(* statements and be started again.                                        *)
(*                                                                         *)
(* The driver opens a transaction before an INSERT, UPDATE or DELETE, and  *)
(* before nothing else: a change of the schema outside a transaction is    *)
(* durable at once. executescript commits what is open and then runs its   *)
(* statements one by one. A migration is the sequence of its statements;   *)
(* neighbours that can be repeated and that are durable together or one by *)
(* one alike are one statement here.                                       *)
(***************************************************************************)
EXTENDS Naturals, Sequences, FiniteSetsExt, Functions

---------------------------------------------------------------------------
(* Statements: what each needs, and what it leaves.                        *)

Do(op) == [op |-> op, tables |-> {}]
Begin == Do("begin")      \* BEGIN IMMEDIATE
Commit == Do("commit")
Script == Do("script")    \* executescript: commits what is open
KeysOff == Do("keys")     \* PRAGMA foreign_keys = OFF
Audit == Do("audit")      \* INSERT into audit_events, of a new row each time

Create(ts) == [op |-> "create", tables |-> ts]  \* CREATE TABLE IF NOT EXISTS
Alter(ts) == [op |-> "alter", tables |-> ts]    \* an index, a column if missing
Update(ts) == [op |-> "update", tables |-> ts]  \* rows written as often as asked
Add(t, c) == [op |-> "add", tables |-> {t}, column |-> c]  \* a column, unasked
Shadow(t, as) == [op |-> "shadow", tables |-> {t}, copy |-> <<t, as>>]  \* CREATE TABLE t_as, unasked
Drop(t) == [op |-> "drop", tables |-> {t}]
Rename(t, as) == [op |-> "rename", tables |-> {t}, copy |-> <<t, as>>]  \* t_as TO t
\* The next n statements are passed over if the rebuilt table is there, by a column of its own.
Unless(t, as, n) == [op |-> "unless", tables |-> {}, copy |-> <<t, as>>, over |-> n]

---------------------------------------------------------------------------
(* The registry, in the order it is applied.                               *)

Initial == <<Script, Create({"sessions", "task_runs", "memory_entries", "skills",
    "tool_permissions", "audit_events", "files_index"})>>
ChatMessages == <<Script, Create({"chat_messages"})>>
ApprovalRequests == <<Script, Create({"approval_requests"})>>
ApprovalPayload == <<Script, Add("approval_requests", "payload_json")>>
Tasks == <<Script, Create({"tasks"})>>
TaskRunsTaskId == <<Script, Add("task_runs", "task_id")>>
TaskEvents == <<Script, Create({"task_events"})>>
TaskActions == <<Script, Create({"task_actions"})>>
ApprovalActionRef == <<Script, Add("approval_requests", "task_action_id")>>
Idempotency == <<Script, Create({"idempotency_records"})>>
NotificationOutbox == <<Script, Create({"notification_outbox"})>>
RequestHash == <<Alter({"idempotency_records"})>>
CallbackTokens == <<Script, Create({"telegram_callback_tokens"})>>
SkillVersions == <<Alter({"skills"}), Create({"skill_versions"})>>
SourceFiles == <<Script, Create({"dirap_source_files"})>>
Extractions == <<Script, Create({"dirap_extractions", "dirap_extraction_records"})>>
KnowledgeRecords == <<Script, Create({"dirap_knowledge_records"})>>
KnowledgeReview == <<Script,
    Add("dirap_knowledge_records", "source_verification_state"),
    Add("dirap_knowledge_records", "calculation_verification_state"),
    Add("dirap_knowledge_records", "owner_acceptance_state"),
    Add("dirap_knowledge_records", "authority_status"),
    Create({"dirap_knowledge_evidence"})>>
ReviewContract == <<Script, Alter({"dirap_knowledge_records"})>>
MemoryHub == <<Script,
    Create({"memory_hub_records", "memory_hub_evidence", "memory_hub_imports"})>>
MemoryHubClosure == <<Alter({"memory_hub_records"}), Update({"memory_hub_records"}),
    Alter({"memory_hub_records"})>>
SecurityIntegrity == <<Begin, Alter({"skills"}), Update({"skills", "sessions", "tasks"}),
    Audit>>
EndUserWork == <<Begin, Alter({"sessions"})>>
ArtifactsAndClaims == <<Begin, Create({"operation_claims", "artifacts"})>>
CommittedConversations == <<Begin, Create({"conversations", "work_plan_phases",
    "work_plan_steps", "work_context_summaries"}), Update({"conversations"}), Audit, Commit>> \* mutant
WorkConversations == <<Begin, Create({"conversations"}),
    Alter({"sessions", "chat_messages", "task_runs", "tasks", "task_events", "artifacts"}),
    Create({"work_plan_phases", "work_plan_steps", "work_context_summaries"}),
    Update({"conversations", "chat_messages", "task_runs", "tasks", "artifacts"}), Audit>>
AssistantActions == <<Begin, Create({"assistant_threads", "assistant_turns",
    "assistant_turn_parts", "action_packages", "action_steps", "action_attempts",
    "marketplace_packages", "installed_plugins"})>>
WorkDataScope == <<Begin, Alter({"sessions"}), Commit>>
ConversationLink == <<Begin, Alter({"assistant_threads"}),
    Update({"assistant_threads", "assistant_turns"}), Commit>>
ProviderProfiles == <<Begin, Create({"ai_provider_profiles", "ai_model_profiles",
    "assistant_run_metadata"}), Commit>>
MemoryLearning == <<Begin, Create({"work_memory_scopes", "assistant_turn_contexts",
    "gyo_learning_jobs"}), Commit>>
ModelRouting == <<Begin, Alter({"ai_model_profiles", "assistant_run_metadata"}),
    Create({"gyo_routing_policy"}), Update({"gyo_routing_policy"}), Commit>>
\* BEGIN is committed again by executescript: its tables are durable one by one.
WorkspaceTables == <<Begin, Script, Create({"workspace_tasks", "workspace_task_blocks",
    "workspace_ai_jobs"}), Commit>>
\* The steps are rebuilt with foreign keys on, and what refers to them along with them.
PackageContract == <<Begin, Alter({"action_packages"}), Unless("action_steps", "new", 9),
    Shadow("action_steps", "new"), Update({"action_steps"}),
    Shadow("action_attempts", "new"), Update({"action_attempts"}),
    Drop("action_attempts"), Drop("action_steps"),
    Rename("action_steps", "new"), Rename("action_attempts", "new"),
    Alter({"action_steps", "action_attempts", "work_plan_steps", "sessions"}),
    Alter({"action_steps"}), Create({"action_execution_events"}), Commit>>
PayloadBinding == <<KeysOff, Begin,
    Shadow("action_packages", "v34"), Update({"action_packages"}),
    Drop("action_packages"), Rename("action_packages", "v34"),
    Shadow("action_steps", "v34"), Update({"action_steps"}),
    Drop("action_steps"), Rename("action_steps", "v34"),
    Alter({"action_execution_events"}), Update({"action_execution_events"}), Commit>>
ArtifactValidation == <<Script, Create({"artifact_validations"}), Alter({"artifacts"})>>
HistoryContract == <<Begin, Alter({"assistant_threads", "workspace_ai_jobs"}), Commit>>
Modules == <<Create({"module_instances"}), Update({"module_instances"})>>
DurableRuns == <<Create({"assistant_runs"}), Update({"assistant_turns", "assistant_runs"})>>

Registry == <<Initial, ChatMessages, ApprovalRequests, ApprovalPayload, Tasks,
    TaskRunsTaskId, TaskEvents, TaskActions, ApprovalActionRef, Idempotency,
    NotificationOutbox, RequestHash, CallbackTokens, SkillVersions, SourceFiles,
    Extractions, KnowledgeRecords, KnowledgeReview, ReviewContract, MemoryHub,
    MemoryHubClosure, SecurityIntegrity, EndUserWork, ArtifactsAndClaims,
    WorkConversations, AssistantActions, WorkDataScope, ConversationLink,
    ProviderProfiles, MemoryLearning, ModelRouting, WorkspaceTables, PackageContract,
    PayloadBinding, ArtifactValidation, HistoryContract>>
    \o <<Modules, DurableRuns>>

Versions == DOMAIN Registry
Statements(m) == Range(Registry[m])
TablesOf(m) == UNION {s.tables : s \in {s \in Statements(m) : s.op = "create"}}
ColumnsOf(m) == {s.column : s \in {s \in Statements(m) : s.op = "add"}}
Audited == {m \in Versions : Audit \in Statements(m)}
Rebuilt(m) == {s.copy : s \in {s \in Statements(m) : s.op = "rename"}}

\* The tables of which rows refer to rows of t.
Children(t) ==
    CASE t = "action_packages" -> {"action_steps", "action_attempts", "action_execution_events"}
      [] t = "action_steps" -> {"action_attempts", "action_execution_events"}
      [] OTHER -> {}

---------------------------------------------------------------------------
VARIABLES
    disk,  \* the database file: what survives the process
    view,  \* the database as the runner's connection sees it
    inTx,  \* a transaction is open on that connection
    keys,  \* foreign_keys is on for it: dropping a table reaches into its children
    pc,    \* the process: "down", "running", "up", "refused" (the start failed)
    at     \* the version being applied, and its next statement

migrationVars == <<disk, view, inTx, keys, pc, at>>

Database == [tables : SUBSET UNION {TablesOf(m) : m \in Versions},
             columns : SUBSET UNION {ColumnsOf(m) : m \in Versions},
             shadows : SUBSET UNION {Rebuilt(m) : m \in Versions},
             rebuilt : SUBSET UNION {Rebuilt(m) : m \in Versions},
             emptied : BOOLEAN, audits : [Audited -> 0..2], applied : SUBSET Versions]

\* A database as releases up to version n left it.
Released(n) ==
    [tables |-> UNION {TablesOf(m) : m \in 1..n}, columns |-> UNION {ColumnsOf(m) : m \in 1..n},
     shadows |-> {}, rebuilt |-> UNION {Rebuilt(m) : m \in 1..n}, emptied |-> FALSE,
     audits |-> [m \in Audited |-> IF m <= n THEN 1 ELSE 0], applied |-> 1..n]

MigrationsTypeOK ==
    /\ {disk.tables, view.tables} \subseteq SUBSET UNION {TablesOf(m) : m \in Versions}
    /\ {disk.applied, view.applied} \subseteq SUBSET Versions
    /\ DOMAIN disk = DOMAIN Released(0) /\ DOMAIN view = DOMAIN Released(0)
    /\ inTx \in BOOLEAN /\ keys \in BOOLEAN
    /\ pc \in {"down", "running", "up", "refused"}
    /\ at.version \in 0..Len(Registry) /\ at.next \in 1..16

MigrationsInit ==
    /\ \E n \in 0..Len(Registry) : disk = Released(n)
    /\ view = disk
    /\ inTx = FALSE
    /\ keys = TRUE
    /\ pc = "down"
    /\ at = [version |-> 0, next |-> 1]

\* The first version at or after m that was not recorded when the start began.
Pending(m) == {v \in Versions : v >= m /\ v \notin disk.applied}
GoTo(m) ==
    IF Pending(m) = {} THEN pc' = "up" /\ at' = [version |-> 0, next |-> 1]
    ELSE pc' = "running" /\ at' = [version |-> Min(Pending(m)), next |-> 1]

\* A process starts: open_db turns foreign keys on.
Start ==
    /\ pc \in {"down", "refused"}
    /\ view' = disk
    /\ inTx' = FALSE
    /\ keys' = TRUE
    /\ GoTo(1)
    /\ UNCHANGED disk

\* It ends, or a statement fails and the exception ends it: what is open is lost.
Stop ==
    /\ pc \in {"running", "up"}
    /\ pc' = "down"
    /\ view' = disk
    /\ inTx' = FALSE
    /\ keys' = TRUE
    /\ at' = [version |-> 0, next |-> 1]
    /\ UNCHANGED disk

\* SQLite accepts the statement s.
Accepted(s) ==
    CASE s.op = "add" -> s.tables \subseteq view.tables /\ s.column \notin view.columns
      [] s.op = "shadow" -> s.copy \notin view.shadows
      [] s.op = "rename" -> s.copy \in view.shadows /\ s.tables \cap view.tables = {}
      [] s.op = "audit" -> "audit_events" \in view.tables
      [] s.op \in {"alter", "update", "drop"} -> s.tables \subseteq view.tables
      [] OTHER -> TRUE

After(s) ==
    CASE s.op = "create" -> [view EXCEPT !.tables = @ \cup s.tables]
      [] s.op = "add" -> [view EXCEPT !.columns = @ \cup {s.column}]
      [] s.op = "shadow" -> [view EXCEPT !.shadows = @ \cup {s.copy}]
      [] s.op = "drop" -> [view EXCEPT !.tables = @ \ s.tables,
              !.emptied = @ \/ (keys /\ \E t \in s.tables : Children(t) \cap view.tables # {})]
      [] s.op = "rename" -> [view EXCEPT !.tables = @ \cup s.tables, !.shadows = @ \ {s.copy},
                                         !.rebuilt = @ \cup {s.copy}]
      [] s.op = "audit" -> [view EXCEPT !.audits[at.version] = IF @ = 2 THEN 2 ELSE @ + 1]
      [] OTHER -> view

\* A transaction is open after s.
Opened(s) ==
    \/ s.op \in {"begin", "update", "audit"}
    \/ inTx /\ s.op \notin {"commit", "script"}

Passed(s) == IF s.op = "unless" /\ s.copy \in view.rebuilt THEN s.over ELSE 0

Statement == Registry[at.version][at.next]
Running == pc = "running" /\ at.next <= Len(Registry[at.version])

Execute ==
    /\ Running
    /\ Accepted(Statement)
    /\ view' = After(Statement)
    /\ inTx' = Opened(Statement)
    /\ disk' = IF Opened(Statement) THEN disk ELSE After(Statement)
    /\ keys' = (keys /\ ~(Statement.op = "keys" /\ ~inTx))  \* no effect in a transaction
    /\ at' = [at EXCEPT !.next = @ + 1 + Passed(Statement)]
    /\ UNCHANGED pc

\* rollback, and the exception reaches the start of the application.
Refuse ==
    /\ Running
    /\ ~Accepted(Statement)
    /\ pc' = "refused"
    /\ view' = disk
    /\ inTx' = FALSE
    /\ UNCHANGED <<disk, keys, at>>

\* The INSERT of the version and the commit; dying between them is dying before.
Record ==
    /\ pc = "running" /\ at.next > Len(Registry[at.version])
    /\ view' = [view EXCEPT !.applied = @ \cup {at.version}]
    /\ disk' = view'
    /\ inTx' = FALSE
    /\ keys' = TRUE  \* the migration that turned them off turns them on at its end
    /\ IF {v \in Versions : v > at.version /\ v \notin disk.applied} = {}
       THEN pc' = "up" /\ at' = [version |-> 0, next |-> 1]
       ELSE /\ at' = [version |-> Min(Pending(at.version + 1)), next |-> 1]
            /\ UNCHANGED pc

MigrationsNext == Start \/ Stop \/ Execute \/ Refuse \/ Record

MigrationsSpec == MigrationsInit /\ [][MigrationsNext]_migrationVars
---------------------------------------------------------------------------
(* A version that is recorded has all its effects: its tables, its columns,*)
(* its rebuilt tables and its audit entries, in the file.                  *)
RecordedIsComplete ==
    \A m \in disk.applied :
        /\ TablesOf(m) \subseteq disk.tables
        /\ ColumnsOf(m) \subseteq disk.columns
        /\ Rebuilt(m) \subseteq disk.rebuilt
        /\ m \in Audited => disk.audits[m] = 1

(* What cannot be repeated is not: a backfill leaves its audit entries     *)
(* once, a rebuild leaves no shadow table behind and empties no table that *)
(* refers to the one it replaces, however often starts die in the middle.  *)
NothingIsRepeated ==
    /\ \A m \in Audited : disk.audits[m] <= 1
    /\ disk.shadows = {}
    /\ ~disk.emptied

(* A start is refused for a column that an earlier start had already added *)
(* without recording the version, and for nothing else: every table is     *)
(* there when a later version needs it.                                    *)
RefusedForAColumn ==
    pc = "refused" => Statement.op = "add" /\ Statement.column \in disk.columns

(* Starts that die at any point leave a database of which the record tells *)
(* the truth and in which nothing was done twice.                          *)
MigrationsHold == RecordedIsComplete /\ NothingIsRepeated /\ RefusedForAColumn

(* The docstring of migrations_0001_0036.py: a migration that adds a column*)
(* checks first whether it is there, so that a start after a partial one   *)
(* succeeds. (It does not hold: versions 4, 6, 9 and 18 do not check.)     *)
NoStartIsRefused == pc # "refused"
=============================================================================
