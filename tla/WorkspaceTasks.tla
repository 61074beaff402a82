--------------------------- MODULE WorkspaceTasks ---------------------------
(***************************************************************************)
(* Tasks of the user's day, and their hand-off to GYO.                     *)
(*                                                                         *)
(* An update names the version the user saw and writes under it. A         *)
(* hand-off checks the task, then in one BEGIN IMMEDIATE transaction       *)
(* reuses the open job of the task or makes one, with a conversation and a *)
(* thread of its own; the answer is read after the commit. The claims of   *)
(* idempotency keys around both are module OperationClaims. Nothing in the *)
(* code ends a job.                                                        *)
(***************************************************************************)
EXTENDS FiniteSets, Naturals

CONSTANTS
    WorkspaceTaskIds,  \* tasks
    JobIds,            \* hand-off jobs
    Works,             \* Works
    Windows,           \* clients, one request each
    MaxTaskVersion     \* bound

VARIABLES
    tasks,  \* the rows of workspace_tasks
    jobs,   \* the rows of workspace_ai_jobs
    gone,   \* Works that are archived
    call    \* window -> its request, with the row it read

workspaceVars == <<tasks, jobs, gone, call>>

NoRow == [work |-> "none", human |-> FALSE, version |-> 0]
NoJob == [task |-> "none", bound |-> "none"]
Free == [op |-> "none"]

WorkspaceTypeOK ==
    /\ tasks \in [WorkspaceTaskIds -> [work : Works \cup {"none"}, human : BOOLEAN,
                                       version : 0..MaxTaskVersion]]
    /\ jobs \in [JobIds -> [task : WorkspaceTaskIds \cup {"none"}, bound : Works \cup {"none"}]]
    /\ gone \subseteq Works
    /\ \A w \in Windows : call[w].op \in {"none", "update", "delete", "handoff", "answer"}

\* Databases older than 0036 hold an open job without conversation or thread.
WorkspaceInit ==
    /\ tasks \in [WorkspaceTaskIds -> {NoRow} \cup {[work |-> w, human |-> FALSE, version |-> 1] : w \in Works}]
    /\ jobs \in [JobIds -> {NoJob} \cup {[task |-> t, bound |-> "none"] : t \in WorkspaceTaskIds}]
    /\ \A j \in JobIds : jobs[j] # NoJob => tasks[jobs[j].task] # NoRow
    /\ \A i, j \in JobIds : jobs[i] # NoJob /\ jobs[i].task = jobs[j].task => i = j
    /\ gone = {} /\ call = [w \in Windows |-> Free]

Open(t) == {j \in JobIds : jobs[j].task = t}
Reachable(t) == tasks[t] # NoRow /\ tasks[t].work \notin gone

-----------------------------------------------------------------------------

ArchiveOrRestore(w) ==
    /\ gone' = IF w \in gone THEN gone \ {w} ELSE gone \cup {w}
    /\ UNCHANGED <<tasks, jobs, call>>

CreateTask(t, w) ==
    /\ tasks[t] = NoRow /\ w \notin gone /\ \A c \in Windows : call[c] = Free
    /\ \E h \in BOOLEAN : tasks' = [tasks EXCEPT ![t] = [work |-> w, human |-> h, version |-> 1]]
    /\ UNCHANGED <<jobs, gone, call>>

\* The row a request works on: an update names the version the user saw.
ReadTask(c, t, op) ==
    /\ call[c] = Free /\ Reachable(t)
    /\ op = "handoff" => ~tasks[t].human
    /\ call' = [call EXCEPT ![c] = [op |-> op, task |-> t, saw |-> tasks[t]]]
    /\ UNCHANGED <<tasks, jobs, gone>>

Finish(c) == call' = [call EXCEPT ![c] = Free]

ById(t, saw) == tasks[t] # NoRow \* mutant
\* The UPDATE's own condition.
Unchanged(t, saw) == tasks[t] # NoRow /\ tasks[t].version = saw.version

UpdateTask(c) ==
    LET t == call[c].task IN
    /\ call[c].op = "update"
    /\ \/ /\ Unchanged(t, call[c].saw) /\ tasks[t].version < MaxTaskVersion
          /\ \E h \in BOOLEAN :
                 tasks' = [tasks EXCEPT ![t].human = h, ![t].version = @ + 1]
       \/ ~Unchanged(t, call[c].saw) /\ UNCHANGED tasks
    /\ Finish(c)
    /\ UNCHANGED <<jobs, gone>>

\* The jobs of a task go with it.
DeleteTask(c) ==
    LET t == call[c].task IN
    /\ call[c].op = "delete"
    /\ tasks' = [tasks EXCEPT ![t] = NoRow]
    /\ jobs' = [j \in JobIds |-> IF jobs[j].task = t THEN NoJob ELSE jobs[j]]
    /\ Finish(c)
    /\ UNCHANGED gone

NewJob(t) == Cardinality(Open(t)) <= 1 \* mutant
\* No job is open for the task: one is made.
NoneOpen(t) == Open(t) = {}

\* The job is bound to a conversation and a thread of the Work the task had.
Bind(j, c) == jobs' = [jobs EXCEPT ![j] = [task |-> call[c].task, bound |-> call[c].saw.work]]

\* The transaction, up to its commit: the idempotency key is still claimed.
HandOff(c) ==
    LET t == call[c].task IN
    /\ call[c].op = "handoff" /\ tasks[t] # NoRow
    /\ \/ NoneOpen(t) /\ \E j \in JobIds : jobs[j] = NoJob /\ Bind(j, c)
       \/ \E j \in Open(t) : jobs[j].bound = "none" /\ Bind(j, c)
       \/ (\E j \in Open(t) : jobs[j].bound # "none") /\ UNCHANGED jobs
    /\ call' = [call EXCEPT ![c] = [op |-> "answer", task |-> t]]
    /\ UNCHANGED <<tasks, gone>>

\* The task was deleted: the insertion fails on its foreign key.
HandOffFails(c) ==
    /\ call[c].op = "handoff" /\ tasks[call[c].task] = NoRow
    /\ Finish(c)
    /\ UNCHANGED <<tasks, jobs, gone>>

\* Only then the job is read and the key finalised. The answer names the job, or
\* is 404 when the task went in between; and there is none when the process ends
\* there, which leaves the job to the next hand-off and the key to its expiry.
AnswerHandOff(c) ==
    /\ call[c].op = "answer"
    /\ Finish(c)
    /\ UNCHANGED <<tasks, jobs, gone>>

WorkspaceNext ==
    \/ \E w \in Works : ArchiveOrRestore(w) \/ \E t \in WorkspaceTaskIds : CreateTask(t, w)
    \/ \E c \in Windows :
           \/ UpdateTask(c) \/ DeleteTask(c) \/ HandOff(c) \/ HandOffFails(c) \/ AnswerHandOff(c)
           \/ \E t \in WorkspaceTaskIds, op \in {"update", "delete", "handoff"} : ReadTask(c, t, op)
WorkspaceSpec == WorkspaceInit /\ [][WorkspaceNext]_workspaceVars

-----------------------------------------------------------------------------

\* However many windows ask at once, a task has one open job, which outlives
\* neither its task nor the answer that promised it, and talks in the Work
\* of the task.
OneHandOffPerTask ==
    /\ \A t \in WorkspaceTaskIds : \A i, j \in Open(t) : i = j
    /\ \A j \in JobIds : jobs[j] # NoJob =>
           tasks[jobs[j].task] # NoRow /\ jobs[j].bound \in {"none", tasks[jobs[j].task].work}
    /\ \A c \in Windows : call[c].op = "answer" /\ tasks[call[c].task] # NoRow =>
           \E j \in Open(call[c].task) : jobs[j].bound = tasks[call[c].task].work

\* An update applies to the row its window read, or not at all.
NoTaskUpdateIsLost ==
    [][\A c \in Windows : call[c].op = "update" /\ tasks' # tasks /\ call'[c] = Free =>
           tasks[call[c].task] = call[c].saw]_workspaceVars

\* Both, and the types.
WorkspaceAgrees == [](WorkspaceTypeOK /\ OneHandOffPerTask) /\ NoTaskUpdateIsLost

\* "This task must remain human-led": GYO is given no task of that kind.
HumanTasksStayHuman ==
    [][\A j \in JobIds : jobs[j] = NoJob /\ jobs'[j] # NoJob => ~tasks[jobs'[j].task].human]_workspaceVars

=============================================================================
