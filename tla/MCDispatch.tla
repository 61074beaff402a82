----------------------------- MODULE MCDispatch -----------------------------
(* Tasks, the dispatch of notifications, and the tasks of the user's day,    *)
(* for the model checker. Tasks only add rows, which the dispatcher takes up *)
(* in cycles of its own, and the day's tasks have tables of their own; each  *)
(* behaviour is one part's, chosen at the start, and the others keep still.  *)
EXTENDS Outbox

CONSTANTS w1, w2, t1, t2, a1, a2, r1, r2, j1, j2, work, c1, c2

CONSTANTS
    TaskIds, ActionIds, Requests, NoTask, NoAction,               \* Tasks
    WorkspaceTaskIds, JobIds, Works, Windows, MaxTaskVersion      \* WorkspaceTasks

ASSUME TasksAssumption == NoTask \notin TaskIds /\ NoAction \notin ActionIds
ASSUME HandOffAssumption == "none" \notin WorkspaceTaskIds \cup Works /\ MaxTaskVersion \in Nat \ {0}

VARIABLES
    part,                                                      \* what moves
    taskStatus, action, notices, archived, req, run, crossed,  \* Tasks
    tasks, jobs, gone, call                                    \* WorkspaceTasks

tasksVars == <<taskStatus, action, notices, archived, req, run, crossed>>
handOffVars == <<tasks, jobs, gone, call>>
allVars == <<part, vars, tasksVars, handOffVars>>

Lifecycle == INSTANCE Tasks WITH status <- taskStatus
HandOff == INSTANCE WorkspaceTasks

\* A part that keeps still has one initial state.
DispatchInit ==
    /\ part \in {"outbox", "tasks", "decisions", "handoff"}
    /\ HandOff!WorkspaceInit /\ (part = "handoff" \/ tasks = [t \in WorkspaceTaskIds |-> HandOff!NoRow])
    /\ Init /\ Lifecycle!Init

\* Two requests at once and the prompt of one task, in a session that stays open.
OneTask ==
    /\ (\E r \in Requests : Lifecycle!RequestStep(r)) \/ Lifecycle!Submit(t1) \/ Lifecycle!RunStep(t1) \/ Lifecycle!Crash
    /\ \A r \in Requests : req'[r].task # t2

\* Two tasks and the decisions on their actions, one request at a time.
TwoTasks == Lifecycle!RequestStep(r1) \/ Lifecycle!Archive

DispatchNext ==
    /\ UNCHANGED part
    /\ \/ part = "outbox" /\ Next /\ UNCHANGED <<tasksVars, handOffVars>>
       \/ part = "tasks" /\ OneTask /\ UNCHANGED <<vars, handOffVars>>
       \/ part = "decisions" /\ TwoTasks /\ UNCHANGED <<vars, handOffVars>>
       \/ part = "handoff" /\ HandOff!WorkspaceNext /\ UNCHANGED <<vars, tasksVars>>

\* The fairness of Outbox and of Tasks, for the part that moves.
DispatchFairness ==
    /\ \A w \in Workers : WF_vars(part = "outbox" /\ Cycle(w))
    /\ \A r \in Rows : WF_vars(part = "outbox" /\ Lapse(r))
    /\ \A t \in TaskIds : WF_tasksVars(part = "tasks" /\ Lifecycle!RunStep(t))
    /\ \A r \in Requests :
           WF_tasksVars(part = "tasks" /\ (Lifecycle!Validate(r) \/ Lifecycle!Write(r) \/ Lifecycle!WriteFails(r)))

DispatchSpec == DispatchInit /\ [][DispatchNext]_allVars /\ DispatchFairness
-----------------------------------------------------------------------------
(* A task that waits can be decided, unless its action was decided under     *)
(* another's name, and one that ended is announced                           *)
(* (services/task_service.py).                                               *)
TasksAgree == Lifecycle!TasksAgree

(* Every notification is sent or given up, and the task of a prompt ends,    *)
(* unless its run is lost, its end is not written or it asked for approval   *)
(* (services/outbox_dispatcher.py, legacy_task_adapter.py, api/sessions.py). *)
DispatchEnds == EveryRowSettles /\ Lifecycle!PromptTasksEnd

(* Windows that ask at once share one hand-off, and overwrite no update      *)
(* (api/workspace.py).                                                       *)
WorkspaceAgrees == HandOff!WorkspaceAgrees
=============================================================================
