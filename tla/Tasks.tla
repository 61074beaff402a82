------------------------------- MODULE Tasks -------------------------------
(***************************************************************************)
(* Tasks, the actions they ask approval for, and the notices of their end. *)
(*                                                                         *)
(* Requests of the task API and the runs of prompts drive the tasks of one *)
(* session.  Each of them reads the task, validates the transition it      *)
(* wants, and writes it with everything that belongs to it in one          *)
(* transaction; the write does not look at the status again.               *)
(***************************************************************************)
EXTENDS FiniteSets

CONSTANTS
    TaskIds,     \* tasks
    ActionIds,   \* actions of tasks
    Requests,    \* requests under way at a time
    NoTask,      \* a request without a task, not one of TaskIds
    NoAction     \* a request without an action, not one of ActionIds

Ops == {"create", "start", "cancel", "ask", "allow", "deny"}
Terminal == {"succeeded", "failed", "cancelled"}

VARIABLES
    status,    \* tasks.status, "none" for a task that is not there
    action,    \* the rows of task_actions
    notices,   \* the rows of the outbox, by task and event
    archived,  \* sessions.archived
    req,       \* the requests
    run,       \* the runs of the tasks that prompts created
    crossed    \* history: tasks whose action was decided under another's name since they asked

vars == <<status, action, notices, archived, req, run, crossed>>

Statuses == {"none", "queued", "running", "waiting_approval"} \cup Terminal
NoRequest == [at |-> "idle", op |-> "none", task |-> NoTask, action |-> NoAction]
Unknown == [task |-> NoTask, status |-> "none"]

TypeOK ==
    /\ status \in [TaskIds -> Statuses]
    /\ action \in [ActionIds -> [task : TaskIds \cup {NoTask}, status : {"none", "pending", "allowed", "denied"}]]
    /\ notices \subseteq TaskIds \X Terminal
    /\ archived \in BOOLEAN
    /\ req \in [Requests -> [at : {"idle", "checked", "validated"}, op : Ops \cup {"none"},
                             task : TaskIds \cup {NoTask}, action : ActionIds \cup {NoAction}]]
    /\ run \in [TaskIds -> {"none", "active", "succeeding", "failing", "over", "unwritten", "lost"}]
    /\ crossed \subseteq TaskIds

Init ==
    /\ status = [t \in TaskIds |-> "none"]
    /\ action = [a \in ActionIds |-> Unknown]
    /\ notices = {}
    /\ archived = FALSE
    /\ req = [r \in Requests |-> NoRequest]
    /\ run = [t \in TaskIds |-> "none"]
    /\ crossed = {}

-----------------------------------------------------------------------------
(* TaskStateMachine.                                                       *)

MayNotFail(from, to) == \* mutant
    \/ from = "queued" /\ to \in {"running", "cancelled"}
    \/ from = "running" /\ to \in {"succeeded", "cancelled", "waiting_approval"}
    \/ from = "waiting_approval" /\ to \in {"running", "failed", "cancelled"}
MayGo(from, to) ==
    \/ from = "queued" /\ to \in {"running", "cancelled"}
    \/ from = "running" /\ to \in Terminal \cup {"waiting_approval"}
    \/ from = "waiting_approval" /\ to \in {"running", "failed", "cancelled"}

-----------------------------------------------------------------------------
(* Requests.                                                               *)

Target(op) ==
    CASE op = "create" -> "queued"
      [] op \in {"start", "allow"} -> "running"
      [] op = "cancel" -> "cancelled"
      [] op = "ask" -> "waiting_approval"
      [] op = "deny" -> "failed"

\* The task is there and its session is not archived. A decision names any
\* action: that it is one of the task's is not checked.
Check(r) ==
    /\ req[r].at = "idle" /\ ~archived
    /\ \E op \in Ops, t \in TaskIds, a \in ActionIds \cup {NoAction} :
          /\ (status[t] = "none") = (op = "create")
          /\ (a # NoAction) = (op \in {"allow", "deny"})
          /\ \A q \in Requests : op = "create" => req[q].op # "create" \/ req[q].task # t
          /\ req' = [req EXCEPT ![r] = [at |-> "checked", op |-> op, task |-> t, action |-> a]]
    /\ UNCHANGED <<status, action, notices, archived, run, crossed>>

\* The task is in a state the transition may leave, else 409.
Validate(r) ==
    /\ req[r].at = "checked"
    /\ req' = [req EXCEPT ![r] =
                  IF req[r].op = "create" \/ MayGo(status[req[r].task], Target(req[r].op))
                  THEN [@ EXCEPT !.at = "validated"] ELSE NoRequest]
    /\ UNCHANGED <<status, action, notices, archived, run, crossed>>

\* An action that is not there is not updated, and nobody notices.
Decide(a, decision) ==
    action' = IF action[a].task = NoTask THEN action ELSE [action EXCEPT ![a].status = decision]

\* Another task than the one the request names may have asked for the action.
CrossedBy(t, op, a) ==
    CASE op = "ask" -> crossed \ {t}
      [] op \in {"allow", "deny"} -> crossed \cup ({action[a].task} \ {t, NoTask})
      [] OTHER -> crossed

AskForOnce(t) == \* mutant: an action of the task's that is there is kept
    \E a \in ActionIds :
        /\ \/ action[a].task = t
           \/ action[a] = Unknown /\ \A b \in ActionIds : action[b].task # t
        /\ action' = IF action[a] = Unknown THEN [action EXCEPT ![a] = [task |-> t, status |-> "pending"]] ELSE action
AskFor(t) ==
    \E a \in ActionIds :
        /\ action[a] = Unknown
        /\ action' = [action EXCEPT ![a] = [task |-> t, status |-> "pending"]]

\* insert_once keeps the row that is there.
Notify(t, event) == notices' = notices \cup {<<t, event>>}

Write(r) ==
    /\ req[r].at = "validated"
    /\ LET t == req[r].task
           op == req[r].op
       IN /\ status' = [status EXCEPT ![t] = Target(op)]
          /\ CASE op = "ask" -> AskFor(t)
               [] op = "allow" -> Decide(req[r].action, "allowed")
               [] op = "deny" -> Decide(req[r].action, "denied")
               [] OTHER -> UNCHANGED action
          /\ IF op = "cancel" THEN Notify(t, "cancelled") ELSE UNCHANGED notices
          /\ crossed' = CrossedBy(t, op, req[r].action)
    /\ req' = [req EXCEPT ![r] = NoRequest]
    /\ UNCHANGED <<archived, run>>

\* Or the database stays locked and nothing is written.
WriteFails(r) ==
    /\ req[r].at = "validated"
    /\ req' = [req EXCEPT ![r] = NoRequest]
    /\ UNCHANGED <<status, action, notices, archived, run, crossed>>

-----------------------------------------------------------------------------
(* Prompts.                                                                *)

\* A prompt's task is created and started in one transaction.
Submit(t) ==
    /\ ~archived /\ status[t] = "none"
    /\ \A r \in Requests : req[r].task # t
    /\ status' = [status EXCEPT ![t] = "running"]
    /\ run' = [run EXCEPT ![t] = "active"]
    /\ UNCHANGED <<action, notices, archived, req, crossed>>

\* The run ends and is recorded. If the task may not follow, that is logged and
\* forgotten.
RunEnds(t) ==
    /\ run[t] = "active"
    /\ \E end \in {"succeeded", "failed"} :
          run' = [run EXCEPT ![t] =
                     IF ~MayGo(status[t], end) THEN "over"
                     ELSE IF end = "succeeded" THEN "succeeding" ELSE "failing"]
    /\ UNCHANGED <<status, action, notices, archived, req, crossed>>

RunWrites(t) ==
    /\ run[t] \in {"succeeding", "failing"}
    /\ LET end == IF run[t] = "succeeding" THEN "succeeded" ELSE "failed"
       IN /\ status' = [status EXCEPT ![t] = end]
          /\ Notify(t, end)
    /\ run' = [run EXCEPT ![t] = "over"]
    /\ UNCHANGED <<action, archived, req, crossed>>

\* So is an error of these writes, a locked database above all: the task stays
\* as it is. A success whose error cannot be logged either is taken for a failure.
RunWriteFails(t) ==
    /\ run[t] \in {"active", "succeeding", "failing"}
    /\ \/ run' = [run EXCEPT ![t] = "unwritten"]
       \/ /\ run[t] = "succeeding" /\ MayGo(status[t], "failed")
          /\ run' = [run EXCEPT ![t] = "failing"]
    /\ UNCHANGED <<status, action, notices, archived, req, crossed>>

\* A session is archived while no run of it is active, and brought back.
Archive ==
    /\ \A t \in TaskIds : run[t] \in {"none", "over", "unwritten", "lost"}
    /\ archived' = ~archived
    /\ UNCHANGED <<status, action, notices, req, run, crossed>>

\* The process ends: requests and runs are gone, and nothing recovers tasks.
Crash ==
    /\ req' = [r \in Requests |-> NoRequest]
    /\ run' = [t \in TaskIds |-> IF run[t] \in {"none", "over", "unwritten"} THEN run[t] ELSE "lost"]
    /\ UNCHANGED <<status, action, notices, archived, crossed>>

-----------------------------------------------------------------------------

RequestStep(r) == Check(r) \/ Validate(r) \/ Write(r) \/ WriteFails(r)
RunStep(t)     == RunEnds(t) \/ RunWrites(t) \/ RunWriteFails(t)

Next ==
    \/ \E r \in Requests : RequestStep(r)
    \/ \E t \in TaskIds : Submit(t) \/ RunStep(t)
    \/ Archive \/ Crash

Spec == Init /\ [][Next]_vars

\* Runs end (model calls time out); nobody has to make a request, but one that
\* was made is finished, unless the process ends.
FairSpec ==
    /\ Spec
    /\ \A t \in TaskIds : WF_vars(RunStep(t))
    /\ \A r \in Requests : WF_vars(Validate(r) \/ Write(r) \/ WriteFails(r))

-----------------------------------------------------------------------------
(* Properties.                                                             *)

\* However requests interleave, a task that waits has an action to decide on,
\* unless that action was decided under another task's name since it asked.
WaitingIsDecidable ==
    \A t \in TaskIds \ crossed :
        status[t] = "waiting_approval" => \E a \in ActionIds : action[a] = [task |-> t, status |-> "pending"]

\* A task that succeeded or was cancelled has its notice in the outbox, by
\* the same transaction ("Task and outbox write atomically").
EndIsNotified ==
    \A t \in TaskIds : status[t] \in {"succeeded", "cancelled"} => <<t, status[t]>> \in notices

\* Both, and the types.
TasksAgree == TypeOK /\ WaitingIsDecidable /\ EndIsNotified

\* The task of a prompt ends, whatever else is asked of it meanwhile, unless its
\* run dies with the process, the write of its end fails (which _run_prompt_task
\* swallows) or it has asked for approval (a run that ends while its task waits
\* leaves the task to the user).
PromptTasksEnd ==
    \A t \in TaskIds :
        run[t] = "active" ~>
            \/ status[t] \in Terminal
            \/ run[t] \in {"lost", "unwritten"}
            \/ \E a \in ActionIds : action[a].task = t
=============================================================================
