------------------------------- MODULE Works -------------------------------
(***************************************************************************)
(* A Work, its plan steps, and what edits them: the user by hand, and      *)
(* action packages approved for a version of a step.                       *)
(*                                                                         *)
(* A request of api/works.py reads the row, checks it, and writes by id    *)
(* the columns it was given; nothing it read is looked at again. So does   *)
(* the step of a package, whose one executor runs one step at a time. Only *)
(* packages move the version of a row.                                     *)
(***************************************************************************)
EXTENDS Naturals

CONSTANTS
    PlanSteps,  \* steps of the Work's plan
    Packages,   \* approved packages, one update of one plan step each
    Edits,      \* requests of api/works.py, reused
    Changes,    \* the columns an update gives, "keep" for one it leaves out
    MaxVersion  \* bound

VARIABLES
    work,  \* the row of sessions
    plan,  \* the rows of work_plan_steps
    edit,  \* requests under way: what they want, once checked
    deal   \* packages: the rows they were approved for

workVars == <<work, plan, edit, deal>>

Content == [status : {"in_progress", "blocked"}, text : {"none", "some"}]
Row == [content : Content, version : 1..MaxVersion]
Start == [status |-> "in_progress", text |-> "none"]
Idle == [op |-> "idle"]
NoDeal == [at |-> "none"]

Edit == {Idle} \cup [op : {"set", "propose", "confirm", "reopen"}]
        \cup [op : {"step"}, step : PlanSteps, changes : Changes]
Deal == [at : {"approved", "verified", "applied", "conflict", "failed"},
         step : PlanSteps, saw : Row, changes : Changes]

WorksTypeOK ==
    /\ work \in [status : {"in_progress", "waiting_confirmation", "completed"}, archived : BOOLEAN]
    /\ plan \in [PlanSteps -> Row]
    /\ edit \in [Edits -> Edit] /\ deal \in [Packages -> {NoDeal} \cup Deal]

WorksInit ==
    /\ work = [status |-> "in_progress", archived |-> FALSE]
    /\ plan = [s \in PlanSteps |-> [content |-> Start, version |-> 1]]
    /\ edit = [e \in Edits |-> Idle]
    /\ deal = [p \in Packages |-> NoDeal]

-----------------------------------------------------------------------------
(* Edits by hand                                                           *)

\* update_session: archiving and restoring, no condition that lasts.
Archive == work' = [work EXCEPT !.archived = ~@] /\ UNCHANGED <<plan, edit, deal>>

Changed(content, c) ==
    [status |-> IF c.status = "keep" THEN content.status ELSE c.status,
     text |-> IF c.text = "keep" THEN content.text ELSE c.text]

Explained(content) == content.status = "blocked" => content.text = "some"

ReadStep(e) ==
    /\ edit[e] = Idle /\ ~work.archived
    /\ \E s \in PlanSteps, c \in Changes :
           /\ Explained(Changed(plan[s].content, c))
           /\ edit' = [edit EXCEPT ![e] = [op |-> "step", step |-> s, changes |-> c]]
    /\ UNCHANGED <<work, plan, deal>>

WriteStep(e) ==
    /\ edit[e].op = "step"
    /\ plan' = [plan EXCEPT ![edit[e].step].content = Changed(@, edit[e].changes)]
    /\ edit' = [edit EXCEPT ![e] = Idle]
    /\ UNCHANGED <<work, deal>>

Outcome(op) ==
    CASE op = "propose" -> "waiting_confirmation"
      [] op = "confirm" -> "completed"
      [] OTHER -> "in_progress"

ReadWork(e, op) ==
    /\ edit[e] = Idle /\ ~work.archived
    /\ op = "confirm" => work.status = "waiting_confirmation"
    /\ edit' = [edit EXCEPT ![e] = [op |-> op]]
    /\ UNCHANGED <<work, plan, deal>>

WriteWork(e) ==
    /\ edit[e].op \notin {"idle", "step"}
    /\ work' = [work EXCEPT !.status = Outcome(edit[e].op)]
    /\ edit' = [edit EXCEPT ![e] = Idle]
    /\ UNCHANGED <<plan, deal>>

-----------------------------------------------------------------------------
(* Packages                                                                *)

\* A package is proposed and approved for the row as it is now.
Approve(p, s) ==
    /\ deal[p] = NoDeal
    /\ \E c \in Changes : deal' = [deal EXCEPT ![p] =
           [at |-> "approved", step |-> s, saw |-> plan[s], changes |-> c]]
    /\ UNCHANGED <<work, plan, edit>>

AnyVersion(p) == TRUE \* mutant
AsApproved(p) == plan[deal[p].step].version = deal[p].saw.version

Settle(p, outcome) == deal' = [deal EXCEPT ![p].at = outcome]

\* _execute_work_plan_step_update looks at the row, and then writes it by id;
\* it does not ask for a description.
Verify(p) ==
    /\ deal[p].at = "approved" /\ \A q \in Packages : deal[q].at # "verified"
    /\ ~work.archived /\ AsApproved(p)
    /\ Settle(p, "verified")
    /\ UNCHANGED <<work, plan, edit>>

Apply(p) ==
    /\ deal[p].at = "verified" /\ plan[deal[p].step].version < MaxVersion
    /\ plan' = [plan EXCEPT ![deal[p].step] = [
           content |-> Changed(@.content, deal[p].changes), version |-> @.version + 1]]
    /\ Settle(p, "applied")
    /\ UNCHANGED <<work, edit>>

Refuse(p) ==
    /\ deal[p].at = "approved"
    /\ \/ work.archived /\ Settle(p, "failed")
       \/ ~work.archived /\ ~AsApproved(p) /\ Settle(p, "conflict")
    /\ UNCHANGED <<work, plan, edit>>

WorksNext ==
    \/ Archive
    \/ \E e \in Edits : \/ ReadStep(e) \/ WriteStep(e) \/ WriteWork(e)
                        \/ \E op \in {"set", "propose", "confirm", "reopen"} : ReadWork(e, op)
    \/ \E p \in Packages : Verify(p) \/ Apply(p) \/ Refuse(p) \/ \E s \in PlanSteps : Approve(p, s)
WorksSpec == WorksInit /\ [][WorksNext]_workVars

-----------------------------------------------------------------------------

Becomes(p, at) == deal[p].at # at /\ deal'[p].at = at

\* Of two packages approved for the same plan step as it was, one applies: the
\* version a package moved tells the next one that the step changed.
LaterVersions ==
    \A p, q \in Packages :
        (Becomes(p, "applied") /\ deal[q].at = "applied" /\ deal[q].step = deal[p].step)
            => deal[q].saw.version < deal[p].saw.version
PackagesDoNotStack == [][LaterVersions]_workVars

\* "a stale or revised package fails closed instead of silently applying the
\* wrong change": the step verified is still what the user approved a change of.
StalePackagesFailClosed ==
    [][\A p \in Packages : Becomes(p, "verified") => plan[deal[p].step] = deal[p].saw]_workVars

\* "A blocked step requires a description or next action".
BlockedStepsAreExplained == \A s \in PlanSteps : Explained(plan[s].content)

=============================================================================
