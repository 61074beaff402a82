----------------------------- MODULE MCPackages -----------------------------
(* Action packages for the model checker: one executor loop, as main.py      *)
(* starts it, that may die; beside it two loops on one database, of which    *)
(* one may die, and a request that revises their package; and the rows of    *)
(* the plan they change, edited by hand as well. Each behaviour is of one of *)
(* these set-ups, chosen at the start; the rows of the others keep still.    *)
EXTENDS ActionPackages

CONSTANTS p1, e1, e2, work, step1, r1

CONSTANTS PlanSteps, PlanPackages, Edits, Changes, MaxVersion   \* Works

VARIABLES
    part,                                                           \* what moves
    status2, revision2, approved2, content2, expired2, lease2,      \* Shared
    rows2, request2, version2, archived2, pc2, picked2, claim2, stale2,
    plan2, todo2, written2, trouble2, applied2, signed2, raced2, overdue2, faults2,
    theWork, thePlan, workEdit, deal                                \* Works

sharedVars == <<status2, revision2, approved2, content2, expired2, lease2,
                rows2, request2, version2, archived2, pc2, picked2, claim2, stale2,
                plan2, todo2, written2, trouble2, applied2, signed2, raced2, overdue2, faults2>>
planVars == <<theWork, thePlan, workEdit, deal>>
allVars == <<part, vars, sharedVars, planVars>>

Shared == INSTANCE ActionPackages WITH
    NumSteps <- 1, Targets <- {work}, Requests <- {r1}, Executors <- {e1, e2}, MaxFaults <- 1,
    status <- status2, revision <- revision2, approved <- approved2, content <- content2,
    expired <- expired2, lease <- lease2, rows <- rows2, request <- request2,
    version <- version2, archived <- archived2, pc <- pc2, picked <- picked2, claim <- claim2,
    stale <- stale2, plan <- plan2, todo <- todo2, written <- written2,
    trouble <- trouble2, applied <- applied2, signed <- signed2, raced <- raced2,
    overdue <- overdue2, faults <- faults2

Plan == INSTANCE Works WITH
    Packages <- PlanPackages, work <- theWork, plan <- thePlan, edit <- workEdit

ASSUME PlanAssumption ==
    /\ MaxVersion \in Nat \ {0}
    /\ Changes \subseteq [status : {"keep", "in_progress", "blocked"}, text : {"keep", "none", "some"}]

\* Edits that block a plan step, explain and resume it.
PlanChanges == {[status |-> "blocked", text |-> "keep"], [status |-> "keep", text |-> "none"],
                [status |-> "in_progress", text |-> "some"]}

PackagesInit == part \in {"one", "shared", "plan"} /\ Init /\ Shared!Init /\ Plan!WorksInit

PackagesNext ==
    /\ UNCHANGED part
    /\ \/ part = "one" /\ Next /\ UNCHANGED <<sharedVars, planVars>>
       \/ part = "shared" /\ Shared!Next /\ UNCHANGED <<archived2, vars, planVars>>
       \/ part = "plan" /\ Plan!WorksNext /\ UNCHANGED <<vars, sharedVars>>

\* The fairness of ActionPackages, for the loop that runs alone.
PackagesFairness ==
    /\ \A e \in Executors : WF_vars(part = "one" /\ ExecutorStep(e))
    /\ \A p \in Packages : WF_vars(part = "one" /\ LeaseLapses(p))

PackagesSpec == PackagesInit /\ [][PackagesNext]_allVars /\ PackagesFairness
-----------------------------------------------------------------------------
(* Of two loops that select and claim on one database one at most works on   *)
(* a package, unless its lease lapsed or it was revised                      *)
(* (services/action_packages.py, _claim_next, recover_stale_leases).         *)
LoopsExcludeEachOther == Shared!OneExecutorPerPackage

(* Of two packages approved for a plan step as it was, one applies           *)
(* (services/action_packages.py, api/works.py).                              *)
PackagesDoNotStack == []Plan!WorksTypeOK /\ Plan!PackagesDoNotStack
=============================================================================
