--------------------------- MODULE ActionPackages ---------------------------
(***************************************************************************)
(* Action packages: changes to a Work that GYO proposes, the user approves *)
(* and a background executor applies.                                      *)
(*                                                                         *)
(* A package is an immutable list of steps at some revision.  Its creator  *)
(* may revise, approve, deny or cancel it; an executor loop claims an      *)
(* approved package under a lease and applies its steps one transaction at *)
(* a time, checking before each that the step's target still has the       *)
(* version the approval was given for.  An executor may die between any    *)
(* two transactions; a watchdog at the head of the loop hands the package  *)
(* back.                                                                   *)
(*                                                                         *)
(* Each action is one transaction, or one read that a later transaction of *)
(* the same request or executor relies on.                                 *)
(***************************************************************************)
EXTENDS Naturals, FiniteSets

CONSTANTS
    Packages,    \* action packages
    NumSteps,    \* steps of a package
    Targets,     \* rows the steps change: the Work's own row and plan steps
    Work,        \* the target that is the Work's own row
    Requests,    \* revise requests the backend handles at a time
    Executors,   \* executor loops (one per backend process on the database)
    MaxRevision, \* bound: revisions of one package
    MaxFaults,   \* bound: crashes and errors of an executor
    NoPackage    \* an executor without a claim

Steps     == 1 .. NumSteps
Revisions == 1 .. MaxRevision

ASSUME ConstantsAssumption ==
    /\ NumSteps \in Nat /\ MaxRevision \in Nat \ {0}
    /\ MaxFaults \in Nat
    /\ NoPackage \notin Packages /\ IsFiniteSet(Packages)
    /\ Work \in Targets

VARIABLES
    status,      \* action_packages.status
    revision,    \* action_packages.revision
    approved,    \* action_packages.approved_revision, 0 when NULL
    content,     \* the revision whose steps the package holds (payload_hash)
    expired,     \* packages past action_packages.expires_at
    lease,       \* action_packages.lease_expires_at against the clock
    rows,        \* action_steps
    request,     \* revise requests between their reads and their update
    version,     \* the targets' version column, which edits by hand do not move
    archived,    \* sessions.archived of the Work
    pc,          \* where each executor loop stands
    picked,      \* the package an executor has selected and not yet claimed
    claim,       \* the package an executor works on
    stale,       \* packages an executor's watchdog has found
    plan,        \* the steps an executor has loaded
    todo,        \* steps of the plan it has not dealt with
    written,     \* run_written: versions this run has left behind, 0 for none
    trouble,     \* a step of this run was blocked or failed
    applied,     \* history: how often each step of each content took effect
    signed,      \* history: contents of a package its creator has approved
    raced,       \* history: packages revised while an executor worked on them
    overdue,     \* history: packages whose lease lapsed, until they are claimed afresh
    faults       \* crashes and errors so far

packageVars  == <<status, revision, approved, content, expired, lease>>
targetVars   == <<version, archived>>
executorVars == <<pc, picked, claim, stale, plan, todo, written, trouble>>
historyVars  == <<applied, signed, raced, overdue>>
vars == <<packageVars, rows, request, targetVars, executorVars, historyVars, faults>>

Decidable == {"awaiting_approval", "approved"}
Revisable == {"awaiting_approval", "approved", "blocked", "partially_failed"}
Statuses  == {"none", "executing", "succeeded", "cancelled"} \cup Revisable
Versions  == 1 .. (1 + Cardinality(Packages) * MaxRevision * NumSteps)

Row == [target : Targets,
        expected : Versions,            \* expected_version_json
        content : Revisions,            \* which insertion of the row this is
        status : {"pending", "executing", "succeeded", "failed", "blocked"}]

NoRequest == [package |-> NoPackage]
Request   == [package : Packages, revision : Revisions, version : [Targets -> Versions]]

TypeOK ==
    /\ status \in [Packages -> Statuses]
    /\ revision \in [Packages -> Revisions]
    /\ approved \in [Packages -> {0} \cup Revisions]
    /\ content \in [Packages -> Revisions]
    /\ expired \subseteq Packages
    /\ lease \in [Packages -> {"none", "live", "lapsed"}]
    /\ rows \in [Packages -> [Steps -> Row]]
    /\ request \in [Requests -> {NoRequest} \cup Request]
    /\ version \in [Targets -> Versions]
    /\ archived \in BOOLEAN
    /\ pc \in [Executors -> {"idle", "recovering", "claiming", "claimed", "stepping", "beginning", "verifying", "applying"}]
    /\ picked \in [Executors -> Packages \cup {NoPackage}]
    /\ claim \in [Executors -> Packages \cup {NoPackage}]
    /\ stale \in [Executors -> SUBSET Packages]
    /\ plan \in [Executors -> [Steps -> Row]]
    /\ todo \in [Executors -> SUBSET Steps]
    /\ written \in [Executors -> [Targets -> {0} \cup Versions]]
    /\ trouble \in [Executors -> BOOLEAN]
    /\ applied \in [Packages -> [Revisions -> [Steps -> 0 .. 2]]]
    /\ signed \in [Packages -> SUBSET Revisions]
    /\ raced \subseteq Packages /\ overdue \subseteq Packages
    /\ faults \in 0 .. MaxFaults

-----------------------------------------------------------------------------
(* The creator's requests.                                                 *)

\* Rows inserted for targets whose versions were read as given.
RowsForOldVersion(targetOf, ver, rev) == \* mutant: off by one
    [i \in Steps |-> [target |-> targetOf[i], expected |-> ver[targetOf[i]] - 1,
                      content |-> rev, status |-> "pending"]]

RowsFor(targetOf, ver, rev) ==
    [i \in Steps |-> [target |-> targetOf[i], expected |-> ver[targetOf[i]],
                      content |-> rev, status |-> "pending"]]

NoPlan == [i \in Steps |-> [target |-> Work, expected |-> 1, content |-> 1, status |-> "pending"]]

Init ==
    /\ status = [p \in Packages |-> "none"]
    /\ revision = [p \in Packages |-> 1]
    /\ approved = [p \in Packages |-> 0]
    /\ content = [p \in Packages |-> 1]
    /\ expired = {}
    /\ lease = [p \in Packages |-> "none"]
    /\ rows = [p \in Packages |-> NoPlan]
    /\ request = [r \in Requests |-> NoRequest]
    /\ version = [t \in Targets |-> 1]
    /\ archived = FALSE
    /\ pc = [e \in Executors |-> "idle"]
    /\ picked = [e \in Executors |-> NoPackage]
    /\ claim = [e \in Executors |-> NoPackage]
    /\ stale = [e \in Executors |-> {}]
    /\ plan = [e \in Executors |-> NoPlan]
    /\ todo = [e \in Executors |-> {}]
    /\ written = [e \in Executors |-> [t \in Targets |-> 0]]
    /\ trouble = [e \in Executors |-> FALSE]
    /\ applied = [p \in Packages |-> [c \in Revisions |-> [i \in Steps |-> 0]]]
    /\ signed = [p \in Packages |-> {}]
    /\ raced = {} /\ overdue = {}
    /\ faults = 0

\* POST /works/{id}/action-packages: preflight, then the package and its steps.
Create(p) ==
    /\ status[p] = "none" /\ ~archived
    /\ \E targetOf \in [Steps -> Targets] :
          rows' = [rows EXCEPT ![p] = RowsFor(targetOf, version, 1)]
    /\ status' = [status EXCEPT ![p] = "awaiting_approval"]
    /\ UNCHANGED <<revision, approved, content, expired, lease, request, targetVars, executorVars, historyVars, faults>>

\* POST .../revise reads the package, the Work and, for new steps, the
\* versions of their targets ...
ReviseCheck(r, p) ==
    /\ request[r] = NoRequest
    /\ status[p] \in Revisable /\ ~archived
    /\ revision[p] < MaxRevision
    /\ request' = [request EXCEPT ![r] =
          [package |-> p, revision |-> revision[p], version |-> version]]
    /\ UNCHANGED <<packageVars, rows, targetVars, executorVars, historyVars, faults>>

\* ... and updates the package if its revision is still the one it read,
\* whatever its status has become.
MayRevise(r) == revision[request[r].package] = request[r].revision

Revise(r) ==
    /\ request[r] # NoRequest /\ MayRevise(r)
    /\ LET p == request[r].package
       IN  /\ status' = [status EXCEPT ![p] = "awaiting_approval"]
           /\ approved' = [approved EXCEPT ![p] = 0]
           /\ revision' = [revision EXCEPT ![p] = @ + 1]
           /\ raced' = IF \E e \in Executors : claim[e] = p THEN raced \cup {p} ELSE raced
    /\ request' = [request EXCEPT ![r] = NoRequest]

\* The title or description changes; steps, payload and expiry do not.
ReviseText(r) ==
    /\ Revise(r)
    /\ UNCHANGED <<content, expired, lease, rows, targetVars, executorVars, applied, signed, overdue, faults>>

ReviseSteps(r) ==
    /\ Revise(r)
    /\ LET p == request[r].package
       IN  /\ \E targetOf \in [Steps -> Targets] :
                 rows' = [rows EXCEPT ![p] = RowsFor(targetOf, request[r].version, revision[p] + 1)]
           /\ content' = [content EXCEPT ![p] = revision[p] + 1]
           /\ expired' = expired \ {p}
    /\ UNCHANGED <<lease, targetVars, executorVars, applied, signed, overdue, faults>>

ReviseConflict(r) ==
    /\ request[r] # NoRequest /\ ~MayRevise(r)
    /\ request' = [request EXCEPT ![r] = NoRequest]
    /\ UNCHANGED <<packageVars, rows, targetVars, executorVars, historyVars, faults>>

\* POST .../approve: one guarded update, naming the revision the user has seen.
MayApprove(p) == status[p] = "awaiting_approval" /\ p \notin expired /\ ~archived

Approve(p) ==
    /\ MayApprove(p)
    /\ status' = [status EXCEPT ![p] = "approved"]
    /\ approved' = [approved EXCEPT ![p] = revision[p]]
    /\ signed' = [signed EXCEPT ![p] = @ \cup {content[p]}]
    /\ UNCHANGED <<revision, content, expired, lease, rows, request, targetVars, executorVars, applied, raced, overdue, faults>>

\* POST .../deny and .../cancel: one guarded update.
Cancel(p) ==
    /\ status[p] \in Decidable /\ ~archived
    /\ status' = [status EXCEPT ![p] = "cancelled"]
    /\ UNCHANGED <<revision, approved, content, expired, lease, rows, request, targetVars, executorVars, historyVars, faults>>

\* The approval's 15 minutes are over (expires_at).
Expire(p) ==
    /\ status[p] \in Decidable /\ p \notin expired
    /\ expired' = expired \cup {p}
    /\ UNCHANGED <<status, revision, approved, content, lease, rows, request, targetVars, executorVars, historyVars, faults>>

\* PATCH /sessions/{id} archives a Work, or brings it back.
ArchiveOrRestore ==
    /\ archived' = ~archived
    /\ UNCHANGED <<packageVars, rows, request, version, executorVars, historyVars, faults>>

-----------------------------------------------------------------------------
(* The executor loop.                                                      *)

\* What an executor knows of a run is gone when it returns or dies.
Idle(e) ==
    /\ pc' = [pc EXCEPT ![e] = "idle"]
    /\ picked' = [picked EXCEPT ![e] = NoPackage]
    /\ claim' = [claim EXCEPT ![e] = NoPackage]
    /\ stale' = [stale EXCEPT ![e] = {}]
    /\ plan' = [plan EXCEPT ![e] = NoPlan]
    /\ todo' = [todo EXCEPT ![e] = {}]
    /\ written' = [written EXCEPT ![e] = [t \in Targets |-> 0]]
    /\ trouble' = [trouble EXCEPT ![e] = FALSE]

\* The watchdog first lists the packages whose lease lapsed ...
RecoverScan(e) ==
    /\ pc[e] = "idle"
    /\ stale' = [stale EXCEPT ![e] = {p \in Packages : status[p] = "executing" /\ lease[p] = "lapsed"}]
    /\ pc' = [pc EXCEPT ![e] = "recovering"]
    /\ UNCHANGED <<packageVars, rows, request, targetVars, picked, claim, plan, todo, written, trouble, historyVars, faults>>

\* ... then hands each back that is still executing, its orphaned steps pending.
Orphaned(p, i) == rows[p][i].status = "executing"

RecoverOne(e, p) ==
    /\ pc[e] = "recovering" /\ p \in stale[e]
    /\ stale' = [stale EXCEPT ![e] = @ \ {p}]
    /\ \/ /\ status[p] = "executing"
          /\ rows' = [rows EXCEPT ![p] = [i \in Steps |->
                IF Orphaned(p, i) THEN [rows[p][i] EXCEPT !.status = "pending"] ELSE rows[p][i]]]
          /\ status' = [status EXCEPT ![p] = "approved"]
          /\ lease' = [lease EXCEPT ![p] = "none"]
       \/ /\ status[p] # "executing"
          /\ UNCHANGED <<rows, status, lease>>
    /\ UNCHANGED <<revision, approved, content, expired, request, targetVars, pc, picked, claim, plan, todo, written, trouble, historyVars, faults>>

RecoverDone(e) ==
    /\ pc[e] = "recovering" /\ stale[e] = {}
    /\ pc' = [pc EXCEPT ![e] = "claiming"]
    /\ UNCHANGED <<packageVars, rows, request, targetVars, picked, claim, stale, plan, todo, written, trouble, historyVars, faults>>

\* _claim_next selects an approved package whose approval fits, else one whose
\* lease lapsed ...
RunnableUnapproved == {p \in Packages : status[p] \in Decidable /\ p \notin expired} \* mutant
Runnable == {p \in Packages : status[p] = "approved" /\ approved[p] = revision[p] /\ p \notin expired}
Lapsed   == {p \in Packages : status[p] = "executing" /\ lease[p] = "lapsed"}
Claimable == IF Runnable # {} THEN Runnable ELSE Lapsed

Select(e) ==
    /\ pc[e] = "claiming" /\ picked[e] = NoPackage
    /\ \E p \in Claimable : picked' = [picked EXCEPT ![e] = p]
    /\ UNCHANGED <<packageVars, rows, request, targetVars, pc, claim, stale, plan, todo, written, trouble, historyVars, faults>>

SelectNothing(e) ==
    /\ pc[e] = "claiming" /\ picked[e] = NoPackage /\ Claimable = {}
    /\ Idle(e)
    /\ UNCHANGED <<packageVars, rows, request, targetVars, historyVars, faults>>

\* ... and updates that one, repeating the conditions: another loop, the
\* creator or the clock may have come in between.
ById(p) == TRUE \* mutant
StillClaimable(p) == p \in Runnable \cup Lapsed

ClaimedLeaseMissing == "none" \* mutant
ClaimedLease == "live"

\* Nobody has the package or is about to hand it back.
Unattended(p) == \A e \in Executors : claim[e] # p /\ p \notin stale[e]

Claim(e) ==
    /\ pc[e] = "claiming" /\ picked[e] # NoPackage /\ StillClaimable(picked[e])
    /\ LET p == picked[e]
       IN  /\ status' = [status EXCEPT ![p] = "executing"]
           /\ lease' = [lease EXCEPT ![p] = ClaimedLease]
           /\ claim' = [claim EXCEPT ![e] = p]
           /\ overdue' = IF Unattended(p) THEN overdue \ {p} ELSE overdue
    /\ picked' = [picked EXCEPT ![e] = NoPackage]
    /\ pc' = [pc EXCEPT ![e] = "claimed"]
    /\ UNCHANGED <<revision, approved, content, expired, rows, request, targetVars, stale, plan, todo, written, trouble, applied, signed, raced, faults>>

ClaimLost(e) ==
    /\ pc[e] = "claiming" /\ picked[e] # NoPackage /\ ~StillClaimable(picked[e])
    /\ Idle(e)
    /\ UNCHANGED <<packageVars, rows, request, targetVars, historyVars, faults>>

\* An input artifact no longer is what was approved.
ArtifactDrift(e) ==
    /\ pc[e] = "claimed"
    /\ status' = [status EXCEPT ![claim[e]] = "blocked"]
    /\ lease' = [lease EXCEPT ![claim[e]] = "none"]
    /\ Idle(e)
    /\ UNCHANGED <<revision, approved, content, expired, rows, request, targetVars, historyVars, faults>>

EveryStep(p) == Steps \* mutant
Unfinished(p) == {i \in Steps : rows[p][i].status # "succeeded"}

LoadSteps(e) ==
    /\ pc[e] = "claimed"
    /\ plan' = [plan EXCEPT ![e] = rows[claim[e]]]
    /\ todo' = [todo EXCEPT ![e] = Unfinished(claim[e])]
    /\ pc' = [pc EXCEPT ![e] = "stepping"]
    /\ UNCHANGED <<packageVars, rows, request, targetVars, picked, claim, stale, written, trouble, historyVars, faults>>

\* The step at hand, its target, and whether the loaded row still exists
\* (a revision deletes the rows, and foreign keys then refuse the executor's
\* attempts and events, so that its transaction is rolled back and the run
\* abandoned).
Current(e) == CHOOSE i \in todo[e] : \A j \in todo[e] : i <= j
Target(e)  == plan[e][Current(e)].target
RowExists(e) == rows[claim[e]][Current(e)].content = plan[e][Current(e)].content
DriftIgnored(e) == FALSE \* mutant
Drifted(e) == plan[e][Current(e)].expected # version[Target(e)]
OwnWrite(e) == written[e][Target(e)] = version[Target(e)]

SetRow(e, s) == rows' = [rows EXCEPT ![claim[e]][Current(e)].status = s]

\* The step is dealt with, without effect on its target.
GiveUpStep(e, s) ==
    /\ RowExists(e)
    /\ SetRow(e, s)
    /\ trouble' = [trouble EXCEPT ![e] = TRUE]
    /\ todo' = [todo EXCEPT ![e] = @ \ {Current(e)}]
    /\ pc' = [pc EXCEPT ![e] = "stepping"]
    /\ UNCHANGED <<packageVars, request, targetVars, picked, claim, stale, plan, written, historyVars>>

StopCancelled(e) ==
    /\ pc[e] = "stepping" /\ todo[e] # {} /\ status[claim[e]] = "cancelled"
    /\ Idle(e)
    /\ UNCHANGED <<packageVars, rows, request, targetVars, historyVars, faults>>

BlockStep(e) ==
    /\ pc[e] = "stepping" /\ todo[e] # {} /\ status[claim[e]] # "cancelled"
    /\ Drifted(e) /\ ~OwnWrite(e)
    /\ GiveUpStep(e, "blocked")
    /\ UNCHANGED faults

\* The step's version holds, or this run itself has moved it on.
InspectStep(e) ==
    /\ pc[e] = "stepping" /\ todo[e] # {} /\ status[claim[e]] # "cancelled"
    /\ Drifted(e) => OwnWrite(e)
    /\ plan' = IF OwnWrite(e) THEN [plan EXCEPT ![e][Current(e)].expected = version[Target(e)]] ELSE plan
    /\ pc' = [pc EXCEPT ![e] = "beginning"]
    /\ UNCHANGED <<packageVars, rows, request, targetVars, picked, claim, stale, todo, written, trouble, historyVars, faults>>

BeginStep(e) ==
    /\ pc[e] = "beginning" /\ RowExists(e)
    /\ rows' = [rows EXCEPT ![claim[e]][Current(e)] =
          [@ EXCEPT !.status = "executing", !.expected = plan[e][Current(e)].expected]]
    /\ pc' = [pc EXCEPT ![e] = "verifying"]
    /\ UNCHANGED <<packageVars, request, targetVars, picked, claim, stale, plan, todo, written, trouble, historyVars, faults>>

\* The handler reads the Work and the target's version once more ...
VerifyConflict(e) ==
    /\ pc[e] = "verifying" /\ ~archived /\ Drifted(e)
    /\ GiveUpStep(e, "blocked")
    /\ UNCHANGED faults

VerifyArchived(e) ==
    /\ pc[e] = "verifying" /\ archived
    /\ GiveUpStep(e, "failed")
    /\ UNCHANGED faults

VerifyOk(e) ==
    /\ pc[e] = "verifying" /\ ~archived /\ ~Drifted(e)
    /\ pc' = [pc EXCEPT ![e] = "applying"]
    /\ UNCHANGED <<packageVars, rows, request, targetVars, picked, claim, stale, plan, todo, written, trouble, historyVars, faults>>

\* ... and its update is guarded by the archived flag only, on the Work's row.
Applies(e) == Target(e) = Work => ~archived

\* The effect and its record are one transaction.
ApplyStep(e) ==
    /\ pc[e] = "applying" /\ RowExists(e) /\ Applies(e)
    /\ version' = [version EXCEPT ![Target(e)] = @ + 1]
    /\ written' = [written EXCEPT ![e][Target(e)] = version'[Target(e)]]
    /\ SetRow(e, "succeeded")
    /\ applied' = [applied EXCEPT ![claim[e]][plan[e][Current(e)].content][Current(e)] = @ + 1]
    /\ todo' = [todo EXCEPT ![e] = @ \ {Current(e)}]
    /\ pc' = [pc EXCEPT ![e] = "stepping"]
    /\ UNCHANGED <<packageVars, request, archived, picked, claim, stale, plan, trouble, signed, raced, overdue, faults>>

ApplyArchived(e) ==
    /\ pc[e] = "applying" /\ ~Applies(e)
    /\ GiveUpStep(e, "failed")
    /\ UNCHANGED faults

\* Any other error of a handler is recorded as a failed step.  Its update is
\* its last statement and takes the write lock: after it only a failing disk
\* could raise, and would raise again in the recording of the failure.
HandlerError(e) ==
    /\ pc[e] \in {"verifying", "applying"} /\ faults < MaxFaults
    /\ GiveUpStep(e, "failed")
    /\ faults' = faults + 1

\* A row that a revision deleted: the run is abandoned as it stands.
RowGone(e) ==
    /\ \/ pc[e] \in {"beginning", "verifying", "applying"}
       \/ pc[e] = "stepping" /\ todo[e] # {} /\ status[claim[e]] # "cancelled" /\ Drifted(e) /\ ~OwnWrite(e)
    /\ ~RowExists(e)
    /\ Idle(e)
    /\ UNCHANGED <<packageVars, rows, request, targetVars, historyVars, faults>>

\* The final update is guarded by the package's id alone.
FinalStatus(e) == IF trouble[e] THEN "partially_failed" ELSE "succeeded"

Finish(e) ==
    /\ pc[e] = "stepping" /\ todo[e] = {}
    /\ status' = [status EXCEPT ![claim[e]] = FinalStatus(e)]
    /\ lease' = [lease EXCEPT ![claim[e]] = "none"]
    /\ Idle(e)
    /\ UNCHANGED <<revision, approved, content, expired, rows, request, targetVars, historyVars, faults>>

\* The process dies, or a statement outside a handler fails and the loop goes on.
Crash(e) ==
    /\ pc[e] # "idle" /\ faults < MaxFaults
    /\ Idle(e)
    /\ faults' = faults + 1
    /\ UNCHANGED <<packageVars, rows, request, targetVars, historyVars>>

\* The 60 seconds of a lease are over.  It is set by the claim and never renewed,
\* so the executor may be dead or only slow.
LeaseLapses(p) ==
    /\ lease[p] = "live"
    /\ lease' = [lease EXCEPT ![p] = "lapsed"]
    /\ overdue' = overdue \cup {p}
    /\ UNCHANGED <<status, revision, approved, content, expired, rows, request, targetVars, executorVars, applied, signed, raced, faults>>

-----------------------------------------------------------------------------

UserNext ==
    \/ \E p \in Packages :
          \/ Create(p) \/ Approve(p) \/ Cancel(p) \/ Expire(p)
          \/ \E r \in Requests : ReviseCheck(r, p)
    \/ \E r \in Requests : ReviseText(r) \/ ReviseSteps(r) \/ ReviseConflict(r)
    \/ ArchiveOrRestore

ExecutorStep(e) ==
    \/ RecoverScan(e) \/ RecoverDone(e)
    \/ \E p \in Packages : RecoverOne(e, p)
    \/ Select(e) \/ SelectNothing(e) \/ Claim(e) \/ ClaimLost(e)
    \/ ArtifactDrift(e) \/ LoadSteps(e)
    \/ StopCancelled(e) \/ BlockStep(e) \/ InspectStep(e) \/ BeginStep(e)
    \/ VerifyConflict(e) \/ VerifyArchived(e) \/ VerifyOk(e)
    \/ ApplyStep(e) \/ ApplyArchived(e) \/ RowGone(e) \/ Finish(e)

Next ==
    \/ UserNext
    \/ \E e \in Executors : ExecutorStep(e) \/ HandlerError(e) \/ Crash(e)
    \/ \E p \in Packages : LeaseLapses(p)

Spec == Init /\ [][Next]_vars

\* The loop keeps turning and the clock keeps running; users owe nothing.
Fairness ==
    /\ \A e \in Executors : WF_vars(ExecutorStep(e))
    /\ \A p \in Packages : WF_vars(LeaseLapses(p))

FairSpec == Spec /\ Fairness

-----------------------------------------------------------------------------
(* Properties, with one executor loop as main.py starts it.                *)

\* A step is recorded as succeeded exactly if its change was made, no change is
\* made twice, and a package that reads succeeded made all of them (unless it
\* was revised under the executor), through crashes, watchdog recoveries,
\* re-approvals and revisions (execute_one_approved_package).
StepsApplyOnce ==
    \A p \in Packages :
        /\ \A c \in Revisions, i \in Steps : applied[p][c][i] <= 1
        /\ \A i \in Steps : rows[p][i].status = "succeeded" <=> applied[p][content[p]][i] = 1
        /\ p \notin raced /\ status[p] = "succeeded" => \A i \in Steps : applied[p][content[p]][i] = 1

\* Only content its creator approved takes effect, unless the package was
\* revised under the executor.
OnlySignedContentApplies ==
    \A p \in Packages \ raced : \A c \in Revisions, i \in Steps :
        applied[p][c][i] > 0 => c \in signed[p]

\* Every step a creator approved takes effect once, and no other does (both of
\* the above).
ApprovedStepsApplyOnce == StepsApplyOnce /\ OnlySignedContentApplies

\* A package is executing under an approval of its present revision, and by an
\* executor or under a lease that a watchdog will see lapse: it is never
\* stranded (_claim_next, recover_stale_leases).
ExecutingIsHeld ==
    \A p \in Packages \ raced : status[p] = "executing" =>
        /\ approved[p] = revision[p] /\ content[p] \in signed[p]
        /\ lease[p] # "none"

\* A change never lands on a version other than the one its step was approved
\* for, or that the same run left behind (OptimisticVersionConflict).
VersionsChecked ==
    [][\A p \in Packages, c \in Revisions, i \in Steps :
          applied'[p][c][i] > applied[p][c][i] =>
              LET t == rows[p][i].target
              IN  \/ version[t] = rows[p][i].expected
                  \/ \E e \in Executors : claim[e] = p /\ written[e][t] = version[t]]_vars

\* A package that was cancelled or has succeeded runs no further step and keeps
\* its status until it is revised, unless it was revised under the executor.
EndedIsFinal ==
    [][\A p \in Packages :
          status[p] \in {"cancelled", "succeeded"} /\ p \notin raced' /\ revision'[p] = revision[p] =>
              status'[p] = status[p] /\ applied'[p] = applied[p]]_vars

\* An approval binds the executor to the versions it was given for and ends
\* with the package (both of the above).
ApprovalsBind == VersionsChecked /\ EndedIsFinal

\* Two loops never work on one package, though both select it, die or come late
\* to hand it back, unless its lease lapsed and nobody has claimed it afresh
\* since, or it was revised under one of them (_claim_next, recover_stale_leases).
OneExecutorPerPackage ==
    \A e, f \in Executors :
        e # f /\ claim[e] = claim[f] => claim[e] \in {NoPackage} \cup raced \cup overdue

\* A package that was approved or is executing comes to an end, or back to its
\* creator, or its approval expires, even when executors die.
ApprovedPackagesSettle ==
    \A p \in Packages :
        status[p] \in {"approved", "executing"} ~>
            (status[p] \notin {"approved", "executing"} \/ p \in expired)

-----------------------------------------------------------------------------
(* What a docstring says and the code does not keep.                       *)

\* "the executor refuses to run a package whose approved_revision no longer
\* matches its current revision until it is re-approved" (revise_action_package).
UnapprovedNeverApplies ==
    \A p \in Packages, c \in Revisions, i \in Steps : applied[p][c][i] > 0 => c \in signed[p]
=============================================================================
