------------------------ MODULE ActionPackagesProofs ------------------------
(***************************************************************************)
(* What the action packages promise, for any number of packages, steps,    *)
(* targets, requests, revisions and faults; most of it with the one        *)
(* executor loop that main.py starts.  At the end, what they promise of    *)
(* the rows of a plan that are edited by hand as well.                     *)
(***************************************************************************)
EXTENDS MCPackages, FiniteNumbers, FiniteSetTheorems, TLAPS

\* main.py starts one executor loop.
OneLoop == \A e, f \in Executors : e = f

-----------------------------------------------------------------------------
(* Types.  V is where versions come from.                                  *)

Loaded(e)  == pc[e] \in {"stepping", "beginning", "verifying", "applying"}
Working(e) == pc[e] \in {"claimed", "stepping", "beginning", "verifying", "applying"}

RowIn(V) == [target : Targets, expected : V, content : Revisions,
             status : {"pending", "executing", "succeeded", "failed", "blocked"}]

PackagesTyped ==
    /\ status \in [Packages -> Statuses]
    /\ revision \in [Packages -> Revisions]
    /\ approved \in [Packages -> {0} \cup Revisions]
    /\ content \in [Packages -> Revisions]
    /\ expired \subseteq Packages
    /\ lease \in [Packages -> {"none", "live", "lapsed"}]

VersionsTyped(V) ==
    /\ rows \in [Packages -> [Steps -> RowIn(V)]]
    /\ request \in [Requests -> {NoRequest} \cup
          [package : Packages, revision : {n \in Revisions : n < MaxRevision}, version : [Targets -> V]]]
    /\ version \in [Targets -> V]
    /\ plan \in [Executors -> [Steps -> RowIn(V)]]
    /\ written \in [Executors -> [Targets -> {0} \cup V]]

LoopsTyped ==
    /\ archived \in BOOLEAN
    /\ pc \in [Executors -> {"idle", "recovering", "claiming", "claimed", "stepping", "beginning",
                             "verifying", "applying"}]
    /\ picked \in [Executors -> Packages \cup {NoPackage}]
    /\ claim \in [Executors -> Packages \cup {NoPackage}]
    /\ stale \in [Executors -> SUBSET Packages]
    /\ todo \in [Executors -> SUBSET Steps]
    /\ trouble \in [Executors -> BOOLEAN]
    /\ faults \in 0 .. MaxFaults
    /\ \A e \in Executors : /\ Working(e) <=> claim[e] # NoPackage
                            /\ pc[e] \in {"beginning", "verifying", "applying"} => todo[e] # {}

HistoryTyped ==
    /\ applied \in [Packages -> [Revisions -> [Steps -> Nat]]]
    /\ signed \in [Packages -> SUBSET Revisions]
    /\ raced \subseteq Packages /\ overdue \subseteq Packages

Typed == PackagesTyped /\ VersionsTyped(Nat) /\ LoopsTyped /\ HistoryTyped

-----------------------------------------------------------------------------

\* A package's rows are of its content, and nothing newer has taken effect.
RowsAreTheContent ==
    \A p \in Packages :
        /\ content[p] <= revision[p]
        /\ \A i \in Steps : rows[p][i].content = content[p]
        /\ \A c \in Revisions, i \in Steps : applied[p][c][i] > 0 => c <= content[p]

\* Requests and executors are about packages that exist; one that does not has
\* done nothing.
OnlyCreatedMove ==
    /\ \A p \in Packages : status[p] = "none" =>
          content[p] = 1 /\ \A c \in Revisions, i \in Steps : applied[p][c][i] = 0
    /\ \A r \in Requests : request[r] # NoRequest => status[request[r].package] # "none"
    /\ \A e \in Executors : Working(e) => status[claim[e]] # "none"

\* An approval is of the present revision, and its content is signed.
ApprovalsAreSigned ==
    \A p \in Packages : approved[p] # 0 => approved[p] = revision[p] /\ content[p] \in signed[p]

\* The plan an executor has loaded is of the package's content, or of an older
\* one if the package was revised under it.
PlansFit ==
    \A e \in Executors : Loaded(e) => \A i \in Steps :
        /\ plan[e][i].content <= content[claim[e]]
        /\ claim[e] \notin raced => plan[e][i].content = content[claim[e]]
        /\ plan[e][i].content = content[claim[e]] => plan[e][i].target = rows[claim[e]][i].target

Shape == RowsAreTheContent /\ OnlyCreatedMove /\ ApprovalsAreSigned /\ PlansFit

-----------------------------------------------------------------------------
\* A lease that lapsed, or that a loop has found lapsed, is overdue; any other
\* package is with one loop at most, and executing.
LoopsAreExclusive ==
    /\ \A p \in Packages : lease[p] = "lapsed" => p \in overdue
    /\ \A e \in Executors : stale[e] \subseteq overdue
    /\ \A p \in Packages \ (raced \cup overdue) :
          /\ \A e, f \in Executors : claim[e] = p /\ claim[f] = p => e = f
          /\ \A e \in Executors : claim[e] = p => status[p] = "executing"

-----------------------------------------------------------------------------
\* One loop.

\* A step is recorded exactly if its change was made, and made once.
StepsAreRecorded ==
    \A p \in Packages :
        /\ \A c \in Revisions, i \in Steps : applied[p][c][i] <= 1
        /\ \A i \in Steps : rows[p][i].status = "succeeded" <=> applied[p][content[p]][i] = 1

\* What is still to do is not done; what is dealt with without trouble is.
TodoIsUndone ==
    \A e \in Executors : Loaded(e) => \A i \in Steps :
        /\ i \in todo[e] /\ plan[e][i].content = content[claim[e]] =>
              rows[claim[e]][i].status # "succeeded"
        /\ i \notin todo[e] /\ claim[e] \notin raced /\ ~trouble[e] =>
              rows[claim[e]][i].status = "succeeded"

\* The package at work is executing under its approval; one that succeeded has done it all
ClaimsAreApproved ==
    \A p \in Packages \ raced :
        /\ \A e \in Executors : claim[e] = p => status[p] = "executing"
        /\ status[p] = "executing" => approved[p] # 0 /\ lease[p] # "none"
        /\ status[p] = "succeeded" => \A i \in Steps : rows[p][i].status = "succeeded"

\* Between its check and its update
VersionsHold ==
    \A e \in Executors :
        /\ pc[e] = "applying" => ~Drifted(e)
        /\ pc[e] \in {"verifying", "applying"} /\ RowExists(e) =>
              rows[claim[e]][Current(e)].expected = plan[e][Current(e)].expected

LoopInv == StepsAreRecorded /\ TodoIsUndone /\ ClaimsAreApproved /\ OnlySignedContentApplies /\ VersionsHold

Effects == {x \in (Packages \X Revisions) \X Steps : applied[x[1][1]][x[1][2]][x[2]] > 0}
VersionsAreCounted == VersionsTyped(1 .. (1 + Cardinality(Effects)))

-----------------------------------------------------------------------------
(* The step at hand.                                                       *)

LEMMA CurrentIsTodo ==
    ASSUME NEW e \in Executors, todo[e] \subseteq Steps, todo[e] # {}
    PROVE  Current(e) \in todo[e] /\ Current(e) \in Steps
<1>1. todo[e] \subseteq Nat
  BY DEF Steps
<1>2. \E i \in todo[e] : \A j \in todo[e] : i <= j
  BY <1>1, Least
<1>3. QED
  BY <1>2 DEF Current

\* The executor's package and step while it is about to change the step's row.
LEMMA AtHand ==
    ASSUME LoopsTyped, NEW e \in Executors,
           pc[e] \in {"beginning", "verifying", "applying"} \/ (pc[e] = "stepping" /\ todo[e] # {})
    PROVE  claim[e] \in Packages /\ Current(e) \in todo[e] /\ Current(e) \in Steps
<1>1. todo[e] \subseteq Steps /\ todo[e] # {}
  BY DEF LoopsTyped
<1>2. claim[e] \in Packages
  BY DEF LoopsTyped, Working
<1>3. QED
  BY <1>1, <1>2, CurrentIsTodo

RowStatuses == {"pending", "executing", "succeeded", "failed", "blocked"}

\* Marking one row leaves the others alone.
LEMMA RowMarked ==
    ASSUME NEW V, rows \in [Packages -> [Steps -> RowIn(V)]],
           NEW p \in Packages, NEW i \in Steps, NEW s \in RowStatuses,
           rows' = [rows EXCEPT ![p][i].status = s]
    PROVE  /\ rows' \in [Packages -> [Steps -> RowIn(V)]]
           /\ \A q \in Packages : q # p => rows'[q] = rows[q]
           /\ \A j \in Steps : j # i => rows'[p][j] = rows[p][j]
           /\ rows'[p][i] = [rows[p][i] EXCEPT !.status = s]
<1>0. rows[p][i] \in RowIn(V)
  OBVIOUS
<1>1. [rows[p][i] EXCEPT !.status = s] \in RowIn(V)
  BY <1>0 DEF RowIn, RowStatuses
<1>2. rows' = [rows EXCEPT ![p] = [rows[p] EXCEPT ![i] = [rows[p][i] EXCEPT !.status = s]]]
  OBVIOUS
<1>3. QED
  BY <1>1, <1>2

\* Rows for targets whose versions were read.
LEMMA RowsForTyped ==
    ASSUME NEW V, NEW ver \in [Targets -> V], NEW targetOf \in [Steps -> Targets],
           NEW rev \in Revisions
    PROVE  RowsFor(targetOf, ver, rev) \in [Steps -> RowIn(V)]
  BY DEF RowsFor, RowIn

-----------------------------------------------------------------------------
(* Types.                                                                  *)

LEMMA LoopsTypedInductive == LoopsTyped /\ [Next]_vars => LoopsTyped'
<1> SUFFICES ASSUME LoopsTyped, [Next]_vars PROVE LoopsTyped'
  OBVIOUS
<1> USE ConstantsAssumption DEF LoopsTyped, Working
<1>1. CASE UserNext
  BY <1>1 DEF UserNext, Create, ReviseCheck, Revise, ReviseText, ReviseSteps, ReviseConflict, Approve, Cancel,
     Expire, ArchiveOrRestore, executorVars, targetVars
<1>2. ASSUME NEW e \in Executors, Idle(e), archived' = archived, faults' \in 0 .. MaxFaults
      PROVE  LoopsTyped'
  BY <1>2 DEF Idle
<1>3. ASSUME NEW e \in Executors, NEW s \in RowStatuses, GiveUpStep(e, s), faults' \in 0 .. MaxFaults,
             pc[e] \in {"stepping", "verifying", "applying"}
      PROVE  LoopsTyped'
  BY <1>3 DEF GiveUpStep, targetVars
<1>4. ASSUME NEW e \in Executors, ExecutorStep(e) PROVE LoopsTyped'
  <2>1. CASE RecoverScan(e) \/ RecoverDone(e) \/ Select(e)
    <3>1. CASE Select(e)
      <4>1. PICK p \in Packages : picked' = [picked EXCEPT ![e] = p]
        BY <3>1 DEF Select, Claimable, Runnable, Lapsed
      <4>2. QED
        BY <3>1, <4>1 DEF Select, targetVars
    <3>2. QED
      BY <2>1, <3>1 DEF RecoverScan, RecoverDone, targetVars
  <2>2. ASSUME NEW p \in Packages, RecoverOne(e, p) PROVE LoopsTyped'
    BY <2>2 DEF RecoverOne, targetVars
  <2>3. CASE Claim(e)
    <3>1. PICK p \in Packages : claim' = [claim EXCEPT ![e] = p]
      BY <2>3 DEF Claim, StillClaimable, Runnable, Lapsed
    <3>2. QED
      BY <2>3, <3>1 DEF Claim, targetVars
  <2>4. CASE SelectNothing(e) \/ ClaimLost(e) \/ ArtifactDrift(e) \/ StopCancelled(e) \/ RowGone(e) \/ Finish(e)
    BY <1>2, <2>4 DEF SelectNothing, ClaimLost, ArtifactDrift, StopCancelled, RowGone, Finish, targetVars
  <2>5. CASE LoadSteps(e)
    BY <2>5 DEF LoadSteps, Unfinished, targetVars
  <2>6. CASE BlockStep(e) \/ VerifyConflict(e) \/ VerifyArchived(e) \/ ApplyArchived(e)
    BY <1>3, <2>6 DEF BlockStep, VerifyConflict, VerifyArchived, ApplyArchived, RowStatuses
  <2>7. CASE InspectStep(e)
    BY <2>7 DEF InspectStep, targetVars
  <2>8. CASE BeginStep(e) \/ VerifyOk(e)
    BY <2>8 DEF BeginStep, VerifyOk, targetVars
  <2>9. CASE ApplyStep(e)
    BY <2>9 DEF ApplyStep
  <2>10. QED
    BY <1>4, <2>1, <2>2, <2>3, <2>4, <2>5, <2>6, <2>7, <2>8, <2>9 DEF ExecutorStep
<1>5. ASSUME NEW e \in Executors, HandlerError(e) \/ Crash(e) PROVE LoopsTyped'
  <2>1. faults' \in 0 .. MaxFaults
    BY <1>5 DEF HandlerError, Crash
  <2>2. QED
    BY <1>2, <1>3, <1>5, <2>1 DEF HandlerError, Crash, RowStatuses, targetVars
<1>6. ASSUME NEW p \in Packages, LeaseLapses(p) PROVE LoopsTyped'
  BY <1>6 DEF LeaseLapses, executorVars, targetVars
<1>7. CASE UNCHANGED vars
  BY <1>7 DEF vars, executorVars, targetVars
<1>8. QED
  BY <1>1, <1>4, <1>5, <1>6, <1>7 DEF Next

\* What a request that has passed its checks is about.
LEMMA RequestIsTyped ==
    ASSUME NEW V, VersionsTyped(V), NEW r \in Requests, request[r] # NoRequest
    PROVE  /\ request[r].package \in Packages /\ request[r].revision \in Revisions
           /\ request[r].revision < MaxRevision /\ request[r].version \in [Targets -> V]
  BY DEF VersionsTyped

LEMMA PackagesTypedInductive ==
    /\ PackagesTyped /\ HistoryTyped /\ VersionsTyped(Nat) /\ LoopsTyped /\ [Next]_vars
    => PackagesTyped' /\ HistoryTyped'
<1> SUFFICES ASSUME PackagesTyped, HistoryTyped, VersionsTyped(Nat), LoopsTyped, [Next]_vars
             PROVE  PackagesTyped' /\ HistoryTyped'
  OBVIOUS
<1> USE ConstantsAssumption
<1>0. /\ "none" \in Statuses /\ "executing" \in Statuses /\ "succeeded" \in Statuses
      /\ "cancelled" \in Statuses /\ "awaiting_approval" \in Statuses /\ "approved" \in Statuses
      /\ "blocked" \in Statuses /\ "partially_failed" \in Statuses
      /\ Decidable \subseteq Statuses /\ 1 \in Revisions
  BY DEF Statuses, Revisable, Decidable, Revisions
<1>1. CASE UserNext
  <2>1. ASSUME NEW r \in Requests, ReviseText(r) \/ ReviseSteps(r)
        PROVE  PackagesTyped' /\ HistoryTyped'
    <3>1. PICK p \in Packages : p = request[r].package
      BY <2>1, RequestIsTyped DEF ReviseText, ReviseSteps, Revise
    <3>2. revision[p] + 1 \in Revisions
      BY <2>1, <3>1, RequestIsTyped DEF ReviseText, ReviseSteps, Revise, MayRevise, Revisions
    <3>3. /\ status' = [status EXCEPT ![p] = "awaiting_approval"]
          /\ approved' = [approved EXCEPT ![p] = 0]
          /\ revision' = [revision EXCEPT ![p] = @ + 1]
          /\ raced' \subseteq raced \cup {p}
          /\ UNCHANGED <<lease, applied, signed, overdue>>
          /\ content' = content \/ content' = [content EXCEPT ![p] = revision[p] + 1]
          /\ expired' \subseteq expired
      BY <2>1, <3>1 DEF ReviseText, ReviseSteps, Revise
    <3>4. PackagesTyped'
      BY <1>0, <3>2, <3>3 DEF PackagesTyped
    <3>5. HistoryTyped'
      BY <3>3 DEF HistoryTyped
    <3>6. QED
      BY <3>4, <3>5
  <2>2. ASSUME NEW r \in Requests, ReviseConflict(r) PROVE PackagesTyped' /\ HistoryTyped'
    BY <2>2 DEF ReviseConflict, PackagesTyped, HistoryTyped, packageVars, historyVars
  <2>3. ASSUME NEW p \in Packages, Create(p) \/ Cancel(p) \/ Expire(p)
        PROVE  PackagesTyped' /\ HistoryTyped'
    <3>1. HistoryTyped'
      BY <2>3 DEF Create, Cancel, Expire, HistoryTyped, historyVars
    <3>2. PackagesTyped'
      BY <1>0, <2>3 DEF Create, Cancel, Expire, PackagesTyped
    <3>3. QED
      BY <3>1, <3>2
  <2>4. ASSUME NEW p \in Packages, Approve(p) PROVE PackagesTyped' /\ HistoryTyped'
    <3>1. PackagesTyped'
      BY <1>0, <2>4 DEF Approve, PackagesTyped
    <3>2. HistoryTyped'
      BY <2>4 DEF Approve, PackagesTyped, HistoryTyped
    <3>3. QED
      BY <3>1, <3>2
  <2>5. ASSUME NEW p \in Packages, NEW r \in Requests, ReviseCheck(r, p)
        PROVE  PackagesTyped' /\ HistoryTyped'
    BY <2>5 DEF ReviseCheck, PackagesTyped, HistoryTyped, packageVars, historyVars
  <2>6. CASE ArchiveOrRestore
    BY <2>6 DEF ArchiveOrRestore, PackagesTyped, HistoryTyped, packageVars, historyVars
  <2>7. QED
    BY <1>1, <2>1, <2>2, <2>3, <2>4, <2>5, <2>6 DEF UserNext
<1>2. ASSUME UNCHANGED packageVars, UNCHANGED historyVars PROVE PackagesTyped' /\ HistoryTyped'
  BY <1>2 DEF PackagesTyped, HistoryTyped, packageVars, historyVars
<1>3. ASSUME NEW e \in Executors, ExecutorStep(e) PROVE PackagesTyped' /\ HistoryTyped'
  <2>1. ASSUME NEW p \in Packages, RecoverOne(e, p) PROVE PackagesTyped' /\ HistoryTyped'
    <3>1. HistoryTyped'
      BY <2>1 DEF RecoverOne, HistoryTyped, historyVars
    <3>2. UNCHANGED <<revision, approved, content, expired>>
          /\ status' \in {status, [status EXCEPT ![p] = "approved"]}
          /\ lease' \in {lease, [lease EXCEPT ![p] = "none"]}
      BY <2>1 DEF RecoverOne
    <3>3. PackagesTyped'
      BY <1>0, <3>2 DEF PackagesTyped
    <3>4. QED
      BY <3>1, <3>3
  <2>2. CASE Claim(e)
    <3>1. PICK p \in Packages : /\ status' = [status EXCEPT ![p] = "executing"]
                                /\ lease' = [lease EXCEPT ![p] = ClaimedLease]
      BY <2>2 DEF Claim, StillClaimable, Runnable, Lapsed
    <3>2. QED
      <4>0. UNCHANGED <<revision, approved, content, expired>>
        BY <2>2 DEF Claim
      <4>1. PackagesTyped'
        BY <1>0, <3>1, <4>0 DEF ClaimedLease, PackagesTyped
      <4>2. UNCHANGED <<applied, signed, raced>> /\ overdue' \subseteq overdue
        BY <2>2 DEF Claim
      <4>3. QED
        BY <4>1, <4>2 DEF HistoryTyped
  <2>3. CASE ArtifactDrift(e) \/ Finish(e)
    <3>1. \E st \in Statuses : status' = [status EXCEPT ![claim[e]] = st]
      BY <1>0, <2>3 DEF ArtifactDrift, Finish, FinalStatus
    <3>2. /\ UNCHANGED <<revision, approved, content, expired, historyVars>>
          /\ lease' = [lease EXCEPT ![claim[e]] = "none"]
      BY <2>3 DEF ArtifactDrift, Finish
    <3>3. PackagesTyped'
      BY <1>0, <3>1, <3>2 DEF PackagesTyped
    <3>4. HistoryTyped'
      BY <3>2 DEF HistoryTyped, historyVars
    <3>5. QED
      BY <3>3, <3>4
  <2>4. CASE ApplyStep(e)
    <3>1. PackagesTyped'
      BY <2>4 DEF ApplyStep, PackagesTyped, packageVars
    <3>2. PICK q \in Packages, c \in Revisions, i \in Steps : applied' = [applied EXCEPT ![q][c][i] = @ + 1]
      <4>1. claim[e] \in Packages /\ Current(e) \in Steps
        BY <2>4, AtHand DEF ApplyStep
      <4>2. plan[e][Current(e)].content \in Revisions
        BY <4>1 DEF VersionsTyped, RowIn
      <4>3. QED
        BY <2>4, <4>1, <4>2 DEF ApplyStep
    <3>3. applied' \in [Packages -> [Revisions -> [Steps -> Nat]]]
      <4>1. applied[q][c] \in [Steps -> Nat] /\ applied[q][c][i] + 1 \in Nat
        BY DEF HistoryTyped
      <4>2. [applied[q][c] EXCEPT ![i] = @ + 1] \in [Steps -> Nat]
        BY <4>1
      <4>3. applied' = [applied EXCEPT ![q] =
                          [applied[q] EXCEPT ![c] = [applied[q][c] EXCEPT ![i] = @ + 1]]]
        BY <3>2 DEF HistoryTyped
      <4>4. QED
        BY <4>2, <4>3 DEF HistoryTyped
    <3>4. HistoryTyped'
      BY <2>4, <3>3 DEF ApplyStep, HistoryTyped
    <3>5. QED
      BY <3>1, <3>4
  <2>5. CASE \/ RecoverScan(e) \/ RecoverDone(e) \/ Select(e) \/ SelectNothing(e) \/ ClaimLost(e) \/ LoadSteps(e) \/ StopCancelled(e)
             \/ BlockStep(e) \/ InspectStep(e) \/ BeginStep(e) \/ VerifyConflict(e)
             \/ VerifyArchived(e) \/ VerifyOk(e) \/ ApplyArchived(e) \/ RowGone(e)
    BY <1>2, <2>5 DEF RecoverScan, RecoverDone, Select, SelectNothing, ClaimLost, LoadSteps, StopCancelled, BlockStep,
       InspectStep, BeginStep, VerifyConflict, VerifyArchived, VerifyOk, ApplyArchived, RowGone, GiveUpStep
  <2>6. QED
    BY <1>3, <2>1, <2>2, <2>3, <2>4, <2>5 DEF ExecutorStep
<1>4. ASSUME NEW e \in Executors, HandlerError(e) \/ Crash(e) PROVE PackagesTyped' /\ HistoryTyped'
  BY <1>2, <1>4 DEF HandlerError, Crash, GiveUpStep
<1>5. ASSUME NEW p \in Packages, LeaseLapses(p) PROVE PackagesTyped' /\ HistoryTyped'
  BY <1>5 DEF LeaseLapses, PackagesTyped, HistoryTyped, historyVars
<1>6. CASE UNCHANGED vars
  BY <1>2, <1>6 DEF vars
<1>7. QED
  BY <1>1, <1>3, <1>4, <1>5, <1>6 DEF Next

\* Versions stay where they come from, as long as the next one does.
LEMMA VersionsStayTyped ==
    ASSUME NEW W, W \subseteq Nat, 1 \in W,
           PackagesTyped, LoopsTyped, VersionsTyped(W), [Next]_vars,
           \A e \in Executors : ApplyStep(e) => version[Target(e)] + 1 \in W
    PROVE  VersionsTyped(W)'
<1> USE ConstantsAssumption
<1>1. ASSUME UNCHANGED <<rows, request, version, plan, written>> PROVE VersionsTyped(W)'
  BY <1>1 DEF VersionsTyped
<1>2. ASSUME NEW e \in Executors, Idle(e)
      PROVE  plan' \in [Executors -> [Steps -> RowIn(W)]] /\ written' \in [Executors -> [Targets -> {0} \cup W]]
  <2>1. NoPlan \in [Steps -> RowIn(W)]
    BY DEF NoPlan, RowIn, Revisions
  <2>2. [t \in Targets |-> 0] \in [Targets -> {0} \cup W]
    OBVIOUS
  <2>3. QED
    BY <1>2, <2>1, <2>2 DEF Idle, VersionsTyped
<1>3. ASSUME NEW e \in Executors, Idle(e), UNCHANGED <<rows, request, version>> PROVE VersionsTyped(W)'
  BY <1>2, <1>3 DEF VersionsTyped
<1>4. ASSUME NEW e \in Executors, NEW s \in RowStatuses, GiveUpStep(e, s),
             pc[e] \in {"verifying", "applying"} \/ (pc[e] = "stepping" /\ todo[e] # {})
      PROVE  VersionsTyped(W)'
  <2>1. claim[e] \in Packages /\ Current(e) \in Steps
    BY <1>4, AtHand
  <2>2. rows' = [rows EXCEPT ![claim[e]][Current(e)].status = s]
        /\ UNCHANGED <<request, version, plan, written>>
    BY <1>4 DEF GiveUpStep, SetRow, targetVars
  <2>3. rows' \in [Packages -> [Steps -> RowIn(W)]]
    BY <2>1, <2>2, RowMarked DEF VersionsTyped
  <2>4. QED
    BY <2>2, <2>3 DEF VersionsTyped
<1>5. CASE UserNext
  <2>1. ASSUME NEW p \in Packages, Create(p) PROVE VersionsTyped(W)'
    <3>1. PICK targetOf \in [Steps -> Targets] : rows' = [rows EXCEPT ![p] = RowsFor(targetOf, version, 1)]
      BY <2>1 DEF Create
    <3>2. RowsFor(targetOf, version, 1) \in [Steps -> RowIn(W)]
      <4>1. 1 \in Revisions /\ version \in [Targets -> W]
        BY DEF VersionsTyped, Revisions
      <4>2. QED
        BY <4>1, RowsForTyped
    <3>3. QED
      BY <2>1, <3>1, <3>2 DEF Create, VersionsTyped, targetVars, executorVars
  <2>2. ASSUME NEW p \in Packages, NEW r \in Requests, ReviseCheck(r, p) PROVE VersionsTyped(W)'
    <3>1. /\ request' = [request EXCEPT ![r] =
                [package |-> p, revision |-> revision[p], version |-> version]]
          /\ revision[p] \in {n \in Revisions : n < MaxRevision}
          /\ version \in [Targets -> W]
      BY <2>2 DEF ReviseCheck, PackagesTyped, VersionsTyped
    <3>2. QED
      BY <2>2, <3>1 DEF ReviseCheck, VersionsTyped, targetVars, executorVars
  <2>3. ASSUME NEW r \in Requests, Revise(r), UNCHANGED <<targetVars, executorVars>>,
               rows' \in [Packages -> [Steps -> RowIn(W)]]
        PROVE  VersionsTyped(W)'
    BY <2>3 DEF Revise, VersionsTyped, targetVars, executorVars
  <2>4. ASSUME NEW r \in Requests, ReviseText(r) PROVE VersionsTyped(W)'
    BY <2>3, <2>4 DEF ReviseText, VersionsTyped
  <2>5. ASSUME NEW r \in Requests, ReviseSteps(r) PROVE VersionsTyped(W)'
    <3>1. PICK p \in Packages, ver \in [Targets -> W] : p = request[r].package /\ ver = request[r].version
      BY <2>5, RequestIsTyped DEF ReviseSteps, Revise
    <3>2. revision[p] + 1 \in Revisions
      BY <2>5, <3>1, RequestIsTyped DEF ReviseSteps, Revise, MayRevise, Revisions, PackagesTyped
    <3>3. PICK targetOf \in [Steps -> Targets] : rows' = [rows EXCEPT ![p] = RowsFor(targetOf, ver, revision[p] + 1)]
      BY <2>5, <3>1 DEF ReviseSteps
    <3>4. RowsFor(targetOf, ver, revision[p] + 1) \in [Steps -> RowIn(W)]
      BY <3>2, RowsForTyped
    <3>5. rows' \in [Packages -> [Steps -> RowIn(W)]]
      BY <3>3, <3>4 DEF VersionsTyped
    <3>6. QED
      BY <2>3, <2>5, <3>5 DEF ReviseSteps
  <2>6. ASSUME NEW r \in Requests, ReviseConflict(r) PROVE VersionsTyped(W)'
    BY <2>6 DEF ReviseConflict, VersionsTyped, targetVars, executorVars
  <2>7. ASSUME NEW p \in Packages, Approve(p) \/ Cancel(p) \/ Expire(p) PROVE VersionsTyped(W)'
    BY <1>1, <2>7 DEF Approve, Cancel, Expire, targetVars, executorVars
  <2>8. CASE ArchiveOrRestore
    BY <1>1, <2>8 DEF ArchiveOrRestore, executorVars
  <2>9. QED
    BY <1>5, <2>1, <2>2, <2>4, <2>5, <2>6, <2>7, <2>8 DEF UserNext
<1>6. ASSUME NEW e \in Executors, ExecutorStep(e) PROVE VersionsTyped(W)'
  <2>1. ASSUME NEW p \in Packages, RecoverOne(e, p) PROVE VersionsTyped(W)'
    <3>1. rows[p] \in [Steps -> RowIn(W)]
      BY DEF VersionsTyped
    <3>2. \A i \in Steps : [rows[p][i] EXCEPT !.status = "pending"] \in RowIn(W)
      BY <3>1 DEF RowIn
    <3>3. rows' \in [Packages -> [Steps -> RowIn(W)]]
      <4>1. [i \in Steps |-> IF Orphaned(p, i) THEN [rows[p][i] EXCEPT !.status = "pending"] ELSE rows[p][i]]
            \in [Steps -> RowIn(W)]
        BY <3>1, <3>2
      <4>2. rows \in [Packages -> [Steps -> RowIn(W)]]
        BY DEF VersionsTyped
      <4>3. QED
        BY <2>1, <4>1, <4>2 DEF RecoverOne
    <3>4. QED
      BY <2>1, <3>3 DEF RecoverOne, VersionsTyped, targetVars
  <2>2. CASE LoadSteps(e)
    <3>1. rows[claim[e]] \in [Steps -> RowIn(W)]
      BY <2>2 DEF LoadSteps, LoopsTyped, Working, VersionsTyped
    <3>2. QED
      BY <2>2, <3>1 DEF LoadSteps, VersionsTyped, targetVars
  <2>3. CASE InspectStep(e)
    <3>1. Current(e) \in Steps
      BY <2>3, AtHand DEF InspectStep
    <3>2. PICK i \in Steps : i = Current(e)
      BY <3>1
    <3>3. plan[e][i] \in RowIn(W) /\ version[plan[e][i].target] \in W
      BY DEF VersionsTyped, RowIn
    <3>4. [plan[e][i] EXCEPT !.expected = version[plan[e][i].target]] \in RowIn(W)
      BY <3>3 DEF RowIn
    <3>5. \/ plan' = plan
          \/ plan' = [plan EXCEPT ![e][i].expected = version[plan[e][i].target]]
      BY <2>3, <3>2 DEF InspectStep, Target
    <3>6. plan' \in [Executors -> [Steps -> RowIn(W)]]
      <4>1. CASE plan' = plan
        BY <4>1 DEF VersionsTyped
      <4>2. CASE plan' = [plan EXCEPT ![e][i].expected = version[plan[e][i].target]]
        <5>1. plan' = [plan EXCEPT ![e] = [plan[e] EXCEPT ![i] =
                          [plan[e][i] EXCEPT !.expected = version[plan[e][i].target]]]]
          BY <4>2 DEF VersionsTyped
        <5>2. QED
          BY <3>4, <5>1 DEF VersionsTyped
      <4>3. QED
        BY <3>5, <4>1, <4>2
    <3>7. QED
      BY <2>3, <3>6 DEF InspectStep, VersionsTyped, targetVars
  <2>4. CASE BeginStep(e)
    <3>1. PICK p \in Packages, i \in Steps : p = claim[e] /\ i = Current(e)
      BY <2>4, AtHand DEF BeginStep
    <3>2. rows[p][i] \in RowIn(W) /\ plan[e][i] \in RowIn(W)
      BY DEF VersionsTyped
    <3>3. [rows[p][i] EXCEPT !.status = "executing", !.expected = plan[e][i].expected] \in RowIn(W)
      BY <3>2 DEF RowIn
    <3>4. rows' = [rows EXCEPT ![p] = [rows[p] EXCEPT ![i] =
              [rows[p][i] EXCEPT !.status = "executing", !.expected = plan[e][i].expected]]]
      BY <2>4, <3>1 DEF BeginStep, VersionsTyped
    <3>5. rows' \in [Packages -> [Steps -> RowIn(W)]]
      BY <3>3, <3>4 DEF VersionsTyped
    <3>6. QED
      BY <2>4, <3>5 DEF BeginStep, VersionsTyped, targetVars
  <2>5. CASE ApplyStep(e)
    <3>1. claim[e] \in Packages /\ Current(e) \in Steps
      BY <2>5, AtHand DEF ApplyStep
    <3>2. PICK t \in Targets : t = Target(e)
      BY <3>1 DEF Target, VersionsTyped, RowIn
    <3>3. rows' \in [Packages -> [Steps -> RowIn(W)]]
      BY <2>5, <3>1, RowMarked DEF ApplyStep, SetRow, VersionsTyped, RowStatuses
    <3>4. version' = [version EXCEPT ![t] = version[t] + 1] /\ version[t] + 1 \in W
      BY <2>5, <3>2 DEF ApplyStep, VersionsTyped
    <3>5. version' \in [Targets -> W] /\ version'[t] \in W
      BY <3>4 DEF VersionsTyped
    <3>6. written' = [written EXCEPT ![e] = [written[e] EXCEPT ![t] = version'[t]]]
      BY <2>5, <3>2 DEF ApplyStep, VersionsTyped
    <3>7. written' \in [Executors -> [Targets -> {0} \cup W]]
      BY <3>5, <3>6 DEF VersionsTyped
    <3>8. UNCHANGED <<request, plan>>
      BY <2>5 DEF ApplyStep
    <3>9. QED
      BY <3>3, <3>5, <3>7, <3>8 DEF VersionsTyped
  <2>6. CASE RecoverScan(e) \/ RecoverDone(e) \/ Select(e) \/ Claim(e) \/ VerifyOk(e)
    BY <1>1, <2>6 DEF RecoverScan, RecoverDone, Select, Claim, VerifyOk, targetVars
  <2>7. CASE SelectNothing(e) \/ ClaimLost(e) \/ ArtifactDrift(e) \/ StopCancelled(e) \/ RowGone(e) \/ Finish(e)
    BY <1>3, <2>7 DEF SelectNothing, ClaimLost, ArtifactDrift, StopCancelled, RowGone, Finish, targetVars
  <2>8. CASE BlockStep(e) \/ VerifyConflict(e) \/ VerifyArchived(e) \/ ApplyArchived(e)
    BY <1>4, <2>8 DEF BlockStep, VerifyConflict, VerifyArchived, ApplyArchived, RowStatuses
  <2>9. QED
    BY <1>6, <2>1, <2>2, <2>3, <2>4, <2>5, <2>6, <2>7, <2>8 DEF ExecutorStep
<1>7. ASSUME NEW e \in Executors, HandlerError(e) \/ Crash(e) PROVE VersionsTyped(W)'
  BY <1>3, <1>4, <1>7 DEF HandlerError, Crash, RowStatuses, targetVars
<1>8. ASSUME NEW p \in Packages, LeaseLapses(p) PROVE VersionsTyped(W)'
  BY <1>1, <1>8 DEF LeaseLapses, targetVars, executorVars
<1>9. CASE UNCHANGED vars
  BY <1>1, <1>9 DEF vars, targetVars, executorVars
<1>10. QED
  BY <1>5, <1>6, <1>7, <1>8, <1>9 DEF Next

LEMMA TypedInductive == Typed /\ [Next]_vars => Typed'
<1> SUFFICES ASSUME Typed, [Next]_vars PROVE Typed'
  OBVIOUS
<1>1. ASSUME NEW e \in Executors, ApplyStep(e) PROVE version[Target(e)] + 1 \in Nat
  <2>1. Current(e) \in Steps
    BY <1>1, AtHand DEF ApplyStep, Typed
  <2>2. Target(e) \in Targets
    BY <2>1 DEF Target, Typed, VersionsTyped, RowIn
  <2>3. QED
    BY <2>2 DEF Typed, VersionsTyped
<1>2. VersionsTyped(Nat)'
  BY <1>1, VersionsStayTyped DEF Typed
<1>3. QED
  BY <1>2, LoopsTypedInductive, PackagesTypedInductive DEF Typed

-----------------------------------------------------------------------------
(* What an executor's step leaves alone.                                   *)

LoopStep(e) == ExecutorStep(e) \/ HandlerError(e) \/ Crash(e)

LEMMA LoopKeeps ==
    ASSUME Typed, NEW e \in Executors, LoopStep(e)
    PROVE  /\ UNCHANGED <<revision, approved, content, expired, request, signed, raced, archived>>
           /\ \A f \in Executors : f # e =>
                 /\ pc'[f] = pc[f] /\ claim'[f] = claim[f] /\ stale'[f] = stale[f] /\ plan'[f] = plan[f]
                 /\ todo'[f] = todo[f] /\ written'[f] = written[f] /\ trouble'[f] = trouble[f]
           /\ ApplyStep(e) \/ (applied' = applied /\ version' = version)
<1> USE DEF packageVars, historyVars, targetVars, executorVars
<1>1. ASSUME Idle(e)
      PROVE  \A f \in Executors : f # e =>
                 /\ pc'[f] = pc[f] /\ claim'[f] = claim[f] /\ stale'[f] = stale[f] /\ plan'[f] = plan[f]
                 /\ todo'[f] = todo[f] /\ written'[f] = written[f] /\ trouble'[f] = trouble[f]
  BY <1>1 DEF Idle, Typed, LoopsTyped, VersionsTyped
<1>2. ASSUME NEW s, GiveUpStep(e, s)
      PROVE  /\ UNCHANGED <<revision, approved, content, expired, request, signed, raced, archived, applied,
                            version>>
             /\ \A f \in Executors : f # e =>
                 /\ pc'[f] = pc[f] /\ claim'[f] = claim[f] /\ stale'[f] = stale[f] /\ plan'[f] = plan[f]
                 /\ todo'[f] = todo[f] /\ written'[f] = written[f] /\ trouble'[f] = trouble[f]
  BY <1>2 DEF GiveUpStep, Typed, LoopsTyped, VersionsTyped
<1>3. CASE \/ BlockStep(e) \/ VerifyConflict(e) \/ VerifyArchived(e) \/ ApplyArchived(e) \/ HandlerError(e)
  BY <1>2, <1>3 DEF BlockStep, VerifyConflict, VerifyArchived, ApplyArchived, HandlerError
<1>4. CASE SelectNothing(e) \/ ClaimLost(e) \/ ArtifactDrift(e) \/ StopCancelled(e) \/ RowGone(e) \/ Finish(e) \/ Crash(e)
  BY <1>1, <1>4 DEF SelectNothing, ClaimLost, ArtifactDrift, StopCancelled, RowGone, Finish, Crash
<1>5. CASE RecoverScan(e) \/ RecoverDone(e) \/ Select(e) \/ Claim(e) \/ LoadSteps(e) \/ VerifyOk(e) \/ BeginStep(e)
  BY <1>5 DEF RecoverScan, RecoverDone, Select, Claim, LoadSteps, VerifyOk, BeginStep, Typed, LoopsTyped,
     VersionsTyped
<1>6. ASSUME NEW p \in Packages, RecoverOne(e, p)
      PROVE  /\ UNCHANGED <<revision, approved, content, expired, request, signed, raced, archived, applied,
                            version, pc, claim, plan, todo, written, trouble>>
             /\ \A f \in Executors : f # e => stale'[f] = stale[f]
  BY <1>6 DEF RecoverOne, Typed, LoopsTyped
<1>7. CASE InspectStep(e)
  BY <1>7 DEF InspectStep, Typed, LoopsTyped, VersionsTyped
<1>8. CASE ApplyStep(e)
  BY <1>8 DEF ApplyStep, Typed, LoopsTyped, VersionsTyped
<1>9. QED
  BY <1>3, <1>4, <1>5, <1>6, <1>7, <1>8 DEF LoopStep, ExecutorStep

\* What becomes of a row and of its history: nothing, or the watchdog resets
\* it, or the executor marks the one at hand.
RowStays(p, i) ==
    rows'[p][i] = rows[p][i] /\ \A c \in Revisions : applied'[p][c][i] = applied[p][c][i]

RowIsReset(p, i) ==
    /\ rows[p][i].status = "executing"
    /\ rows'[p][i] = [rows[p][i] EXCEPT !.status = "pending"]
    /\ \A c \in Revisions : applied'[p][c][i] = applied[p][c][i]

RowIsMarked(e, p, i) ==
    /\ p = claim[e] /\ i = Current(e) /\ i \in todo[e] /\ RowExists(e) /\ Loaded(e)
    /\ rows'[p][i].content = rows[p][i].content /\ rows'[p][i].target = rows[p][i].target
    /\ \/ /\ rows'[p][i].status \in {"executing", "failed", "blocked"}
          /\ \A c \in Revisions : applied'[p][c][i] = applied[p][c][i]
       \/ /\ ApplyStep(e) /\ rows'[p][i].status = "succeeded"
          /\ \A c \in Revisions : applied'[p][c][i] =
                IF c = rows[p][i].content THEN applied[p][c][i] + 1 ELSE applied[p][c][i]

LEMMA RowsInStep ==
    ASSUME Typed, NEW e \in Executors, LoopStep(e), NEW p \in Packages, NEW i \in Steps
    PROVE  RowStays(p, i) \/ (RowIsReset(p, i) /\ pc[e] = "recovering") \/ RowIsMarked(e, p, i)
<1>0. rows \in [Packages -> [Steps -> RowIn(Nat)]] /\ rows[p][i] \in RowIn(Nat)
  BY DEF Typed, VersionsTyped
<1>1. ASSUME rows' = rows, applied' = applied PROVE RowStays(p, i)
  BY <1>1 DEF RowStays
<1>2. ASSUME NEW s \in {"failed", "blocked"}, GiveUpStep(e, s),
             pc[e] \in {"verifying", "applying"} \/ (pc[e] = "stepping" /\ todo[e] # {})
      PROVE  RowStays(p, i) \/ RowIsMarked(e, p, i)
  <2>1. PICK q \in Packages, j \in Steps : q = claim[e] /\ j = Current(e) /\ j \in todo[e]
    BY <1>2, AtHand DEF Typed
  <2>2. rows' = [rows EXCEPT ![q][j].status = s] /\ applied' = applied /\ RowExists(e)
    BY <1>2, <2>1 DEF GiveUpStep, SetRow, historyVars
  <2>3. CASE p = q /\ i = j
    <3>1. rows'[p][i] = [rows[p][i] EXCEPT !.status = s]
      BY <1>0, <2>2, <2>3, RowMarked DEF RowStatuses
    <3>2. /\ rows'[p][i].status = s /\ rows'[p][i].content = rows[p][i].content
          /\ rows'[p][i].target = rows[p][i].target
      BY <1>0, <3>1 DEF RowIn
    <3>3. QED
      BY <1>2, <2>1, <2>2, <2>3, <3>2 DEF RowIsMarked, Loaded
  <2>4. CASE p # q \/ i # j
    <3>1. rows'[p][i] = rows[p][i]
      BY <1>0, <2>2, <2>4, RowMarked DEF RowStatuses
    <3>2. QED
      BY <2>2, <3>1 DEF RowStays
  <2>5. QED
    BY <2>3, <2>4
<1>3. CASE BlockStep(e) \/ VerifyConflict(e) \/ VerifyArchived(e) \/ ApplyArchived(e) \/ HandlerError(e)
  BY <1>2, <1>3 DEF BlockStep, VerifyConflict, VerifyArchived, ApplyArchived, HandlerError
<1>4. CASE ApplyStep(e)
  <2>1. PICK q \in Packages, j \in Steps : q = claim[e] /\ j = Current(e) /\ j \in todo[e]
    BY <1>4, AtHand DEF ApplyStep, Typed
  <2>2. rows' = [rows EXCEPT ![q][j].status = "succeeded"] /\ RowExists(e)
    BY <1>4, <2>1 DEF ApplyStep, SetRow
  <2>3. rows[q][j].content \in Revisions /\ plan[e][j].content = rows[q][j].content
    BY <1>0, <2>1, <2>2 DEF RowIn, RowExists
  <2>4. applied' = [applied EXCEPT ![q][rows[q][j].content][j] = @ + 1]
    BY <1>4, <2>1, <2>3 DEF ApplyStep
  <2>5. \A c \in Revisions : applied'[p][c][i] = IF p = q /\ i = j /\ c = rows[q][j].content
                                                 THEN applied[p][c][i] + 1 ELSE applied[p][c][i]
    BY <2>3, <2>4 DEF Typed, HistoryTyped
  <2>6. CASE p = q /\ i = j
    <3>1. rows'[p][i] = [rows[p][i] EXCEPT !.status = "succeeded"]
      BY <1>0, <2>2, <2>6, RowMarked DEF RowStatuses
    <3>2. /\ rows'[p][i].status = "succeeded" /\ rows'[p][i].content = rows[p][i].content
          /\ rows'[p][i].target = rows[p][i].target
      BY <1>0, <3>1 DEF RowIn
    <3>3. Loaded(e)
      BY <1>4 DEF ApplyStep, Loaded
    <3>4. QED
      BY <1>4, <2>1, <2>2, <2>5, <2>6, <3>2, <3>3 DEF RowIsMarked
  <2>7. CASE p # q \/ i # j
    <3>1. rows'[p][i] = rows[p][i]
      BY <1>0, <2>2, <2>7, RowMarked DEF RowStatuses
    <3>2. QED
      BY <2>5, <2>7, <3>1 DEF RowStays
  <2>8. QED
    BY <2>6, <2>7
<1>5. CASE BeginStep(e)
  <2>1. PICK q \in Packages, j \in Steps : q = claim[e] /\ j = Current(e) /\ j \in todo[e]
    BY <1>5, AtHand DEF BeginStep, Typed
  <2>2. rows' = [rows EXCEPT ![q] = [rows[q] EXCEPT ![j] =
              [rows[q][j] EXCEPT !.status = "executing", !.expected = plan[e][j].expected]]]
        /\ RowExists(e) /\ applied' = applied /\ Loaded(e)
    BY <1>0, <1>5, <2>1 DEF BeginStep, historyVars, Loaded
  <2>3. CASE p = q /\ i = j
    <3>1. rows'[p][i] = [rows[p][i] EXCEPT !.status = "executing", !.expected = plan[e][j].expected]
      BY <1>0, <2>2, <2>3
    <3>2. /\ rows'[p][i].status = "executing" /\ rows'[p][i].content = rows[p][i].content
          /\ rows'[p][i].target = rows[p][i].target
      BY <1>0, <3>1 DEF RowIn
    <3>3. QED
      BY <2>1, <2>2, <2>3, <3>2 DEF RowIsMarked
  <2>4. CASE p # q \/ i # j
    BY <1>0, <2>2, <2>4 DEF RowStays
  <2>5. QED
    BY <2>3, <2>4
<1>6. ASSUME NEW q \in Packages, RecoverOne(e, q)
      PROVE  RowStays(p, i) \/ (RowIsReset(p, i) /\ pc[e] = "recovering")
  BY <1>0, <1>6 DEF RecoverOne, Orphaned, RowStays, RowIsReset, historyVars
<1>7. CASE \/ RecoverScan(e) \/ RecoverDone(e) \/ Select(e) \/ Claim(e) \/ LoadSteps(e) \/ VerifyOk(e) \/ InspectStep(e)
           \/ SelectNothing(e) \/ ClaimLost(e) \/ ArtifactDrift(e) \/ StopCancelled(e) \/ RowGone(e) \/ Finish(e) \/ Crash(e)
  BY <1>1, <1>7 DEF RecoverScan, RecoverDone, Select, Claim, LoadSteps, VerifyOk, InspectStep, SelectNothing, ClaimLost,
     ArtifactDrift, StopCancelled, RowGone, Finish, Crash, historyVars
<1>8. QED
  BY <1>3, <1>4, <1>5, <1>6, <1>7 DEF LoopStep, ExecutorStep

\* What becomes of a package's status and lease, and of the executor's claim.
StatusStays(p)  == status'[p] = status[p] /\ lease'[p] = lease[p]
HandedBack(e, p) ==
    /\ pc[e] = "recovering" /\ p \in stale[e]
    /\ status[p] = "executing" /\ status'[p] = "approved" /\ lease'[p] = "none"
Claimed(e, p) ==
    /\ pc[e] = "claiming" /\ StillClaimable(p) /\ claim'[e] = p
    /\ status'[p] = "executing" /\ lease'[p] = "live"
LetGo(e, p) ==
    /\ Working(e) /\ p = claim[e] /\ claim'[e] = NoPackage /\ lease'[p] = "none"
    /\ \/ status'[p] \in {"blocked", "partially_failed"}
       \/ status'[p] = "succeeded" /\ pc[e] = "stepping" /\ todo[e] = {} /\ ~trouble[e]

LEMMA StatusInStep ==
    ASSUME Typed, NEW e \in Executors, LoopStep(e), NEW p \in Packages
    PROVE  StatusStays(p) \/ HandedBack(e, p) \/ Claimed(e, p) \/ LetGo(e, p)
<1> USE DEF packageVars
<1>1. CASE \/ RecoverScan(e) \/ RecoverDone(e) \/ Select(e) \/ LoadSteps(e) \/ VerifyOk(e) \/ InspectStep(e) \/ BeginStep(e)
           \/ ApplyStep(e) \/ SelectNothing(e) \/ ClaimLost(e) \/ StopCancelled(e) \/ RowGone(e) \/ Crash(e)
  BY <1>1 DEF RecoverScan, RecoverDone, Select, LoadSteps, VerifyOk, InspectStep, BeginStep, ApplyStep,
     SelectNothing, ClaimLost, StopCancelled, RowGone, Crash, StatusStays
<1>2. CASE BlockStep(e) \/ VerifyConflict(e) \/ VerifyArchived(e) \/ ApplyArchived(e) \/ HandlerError(e)
  BY <1>2 DEF BlockStep, VerifyConflict, VerifyArchived, ApplyArchived, HandlerError, GiveUpStep, StatusStays
<1>3. ASSUME NEW q \in Packages, RecoverOne(e, q) PROVE StatusStays(p) \/ HandedBack(e, p)
  BY <1>3 DEF RecoverOne, StatusStays, HandedBack, Typed, PackagesTyped
<1>4. CASE Claim(e)
  <2>1. PICK q \in Packages : /\ StillClaimable(q) /\ status' = [status EXCEPT ![q] = "executing"]
                              /\ lease' = [lease EXCEPT ![q] = "live"] /\ claim' = [claim EXCEPT ![e] = q]
    BY <1>4 DEF Claim, ClaimedLease, StillClaimable, Runnable, Lapsed
  <2>2. QED
    BY <1>4, <2>1 DEF Claim, StatusStays, Claimed, Typed, PackagesTyped, LoopsTyped
<1>5. CASE ArtifactDrift(e)
  <2>1. claim[e] \in Packages /\ Working(e) /\ claim'[e] = NoPackage
    BY <1>5 DEF ArtifactDrift, Typed, LoopsTyped, Working, Idle
  <2>2. QED
    BY <1>5, <2>1 DEF ArtifactDrift, StatusStays, LetGo, Typed, PackagesTyped
<1>6. CASE Finish(e)
  <2>1. claim[e] \in Packages /\ Working(e) /\ claim'[e] = NoPackage
    BY <1>6 DEF Finish, Typed, LoopsTyped, Working, Idle
  <2>2. QED
    BY <1>6, <2>1 DEF Finish, FinalStatus, StatusStays, LetGo, Typed, PackagesTyped
<1>7. QED
  BY <1>1, <1>2, <1>3, <1>4, <1>5, <1>6 DEF LoopStep, ExecutorStep

LEMMA ClaimInStep ==
    ASSUME Typed, NEW e \in Executors, LoopStep(e)
    PROVE  \/ claim'[e] = claim[e]
           \/ claim'[e] = NoPackage
           \/ claim[e] = NoPackage /\ \E p \in Packages : Claimed(e, p)
<1>1. CASE Claim(e)
  <2>1. PICK q \in Packages : /\ StillClaimable(q) /\ status' = [status EXCEPT ![q] = "executing"]
                              /\ lease' = [lease EXCEPT ![q] = "live"] /\ claim' = [claim EXCEPT ![e] = q]
    BY <1>1 DEF Claim, ClaimedLease, StillClaimable, Runnable, Lapsed
  <2>2. QED
    BY <1>1, <2>1 DEF Claim, Claimed, Working, Typed, PackagesTyped, LoopsTyped
<1>2. CASE ~Claim(e)
  BY <1>2 DEF LoopStep, ExecutorStep, RecoverScan, RecoverOne, RecoverDone, Select, LoadSteps, VerifyOk, InspectStep,
     BeginStep, ApplyStep, SelectNothing, ClaimLost, StopCancelled, RowGone, Crash, BlockStep, VerifyConflict,
     VerifyArchived, ApplyArchived, HandlerError, GiveUpStep, ArtifactDrift, Finish, Idle, Typed, LoopsTyped
<1>3. QED
  BY <1>1, <1>2

\* What becomes of the plan: it is dropped, or loaded, or kept but for the
\* expected version of the step at hand.
PlanIsLoaded(e) ==
    /\ Working(e) /\ claim'[e] = claim[e] /\ rows' = rows /\ trouble' = trouble
    /\ plan'[e] = rows[claim[e]] /\ todo'[e] = Unfinished(claim[e])
PlanIsKept(e) ==
    /\ Loaded(e) /\ claim'[e] = claim[e]
    /\ \A i \in Steps : plan'[e][i].content = plan[e][i].content /\ plan'[e][i].target = plan[e][i].target
    /\ trouble[e] => trouble'[e]
    /\ \/ todo'[e] = todo[e] /\ ~ApplyStep(e)
       \/ todo'[e] = todo[e] \ {Current(e)} /\ (trouble'[e] \/ ApplyStep(e))

LEMMA PlanInStep ==
    ASSUME Typed, NEW e \in Executors, LoopStep(e), Loaded(e)'
    PROVE  PlanIsLoaded(e) \/ PlanIsKept(e)
<1>1. ~Idle(e) /\ pc'[e] \in {"stepping", "beginning", "verifying", "applying"}
  BY DEF Idle, Loaded, Typed, LoopsTyped
<1>2. CASE LoadSteps(e)
  BY <1>2 DEF LoadSteps, Typed, LoopsTyped, VersionsTyped, Working, PlanIsLoaded
<1>3. CASE InspectStep(e)
  <2>1. PICK i \in Steps : i = Current(e)
    BY <1>3, AtHand DEF InspectStep, Typed
  <2>2. \/ plan' = plan
        \/ plan' = [plan EXCEPT ![e] = [plan[e] EXCEPT ![i] =
                        [plan[e][i] EXCEPT !.expected = version[plan[e][i].target]]]]
    BY <1>3, <2>1 DEF InspectStep, Target, Typed, VersionsTyped
  <2>3. plan[e][i] \in RowIn(Nat)
    BY DEF Typed, VersionsTyped
  <2>4. \A j \in Steps : plan'[e][j].content = plan[e][j].content /\ plan'[e][j].target = plan[e][j].target
    <3>1. PICK r : r = [plan[e][i] EXCEPT !.expected = version[plan[e][i].target]]
      OBVIOUS
    <3>2. r.content = plan[e][i].content /\ r.target = plan[e][i].target
      BY <2>3, <3>1 DEF RowIn
    <3>3. plan' = plan \/ plan' = [plan EXCEPT ![e] = [plan[e] EXCEPT ![i] = r]]
      BY <2>2, <3>1
    <3>4. QED
      BY <3>2, <3>3 DEF Typed, VersionsTyped
  <2>5. ~ApplyStep(e)
    BY <1>3 DEF InspectStep, ApplyStep
  <2>6. QED
    BY <1>3, <2>4, <2>5 DEF InspectStep, PlanIsKept, Loaded
<1>4. CASE BeginStep(e) \/ VerifyOk(e)
  BY <1>4 DEF BeginStep, VerifyOk, ApplyStep, PlanIsKept, Loaded, Typed, LoopsTyped
<1>5. CASE ApplyStep(e)
  BY <1>5 DEF ApplyStep, PlanIsKept, Loaded, Typed, LoopsTyped
<1>6. ASSUME NEW s, GiveUpStep(e, s), pc[e] \in {"stepping", "verifying", "applying"} PROVE PlanIsKept(e)
  BY <1>6 DEF GiveUpStep, PlanIsKept, Loaded, Typed, LoopsTyped
<1>7. CASE BlockStep(e) \/ VerifyConflict(e) \/ VerifyArchived(e) \/ ApplyArchived(e) \/ HandlerError(e)
  BY <1>6, <1>7 DEF BlockStep, VerifyConflict, VerifyArchived, ApplyArchived, HandlerError
<1>8. CASE RecoverScan(e) \/ RecoverDone(e) \/ Select(e) \/ Claim(e)
  BY <1>1, <1>8 DEF RecoverScan, RecoverDone, Select, Claim, Typed, LoopsTyped
<1>9. ASSUME NEW p \in Packages, RecoverOne(e, p) PROVE FALSE
  BY <1>1, <1>9 DEF RecoverOne
<1>10. QED
  BY <1>1, <1>2, <1>3, <1>4, <1>5, <1>7, <1>8, <1>9 DEF LoopStep, ExecutorStep, SelectNothing, ClaimLost, ArtifactDrift,
     StopCancelled, RowGone, Finish, Crash

-----------------------------------------------------------------------------
(* Rows, plans and approvals, for any number of loops.                     *)

\* A row keeps its content and target under an executor.
LEMMA RowsKeepIdentity ==
    ASSUME Typed, NEW e \in Executors, LoopStep(e), NEW p \in Packages, NEW i \in Steps
    PROVE  rows'[p][i].content = rows[p][i].content /\ rows'[p][i].target = rows[p][i].target
<1>1. rows[p][i] \in RowIn(Nat)
  BY DEF Typed, VersionsTyped
<1>2. CASE RowIsReset(p, i)
  BY <1>1, <1>2 DEF RowIsReset, RowIn
<1>3. QED
  BY <1>2, RowsInStep DEF RowStays, RowIsMarked

\* Only the step at hand takes effect, and for the content of its row.
LEMMA AppliedInStep ==
    ASSUME Typed, NEW e \in Executors, LoopStep(e),
           NEW p \in Packages, NEW i \in Steps, NEW c \in Revisions
    PROVE  \/ applied'[p][c][i] = applied[p][c][i]
           \/ /\ RowIsMarked(e, p, i) /\ c = rows[p][i].content
              /\ applied'[p][c][i] = applied[p][c][i] + 1
<1>1. CASE RowStays(p, i)
  BY <1>1 DEF RowStays
<1>2. CASE RowIsReset(p, i)
  BY <1>2 DEF RowIsReset
<1>3. CASE RowIsMarked(e, p, i)
  <2>1. \/ \A d \in Revisions : applied'[p][d][i] = applied[p][d][i]
        \/ \A d \in Revisions : applied'[p][d][i] =
              IF d = rows[p][i].content THEN applied[p][d][i] + 1 ELSE applied[p][d][i]
    BY <1>3 DEF RowIsMarked
  <2>2. QED
    BY <1>3, <2>1
<1>4. QED
  BY <1>1, <1>2, <1>3, RowsInStep

LEMMA LoopKeepsShape ==
    ASSUME Typed, Shape, NEW e \in Executors, LoopStep(e)
    PROVE  Shape'
<1> USE DEF Shape
<1>0. UNCHANGED <<revision, approved, content, expired, request, signed, raced>>
  BY LoopKeeps
<1>1. \A f \in Executors : claim[f] # NoPackage => claim[f] \in Packages
  BY DEF Typed, LoopsTyped
<1>2. Working(e) => claim[e] \in Packages /\ status[claim[e]] # "none"
  BY DEF Typed, LoopsTyped, OnlyCreatedMove
<1>3. RowsAreTheContent'
  <2>1. ASSUME NEW p \in Packages, NEW c \in Revisions, NEW i \in Steps, applied'[p][c][i] > 0
        PROVE  c <= content[p]
    <3>1. applied'[p][c][i] = applied[p][c][i] \/ c = rows[p][i].content
      BY AppliedInStep
    <3>2. content[p] \in Nat /\ rows[p][i].content = content[p]
      BY DEF RowsAreTheContent, Typed, PackagesTyped, Revisions
    <3>3. QED
      BY <2>1, <3>1, <3>2 DEF RowsAreTheContent
  <2>2. \A p \in Packages : \A i \in Steps : rows'[p][i].content = content[p]
    BY RowsKeepIdentity DEF RowsAreTheContent
  <2>3. QED
    BY <1>0, <2>1, <2>2 DEF RowsAreTheContent
<1>4. OnlyCreatedMove'
  <2>1. \A p \in Packages : status'[p] = "none" => status[p] = "none"
    BY StatusInStep DEF StatusStays, HandedBack, Claimed, LetGo
  <2>2. ASSUME NEW p \in Packages, status[p] = "none", NEW c \in Revisions, NEW i \in Steps
        PROVE  applied'[p][c][i] = applied[p][c][i]
    <3>1. ~RowIsMarked(e, p, i)
      BY <1>2, <2>2 DEF RowIsMarked, Loaded, Working
    <3>2. QED
      BY <3>1, AppliedInStep
  <2>3. ASSUME NEW f \in Executors, Working(f)' PROVE status'[claim'[f]] # "none"
    <3>0. LoopsTyped'
      BY LoopsTypedInductive DEF LoopStep, Next, Typed
    <3>1. claim'[f] # NoPackage /\ claim'[f] \in Packages
      BY <2>3, <3>0 DEF LoopsTyped
    <3>2. CASE claim'[f] = claim[f]
      <4>1. Working(f)
        BY <3>1, <3>2 DEF Typed, LoopsTyped
      <4>2. QED
        BY <2>1, <3>1, <3>2, <4>1 DEF OnlyCreatedMove
    <3>3. CASE claim'[f] # claim[f]
      <4>1. f = e
        BY <3>3, LoopKeeps
      <4>2. QED
        BY <3>1, <3>3, <4>1, ClaimInStep DEF Claimed
    <3>4. QED
      BY <3>2, <3>3
  <2>4. \A r \in Requests : request[r] # NoRequest => request[r].package \in Packages
    BY RequestIsTyped DEF Typed
  <2>5. QED
    BY <1>0, <2>1, <2>2, <2>3, <2>4 DEF OnlyCreatedMove
<1>5. ApprovalsAreSigned'
  BY <1>0 DEF ApprovalsAreSigned
<1>6. PlansFit'
  <2> SUFFICES ASSUME NEW f \in Executors, Loaded(f)', NEW i \in Steps
               PROVE  /\ plan'[f][i].content <= content[claim'[f]]
                      /\ claim'[f] \notin raced => plan'[f][i].content = content[claim'[f]]
                      /\ plan'[f][i].content = content[claim'[f]] => plan'[f][i].target = rows'[claim'[f]][i].target
    BY <1>0 DEF PlansFit
  <2>1. CASE PlanIsLoaded(f)
    <3>1. claim[f] \in Packages
      BY <1>1, <2>1 DEF PlanIsLoaded, Typed, LoopsTyped
    <3>2. content[claim[f]] \in Nat
      BY <3>1 DEF Typed, PackagesTyped, Revisions
    <3>3. QED
      BY <2>1, <3>1, <3>2 DEF PlanIsLoaded, RowsAreTheContent
  <2>2. CASE /\ Loaded(f) /\ claim'[f] = claim[f]
             /\ plan'[f][i].content = plan[f][i].content /\ plan'[f][i].target = plan[f][i].target
    <3>1. claim[f] \in Packages
      BY <2>2 DEF Loaded, Working, Typed, LoopsTyped
    <3>2. QED
      BY <2>2, <3>1, RowsKeepIdentity DEF PlansFit
  <2>3. CASE f # e
    BY <2>2, <2>3, LoopKeeps DEF Loaded
  <2>4. CASE f = e
    BY <2>1, <2>2, <2>4, PlanInStep DEF PlanIsKept
  <2>5. QED
    BY <2>3, <2>4
<1>7. QED
  BY <1>3, <1>4, <1>5, <1>6

LEMMA UserKeepsShape ==
    ASSUME Typed, Shape, UserNext
    PROVE  Shape'
<1> USE DEF Shape
<1>0. /\ UNCHANGED <<pc, claim, plan, applied>> /\ raced \subseteq raced' /\ raced' \subseteq Packages
      /\ \A f \in Executors : claim[f] # NoPackage => claim[f] \in Packages
      /\ \A f \in Executors : Loaded(f) => Working(f) /\ claim[f] \in Packages
  <2>1. UNCHANGED <<pc, claim, plan, applied>>
    BY DEF UserNext, Create, ReviseCheck, ReviseText, ReviseSteps, ReviseConflict, Approve, Cancel, Expire,
       ArchiveOrRestore, executorVars, historyVars
  <2>2. raced \subseteq raced'
    BY DEF UserNext, Create, ReviseCheck, ReviseText, ReviseSteps, ReviseConflict, Approve, Cancel, Expire,
       ArchiveOrRestore, historyVars, Revise
  <2>3. HistoryTyped'
    BY PackagesTypedInductive DEF Next, Typed
  <2>4. QED
    BY <2>1, <2>2, <2>3 DEF Typed, LoopsTyped, Loaded, Working, HistoryTyped
<1>1. \A p \in Packages : content[p] \in Nat /\ revision[p] \in Nat
  BY DEF Typed, PackagesTyped, Revisions
<1>2. \A f \in Executors, i \in Steps : plan[f][i].content \in Nat
  BY DEF Typed, VersionsTyped, RowIn, Revisions
<1>3. ASSUME NEW r \in Requests, ReviseText(r) \/ ReviseSteps(r) PROVE Shape'
  <2>1. PICK p \in Packages, ver \in [Targets -> Nat] : p = request[r].package /\ ver = request[r].version
    BY <1>3, RequestIsTyped DEF ReviseText, ReviseSteps, Revise, Typed
  <2>2. /\ status' = [status EXCEPT ![p] = "awaiting_approval"]
        /\ approved' = [approved EXCEPT ![p] = 0]
        /\ revision' = [revision EXCEPT ![p] = revision[p] + 1]
        /\ request' = [request EXCEPT ![r] = NoRequest]
        /\ (\E f \in Executors : claim[f] = p) => p \in raced'
        /\ signed' = signed
    BY <1>3, <2>1 DEF ReviseText, ReviseSteps, Revise
  <2>3. \/ rows' = rows /\ content' = content
        \/ /\ content' = [content EXCEPT ![p] = revision[p] + 1]
           /\ \E targetOf \in [Steps -> Targets] : rows' = [rows EXCEPT ![p] = RowsFor(targetOf, ver, revision[p] + 1)]
    BY <1>3, <2>1 DEF ReviseText, ReviseSteps
  <2>4. /\ \A i \in Steps : rows'[p][i].content = content'[p]
        /\ \A q \in Packages : q # p => rows'[q] = rows[q] /\ content'[q] = content[q]
        /\ content'[p] <= revision'[p] /\ content'[p] >= content[p] /\ content'[p] \in Nat
        /\ content'[p] = content[p] => rows'[p] = rows[p]
    BY <1>1, <2>2, <2>3 DEF RowsFor, RowsAreTheContent, Typed, PackagesTyped, VersionsTyped
  <2>5. RowsAreTheContent'
    <3>1. \A c \in Revisions : c \in Nat
      BY DEF Revisions
    <3>2. \A q \in Packages : q # p => revision'[q] = revision[q]
      BY <2>2 DEF Typed, PackagesTyped
    <3>3. QED
      BY <1>0, <1>1, <2>4, <3>1, <3>2 DEF RowsAreTheContent
  <2>6. OnlyCreatedMove'
    <3>1. \A q \in Packages : status'[q] = "none" => status[q] = "none" /\ q # p
      BY <2>2 DEF Typed, PackagesTyped
    <3>2. \A s \in Requests : request'[s] # NoRequest => request'[s] = request[s] /\ request[s].package \in Packages
      BY <2>2, RequestIsTyped DEF Typed, VersionsTyped
    <3>3. \A f \in Executors : Working(f)' <=> Working(f)
      BY <1>0 DEF Working
    <3>4. \A f \in Executors : Working(f) => claim[f] \in Packages
      BY DEF Typed, LoopsTyped
    <3>5. QED
      BY <1>0, <2>4, <3>1, <3>2, <3>3, <3>4 DEF OnlyCreatedMove
  <2>7. ApprovalsAreSigned'
    BY <2>2, <2>4 DEF ApprovalsAreSigned, Typed, PackagesTyped
  <2>8. PlansFit'
    <3> SUFFICES ASSUME NEW f \in Executors, Loaded(f), NEW i \in Steps
                 PROVE  /\ plan[f][i].content <= content'[claim[f]]
                        /\ claim[f] \notin raced' => plan[f][i].content = content'[claim[f]]
                        /\ plan[f][i].content = content'[claim[f]] => plan[f][i].target = rows'[claim[f]][i].target
      BY <1>0 DEF PlansFit, Loaded
    <3>1. CASE claim[f] = p
      BY <1>0, <1>1, <1>2, <2>2, <2>4, <3>1 DEF PlansFit
    <3>2. CASE claim[f] # p
      BY <1>0, <2>4, <3>2 DEF PlansFit
    <3>3. QED
      BY <3>1, <3>2
  <2>9. QED
    BY <2>5, <2>6, <2>7, <2>8
<1>4. ASSUME NEW p \in Packages, Create(p) PROVE Shape'
  <2>1. /\ status[p] = "none" /\ status' = [status EXCEPT ![p] = "awaiting_approval"]
        /\ UNCHANGED <<revision, approved, content, request, signed, raced>>
        /\ \E targetOf \in [Steps -> Targets] : rows' = [rows EXCEPT ![p] = RowsFor(targetOf, version, 1)]
    BY <1>4 DEF Create, historyVars
  <2>2. /\ \A i \in Steps : rows'[p][i].content = 1
        /\ \A q \in Packages : q # p => rows'[q] = rows[q]
        /\ content[p] = 1
    BY <2>1 DEF RowsFor, Typed, VersionsTyped, OnlyCreatedMove
  <2>3. RowsAreTheContent'
    BY <1>0, <2>1, <2>2 DEF RowsAreTheContent
  <2>4. OnlyCreatedMove'
    <3>1. \A q \in Packages : status'[q] = "none" => status[q] = "none" /\ q # p
      BY <2>1 DEF Typed, PackagesTyped
    <3>2. \A s \in Requests : request[s] # NoRequest => request[s].package \in Packages
      BY RequestIsTyped DEF Typed
    <3>3. \A f \in Executors : Working(f)' <=> Working(f)
      BY <1>0 DEF Working
    <3>4. \A f \in Executors : Working(f) => claim[f] \in Packages
      BY DEF Typed, LoopsTyped
    <3>5. QED
      BY <1>0, <2>1, <3>1, <3>2, <3>3, <3>4 DEF OnlyCreatedMove
  <2>5. ApprovalsAreSigned'
    BY <2>1 DEF ApprovalsAreSigned
  <2>6. \A f \in Executors : Loaded(f) => claim[f] # p
    BY <1>0, <2>1 DEF OnlyCreatedMove
  <2>7. PlansFit'
    BY <1>0, <2>1, <2>2, <2>6 DEF PlansFit, Loaded
  <2>8. QED
    BY <2>3, <2>4, <2>5, <2>7
<1>5. ASSUME NEW p \in Packages, Approve(p) \/ Cancel(p) \/ Expire(p) PROVE Shape'
  <2>1. /\ UNCHANGED <<revision, content, rows, request, raced>>
        /\ \A q \in Packages : status'[q] = "none" => status[q] = "none"
        /\ \A q \in Packages : status[q] # "none" => status'[q] # "none"
    BY <1>5 DEF Approve, Cancel, Expire, historyVars, Typed, PackagesTyped
  <2>2. RowsAreTheContent' /\ PlansFit'
    BY <1>0, <2>1 DEF RowsAreTheContent, PlansFit, Loaded
  <2>3. OnlyCreatedMove'
    <3>1. \A s \in Requests : request[s] # NoRequest => request[s].package \in Packages
      BY RequestIsTyped DEF Typed
    <3>2. \A f \in Executors : Working(f)' <=> Working(f)
      BY <1>0 DEF Working
    <3>3. \A f \in Executors : Working(f) => claim[f] \in Packages
      BY DEF Typed, LoopsTyped
    <3>4. QED
      BY <1>0, <2>1, <3>1, <3>2, <3>3 DEF OnlyCreatedMove
  <2>4. ApprovalsAreSigned'
    BY <1>5 DEF Approve, Cancel, Expire, historyVars, Typed, PackagesTyped, HistoryTyped, ApprovalsAreSigned
  <2>5. QED
    BY <2>2, <2>3, <2>4
<1>6. ASSUME NEW p \in Packages, NEW r \in Requests, ReviseCheck(r, p) PROVE Shape'
  <2>1. /\ UNCHANGED <<status, revision, approved, content, rows, signed, raced>>
        /\ request' = [request EXCEPT ![r] =
                [package |-> p, revision |-> revision[p], version |-> version]]
        /\ status[p] # "none"
    BY <1>6 DEF ReviseCheck, packageVars, historyVars, Revisable
  <2>2. \A s \in Requests : request'[s] # NoRequest => status[request'[s].package] # "none"
    BY <2>1 DEF OnlyCreatedMove, Typed, VersionsTyped
  <2>3. QED
    BY <1>0, <2>1, <2>2 DEF RowsAreTheContent, OnlyCreatedMove, ApprovalsAreSigned, PlansFit, Working, Loaded
<1>7. ASSUME NEW r \in Requests, ReviseConflict(r) PROVE Shape'
  <2>1. /\ UNCHANGED <<status, revision, approved, content, rows, signed, raced>>
        /\ request' = [request EXCEPT ![r] = NoRequest]
    BY <1>7 DEF ReviseConflict, packageVars, historyVars
  <2>2. \A s \in Requests : request'[s] # NoRequest => status[request'[s].package] # "none"
    BY <2>1 DEF OnlyCreatedMove, Typed, VersionsTyped
  <2>3. QED
    BY <1>0, <2>1, <2>2 DEF RowsAreTheContent, OnlyCreatedMove, ApprovalsAreSigned, PlansFit, Working, Loaded
<1>8. CASE ArchiveOrRestore
  BY <1>0, <1>8 DEF ArchiveOrRestore, packageVars, historyVars, RowsAreTheContent, OnlyCreatedMove,
     ApprovalsAreSigned, PlansFit, Working, Loaded
<1>9. QED
  BY <1>3, <1>4, <1>5, <1>6, <1>7, <1>8 DEF UserNext

LEMMA ShapeInductive == Typed /\ Shape /\ [Next]_vars => Shape'
<1> SUFFICES ASSUME Typed, Shape, [Next]_vars PROVE Shape'
  OBVIOUS
<1>1. ASSUME UNCHANGED <<status, revision, approved, content, rows, request, pc, claim, plan, applied, signed, raced>>
      PROVE  Shape'
  BY <1>1 DEF Shape, RowsAreTheContent, OnlyCreatedMove, ApprovalsAreSigned, PlansFit, Working, Loaded
<1>2. QED
  BY <1>1, LoopKeepsShape, UserKeepsShape DEF Next, LoopStep, LeaseLapses, vars, packageVars, executorVars,
     historyVars

-----------------------------------------------------------------------------
(* Two loops on one database.                                              *)

LEMMA StaleInStep ==
    ASSUME Typed, NEW e \in Executors, LoopStep(e), NEW p \in stale'[e]
    PROVE  p \in stale[e] \/ (status[p] = "executing" /\ lease[p] = "lapsed")
  BY DEF LoopStep, ExecutorStep, RecoverScan, RecoverDone, Select, RecoverOne, Claim, LoadSteps, VerifyOk, InspectStep,
     BeginStep, ApplyStep, SelectNothing, ClaimLost, StopCancelled, RowGone, Crash, BlockStep, VerifyConflict,
     VerifyArchived, ApplyArchived, HandlerError, GiveUpStep, ArtifactDrift, Finish, Idle, Typed, LoopsTyped

\* A package becomes overdue when its lease lapses, and ceases to be when a
\* loop claims it that nobody else has or is about to hand back.
LEMMA OverdueInStep ==
    ASSUME Typed, NEW e \in Executors, LoopStep(e)
    PROVE  /\ raced' = raced
           /\ \A p \in Packages : p \in overdue' <=> p \in overdue /\ ~(Claimed(e, p) /\ Unattended(p))
<1> USE DEF packageVars, historyVars, targetVars, executorVars
<1>1. CASE Claim(e)
  <2>1. PICK q \in Packages : /\ q = picked[e] /\ StillClaimable(q) /\ status' = [status EXCEPT ![q] = "executing"]
                              /\ lease' = [lease EXCEPT ![q] = "live"] /\ claim' = [claim EXCEPT ![e] = q]
    BY <1>1 DEF Claim, ClaimedLease, StillClaimable, Runnable, Lapsed
  <2>2. claim'[e] = q /\ status'[q] = "executing" /\ lease'[q] = "live" /\ pc[e] = "claiming"
    BY <1>1, <2>1 DEF Claim, Typed, LoopsTyped, PackagesTyped
  <2>3. \A p \in Packages : Claimed(e, p) <=> p = q
    BY <2>1, <2>2 DEF Claimed
  <2>4. overdue' = (IF Unattended(q) THEN overdue \ {q} ELSE overdue) /\ raced' = raced
    BY <1>1, <2>1 DEF Claim
  <2>5. QED
    BY <2>3, <2>4
<1>2. CASE ~Claim(e)
  <2>1. UNCHANGED <<raced, overdue>>
    BY <1>2 DEF LoopStep, ExecutorStep, RecoverScan, RecoverOne, RecoverDone, Select, LoadSteps, VerifyOk,
       InspectStep, BeginStep, ApplyStep, SelectNothing, ClaimLost, StopCancelled, RowGone, Crash, BlockStep,
       VerifyConflict, VerifyArchived, ApplyArchived, HandlerError, GiveUpStep, ArtifactDrift, Finish
  <2>2. \A p \in Packages : ~Claimed(e, p)
    <3>1. SUFFICES ASSUME NEW p \in Packages, Claimed(e, p) PROVE FALSE
      OBVIOUS
    <3>2. pc[e] = "claiming" /\ claim[e] = NoPackage /\ claim'[e] = p /\ p # NoPackage
      BY <3>1, ConstantsAssumption DEF Claimed, Typed, LoopsTyped, Working
    <3>3. QED
      BY <1>2, <3>2 DEF LoopStep, ExecutorStep, RecoverScan, RecoverOne, RecoverDone, Select, LoadSteps, VerifyOk,
         InspectStep, BeginStep, ApplyStep, SelectNothing, ClaimLost, StopCancelled, RowGone, Crash, BlockStep,
         VerifyConflict, VerifyArchived, ApplyArchived, HandlerError, GiveUpStep, ArtifactDrift, Finish, Idle,
         Typed, LoopsTyped
  <2>3. QED
    BY <2>1, <2>2
<1>3. QED
  BY <1>1, <1>2

LEMMA ExclusiveInductive == Typed /\ Shape /\ LoopsAreExclusive /\ [Next]_vars => LoopsAreExclusive'
<1> SUFFICES ASSUME Typed, LoopsAreExclusive, [Next]_vars PROVE LoopsAreExclusive'
  OBVIOUS
<1>1. ASSUME NEW e \in Executors, LoopStep(e) PROVE LoopsAreExclusive'
  <2>1. \A f \in Executors : f # e => claim'[f] = claim[f] /\ stale'[f] = stale[f]
    BY <1>1, LoopKeeps
  <2>2. ASSUME NEW p \in Packages, lease'[p] = "lapsed" PROVE p \in overdue'
    <3>1. lease[p] = "lapsed" /\ ~Claimed(e, p)
      BY <1>1, <2>2, StatusInStep DEF StatusStays, HandedBack, Claimed, LetGo
    <3>2. QED
      BY <1>1, <3>1, OverdueInStep DEF LoopsAreExclusive
  <2>3. ASSUME NEW f \in Executors, NEW p \in stale'[f] PROVE p \in overdue'
    <3>1. p \in stale[f] \/ (f = e /\ lease[p] = "lapsed" /\ p \in Packages)
      <4>1. stale' \in [Executors -> SUBSET Packages]
        BY TypedInductive DEF Typed, LoopsTyped
      <4>2. CASE f = e
        BY <1>1, <2>3, <4>1, <4>2, StaleInStep
      <4>3. QED
        BY <2>1, <2>3, <4>2
    <3>2. p \in Packages /\ p \in overdue
      BY <3>1 DEF LoopsAreExclusive, Typed, LoopsTyped
    <3>3. CASE Claimed(e, p)
      <4>1. pc[e] = "claiming"
        BY <3>3 DEF Claimed
      <4>2. stale'[e] \subseteq stale[e]
        BY <1>1, <4>1 DEF LoopStep, ExecutorStep, RecoverScan, RecoverOne, RecoverDone, Select, Claim, LoadSteps,
           VerifyOk, InspectStep, BeginStep, ApplyStep, SelectNothing, ClaimLost, StopCancelled, RowGone, Crash,
           BlockStep, VerifyConflict, VerifyArchived, ApplyArchived, HandlerError, GiveUpStep, ArtifactDrift,
           Finish, Idle, Typed, LoopsTyped
      <4>3. p \in stale[f]
        BY <2>1, <2>3, <4>2
      <4>4. QED
        BY <1>1, <3>2, <4>3, OverdueInStep DEF Unattended
    <3>4. QED
      BY <1>1, <3>2, <3>3, OverdueInStep
  <2>4. ASSUME NEW p \in Packages, p \notin raced', p \notin overdue'
        PROVE  /\ \A g, f \in Executors : claim'[g] = p /\ claim'[f] = p => g = f
               /\ \A f \in Executors : claim'[f] = p => status'[p] = "executing"
    <3>1. p # NoPackage /\ p \notin raced
      BY <1>1, <2>4, OverdueInStep, ConstantsAssumption
    <3>2. CASE p \in overdue
      <4>1. Claimed(e, p) /\ \A f \in Executors : claim[f] # p
        BY <1>1, <2>4, <3>2, OverdueInStep DEF Unattended
      <4>2. QED
        BY <2>1, <4>1 DEF Claimed
    <3>3. CASE p \notin overdue
      <4>1. /\ \A g, f \in Executors : claim[g] = p /\ claim[f] = p => g = f
            /\ \A f \in Executors : claim[f] = p => status[p] = "executing"
            /\ lease[p] # "lapsed" /\ \A f \in Executors : p \notin stale[f]
        BY <3>1, <3>3 DEF LoopsAreExclusive
      <4>2. CASE Claimed(e, p)
        <5>1. \A f \in Executors : claim[f] # p
          BY <4>1, <4>2 DEF Claimed, StillClaimable, Runnable, Lapsed
        <5>2. QED
          BY <2>1, <4>2, <5>1 DEF Claimed
      <4>3. CASE ~Claimed(e, p)
        <5>1. \A f \in Executors : claim'[f] = p => claim[f] = p
          BY <1>1, <2>1, <3>1, <4>3, ClaimInStep DEF Claimed
        <5>2. StatusStays(p) \/ LetGo(e, p)
          BY <1>1, <4>1, <4>3, StatusInStep DEF HandedBack
        <5>3. CASE LetGo(e, p)
          BY <2>1, <3>1, <4>1, <5>1, <5>3 DEF LetGo
        <5>4. CASE StatusStays(p)
          BY <4>1, <5>1, <5>4 DEF StatusStays
        <5>5. QED
          BY <5>2, <5>3, <5>4
      <4>4. QED
        BY <4>2, <4>3
    <3>4. QED
      BY <3>2, <3>3
  <2>5. QED
    BY <2>2, <2>3, <2>4 DEF LoopsAreExclusive
<1>2. CASE UserNext
  <2>1. UNCHANGED <<claim, stale, lease, overdue>> /\ raced \subseteq raced'
    BY <1>2 DEF UserNext, Create, ReviseCheck, ReviseText, ReviseSteps, Revise, ReviseConflict, Approve, Cancel,
       Expire, ArchiveOrRestore, executorVars, packageVars, historyVars
  <2>2. ASSUME NEW p \in Packages \ raced', NEW e \in Executors, claim[e] = p, status[p] = "executing"
        PROVE  status'[p] = "executing"
    <3>1. ASSUME NEW r \in Requests, Revise(r) PROVE status'[p] = status[p]
      BY <2>2, <3>1 DEF Revise, Typed, PackagesTyped
    <3>2. QED
      BY <1>2, <2>2, <3>1 DEF UserNext, Create, ReviseCheck, ReviseText, ReviseSteps, ReviseConflict, Approve,
         MayApprove, Cancel, Decidable, Expire, ArchiveOrRestore, packageVars, Typed, PackagesTyped
  <2>3. QED
    BY <2>1, <2>2 DEF LoopsAreExclusive
<1>3. ASSUME NEW q \in Packages, LeaseLapses(q) PROVE LoopsAreExclusive'
  BY <1>3 DEF LeaseLapses, executorVars, LoopsAreExclusive, Typed, PackagesTyped
<1>4. CASE UNCHANGED vars
  BY <1>4 DEF vars, executorVars, packageVars, historyVars, LoopsAreExclusive
<1>5. QED
  BY <1>1, <1>2, <1>3, <1>4 DEF Next, LoopStep

-----------------------------------------------------------------------------
(* One loop: what is recorded, what is done, and under which approval.     *)

\* The row at hand, if it exists, is not done.
LEMMA MarkedIsUndone ==
    ASSUME Typed, Shape, TodoIsUndone, NEW e \in Executors, NEW p \in Packages, NEW i \in Steps,
           RowIsMarked(e, p, i)
    PROVE  rows[p][i].status # "succeeded" /\ rows[p][i].content = content[p]
  BY DEF RowIsMarked, RowExists, TodoIsUndone, Shape, RowsAreTheContent

LEMMA LoopKeepsRecords ==
    ASSUME Typed, Shape, StepsAreRecorded, TodoIsUndone, NEW e \in Executors, LoopStep(e)
    PROVE  StepsAreRecorded'
<1>1. content' = content
  BY LoopKeeps
<1>2. ASSUME NEW p \in Packages, NEW i \in Steps, NEW c \in Revisions
      PROVE  /\ applied'[p][c][i] <= 1
             /\ c = content[p] => (rows'[p][i].status = "succeeded" <=> applied'[p][c][i] = 1)
  <2>0. applied[p][c][i] \in Nat /\ applied[p][c][i] <= 1
        /\ (c = content[p] => (rows[p][i].status = "succeeded" <=> applied[p][c][i] = 1))
    BY DEF StepsAreRecorded, Typed, HistoryTyped
  <2>1. CASE RowStays(p, i)
    BY <2>0, <2>1 DEF RowStays
  <2>2. CASE RowIsReset(p, i)
    <3>1. rows'[p][i].status = "pending"
      BY <2>2 DEF RowIsReset, Typed, VersionsTyped, RowIn
    <3>2. QED
      BY <2>0, <2>2, <3>1 DEF RowIsReset
  <2>3. CASE RowIsMarked(e, p, i)
    <3>1. rows[p][i].status # "succeeded" /\ rows[p][i].content = content[p]
      BY <2>3, MarkedIsUndone
    <3>2. \/ /\ rows'[p][i].status \in {"executing", "failed", "blocked"}
             /\ applied'[p][c][i] = applied[p][c][i]
          \/ /\ rows'[p][i].status = "succeeded"
             /\ applied'[p][c][i] = IF c = content[p] THEN applied[p][c][i] + 1 ELSE applied[p][c][i]
      BY <2>3, <3>1 DEF RowIsMarked
    <3>3. QED
      BY <2>0, <3>1, <3>2
  <2>4. QED
    BY <2>1, <2>2, <2>3, RowsInStep
<1>3. \A p \in Packages : content[p] \in Revisions
  BY DEF Typed, PackagesTyped
<1>4. QED
  BY <1>1, <1>2, <1>3 DEF StepsAreRecorded

LEMMA LoopKeepsTodo ==
    ASSUME OneLoop, Typed, Shape, TodoIsUndone, NEW e \in Executors, LoopStep(e)
    PROVE  TodoIsUndone'
<1> SUFFICES ASSUME Loaded(e)', NEW i \in Steps
             PROVE  /\ i \in todo'[e] /\ plan'[e][i].content = content'[claim'[e]] =>
                          rows'[claim'[e]][i].status # "succeeded"
                    /\ i \notin todo'[e] /\ claim'[e] \notin raced' /\ ~trouble'[e] =>
                          rows'[claim'[e]][i].status = "succeeded"
  BY DEF OneLoop, TodoIsUndone
<1>1. content' = content /\ raced' = raced
  BY LoopKeeps
<1>2. CASE PlanIsLoaded(e)
  BY <1>2 DEF PlanIsLoaded, Unfinished
<1>3. CASE PlanIsKept(e)
  <2>1. PICK p \in Packages : p = claim[e] /\ p = claim'[e]
    BY <1>3 DEF PlanIsKept, Loaded, Typed, LoopsTyped, Working
  <2>2. /\ i \in todo[e] /\ plan[e][i].content = content[p] => rows[p][i].status # "succeeded"
        /\ i \notin todo[e] /\ p \notin raced /\ ~trouble[e] => rows[p][i].status = "succeeded"
    BY <1>3, <2>1 DEF PlanIsKept, TodoIsUndone
  <2>3. ASSUME ApplyStep(e) PROVE rows'[p][Current(e)].status = "succeeded"
    <3>1. Current(e) \in Steps
      BY <2>3, AtHand DEF ApplyStep, Typed
    <3>2. QED
      BY <2>1, <2>3, <3>1 DEF ApplyStep, SetRow, Typed, VersionsTyped
  <2>4. RowStays(p, i) \/ RowIsReset(p, i) \/ RowIsMarked(e, p, i)
    BY RowsInStep
  <2>5. RowIsReset(p, i) => rows'[p][i].status = "pending" /\ rows[p][i].status = "executing"
    BY DEF RowIsReset, Typed, VersionsTyped, RowIn
  <2>6. plan'[e][i].content = plan[e][i].content /\ (trouble[e] => trouble'[e])
    BY <1>3 DEF PlanIsKept
  <2>7. ASSUME i \in todo'[e], plan'[e][i].content = content[p] PROVE rows'[p][i].status # "succeeded"
    <3>1. i \in todo[e] /\ rows[p][i].status # "succeeded" /\ ~(ApplyStep(e) /\ i = Current(e))
      BY <1>3, <2>2, <2>6, <2>7 DEF PlanIsKept
    <3>2. QED
      BY <2>4, <2>5, <3>1 DEF RowStays, RowIsMarked
  <2>8. ASSUME i \notin todo'[e], p \notin raced, ~trouble'[e] PROVE rows'[p][i].status = "succeeded"
    <3>1. CASE i \in todo[e]
      BY <1>3, <2>3, <2>8, <3>1 DEF PlanIsKept
    <3>2. CASE i \notin todo[e]
      <4>1. rows[p][i].status = "succeeded" /\ ~RowIsMarked(e, p, i)
        BY <2>2, <2>6, <2>8, <3>2 DEF RowIsMarked
      <4>2. QED
        BY <2>4, <2>5, <4>1 DEF RowStays
    <3>3. QED
      BY <3>1, <3>2
  <2>9. QED
    BY <1>1, <2>1, <2>7, <2>8
<1>4. QED
  BY <1>2, <1>3, PlanInStep

LEMMA SucceededStays ==
    ASSUME Typed, NEW e \in Executors, LoopStep(e), NEW p \in Packages, NEW i \in Steps,
           rows[p][i].status = "succeeded", ~RowIsMarked(e, p, i)
    PROVE  rows'[p][i].status = "succeeded"
<1>1. CASE RowStays(p, i)
  BY <1>1 DEF RowStays
<1>2. QED
  BY <1>1, RowsInStep DEF RowIsReset

LEMMA LoopKeepsClaims ==
    ASSUME OneLoop, Typed, Shape, TodoIsUndone, ClaimsAreApproved, NEW e \in Executors, LoopStep(e)
    PROVE  ClaimsAreApproved'
<1> SUFFICES ASSUME NEW p \in Packages \ raced
             PROVE  /\ claim'[e] = p => status'[p] = "executing"
                    /\ status'[p] = "executing" => approved[p] # 0 /\ lease'[p] # "none"
                    /\ status'[p] = "succeeded" => \A i \in Steps : rows'[p][i].status = "succeeded"
  <2>1. UNCHANGED <<approved, raced>>
    BY LoopKeeps
  <2>2. QED
    BY <2>1 DEF OneLoop, ClaimsAreApproved
<1>0. p # NoPackage
  BY ConstantsAssumption
<1>1. /\ claim[e] = p => status[p] = "executing"
      /\ status[p] = "executing" => approved[p] # 0 /\ lease[p] # "none"
      /\ status[p] = "succeeded" => \A i \in Steps : rows[p][i].status = "succeeded"
  BY DEF ClaimsAreApproved
<1>2. claim'[e] = p => claim[e] = p \/ Claimed(e, p)
  BY <1>0, ClaimInStep DEF Claimed
<1>3. CASE Claimed(e, p)
  <2>1. approved[p] # 0
    BY <1>1, <1>3, ConstantsAssumption DEF Claimed, StillClaimable, Runnable, Lapsed, Typed, PackagesTyped, Revisions
  <2>2. QED
    BY <1>3, <2>1 DEF Claimed
<1>4. CASE StatusStays(p) /\ ~Claimed(e, p)
  <2>1. ASSUME status[p] = "succeeded", NEW i \in Steps PROVE rows'[p][i].status = "succeeded"
    <3>1. rows[p][i].status = "succeeded" /\ claim[e] # p
      BY <1>1, <2>1
    <3>2. ~RowIsMarked(e, p, i)
      BY <3>1 DEF RowIsMarked
    <3>3. QED
      BY <3>1, <3>2, SucceededStays
  <2>2. QED
    BY <1>1, <1>2, <1>4, <2>1 DEF StatusStays
<1>5. CASE HandedBack(e, p)
  <2>1. claim[e] = NoPackage
    BY <1>5 DEF HandedBack, Typed, LoopsTyped, Working
  <2>2. QED
    BY <1>0, <1>2, <1>5, <2>1 DEF HandedBack, Claimed
<1>6. CASE LetGo(e, p)
  <2>1. ASSUME status'[p] = "succeeded", NEW i \in Steps PROVE rows'[p][i].status = "succeeded"
    <3>1. p = claim[e] /\ pc[e] = "stepping" /\ todo[e] = {} /\ ~trouble[e]
      BY <1>6, <2>1 DEF LetGo
    <3>2. rows[p][i].status = "succeeded"
      BY <3>1 DEF TodoIsUndone, Loaded
    <3>3. ~RowIsMarked(e, p, i)
      BY <3>1 DEF RowIsMarked
    <3>4. QED
      BY <3>2, <3>3, SucceededStays
  <2>2. QED
    BY <1>0, <1>6, <2>1 DEF LetGo
<1>7. QED
  BY <1>3, <1>4, <1>5, <1>6, StatusInStep

LEMMA LoopKeepsSigned ==
    ASSUME Typed, Shape, TodoIsUndone, ClaimsAreApproved, OnlySignedContentApplies,
           NEW e \in Executors, LoopStep(e)
    PROVE  OnlySignedContentApplies'
<1> SUFFICES ASSUME NEW p \in Packages \ raced, NEW c \in Revisions, NEW i \in Steps,
                    applied'[p][c][i] > 0
             PROVE  c \in signed[p]
  <2>1. UNCHANGED <<signed, raced>>
    BY LoopKeeps
  <2>2. QED
    BY <2>1 DEF OnlySignedContentApplies
<1>1. CASE applied'[p][c][i] = applied[p][c][i]
  BY <1>1 DEF OnlySignedContentApplies
<1>2. CASE RowIsMarked(e, p, i) /\ c = rows[p][i].content
  <2>1. c = content[p]
    BY <1>2, MarkedIsUndone
  <2>2. approved[p] # 0
    BY <1>2 DEF RowIsMarked, ClaimsAreApproved
  <2>3. QED
    BY <2>1, <2>2 DEF Shape, ApprovalsAreSigned
<1>3. QED
  BY <1>1, <1>2, AppliedInStep

LEMMA LoopKeepsVersions ==
    ASSUME OneLoop, Typed, VersionsHold, NEW e \in Executors, LoopStep(e)
    PROVE  VersionsHold'
<1> SUFFICES ASSUME pc'[e] \in {"verifying", "applying"}
             PROVE  /\ pc'[e] = "applying" => ~Drifted(e)'
                    /\ RowExists(e)' => rows'[claim'[e]][Current(e)'].expected = plan'[e][Current(e)'].expected
  BY DEF OneLoop, VersionsHold
<1>1. CASE BeginStep(e)
  <2>1. PICK p \in Packages, i \in Steps : p = claim[e] /\ i = Current(e)
    BY <1>1, AtHand DEF BeginStep, Typed
  <2>2. /\ rows' = [rows EXCEPT ![p] = [rows[p] EXCEPT ![i] =
              [rows[p][i] EXCEPT !.status = "executing", !.expected = plan[e][i].expected]]]
        /\ UNCHANGED <<claim, plan, todo>> /\ pc'[e] = "verifying"
    BY <1>1, <2>1 DEF BeginStep, Typed, VersionsTyped, LoopsTyped
  <2>3. rows[p][i] \in RowIn(Nat)
    BY DEF Typed, VersionsTyped
  <2>4. rows'[p][i] = [rows[p][i] EXCEPT !.status = "executing", !.expected = plan[e][i].expected]
    BY <2>2 DEF Typed, VersionsTyped
  <2>5. rows'[p][i].expected = plan[e][i].expected
    BY <2>3, <2>4 DEF RowIn
  <2>6. Current(e)' = Current(e)
    BY <2>2 DEF Current
  <2>7. QED
    BY <2>1, <2>2, <2>5, <2>6
<1>2. CASE VerifyOk(e)
  <2>1. /\ UNCHANGED <<claim, plan, todo, rows, version>> /\ pc[e] = "verifying" /\ ~Drifted(e)
    BY <1>2 DEF VerifyOk, targetVars
  <2>2. Current(e)' = Current(e)
    BY <2>1 DEF Current
  <2>3. QED
    BY <2>1, <2>2 DEF VersionsHold, Drifted, Target, RowExists
<1>3. ASSUME Idle(e) PROVE FALSE
  BY <1>3 DEF Idle, Typed, LoopsTyped
<1>4. ASSUME NEW s, GiveUpStep(e, s) PROVE FALSE
  BY <1>4 DEF GiveUpStep, Typed, LoopsTyped
<1>5. ASSUME \/ RecoverScan(e) \/ RecoverDone(e) \/ Select(e) \/ Claim(e) \/ LoadSteps(e) \/ InspectStep(e) \/ ApplyStep(e)
             \/ \E p \in Packages : RecoverOne(e, p)
      PROVE  FALSE
  BY <1>5 DEF RecoverScan, RecoverDone, Select, Claim, LoadSteps, InspectStep, ApplyStep, RecoverOne, Typed, LoopsTyped
<1>6. QED
  BY <1>1, <1>2, <1>3, <1>4, <1>5 DEF LoopStep, ExecutorStep, SelectNothing, ClaimLost, ArtifactDrift, StopCancelled,
     RowGone, Finish, Crash, BlockStep, VerifyConflict, VerifyArchived, ApplyArchived, HandlerError

\* What the creator's requests do to a package's rows and to its status.
RowsAreNew(p) ==
    /\ content'[p] \in Revisions /\ status'[p] = "awaiting_approval"
    /\ \A i \in Steps : /\ rows'[p][i].status = "pending" /\ rows'[p][i].content = content'[p]
                        /\ applied[p][content'[p]][i] = 0
    /\ \A e \in Executors : claim[e] = p => p \in raced'
    /\ \A e \in Executors, i \in Steps : Loaded(e) /\ claim[e] = p => plan[e][i].content # content'[p]

LEMMA RowsInRequest ==
    ASSUME Typed, Shape, UserNext, NEW p \in Packages
    PROVE  (rows'[p] = rows[p] /\ content'[p] = content[p]) \/ RowsAreNew(p)
<1> USE DEF Shape
<1>1. ASSUME NEW q \in Packages, Create(q) PROVE (rows'[p] = rows[p] /\ content'[p] = content[p]) \/ RowsAreNew(p)
  <2>1. PICK targetOf \in [Steps -> Targets] : rows' = [rows EXCEPT ![q] = RowsFor(targetOf, version, 1)]
    BY <1>1 DEF Create
  <2>2. content' = content /\ status[q] = "none" /\ status'[q] = "awaiting_approval"
    BY <1>1 DEF Create, Typed, PackagesTyped
  <2>3. CASE p # q
    BY <2>1, <2>2, <2>3
  <2>4. CASE p = q
    <3>1. content[p] = 1 /\ content[p] \in Revisions /\ \A i \in Steps : applied[p][1][i] = 0
      BY <2>2, <2>4 DEF OnlyCreatedMove, Typed, PackagesTyped
    <3>2. \A i \in Steps : rows'[p][i].status = "pending" /\ rows'[p][i].content = 1
      BY <2>1, <2>4 DEF RowsFor, Typed, VersionsTyped
    <3>3. \A e \in Executors : claim[e] # p
      BY <2>2, <2>4, ConstantsAssumption DEF OnlyCreatedMove, Typed, LoopsTyped
    <3>4. QED
      BY <2>2, <2>4, <3>1, <3>2, <3>3 DEF RowsAreNew
  <2>5. QED
    BY <2>3, <2>4
<1>2. ASSUME NEW r \in Requests, ReviseSteps(r)
      PROVE  (rows'[p] = rows[p] /\ content'[p] = content[p]) \/ RowsAreNew(p)
  <2>1. PICK q \in Packages, ver \in [Targets -> Nat] : q = request[r].package /\ ver = request[r].version
    BY <1>2, RequestIsTyped DEF ReviseSteps, Revise, Typed
  <2>2. PICK targetOf \in [Steps -> Targets] : rows' = [rows EXCEPT ![q] = RowsFor(targetOf, ver, revision[q] + 1)]
    BY <1>2, <2>1 DEF ReviseSteps
  <2>3. /\ content' = [content EXCEPT ![q] = revision[q] + 1] /\ status'[q] = "awaiting_approval"
        /\ (\E e \in Executors : claim[e] = q) => q \in raced'
    BY <1>2, <2>1 DEF ReviseSteps, Revise, Typed, PackagesTyped
  <2>4. revision[q] + 1 \in Revisions
    BY <1>2, <2>1, RequestIsTyped, ConstantsAssumption DEF ReviseSteps, Revise, MayRevise, Revisions, Typed, PackagesTyped
  <2>5. CASE p # q
    BY <2>2, <2>3, <2>5
  <2>6. CASE p = q
    <3>1. content'[p] = revision[p] + 1 /\ content'[p] \in Revisions
      BY <2>3, <2>4, <2>6 DEF Typed, PackagesTyped
    <3>2. content[p] < content'[p] /\ content[p] \in Nat /\ content'[p] \in Nat
      BY <3>1 DEF RowsAreTheContent, Typed, PackagesTyped, Revisions
    <3>3. \A i \in Steps : rows'[p][i].status = "pending" /\ rows'[p][i].content = content'[p]
      BY <2>2, <2>6, <3>1 DEF RowsFor, Typed, VersionsTyped
    <3>4. ASSUME NEW i \in Steps PROVE applied[p][content'[p]][i] = 0
      <4>1. applied[p][content'[p]][i] \in Nat
        BY <3>1 DEF Typed, HistoryTyped
      <4>2. applied[p][content'[p]][i] > 0 => content'[p] <= content[p]
        BY <3>1 DEF RowsAreTheContent
      <4>3. QED
        BY <3>2, <4>1, <4>2
    <3>5. ASSUME NEW e \in Executors, NEW i \in Steps, Loaded(e), claim[e] = p
          PROVE  plan[e][i].content # content'[p]
      <4>1. plan[e][i].content <= content[p] /\ plan[e][i].content \in Nat
        BY <3>5 DEF PlansFit, Typed, VersionsTyped, RowIn, Revisions
      <4>2. QED
        BY <3>2, <4>1
    <3>6. QED
      BY <2>3, <2>6, <3>1, <3>3, <3>4, <3>5 DEF RowsAreNew
  <2>7. QED
    BY <2>5, <2>6
<1>3. QED
  BY <1>1, <1>2 DEF UserNext, ReviseCheck, ReviseText, ReviseConflict, Approve, Cancel, Expire, ArchiveOrRestore,
     packageVars

LEMMA StatusInRequest ==
    ASSUME Typed, Shape, ClaimsAreApproved, UserNext, NEW p \in Packages
    PROVE  \/ status'[p] = status[p] /\ approved'[p] = approved[p]
           \/ /\ status'[p] \notin {"executing", "succeeded"}
              /\ \A e \in Executors : claim[e] = p => p \in raced'
<1>0. ASSUME p \notin raced, status[p] # "executing" PROVE \A e \in Executors : claim[e] # p
  BY <1>0 DEF ClaimsAreApproved
<1>1. ASSUME NEW q \in Packages, Create(q) \/ Approve(q) \/ Cancel(q)
      PROVE  \/ status'[p] = status[p] /\ approved'[p] = approved[p]
             \/ /\ status'[p] \notin {"executing", "succeeded"} /\ status[p] # "executing"
                /\ raced' = raced
  BY <1>1 DEF Create, Approve, MayApprove, Cancel, Decidable, historyVars, Typed, PackagesTyped
<1>2. ASSUME NEW r \in Requests, Revise(r)
      PROVE  \/ status'[p] = status[p] /\ approved'[p] = approved[p]
             \/ status'[p] = "awaiting_approval" /\ ((\E e \in Executors : claim[e] = p) => p \in raced')
  BY <1>2 DEF Revise, Typed, PackagesTyped
<1>3. QED
  BY <1>0, <1>1, <1>2 DEF UserNext, ReviseCheck, ReviseText, ReviseSteps, ReviseConflict, Expire, ArchiveOrRestore,
     packageVars

LEMMA RequestKeeps ==
    ASSUME UserNext
    PROVE  /\ UNCHANGED <<executorVars, version, applied, lease, faults>>
           /\ raced \subseteq raced'
  BY DEF UserNext, Create, ReviseCheck, Revise, ReviseText, ReviseSteps, ReviseConflict, Approve, Cancel, Expire,
     ArchiveOrRestore, packageVars, targetVars, executorVars, historyVars

LEMMA UserKeepsLoopInv ==
    ASSUME Typed, Shape, LoopInv, UserNext
    PROVE  LoopInv'
<1> USE DEF LoopInv, executorVars
<1>0. /\ UNCHANGED <<pc, claim, plan, todo, trouble, written, version, applied, lease>> /\ raced \subseteq raced'
  BY RequestKeeps
<1>1. \A e \in Executors : (Loaded(e)' <=> Loaded(e)) /\ Current(e)' = Current(e)
  BY <1>0 DEF Loaded, Current
<1>2. \A e \in Executors : Loaded(e) => claim[e] \in Packages
  BY DEF Loaded, Working, Typed, LoopsTyped
<1>3. StepsAreRecorded'
  <2>1. ASSUME NEW p \in Packages, NEW i \in Steps
        PROVE  rows'[p][i].status = "succeeded" <=> applied[p][content'[p]][i] = 1
    <3>1. CASE rows'[p] = rows[p] /\ content'[p] = content[p]
      BY <3>1 DEF StepsAreRecorded
    <3>2. CASE RowsAreNew(p)
      BY <3>2 DEF RowsAreNew
    <3>3. QED
      BY <3>1, <3>2, RowsInRequest
  <2>2. QED
    BY <1>0, <2>1 DEF StepsAreRecorded
<1>4. TodoIsUndone'
  <2> SUFFICES ASSUME NEW e \in Executors, Loaded(e), NEW i \in Steps
               PROVE  /\ i \in todo[e] /\ plan[e][i].content = content'[claim[e]] =>
                            rows'[claim[e]][i].status # "succeeded"
                      /\ i \notin todo[e] /\ claim[e] \notin raced' /\ ~trouble[e] =>
                            rows'[claim[e]][i].status = "succeeded"
    BY <1>0, <1>1 DEF TodoIsUndone
  <2>1. PICK p \in Packages : p = claim[e]
    BY <1>2
  <2>2. CASE rows'[p] = rows[p] /\ content'[p] = content[p]
    BY <1>0, <2>1, <2>2 DEF TodoIsUndone
  <2>3. CASE RowsAreNew(p)
    BY <2>1, <2>3 DEF RowsAreNew
  <2>4. QED
    BY <2>2, <2>3, RowsInRequest
<1>5. ClaimsAreApproved'
  <2> SUFFICES ASSUME NEW p \in Packages, p \notin raced'
               PROVE  /\ \A e \in Executors : claim[e] = p => status'[p] = "executing"
                      /\ status'[p] = "executing" => approved'[p] # 0 /\ lease[p] # "none"
                      /\ status'[p] = "succeeded" => \A i \in Steps : rows'[p][i].status = "succeeded"
    BY <1>0 DEF ClaimsAreApproved
  <2>1. p \notin raced
    BY <1>0
  <2>2. CASE status'[p] = status[p] /\ approved'[p] = approved[p]
    <3>1. ASSUME status[p] = "succeeded" PROVE rows'[p] = rows[p]
      BY <3>1, <2>2, RowsInRequest DEF RowsAreNew
    <3>2. QED
      BY <2>1, <2>2, <3>1 DEF ClaimsAreApproved
  <2>3. CASE /\ status'[p] \notin {"executing", "succeeded"}
             /\ \A e \in Executors : claim[e] = p => p \in raced'
    BY <2>3
  <2>4. QED
    BY <2>2, <2>3, StatusInRequest
<1>6. OnlySignedContentApplies'
  <2>1. \A p \in Packages : signed[p] \subseteq signed'[p]
    BY DEF UserNext, Create, ReviseCheck, ReviseText, ReviseSteps, ReviseConflict, Approve, Cancel, Expire,
       ArchiveOrRestore, historyVars, Typed, HistoryTyped
  <2>2. QED
    BY <1>0, <2>1 DEF OnlySignedContentApplies
<1>7. VersionsHold'
  <2>1. \A e \in Executors : Drifted(e)' <=> Drifted(e)
    BY <1>0, <1>1 DEF Drifted, Target
  <2>2. ASSUME NEW e \in Executors, pc[e] \in {"verifying", "applying"}, RowExists(e)'
        PROVE  rows'[claim[e]][Current(e)].expected = plan[e][Current(e)].expected
    <3>1. PICK p \in Packages, i \in Steps : p = claim[e] /\ i = Current(e)
      BY <2>2, AtHand DEF Typed
    <3>2. rows'[p][i].content = plan[e][i].content /\ Loaded(e)
      BY <1>0, <1>1, <2>2, <3>1 DEF RowExists, Loaded
    <3>3. rows'[p] = rows[p]
      BY <3>1, <3>2, RowsInRequest DEF RowsAreNew
    <3>4. QED
      BY <2>2, <3>1, <3>2, <3>3 DEF VersionsHold, RowExists
  <2>3. QED
    BY <1>0, <1>1, <2>1, <2>2 DEF VersionsHold
<1>8. QED
  BY <1>3, <1>4, <1>5, <1>6, <1>7

LEMMA LoopInvInductive == OneLoop /\ Typed /\ Shape /\ LoopInv /\ [Next]_vars => LoopInv'
<1> SUFFICES ASSUME OneLoop, Typed, Shape, LoopInv, [Next]_vars PROVE LoopInv'
  OBVIOUS
<1>1. CASE UserNext
  BY <1>1, UserKeepsLoopInv
<1>2. ASSUME NEW e \in Executors, LoopStep(e) PROVE LoopInv'
  BY <1>2, LoopKeepsRecords, LoopKeepsTodo, LoopKeepsClaims, LoopKeepsSigned, LoopKeepsVersions DEF LoopInv
<1>3. ASSUME UNCHANGED <<status, approved, content, rows, executorVars, version, applied, signed, raced>>,
             \A p \in Packages : lease[p] # "none" => lease'[p] # "none"
      PROVE  LoopInv'
  <2>1. StepsAreRecorded' /\ OnlySignedContentApplies'
    BY <1>3 DEF LoopInv, StepsAreRecorded, OnlySignedContentApplies
  <2>2. TodoIsUndone'
    BY <1>3 DEF LoopInv, TodoIsUndone, executorVars, Loaded
  <2>3. ClaimsAreApproved'
    BY <1>3 DEF LoopInv, ClaimsAreApproved, executorVars
  <2>4. VersionsHold'
    BY <1>3 DEF LoopInv, VersionsHold, executorVars, Drifted, Target, RowExists, Current
  <2>5. QED
    BY <2>1, <2>2, <2>3, <2>4 DEF LoopInv
<1>4. ASSUME NEW p \in Packages, LeaseLapses(p) PROVE LoopInv'
  <2>1. \A q \in Packages : lease[q] # "none" => lease'[q] # "none"
    BY <1>4 DEF LeaseLapses, Typed, PackagesTyped
  <2>2. QED
    BY <1>3, <1>4, <2>1 DEF LeaseLapses, targetVars
<1>5. CASE UNCHANGED vars
  BY <1>3, <1>5 DEF vars, packageVars, targetVars, historyVars
<1>6. QED
  BY <1>1, <1>2, <1>4, <1>5 DEF Next, LoopStep

-----------------------------------------------------------------------------
(* One loop: every change moves a version on by one, and each is made once. *)

LEMMA EffectsAreBounded ==
    /\ IsFiniteSet(Effects)
    /\ Cardinality(Effects) \in Nat
    /\ Cardinality(Effects) <= Cardinality(Packages) * MaxRevision * NumSteps
<1> DEFINE All == (Packages \X Revisions) \X Steps
<1>1. /\ IsFiniteSet(Packages) /\ IsFiniteSet(Revisions) /\ IsFiniteSet(Steps)
      /\ Cardinality(Revisions) = MaxRevision /\ Cardinality(Steps) = NumSteps
  <2>1. 1 \in Int /\ MaxRevision \in Int /\ NumSteps \in Int
    BY ConstantsAssumption
  <2>2. QED
    BY <2>1, FS_Interval, ConstantsAssumption DEF Revisions, Steps
<1>2. IsFiniteSet(Packages \X Revisions) /\ Cardinality(Packages \X Revisions) = Cardinality(Packages) * MaxRevision
  BY <1>1, FS_Product
<1>3. IsFiniteSet(All) /\ Cardinality(All) = Cardinality(Packages) * MaxRevision * NumSteps
  BY <1>1, <1>2, FS_Product
<1>4. Effects \subseteq All
  BY DEF Effects
<1>5. QED
  BY <1>3, <1>4, FS_Subset, FS_CardinalityType

\* An effect of the only loop is a new one; nothing else adds or removes any.
LEMMA EffectsGrow ==
    ASSUME Typed, Shape, StepsAreRecorded, TodoIsUndone, [Next]_vars
    PROVE  /\ Cardinality(Effects') \in Nat /\ Cardinality(Effects') >= Cardinality(Effects)
           /\ \A e \in Executors : ApplyStep(e) => Cardinality(Effects') = Cardinality(Effects) + 1
<1>0. Cardinality(Effects) \in Nat /\ IsFiniteSet(Effects)
  BY EffectsAreBounded
<1>1. ASSUME NEW e \in Executors, ApplyStep(e)
      PROVE  Cardinality(Effects') = Cardinality(Effects) + 1
  <2>1. PICK p \in Packages, i \in Steps : p = claim[e] /\ i = Current(e) /\ i \in todo[e]
    BY <1>1, AtHand DEF ApplyStep, Typed
  <2>2. PICK c \in Revisions : c = plan[e][i].content
    BY DEF Typed, VersionsTyped, RowIn
  <2>3. c = content[p] /\ rows[p][i].status # "succeeded"
    BY <1>1, <2>1, <2>2 DEF ApplyStep, RowExists, TodoIsUndone, Loaded, Shape, RowsAreTheContent
  <2>4. applied[p][c][i] = 0
    <3>1. applied[p][c][i] \in Nat /\ applied[p][c][i] <= 1
      BY DEF StepsAreRecorded, Typed, HistoryTyped
    <3>2. applied[p][content[p]][i] # 1
      BY <2>3 DEF StepsAreRecorded
    <3>3. QED
      BY <2>3, <3>1, <3>2
  <2>5. applied' = [applied EXCEPT ![p][c][i] = @ + 1]
    BY <1>1, <2>1, <2>2 DEF ApplyStep
  <2>6. \A q \in Packages, d \in Revisions, j \in Steps :
           applied'[q][d][j] = IF q = p /\ d = c /\ j = i THEN 1 ELSE applied[q][d][j]
    BY <2>4, <2>5 DEF Typed, HistoryTyped
  <2>7. Effects' = Effects \cup {<<<<p, c>>, i>>}
    <3>1. ASSUME NEW x \in (Packages \X Revisions) \X Steps
          PROVE  x \in Effects' <=> x \in Effects \/ x = <<<<p, c>>, i>>
      <4>1. PICK q \in Packages, d \in Revisions, j \in Steps : x = <<<<q, d>>, j>>
        OBVIOUS
      <4>2. x[1][1] = q /\ x[1][2] = d /\ x[2] = j
        BY <4>1
      <4>3. x \in Effects' <=> applied'[q][d][j] > 0
        BY <4>2 DEF Effects
      <4>4. x \in Effects <=> applied[q][d][j] > 0
        BY <4>2 DEF Effects
      <4>5. x = <<<<p, c>>, i>> <=> q = p /\ d = c /\ j = i
        BY <4>1
      <4>6. QED
        BY <2>4, <2>6, <4>3, <4>4, <4>5
    <3>2. QED
      BY <3>1 DEF Effects
  <2>8. <<<<p, c>>, i>> \notin Effects
    BY <2>4 DEF Effects
  <2>9. QED
    BY <1>0, <2>7, <2>8, FS_AddElement
<1>2. applied' = applied \/ \E e \in Executors : ApplyStep(e)
  BY LoopKeeps, RequestKeeps DEF Next, LoopStep, LeaseLapses, vars, historyVars
<1>3. applied' = applied => Effects' = Effects
  BY DEF Effects
<1>4. QED
  BY <1>0, <1>1, <1>2, <1>3

\* A larger range of versions holds all that a smaller one does.
LEMMA VersionsWiden ==
    ASSUME NEW V, NEW W, V \subseteq W, VersionsTyped(V)
    PROVE  VersionsTyped(W)
<1>1. RowIn(V) \subseteq RowIn(W)
  BY DEF RowIn
<1>2. QED
  BY <1>1 DEF VersionsTyped

LEMMA VersionsAreCountedInductive ==
    Typed /\ Shape /\ StepsAreRecorded /\ TodoIsUndone /\ VersionsAreCounted /\ [Next]_vars => VersionsAreCounted'
<1> SUFFICES ASSUME Typed, Shape, StepsAreRecorded, TodoIsUndone, VersionsAreCounted, [Next]_vars
             PROVE  VersionsAreCounted'
  OBVIOUS
<1>1. PICK n \in Nat : n = Cardinality(Effects)
  BY EffectsAreBounded
<1>2. PICK m : m = Cardinality(Effects')
  OBVIOUS
<1>3. m \in Nat /\ n <= m
  BY <1>1, <1>2, EffectsGrow
<1>4. VersionsTyped(1 .. (1 + m))
  <2>1. 1 .. (1 + n) \subseteq 1 .. (1 + m)
    BY <1>1, <1>3
  <2>2. VersionsTyped(1 .. (1 + n))
    BY <1>1 DEF VersionsAreCounted
  <2>3. QED
    BY <2>1, <2>2, VersionsWiden
<1>5. ASSUME NEW e \in Executors, ApplyStep(e) PROVE version[Target(e)] + 1 \in 1 .. (1 + m)
  <2>1. m = n + 1
    BY <1>1, <1>2, <1>5, EffectsGrow
  <2>2. Current(e) \in Steps
    BY <1>5, AtHand DEF ApplyStep, Typed
  <2>3. Target(e) \in Targets
    BY <2>2 DEF Target, Typed, VersionsTyped, RowIn
  <2>4. version[Target(e)] \in 1 .. (1 + n)
    BY <1>1, <2>3 DEF VersionsAreCounted, VersionsTyped
  <2>5. QED
    BY <1>1, <2>1, <2>4
<1>6. VersionsTyped(1 .. (1 + m))'
  <2>1. 1 .. (1 + m) \subseteq Nat /\ 1 \in 1 .. (1 + m)
    BY <1>3
  <2>2. QED
    BY <1>4, <1>5, <2>1, VersionsStayTyped DEF Typed
<1>7. QED
  BY <1>2, <1>6 DEF VersionsAreCounted

-----------------------------------------------------------------------------
(* The promises.                                                           *)

LEMMA InitHolds == Init => Typed /\ Shape /\ LoopsAreExclusive /\ LoopInv /\ VersionsAreCounted
<1> SUFFICES ASSUME Init PROVE Typed /\ Shape /\ LoopsAreExclusive /\ LoopInv /\ VersionsAreCounted
  OBVIOUS
<1> USE ConstantsAssumption
<1>0. 1 \in Revisions /\ "none" \in Statuses
  BY DEF Revisions, Statuses
<1>1. PackagesTyped /\ HistoryTyped
  BY <1>0 DEF Init, PackagesTyped, HistoryTyped
<1>2. LoopsTyped
  <2>1. trouble \in [Executors -> BOOLEAN] /\ archived \in BOOLEAN
    BY Zenon DEF Init
  <2>2. faults \in 0 .. MaxFaults
    BY DEF Init
  <2>3. /\ pc \in [Executors -> {"idle", "recovering", "claiming", "claimed", "stepping", "beginning",
                                "verifying", "applying"}]
        /\ picked \in [Executors -> Packages \cup {NoPackage}]
    /\ claim \in [Executors -> Packages \cup {NoPackage}]
        /\ stale \in [Executors -> SUBSET Packages]
        /\ todo \in [Executors -> SUBSET Steps]
        /\ \A e \in Executors : pc[e] = "idle" /\ claim[e] = NoPackage
    BY DEF Init
  <2>4. QED
    BY <2>1, <2>2, <2>3 DEF LoopsTyped, Working
<1>3. ASSUME NEW V, 1 \in V PROVE VersionsTyped(V)
  <2>1. NoPlan \in [Steps -> RowIn(V)]
    BY <1>0, <1>3 DEF NoPlan, RowIn
  <2>2. QED
    BY <1>3, <2>1 DEF Init, VersionsTyped
<1>4. Shape
  BY <1>0 DEF Init, Shape, RowsAreTheContent, OnlyCreatedMove, ApprovalsAreSigned, PlansFit, NoPlan, Working, Loaded
<1>5. LoopsAreExclusive
  BY DEF Init, LoopsAreExclusive
<1>6. LoopInv
  BY <1>0 DEF Init, LoopInv, StepsAreRecorded, TodoIsUndone, ClaimsAreApproved, OnlySignedContentApplies,
     VersionsHold, NoPlan, Loaded
<1>7. VersionsAreCounted
  <2>1. PICK n \in Nat : n = Cardinality(Effects)
    BY EffectsAreBounded
  <2>2. 1 \in 1 .. (1 + n)
    OBVIOUS
  <2>3. QED
    BY <1>3, <2>1, <2>2 DEF VersionsAreCounted
<1>8. Typed
  BY <1>1, <1>2, <1>3 DEF Typed
<1>9. QED
  BY <1>4, <1>5, <1>6, <1>7, <1>8

LEMMA ShapeHolds == Spec => [](Typed /\ Shape /\ LoopsAreExclusive)
<1>1. Init => Typed /\ Shape /\ LoopsAreExclusive
  BY InitHolds
<1>2. Typed /\ Shape /\ LoopsAreExclusive /\ [Next]_vars => (Typed /\ Shape /\ LoopsAreExclusive)'
  BY TypedInductive, ShapeInductive, ExclusiveInductive
<1>3. QED
  BY <1>1, <1>2, PTL DEF Spec

LEMMA LoopHolds == ASSUME OneLoop PROVE Spec => [](Typed /\ Shape /\ LoopInv /\ VersionsAreCounted)
<1> DEFINE Inv == Typed /\ Shape /\ LoopInv /\ VersionsAreCounted
<1>1. Init => Inv
  BY InitHolds
<1>2. Inv /\ [Next]_vars => Inv'
  BY TypedInductive, ShapeInductive, LoopInvInductive, VersionsAreCountedInductive DEF LoopInv
<1>3. QED
  BY <1>1, <1>2, PTL DEF Spec

\* With one loop, every variable keeps its type; in particular no version is
\* moved on more often than there are steps to apply.
THEOREM TypeCorrect == ASSUME OneLoop PROVE Spec => []TypeOK
<1>1. ASSUME Typed, LoopInv, VersionsAreCounted PROVE TypeOK
  <2>1. VersionsTyped(Versions)
    <3>1. PICK n \in Nat : n = Cardinality(Effects)
      BY EffectsAreBounded
    <3>2. PICK m \in Nat : m = Cardinality(Packages) * MaxRevision * NumSteps /\ n <= m
      <4>1. Cardinality(Packages) \in Nat
        BY ConstantsAssumption, FS_CardinalityType
      <4>2. QED
        BY <3>1, <4>1, EffectsAreBounded, ConstantsAssumption
    <3>3. 1 .. (1 + n) \subseteq 1 .. (1 + m)
      BY <3>2
    <3>4. VersionsTyped(1 .. (1 + n))
      BY <1>1, <3>1 DEF VersionsAreCounted
    <3>5. QED
      BY <3>2, <3>3, <3>4, VersionsWiden DEF Versions
  <2>2. RowIn(Versions) = Row
    BY DEF RowIn, Row
  <2>3. request \in [Requests -> {NoRequest} \cup Request]
    BY <2>1 DEF VersionsTyped, Request
  <2>4. applied \in [Packages -> [Revisions -> [Steps -> 0 .. 2]]]
    <3>1. ASSUME NEW p \in Packages, NEW c \in Revisions, NEW i \in Steps PROVE applied[p][c][i] \in 0 .. 2
      <4>1. applied[p][c][i] \in Nat
        BY <1>1 DEF Typed, HistoryTyped
      <4>2. applied[p][c][i] <= 1
        BY <1>1 DEF LoopInv, StepsAreRecorded
      <4>3. QED
        BY <4>1, <4>2
    <3>2. QED
      BY <1>1, <3>1 DEF Typed, HistoryTyped
  <2>5. QED
    BY <1>1, <2>1, <2>2, <2>3, <2>4 DEF TypeOK, Typed, PackagesTyped, LoopsTyped, HistoryTyped, VersionsTyped
<1>2. QED
  BY <1>1, LoopHolds, PTL

\* With one loop, every step a creator approved takes effect at most once, is
\* recorded exactly if it did, and no other step takes effect, however often
\* the executor dies and the watchdog hands the package back.
THEOREM ApplyOnce == ASSUME OneLoop PROVE Spec => []ApprovedStepsApplyOnce
<1>1. LoopInv => ApprovedStepsApplyOnce
  BY DEF LoopInv, StepsAreRecorded, ClaimsAreApproved, ApprovedStepsApplyOnce, StepsApplyOnce
<1>2. QED
  BY <1>1, LoopHolds, PTL

\* With one loop, a package is executing only under an approval of its present
\* revision and under a lease.
THEOREM Held == ASSUME OneLoop PROVE Spec => []ExecutingIsHeld
<1>1. Shape /\ LoopInv => ExecutingIsHeld
  BY DEF Shape, ApprovalsAreSigned, LoopInv, ClaimsAreApproved, ExecutingIsHeld
<1>2. QED
  BY <1>1, LoopHolds, PTL

\* With one loop, a step lands on the version its approval was given for, or
\* that the same run left behind.
LEMMA StepsLandOnTheirVersion ==
    ASSUME Typed, Shape, VersionsHold, [Next]_vars,
           NEW p \in Packages, NEW c \in Revisions, NEW i \in Steps, applied'[p][c][i] > applied[p][c][i]
    PROVE  version[rows[p][i].target] = rows[p][i].expected
<1>0. applied[p][c][i] \in Nat
  BY DEF Typed, HistoryTyped
<1>1. PICK e \in Executors : LoopStep(e)
  BY <1>0, RequestKeeps DEF Next, LoopStep, LeaseLapses, vars, historyVars
<1>2. ApplyStep(e) /\ RowIsMarked(e, p, i)
  BY <1>0, <1>1, LoopKeeps, AppliedInStep
<1>3. /\ p = claim[e] /\ i = Current(e) /\ Loaded(e) /\ pc[e] = "applying" /\ RowExists(e)
  BY <1>2 DEF RowIsMarked, ApplyStep
<1>4. plan[e][i].expected = version[plan[e][i].target] /\ rows[p][i].expected = plan[e][i].expected
  BY <1>3 DEF VersionsHold, Drifted, Target
<1>5. plan[e][i].target = rows[p][i].target
  BY <1>3 DEF RowExists, Shape, RowsAreTheContent, PlansFit
<1>6. QED
  BY <1>4, <1>5

\* With one loop, what was cancelled or has succeeded stays as it is.
LEMMA EndedStays ==
    ASSUME OneLoop, Typed, Shape, LoopInv, [Next]_vars,
           NEW p \in Packages, status[p] \in {"cancelled", "succeeded"}, p \notin raced',
           revision'[p] = revision[p]
    PROVE  status'[p] = status[p] /\ applied'[p] = applied[p]
<1>1. ASSUME NEW e \in Executors, LoopStep(e) PROVE status'[p] = status[p] /\ applied'[p] = applied[p]
  <2>1. p \notin raced
    BY <1>1, LoopKeeps
  <2>2. claim[e] # p
    BY <2>1 DEF LoopInv, ClaimsAreApproved
  <2>3. status'[p] = status[p]
    BY <1>1, <2>2, StatusInStep DEF StatusStays, HandedBack, Claimed, StillClaimable, Runnable, Lapsed, LetGo
  <2>4. \A c \in Revisions, i \in Steps : applied'[p][c][i] = applied[p][c][i]
    BY <1>1, <2>2, AppliedInStep DEF RowIsMarked
  <2>5. applied[p] \in [Revisions -> [Steps -> Nat]] /\ applied'[p] \in [Revisions -> [Steps -> Nat]]
    BY PackagesTypedInductive DEF Typed, HistoryTyped
  <2>6. QED
    BY <2>3, <2>4, <2>5
<1>2. CASE UserNext
  <2>1. applied' = applied
    BY <1>2, RequestKeeps
  <2>2. ASSUME NEW r \in Requests, Revise(r) PROVE status'[p] = status[p]
    BY <2>2 DEF Revise, Typed, PackagesTyped, Revisions
  <2>3. status'[p] = status[p]
    BY <1>2, <2>2 DEF UserNext, Create, ReviseCheck, ReviseText, ReviseSteps, ReviseConflict, Approve, MayApprove,
       Cancel, Decidable, Expire, ArchiveOrRestore, packageVars, Typed, PackagesTyped
  <2>4. QED
    BY <2>1, <2>3
<1>3. QED
  BY <1>1, <1>2 DEF Next, LoopStep, LeaseLapses, vars, packageVars, historyVars

\* With one loop, an approval binds the executor to the versions it was given
\* for, and ends with the package.
THEOREM Binding == ASSUME OneLoop PROVE Spec => ApprovalsBind
<1> DEFINE Inv     == Typed /\ Shape /\ LoopInv /\ VersionsAreCounted
           Checked == \A p \in Packages, c \in Revisions, i \in Steps :
                         applied'[p][c][i] > applied[p][c][i] =>
                             LET t == rows[p][i].target
                             IN  \/ version[t] = rows[p][i].expected
                                 \/ \E e \in Executors : claim[e] = p /\ written[e][t] = version[t]
           Final   == \A p \in Packages :
                         status[p] \in {"cancelled", "succeeded"} /\ p \notin raced' /\ revision'[p] = revision[p] =>
                             status'[p] = status[p] /\ applied'[p] = applied[p]
<1>1. Inv /\ [Next]_vars => [Checked]_vars
  BY StepsLandOnTheirVersion DEF LoopInv
<1>2. Inv /\ [Next]_vars => [Final]_vars
  BY EndedStays
<1>3. QED
  BY <1>1, <1>2, LoopHolds, PTL DEF Spec, ApprovalsBind, VersionsChecked, EndedIsFinal

\* However many loops share the database, select one package, die or come late,
\* two of them never work on one, unless its lease lapsed and nobody has claimed
\* it afresh since, or it was revised under one of them.
THEOREM LoopsExclude == Spec => []OneExecutorPerPackage
<1>1. Typed /\ LoopsAreExclusive => OneExecutorPerPackage
  BY DEF Typed, LoopsTyped, LoopsAreExclusive, OneExecutorPerPackage
<1>2. QED
  BY <1>1, ShapeHolds, PTL

-----------------------------------------------------------------------------
(* Packages for plan steps (module Works).                                 *)

\* The version of a row is never behind the one a package was approved for; it
\* is that one between the package's check and its update, which only one
\* package at a time is in, and beyond it once the package has applied.
VersionsFit ==
    \A p \in PlanPackages : deal[p].at # "none" =>
        /\ deal[p].saw.version <= thePlan[deal[p].step].version
        /\ deal[p].at = "verified" => deal[p].saw.version = thePlan[deal[p].step].version
        /\ deal[p].at = "applied" => deal[p].saw.version < thePlan[deal[p].step].version

OneIsVerified ==
    \A p, q \in PlanPackages : deal[p].at = "verified" /\ deal[q].at = "verified" => p = q

PlanInv == Plan!WorksTypeOK /\ VersionsFit /\ OneIsVerified

LEMMA PlanStarts == Plan!WorksInit => PlanInv
<1> SUFFICES ASSUME Plan!WorksInit PROVE PlanInv
  OBVIOUS
<1>1. Plan!Start \in Plan!Content /\ 1 \in 1..MaxVersion
  BY PlanAssumption DEF Plan!Start, Plan!Content
<1>2. thePlan \in [PlanSteps -> Plan!Row]
  BY <1>1 DEF Plan!WorksInit, Plan!Row
<1>3. \A p \in PlanPackages : deal[p].at = "none"
  BY DEF Plan!WorksInit, Plan!NoDeal
<1>4. QED
  BY <1>2, <1>3 DEF PlanInv, Plan!WorksInit, Plan!WorksTypeOK, Plan!Edit, VersionsFit, OneIsVerified

\* What an edit or a package makes of a row is a row's content.
LEMMA ChangedIsContent ==
    ASSUME NEW body \in Plan!Content, NEW c \in Changes
    PROVE  Plan!Changed(body, c) \in Plan!Content
<1>1. /\ c.status \in {"keep", "in_progress", "blocked"} /\ c.text \in {"keep", "none", "some"}
      /\ body.status \in {"in_progress", "blocked"} /\ body.text \in {"none", "some"}
  BY PlanAssumption DEF Plan!Content
<1>2. QED
  BY <1>1 DEF Plan!Changed, Plan!Content

LEMMA DealOf ==
    ASSUME Plan!WorksTypeOK, NEW p \in PlanPackages, deal[p].at # "none"
    PROVE  /\ deal[p] \in Plan!Deal /\ deal[p].step \in PlanSteps /\ deal[p].changes \in Changes
           /\ deal[p].saw \in Plan!Row /\ deal[p].saw.version \in Nat
           /\ thePlan[deal[p].step] \in Plan!Row /\ thePlan[deal[p].step].version \in Nat
           /\ thePlan[deal[p].step].content \in Plan!Content
<1>1. deal[p] \in {Plan!NoDeal} \cup Plan!Deal
  BY DEF Plan!WorksTypeOK
<1>2. deal[p] # Plan!NoDeal
  BY DEF Plan!NoDeal
<1>3. deal[p] \in Plan!Deal
  BY <1>1, <1>2
<1>4. deal[p].step \in PlanSteps /\ deal[p].changes \in Changes /\ deal[p].saw \in Plan!Row
  BY <1>3 DEF Plan!Deal
<1>5. thePlan[deal[p].step] \in Plan!Row
  BY <1>4 DEF Plan!WorksTypeOK
<1>6. \A row \in Plan!Row : row.version \in Nat /\ row.content \in Plan!Content
  BY PlanAssumption DEF Plan!Row
<1>7. QED
  BY <1>3, <1>4, <1>5, <1>6

\* No edit by hand moves a version.
LEMMA EditsKeepVersions ==
    ASSUME PlanInv, NEW e \in Edits,
           \/ Plan!ReadStep(e) \/ Plan!WriteStep(e) \/ Plan!WriteWork(e)
           \/ \E op \in {"set", "propose", "confirm", "reopen"} : Plan!ReadWork(e, op)
    PROVE  PlanInv' /\ deal' = deal
<1>1. CASE Plan!WriteStep(e)
  <2>1. workEdit[e] \in Plan!Edit /\ workEdit[e].op = "step"
    BY <1>1 DEF PlanInv, Plan!WorksTypeOK, Plan!WriteStep
  <2>2. workEdit[e] \in [op : {"step"}, step : PlanSteps, changes : Changes]
    BY <2>1 DEF Plan!Edit, Plan!Idle
  <2> DEFINE s == workEdit[e].step
             c == workEdit[e].changes
  <2>3. s \in PlanSteps /\ c \in Changes
    BY <2>2
  <2>4. /\ thePlan' = [thePlan EXCEPT ![s].content = Plan!Changed(thePlan[s].content, c)]
        /\ workEdit' = [workEdit EXCEPT ![e] = Plan!Idle]
        /\ UNCHANGED <<theWork, deal>>
    BY <1>1 DEF Plan!WriteStep
  <2>5. thePlan \in [PlanSteps -> Plan!Row] /\ thePlan[s] \in Plan!Row /\ thePlan[s].content \in Plan!Content
    BY <2>3 DEF PlanInv, Plan!WorksTypeOK, Plan!Row
  <2> DEFINE body == Plan!Changed(thePlan[s].content, c)
  <2>6. body \in Plan!Content
    BY <2>3, <2>5, ChangedIsContent
  <2> HIDE DEF s, c, body
  <2>7. thePlan' = [thePlan EXCEPT ![s].content = body]
    BY <2>4 DEF s, c, body
  <2>8. /\ thePlan' \in [PlanSteps -> Plan!Row]
        /\ \A t \in PlanSteps : thePlan'[t].version = thePlan[t].version
    BY <2>3, <2>5, <2>6, <2>7 DEF Plan!Row
  <2>9. workEdit' \in [Edits -> Plan!Edit]
    BY <2>4 DEF PlanInv, Plan!WorksTypeOK, Plan!Edit
  <2>10. Plan!WorksTypeOK'
    BY <2>4, <2>8, <2>9 DEF PlanInv, Plan!WorksTypeOK
  <2>11. VersionsFit'
    <3>1. \A p \in PlanPackages : deal[p].at # "none" =>
              deal[p].step \in PlanSteps /\ thePlan'[deal[p].step].version = thePlan[deal[p].step].version
      BY <2>8, DealOf DEF PlanInv
    <3>2. deal' = deal
      BY <2>4
    <3> QED
      BY <3>1, <3>2 DEF PlanInv, VersionsFit
  <2>12. OneIsVerified' /\ deal' = deal
    BY <2>4 DEF PlanInv, OneIsVerified
  <2> QED
    BY <2>10, <2>11, <2>12 DEF PlanInv
<1>2. ASSUME ~Plan!WriteStep(e) PROVE PlanInv' /\ deal' = deal
  <2>1. UNCHANGED <<thePlan, deal>>
    BY <1>2 DEF Plan!ReadStep, Plan!WriteWork, Plan!ReadWork
  <2>2. workEdit' \in [Edits -> Plan!Edit]
    <3>1. \E x \in Plan!Edit : workEdit' = [workEdit EXCEPT ![e] = x]
      <4>1. CASE Plan!ReadStep(e)
        <5>1. PICK s \in PlanSteps, c \in Changes :
                  workEdit' = [workEdit EXCEPT ![e] = [op |-> "step", step |-> s, changes |-> c]]
          BY <4>1 DEF Plan!ReadStep
        <5>2. [op |-> "step", step |-> s, changes |-> c] \in Plan!Edit
          BY DEF Plan!Edit
        <5> QED
          BY <5>1, <5>2
      <4>2. CASE Plan!WriteWork(e)
        BY <4>2 DEF Plan!WriteWork, Plan!Edit
      <4>3. ASSUME NEW op \in {"set", "propose", "confirm", "reopen"}, Plan!ReadWork(e, op)
            PROVE  \E x \in Plan!Edit : workEdit' = [workEdit EXCEPT ![e] = x]
        <5>1. [op |-> op] \in Plan!Edit
          BY DEF Plan!Edit
        <5> QED
          BY <4>3, <5>1 DEF Plan!ReadWork
      <4> QED
        BY <1>2, <4>1, <4>2, <4>3
    <3> QED
      BY <3>1 DEF PlanInv, Plan!WorksTypeOK
  <2>3. theWork' \in [status : {"in_progress", "waiting_confirmation", "completed"}, archived : BOOLEAN]
    BY <1>2 DEF PlanInv, Plan!WorksTypeOK, Plan!ReadStep, Plan!WriteWork, Plan!ReadWork, Plan!Outcome
  <2>4. Plan!WorksTypeOK'
    BY <2>1, <2>2, <2>3 DEF PlanInv, Plan!WorksTypeOK
  <2> QED
    BY <2>1, <2>4 DEF PlanInv, VersionsFit, OneIsVerified
<1>3. QED
  BY <1>1, <1>2

\* A package that is given an outcome keeps its terms.
LEMMA Settled ==
    ASSUME Plan!WorksTypeOK, NEW p \in PlanPackages, deal[p].at # "none",
           NEW outcome \in {"verified", "applied", "conflict", "failed"}, Plan!Settle(p, outcome)
    PROVE  /\ deal' \in [PlanPackages -> {Plan!NoDeal} \cup Plan!Deal]
           /\ deal'[p].at = outcome /\ deal'[p].step = deal[p].step /\ deal'[p].saw = deal[p].saw
           /\ \A q \in PlanPackages \ {p} : deal'[q] = deal[q]
<1>1. PICK d \in Plan!Deal : d = deal[p]
  BY DealOf
<1> DEFINE new == [d EXCEPT !.at = outcome]
<1>2. new \in Plan!Deal /\ new.at = outcome /\ new.step = d.step /\ new.saw = d.saw
  BY DEF Plan!Deal
<1>3. deal' = [deal EXCEPT ![p] = new]
  BY <1>1 DEF Plan!Settle
<1> HIDE DEF new
<1>4. QED
  BY <1>1, <1>2, <1>3 DEF Plan!WorksTypeOK

LEMMA PackagesKeepVersions ==
    ASSUME PlanInv, NEW p \in PlanPackages, Plan!Verify(p) \/ Plan!Refuse(p) \/ \E s \in PlanSteps : Plan!Approve(p, s)
    PROVE  PlanInv' /\ \A q \in PlanPackages : ~Plan!Becomes(q, "applied")
<1>1. UNCHANGED <<theWork, thePlan, workEdit>>
  BY DEF Plan!Verify, Plan!Refuse, Plan!Approve
<1>2. /\ deal' \in [PlanPackages -> {Plan!NoDeal} \cup Plan!Deal]
      /\ \A q \in PlanPackages \ {p} : deal'[q] = deal[q]
      /\ deal'[p].at # "none" => deal'[p].saw.version <= thePlan[deal'[p].step].version
      /\ deal'[p].at # "applied"
      /\ deal'[p].at = "verified" => /\ deal'[p].saw.version = thePlan[deal'[p].step].version
                                    /\ \A q \in PlanPackages : deal[q].at # "verified"
  <2>1. CASE Plan!Verify(p)
    <3>1. deal[p].at = "approved" /\ Plan!Settle(p, "verified")
          /\ thePlan[deal[p].step].version = deal[p].saw.version
          /\ \A q \in PlanPackages : deal[q].at # "verified"
      BY <2>1 DEF Plan!Verify, Plan!AsApproved
    <3>2. /\ deal' \in [PlanPackages -> {Plan!NoDeal} \cup Plan!Deal]
          /\ deal'[p].at = "verified" /\ deal'[p].step = deal[p].step /\ deal'[p].saw = deal[p].saw
          /\ \A q \in PlanPackages \ {p} : deal'[q] = deal[q]
      BY <3>1, Settled DEF PlanInv
    <3>3. deal[p].saw.version \in Nat
      BY <3>1, DealOf DEF PlanInv
    <3> QED
      BY <3>1, <3>2, <3>3
  <2>2. CASE Plan!Refuse(p)
    <3>1. PICK outcome \in {"failed", "conflict"} : deal[p].at = "approved" /\ Plan!Settle(p, outcome)
      BY <2>2 DEF Plan!Refuse
    <3>2. /\ deal' \in [PlanPackages -> {Plan!NoDeal} \cup Plan!Deal]
          /\ deal'[p].at = outcome /\ deal'[p].step = deal[p].step /\ deal'[p].saw = deal[p].saw
          /\ \A q \in PlanPackages \ {p} : deal'[q] = deal[q]
      BY <3>1, Settled DEF PlanInv
    <3>3. deal[p].saw.version <= thePlan[deal[p].step].version
      BY <3>1 DEF PlanInv, VersionsFit
    <3> QED
      BY <3>2, <3>3
  <2>3. ASSUME NEW s \in PlanSteps, Plan!Approve(p, s)
        PROVE  /\ deal' \in [PlanPackages -> {Plan!NoDeal} \cup Plan!Deal]
               /\ \A q \in PlanPackages \ {p} : deal'[q] = deal[q]
               /\ deal'[p].saw.version <= thePlan[deal'[p].step].version /\ deal'[p].at = "approved"
    <3>1. PICK c \in Changes : deal' = [deal EXCEPT ![p] =
              [at |-> "approved", step |-> s, saw |-> thePlan[s], changes |-> c]]
      BY <2>3 DEF Plan!Approve
    <3>2. thePlan[s] \in Plan!Row /\ thePlan[s].version \in Nat
      BY PlanAssumption DEF PlanInv, Plan!WorksTypeOK, Plan!Row
    <3> DEFINE new == [at |-> "approved", step |-> s, saw |-> thePlan[s], changes |-> c]
    <3>3. new \in Plan!Deal /\ new.at = "approved" /\ new.step = s /\ new.saw = thePlan[s]
      BY <3>2 DEF Plan!Deal
    <3>4. deal' = [deal EXCEPT ![p] = new]
      BY <3>1
    <3> HIDE DEF new
    <3> QED
      BY <3>2, <3>3, <3>4 DEF PlanInv, Plan!WorksTypeOK
  <2> QED
    BY <2>1, <2>2, <2>3
<1>3. Plan!WorksTypeOK'
  BY <1>1, <1>2 DEF PlanInv, Plan!WorksTypeOK
<1>4. VersionsFit'
  BY <1>1, <1>2 DEF PlanInv, VersionsFit
<1>5. OneIsVerified'
  BY <1>2 DEF PlanInv, OneIsVerified
<1>6. QED
  BY <1>2, <1>3, <1>4, <1>5 DEF PlanInv, Plan!Becomes

\* The version a package applies on is the one it was approved for, which is
\* beyond that of every package that has applied.
LEMMA AppliesOnItsVersion ==
    ASSUME PlanInv, NEW p \in PlanPackages, Plan!Apply(p)
    PROVE  PlanInv' /\ Plan!LaterVersions
<1> DEFINE s == deal[p].step
           v == thePlan[deal[p].step].version
<1>1. /\ deal[p].at = "verified" /\ v < MaxVersion
      /\ thePlan' = [thePlan EXCEPT ![s] = [content |-> Plan!Changed(thePlan[s].content, deal[p].changes),
                                            version |-> v + 1]]
      /\ Plan!Settle(p, "applied") /\ UNCHANGED <<theWork, workEdit>>
  BY DEF Plan!Apply
<1>2. /\ s \in PlanSteps /\ deal[p].changes \in Changes /\ v \in Nat /\ deal[p].saw.version \in Nat
      /\ thePlan[s].content \in Plan!Content
  BY <1>1, DealOf DEF PlanInv
<1>3. /\ deal' \in [PlanPackages -> {Plan!NoDeal} \cup Plan!Deal]
      /\ deal'[p].at = "applied" /\ deal'[p].step = s /\ deal'[p].saw = deal[p].saw
      /\ \A q \in PlanPackages \ {p} : deal'[q] = deal[q]
  BY <1>1, Settled DEF PlanInv
<1>4. deal[p].saw.version = v
  BY <1>1 DEF PlanInv, VersionsFit
<1> DEFINE row == [content |-> Plan!Changed(thePlan[s].content, deal[p].changes), version |-> v + 1]
<1>5. row \in Plan!Row /\ row.version = v + 1
  <2>1. v + 1 \in 1..MaxVersion
    BY <1>1, <1>2, PlanAssumption
  <2>2. Plan!Changed(thePlan[s].content, deal[p].changes) \in Plan!Content
    BY <1>2, ChangedIsContent
  <2> QED
    BY <2>1, <2>2 DEF Plan!Row
<1>6. thePlan' = [thePlan EXCEPT ![s] = row]
  BY <1>1
<1> HIDE DEF row
<1>7. /\ thePlan' \in [PlanSteps -> Plan!Row] /\ thePlan'[s].version = v + 1
      /\ \A t \in PlanSteps \ {s} : thePlan'[t] = thePlan[t]
  BY <1>2, <1>5, <1>6 DEF PlanInv, Plan!WorksTypeOK
<1>8. Plan!WorksTypeOK'
  BY <1>1, <1>3, <1>7 DEF PlanInv, Plan!WorksTypeOK
<1>9. ASSUME NEW q \in PlanPackages, deal'[q].at # "none"
      PROVE  /\ deal'[q].saw.version <= thePlan'[deal'[q].step].version
             /\ deal'[q].at # "verified"
             /\ deal'[q].at = "applied" => deal'[q].saw.version < thePlan'[deal'[q].step].version
  <2>1. CASE q = p
    <3> HIDE DEF s, v
    <3> QED
      BY <1>2, <1>3, <1>4, <1>7, <2>1
  <2>2. CASE q # p
    <3>1. deal'[q] = deal[q]
      BY <1>3, <2>2
    <3>2. /\ deal[q].step \in PlanSteps /\ deal[q].saw.version \in Nat
          /\ thePlan[deal[q].step].version \in Nat
      BY <1>9, <3>1, DealOf DEF PlanInv
    <3>3. /\ deal[q].saw.version <= thePlan[deal[q].step].version
          /\ deal[q].at = "applied" => deal[q].saw.version < thePlan[deal[q].step].version
      BY <1>9, <3>1 DEF PlanInv, VersionsFit
    <3>4. deal[q].at # "verified"
      BY <1>1, <2>2 DEF PlanInv, OneIsVerified
    <3>5. thePlan[deal[q].step].version <= thePlan'[deal[q].step].version
      <4>1. CASE deal[q].step = s
        BY <1>2, <1>7, <4>1
      <4>2. CASE deal[q].step # s
        <5>1. thePlan'[deal[q].step] = thePlan[deal[q].step]
          BY <1>7, <3>2, <4>2
        <5> QED
          BY <3>2, <5>1
      <4> QED
        BY <4>1, <4>2
    <3>6. thePlan'[deal[q].step].version \in Nat
      BY <1>7, <3>2, PlanAssumption DEF Plan!Row
    <3> QED
      BY <3>1, <3>2, <3>3, <3>4, <3>5, <3>6
  <2> QED
    BY <2>1, <2>2
<1>10. VersionsFit' /\ OneIsVerified'
  <2>1. VersionsFit'
    BY <1>9 DEF VersionsFit
  <2>2. OneIsVerified'
    BY <1>9 DEF OneIsVerified
  <2> QED
    BY <2>1, <2>2
<1>11. Plan!LaterVersions
  <2> SUFFICES ASSUME NEW a \in PlanPackages, NEW b \in PlanPackages, Plan!Becomes(a, "applied"),
                      deal[b].at = "applied", deal[b].step = deal[a].step
               PROVE  deal[b].saw.version < deal[a].saw.version
    BY DEF Plan!LaterVersions
  <2>1. a = p
    BY <1>3 DEF Plan!Becomes
  <2>2. deal[b].saw.version < thePlan[deal[b].step].version
    BY DEF PlanInv, VersionsFit
  <2> QED
    BY <1>4, <2>1, <2>2
<1>12. QED
  BY <1>8, <1>10, <1>11 DEF PlanInv

LEMMA PlanHolds ==
    ASSUME PlanInv, [Plan!WorksNext]_(Plan!workVars)
    PROVE  PlanInv' /\ Plan!LaterVersions
<1>1. (\A q \in PlanPackages : ~Plan!Becomes(q, "applied")) => Plan!LaterVersions
  BY DEF Plan!LaterVersions
<1>2. CASE Plan!Archive
  <2>1. UNCHANGED <<thePlan, workEdit, deal>>
    BY <1>2 DEF Plan!Archive
  <2>2. theWork' \in [status : {"in_progress", "waiting_confirmation", "completed"}, archived : BOOLEAN]
    BY <1>2 DEF Plan!Archive, PlanInv, Plan!WorksTypeOK
  <2>3. PlanInv'
    BY <2>1, <2>2 DEF PlanInv, Plan!WorksTypeOK, VersionsFit, OneIsVerified
  <2> QED
    BY <1>1, <2>1, <2>3 DEF Plan!Becomes
<1>3. ASSUME NEW e \in Edits,
             \/ Plan!ReadStep(e) \/ Plan!WriteStep(e) \/ Plan!WriteWork(e)
             \/ \E op \in {"set", "propose", "confirm", "reopen"} : Plan!ReadWork(e, op)
      PROVE  PlanInv' /\ Plan!LaterVersions
  <2>1. PlanInv' /\ deal' = deal
    BY <1>3, EditsKeepVersions
  <2> QED
    BY <1>1, <2>1 DEF Plan!Becomes
<1>4. ASSUME NEW p \in PlanPackages,
             Plan!Verify(p) \/ Plan!Apply(p) \/ Plan!Refuse(p) \/ \E s \in PlanSteps : Plan!Approve(p, s)
      PROVE  PlanInv' /\ Plan!LaterVersions
  BY <1>1, <1>4, PackagesKeepVersions, AppliesOnItsVersion
<1>5. CASE UNCHANGED Plan!workVars
  <2>1. UNCHANGED <<theWork, thePlan, workEdit, deal>>
    BY <1>5 DEF Plan!workVars
  <2>2. PlanInv'
    BY <2>1 DEF PlanInv, Plan!WorksTypeOK, VersionsFit, OneIsVerified
  <2> QED
    BY <1>1, <2>1, <2>2 DEF Plan!Becomes
<1>6. QED
  BY <1>2, <1>3, <1>4, <1>5 DEF Plan!WorksNext

\* Of two packages approved for one version of a plan step one applies, however
\* the rows are edited by hand meanwhile.
THEOREM DoNotStack == Plan!WorksSpec => PackagesDoNotStack
<1>1. Plan!WorksInit => PlanInv
  BY PlanStarts
<1>2. PlanInv /\ [Plan!WorksNext]_(Plan!workVars) => PlanInv' /\ Plan!LaterVersions
  BY PlanHolds
<1>3. PlanInv => Plan!WorksTypeOK
  BY DEF PlanInv
<1>4. QED
  BY <1>1, <1>2, <1>3, PTL DEF Plan!WorksSpec, PackagesDoNotStack, Plan!PackagesDoNotStack
=============================================================================
