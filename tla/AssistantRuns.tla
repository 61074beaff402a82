--------------------------- MODULE AssistantRuns ---------------------------
(***************************************************************************)
(* The durable run queue of the GYO assistant.                             *)
(*                                                                         *)
(* A user's question inserts an assistant turn (what the user sees) and a  *)
(* run with the same id (who executes it).  Worker loops claim the oldest  *)
(* queued run under a lease, stream a provider answer, store it with a     *)
(* guarded update and settle the run.  Users may cancel, retry and archive *)
(* while that happens; a worker may die between any two transactions, and  *)
(* a lease may lapse under a worker that is still alive.                   *)
(*                                                                         *)
(* Each action is one database transaction, or one step of a worker        *)
(* between two of them.  A run's id is its rank in the queue (created_at). *)
(***************************************************************************)
EXTENDS Naturals, FiniteSets, Sequences

CONSTANTS
    Threads,    \* assistant threads
    MaxRuns,    \* bound: turns ever created
    Workers,    \* worker loops (one per backend process on the database)
    MaxFaults,  \* bound: crashes, shutdowns and database errors
    MaxStalls,  \* bound: leases that lapse while their holder is alive
    NoRun,      \* a worker without a claim
    NoOwner,    \* lease_owner IS NULL
    Dead        \* lease_owner of a worker loop that no longer runs

ASSUME BoundsAssumption == MaxRuns \in Nat /\ MaxFaults \in Nat /\ MaxStalls \in Nat

Runs == 1 .. MaxRuns

ASSUME NullAssumption ==
    /\ NoRun \notin Runs
    /\ NoOwner \notin Workers
    /\ Dead \notin Workers
    /\ NoOwner # Dead

VARIABLES
    archived,   \* assistant_threads.status = 'archived'
    archiving,  \* archive requests that have passed their check
    retrying,   \* failed turns whose retry request has passed its checks
    thread,     \* run -> the thread it belongs to
    next,       \* the id the next run will get
    status,     \* assistant_runs.status
    owner,      \* assistant_runs.lease_owner
    lease,      \* assistant_runs.lease_expires_at against the clock
    turn,       \* assistant_turns.status
    parts,      \* the turn's primary visible parts (sort_order 0)
    published,  \* terminal events the event bus has been given for the turn
    pc,         \* where each worker loop stands
    claim,      \* the run each worker has claimed
    result,     \* the answer a worker is about to store
    outbox,     \* events a worker publishes before anything else
    faults,     \* crashes and errors so far
    stalls      \* lapses of a live worker's lease so far

requestVars == <<archived, archiving, retrying, thread, next>>
runVars     == <<status, owner, lease>>
turnVars    == <<turn, parts>>
workerVars  == <<pc, claim, result, outbox>>
vars == <<requestVars, runVars, turnVars, published, workerVars, faults, stalls>>

Active   == {"queued", "running", "cancel_requested"}
Terminal == {"completed", "failed", "cancelled"}

\* A worker streaming or storing an answer keeps the heartbeat task alive.
ExecutorPcs == {"executing", "answered", "storing", "stored", "failing"}
LoopPcs     == {"recovering", "finalizing", "claiming"}
Pcs         == {"down", "reconciling", "settling"} \cup LoopPcs \cup ExecutorPcs

Events == [run : Runs, type : {"done", "error"}]

TypeOK ==
    /\ archived \subseteq Threads
    /\ archiving \subseteq Threads
    /\ retrying \subseteq Runs
    /\ thread \in [Runs -> Threads]
    /\ next \in 1 .. MaxRuns + 1
    /\ status \in [Runs -> {"none"} \cup Active \cup Terminal]
    /\ owner \in [Runs -> Workers \cup {NoOwner, Dead}]
    /\ lease \in [Runs -> {"none", "live", "expired"}]
    /\ turn \in [Runs -> {"none", "running"} \cup Terminal]
    /\ parts \in [Runs -> Seq({"answer", "error"})]
    /\ published \in [Runs -> SUBSET {"done", "error"}]
    /\ pc \in [Workers -> Pcs]
    /\ claim \in [Workers -> Runs \cup {NoRun}]
    /\ result \in [Workers -> {"none"} \cup Terminal]
    /\ outbox \in [Workers -> SUBSET Events]
    /\ faults \in 0 .. MaxFaults
    /\ stalls \in 0 .. MaxStalls

Init ==
    /\ archived = {} /\ archiving = {} /\ retrying = {}
    /\ thread \in [Runs -> Threads]
    /\ next = 1
    /\ status = [r \in Runs |-> "none"]
    /\ owner = [r \in Runs |-> NoOwner]
    /\ lease = [r \in Runs |-> "none"]
    /\ turn = [r \in Runs |-> "none"]
    /\ parts = [r \in Runs |-> <<>>]
    /\ published = [r \in Runs |-> {}]
    /\ pc = [w \in Workers |-> "recovering"]
    /\ claim = [w \in Workers |-> NoRun]
    /\ result = [w \in Workers |-> "none"]
    /\ outbox = [w \in Workers |-> {}]
    /\ faults = 0
    /\ stalls = 0

----------------------------------------------------------------------------
(* Requests of the user interface.                                         *)

Responding(t) == \E r \in Runs : thread[r] = t /\ turn[r] = "running"
HasActiveRun(t) == \E r \in Runs : thread[r] = t /\ status[r] \in Active

\* Both endpoints that start a run refuse a thread that is already responding;
\* the partial unique index refuses a second active run.
MayEnqueue(t) == ~Responding(t) /\ ~HasActiveRun(t)

\* Mutant: the run's status is written into the turn as well.
EnqueueRunWrongStatus(t) ==
    /\ next \in Runs
    /\ thread[next] = t
    /\ next' = next + 1
    /\ status' = [status EXCEPT ![next] = "queued"]
    /\ turn' = [turn EXCEPT ![next] = "queued"]
    /\ UNCHANGED <<owner, lease, parts>>

\* The inserts shared by create_run and retry_turn.
EnqueueRun(t) ==
    /\ next \in Runs
    /\ thread[next] = t
    /\ next' = next + 1
    /\ status' = [status EXCEPT ![next] = "queued"]
    /\ turn' = [turn EXCEPT ![next] = "running"]
    /\ UNCHANGED <<owner, lease, parts>>

\* POST /threads/{id}/runs; the transaction reads the thread's status again.
CreateRun(t) ==
    /\ t \notin archived
    /\ MayEnqueue(t)
    /\ EnqueueRun(t)
    /\ UNCHANGED <<archived, archiving, retrying, thread, published, workerVars, faults, stalls>>

\* POST /turns/{id}/retry up to BEGIN IMMEDIATE: every check but the last one.
RetryCheck(r) ==
    /\ turn[r] = "failed"
    /\ thread[r] \notin archived
    /\ retrying' = retrying \cup {r}
    /\ UNCHANGED <<archived, archiving, thread, next, runVars, turnVars, published, workerVars, faults, stalls>>

\* The transaction of retry_turn, which does not read the thread's status again.
RetryCommit(r) ==
    /\ r \in retrying
    /\ retrying' = retrying \ {r}
    /\ \/ MayEnqueue(thread[r]) /\ EnqueueRun(thread[r])
       \/ ~MayEnqueue(thread[r]) /\ UNCHANGED <<next, runVars, turnVars>>
    /\ UNCHANGED <<archived, archiving, thread, published, workerVars, faults, stalls>>

\* Mutant: a run that is already settled is not refused.
CancelTurnAnyStatus(r) ==
    /\ status[r] \in (Active \cup Terminal) \ {"cancel_requested"}
    /\ status' = [status EXCEPT ![r] = "cancel_requested"]
    /\ UNCHANGED <<requestVars, owner, lease, turnVars, published, workerVars, faults, stalls>>

\* POST /turns/{id}/cancel: a terminal run is refused, a second request is a no-op.
CancelTurn(r) ==
    /\ status[r] \in Active \ {"cancel_requested"}
    /\ status' = [status EXCEPT ![r] = "cancel_requested"]
    /\ UNCHANGED <<requestVars, owner, lease, turnVars, published, workerVars, faults, stalls>>

\* PATCH of a thread with archived = true: the check, then (in another
\* statement, with no transaction around both) the update.
ArchiveCheck(t) ==
    /\ ~Responding(t)
    /\ archiving' = archiving \cup {t}
    /\ UNCHANGED <<archived, retrying, thread, next, runVars, turnVars, published, workerVars, faults, stalls>>

ArchiveCommit(t) ==
    /\ t \in archiving
    /\ archiving' = archiving \ {t}
    /\ archived' = archived \cup {t}
    /\ UNCHANGED <<retrying, thread, next, runVars, turnVars, published, workerVars, faults, stalls>>

Reopen(t) ==
    /\ t \in archived
    /\ archived' = archived \ {t}
    /\ UNCHANGED <<archiving, retrying, thread, next, runVars, turnVars, published, workerVars, faults, stalls>>

----------------------------------------------------------------------------
(* The worker loop: recover, finalize cancellations, claim, execute.       *)

\* Whatever a worker has to publish, it publishes before its next step.
At(w, label) == pc[w] = label /\ outbox[w] = {}

Done(r)  == [run |-> r, type |-> "done"]
Error(r) == [run |-> r, type |-> "error"]

Publish(w) ==
    \E e \in outbox[w] :
        /\ outbox' = [outbox EXCEPT ![w] = @ \ {e}]
        /\ published' = [published EXCEPT ![e.run] = @ \cup {e.type}]
        /\ UNCHANGED <<requestVars, runVars, turnVars, pc, claim, result, faults, stalls>>

AllRunning   == {r \in Runs : status[r] = "running"}  \* mutant: leases ignored
OrphansOnly  == {r \in Runs : status[r] = "running" /\ owner[r] = NoOwner}  \* mutant
StaleRuns    == {r \in Runs : status[r] = "running" /\ lease[r] = "expired"}

\* A run that nobody should be working on any more goes back to the queue.
RecoverStale(w) ==
    /\ At(w, "recovering")
    /\ pc' = [pc EXCEPT ![w] = "finalizing"]
    /\ status' = [r \in Runs |-> IF r \in StaleRuns THEN "queued" ELSE status[r]]
    /\ owner' = [r \in Runs |-> IF r \in StaleRuns THEN NoOwner ELSE owner[r]]
    /\ lease' = [r \in Runs |-> IF r \in StaleRuns THEN "none" ELSE lease[r]]
    /\ UNCHANGED <<requestVars, turnVars, published, claim, result, outbox, faults, stalls>>

\* Mutant: only the run is settled, its turn is forgotten.
FinalizeRunsOnly(S) ==
    /\ status' = [r \in Runs |-> IF r \in S THEN "cancelled" ELSE status[r]]
    /\ owner' = [r \in Runs |-> IF r \in S THEN NoOwner ELSE owner[r]]
    /\ lease' = [r \in Runs |-> IF r \in S THEN "none" ELSE lease[r]]
    /\ UNCHANGED <<turn, parts>>

\* _finalize_cancel_row for every run of S: the turn is cancelled if it was
\* still running, gets a notice if it shows nothing, and the run is settled.
FinalizeCancelRows(S) ==
    /\ turn' = [r \in Runs |-> IF r \in S /\ turn[r] = "running" THEN "cancelled" ELSE turn[r]]
    /\ parts' = [r \in Runs |-> IF r \in S /\ parts[r] = <<>> THEN <<"error">> ELSE parts[r]]
    /\ status' = [r \in Runs |-> IF r \in S THEN "cancelled" ELSE status[r]]
    /\ owner' = [r \in Runs |-> IF r \in S THEN NoOwner ELSE owner[r]]
    /\ lease' = [r \in Runs |-> IF r \in S THEN "none" ELSE lease[r]]

\* Cancelled runs that no live lease protects, at the clock of this pass.
FinalizableCancels ==
    {r \in Runs : status[r] = "cancel_requested" /\ (owner[r] = NoOwner \/ lease[r] # "live")}

FinalizeCancelRequested(w) ==
    /\ At(w, "finalizing")
    /\ FinalizeCancelRows(FinalizableCancels)
    /\ outbox' = [outbox EXCEPT ![w] = {Done(r) : r \in FinalizableCancels}]
    /\ pc' = [pc EXCEPT ![w] = "claiming"]
    /\ UNCHANGED <<requestVars, published, claim, result, faults, stalls>>

\* The oldest queued run becomes running under this worker's lease.
ClaimRun(w) ==
    /\ At(w, "claiming")
    /\ \E r \in Runs :
        /\ status[r] = "queued"
        /\ \A q \in 1 .. r - 1 : status[q] # "queued"
        /\ status' = [status EXCEPT ![r] = "running"]
        /\ owner' = [owner EXCEPT ![r] = w]
        /\ lease' = [lease EXCEPT ![r] = "live"]
        /\ claim' = [claim EXCEPT ![w] = r]
    /\ pc' = [pc EXCEPT ![w] = "executing"]
    /\ UNCHANGED <<requestVars, turnVars, published, result, outbox, faults, stalls>>

\* Nothing to claim: the loop sleeps and starts over.
ClaimNothing(w) ==
    /\ At(w, "claiming")
    /\ \A r \in Runs : status[r] # "queued"
    /\ pc' = [pc EXCEPT ![w] = "recovering"]
    /\ UNCHANGED <<requestVars, runVars, turnVars, published, claim, result, outbox, faults, stalls>>

----------------------------------------------------------------------------
(* Executing a claim.                                                      *)

\* What the provider stream may report.  "cancelled" reaches only a worker whose
\* run somebody asked to cancel: the stream wrapper saw the request, or the
\* cancel endpoint reached the provider.
StreamOutcomes(r) ==
    {s \in Terminal : s = "cancelled" => status[r] \in {"cancel_requested", "cancelled"}}

\* The provider stream ends with an answer, a failure or a cancellation.
StreamAnswer(w) ==
    /\ At(w, "executing")
    /\ \E s \in StreamOutcomes(claim[w]) : result' = [result EXCEPT ![w] = s]
    /\ pc' = [pc EXCEPT ![w] = "answered"]
    /\ UNCHANGED <<requestVars, runVars, turnVars, published, claim, outbox, faults, stalls>>

\* A requested cancellation drops the answer before anything is written.
CheckCancelled(w) ==
    /\ At(w, "answered")
    /\ \/ /\ status[claim[w]] = "cancel_requested"
          /\ pc' = [pc EXCEPT ![w] = "reconciling"]
          /\ result' = [result EXCEPT ![w] = "none"]
       \/ /\ status[claim[w]] # "cancel_requested"
          /\ pc' = [pc EXCEPT ![w] = "storing"]
          /\ UNCHANGED result
    /\ UNCHANGED <<requestVars, runVars, turnVars, published, claim, outbox, faults, stalls>>

\* The compare-and-set that makes an answer visible.
MayStoreAnyRun(r) == turn[r] = "running"    \* mutant: the run is not compared
MayStore(r) == turn[r] = "running" /\ status[r] = "running"

StoreAnswer(w) ==
    LET r == claim[w]
    IN /\ At(w, "storing")
       /\ \/ /\ MayStore(r)
             /\ turn' = [turn EXCEPT ![r] = result[w]]
             /\ parts' = [parts EXCEPT ![r] =
                    Append(@, IF result[w] = "completed" THEN "answer" ELSE "error")]
             /\ outbox' = [outbox EXCEPT ![w] =
                    {IF result[w] = "failed" THEN Error(r) ELSE Done(r)}]
             /\ pc' = [pc EXCEPT ![w] = "stored"]
          \/ /\ ~MayStore(r)
             /\ pc' = [pc EXCEPT ![w] = "reconciling"]
             /\ UNCHANGED <<turnVars, outbox>>
       /\ result' = [result EXCEPT ![w] = "none"]
       /\ UNCHANGED <<requestVars, runVars, published, claim, faults, stalls>>

\* The executor raises (a missing prompt, an attachment that is gone, a failed
\* write, which rolls back): the error is published first, then persisted.
ExecutorFails(w) ==
    /\ \E label \in {"executing", "answered", "storing"} : At(w, label)
    /\ pc' = [pc EXCEPT ![w] = "failing"]
    /\ outbox' = [outbox EXCEPT ![w] = {Error(claim[w])}]
    /\ result' = [result EXCEPT ![w] = "none"]
    /\ UNCHANGED <<requestVars, runVars, turnVars, published, claim, faults, stalls>>

\* wait_for cancels the executor after ten minutes, wherever it stands: also
\* between its commit and the publication, which is then lost.
ExecutorTimesOut(w) ==
    /\ \/ pc[w] \in {"executing", "answered", "storing"}
       \/ pc[w] = "stored" /\ outbox[w] # {}
    /\ pc' = [pc EXCEPT ![w] = "failing"]
    /\ outbox' = [outbox EXCEPT ![w] = {}]
    /\ result' = [result EXCEPT ![w] = "none"]
    /\ UNCHANGED <<requestVars, runVars, turnVars, published, claim, faults, stalls>>

\* _mark_run_failed: it looks at the run's status, never at its lease owner.
MarkRunFailed(w, label, then) ==
    LET r == claim[w]
    IN /\ At(w, label)
       /\ \/ /\ status[r] = "cancel_requested"
             /\ FinalizeCancelRows({r})
             /\ outbox' = [outbox EXCEPT ![w] = {Done(r)}]
          \/ /\ status[r] = "running"
             /\ turn' = [turn EXCEPT ![r] = IF @ = "running" THEN "failed" ELSE @]
             /\ parts' = [parts EXCEPT ![r] = IF @ = <<>> THEN <<"error">> ELSE @]
             /\ status' = [status EXCEPT ![r] = "failed"]
             /\ owner' = [owner EXCEPT ![r] = NoOwner]
             /\ lease' = [lease EXCEPT ![r] = "none"]
             /\ UNCHANGED outbox
          \/ /\ status[r] \notin {"cancel_requested", "running"}
             /\ UNCHANGED <<runVars, turnVars, outbox>>
       /\ pc' = [pc EXCEPT ![w] = then]
       /\ claim' = [claim EXCEPT ![w] = IF then = "recovering" THEN NoRun ELSE @]
       /\ UNCHANGED <<requestVars, published, result, faults, stalls>>

\* After the executor raised, and after an executor that settled nothing.
FailClaim(w)  == MarkRunFailed(w, "failing", "reconciling")
SettleOpen(w) == MarkRunFailed(w, "settling", "recovering")

\* _reconcile_claim_result: the run takes over the status of its turn.
ReconcileClaim(w) ==
    LET r == claim[w]
        Return == /\ pc' = [pc EXCEPT ![w] = "recovering"]
                  /\ claim' = [claim EXCEPT ![w] = NoRun]
    IN /\ At(w, "stored") \/ At(w, "reconciling")
       /\ \/ /\ status[r] = "cancel_requested"
             /\ FinalizeCancelRows({r})
             /\ outbox' = [outbox EXCEPT ![w] = {Done(r)}]
             /\ Return
          \/ /\ status[r] \notin {"cancel_requested", "running"}
             /\ UNCHANGED <<runVars, turnVars, outbox>>
             /\ Return
          \/ /\ status[r] = "running" /\ turn[r] \in Terminal
             /\ status' = [status EXCEPT ![r] = turn[r]]
             /\ owner' = [owner EXCEPT ![r] = NoOwner]
             /\ lease' = [lease EXCEPT ![r] = "none"]
             /\ UNCHANGED <<turnVars, outbox>>
             /\ Return
          \/ /\ status[r] = "running" /\ turn[r] \notin Terminal
             /\ pc' = [pc EXCEPT ![w] = "settling"]
             /\ UNCHANGED <<runVars, turnVars, outbox, claim>>
       /\ UNCHANGED <<requestVars, published, result, faults, stalls>>

----------------------------------------------------------------------------
(* Leases, errors, crashes.                                                *)

\* The owner is in the loop iteration that claimed the run.
Held(r) == owner[r] \in Workers /\ claim[owner[r]] = r

\* Thirty seconds without a heartbeat.  The heartbeat stops for good once the
\* run is no longer 'running', so a requested cancellation lets the lease lapse
\* under a healthy worker; otherwise a held lease lapses only if its holder is
\* suspended or starved.
LeaseLapses(r) ==
    /\ lease[r] = "live"
    /\ ~Held(r) \/ status[r] = "cancel_requested"
    /\ lease' = [lease EXCEPT ![r] = "expired"]
    /\ UNCHANGED <<requestVars, status, owner, turnVars, published, workerVars, faults, stalls>>

HolderStalls(r) ==
    /\ lease[r] = "live" /\ Held(r) /\ status[r] = "running"
    /\ stalls < MaxStalls
    /\ stalls' = stalls + 1
    /\ lease' = [lease EXCEPT ![r] = "expired"]
    /\ UNCHANGED <<requestVars, status, owner, turnVars, published, workerVars, faults>>

\* The heartbeat of a worker that wakes up renews a lease nobody has taken.
Heartbeat(w) ==
    /\ pc[w] \in ExecutorPcs
    /\ status[claim[w]] = "running" /\ owner[claim[w]] = w
    /\ lease[claim[w]] = "expired"
    /\ lease' = [lease EXCEPT ![claim[w]] = "live"]
    /\ UNCHANGED <<requestVars, status, owner, turnVars, published, workerVars, faults, stalls>>

\* A database error outside the executor: the transaction rolls back, the loop
\* swallows the exception, forgets the claim and starts over.
LoopError(w) ==
    /\ pc[w] \in LoopPcs \cup {"stored", "failing", "reconciling", "settling"}
    /\ outbox[w] = {}
    /\ faults < MaxFaults
    /\ faults' = faults + 1
    /\ pc' = [pc EXCEPT ![w] = "recovering"]
    /\ claim' = [claim EXCEPT ![w] = NoRun]
    /\ UNCHANGED <<requestVars, runVars, turnVars, published, result, outbox, stalls>>

\* The process dies or shuts down; its worker id never comes back.
Crash(w) ==
    /\ pc[w] # "down"
    /\ faults < MaxFaults
    /\ faults' = faults + 1
    /\ pc' = [pc EXCEPT ![w] = "down"]
    /\ claim' = [claim EXCEPT ![w] = NoRun]
    /\ result' = [result EXCEPT ![w] = "none"]
    /\ outbox' = [outbox EXCEPT ![w] = {}]
    /\ owner' = [r \in Runs |-> IF owner[r] = w THEN Dead ELSE owner[r]]
    /\ UNCHANGED <<requestVars, status, lease, turnVars, published, stalls>>

Restart(w) ==
    /\ pc[w] = "down"
    /\ pc' = [pc EXCEPT ![w] = "recovering"]
    /\ UNCHANGED <<requestVars, runVars, turnVars, published, claim, result, outbox, faults, stalls>>

----------------------------------------------------------------------------
Request ==
    \/ \E t \in Threads : CreateRun(t) \/ ArchiveCheck(t) \/ ArchiveCommit(t) \/ Reopen(t)
    \/ \E r \in Runs : RetryCheck(r) \/ RetryCommit(r) \/ CancelTurn(r)

\* What a running worker does next.
WorkerStep(w) ==
    \/ Publish(w)
    \/ RecoverStale(w) \/ FinalizeCancelRequested(w) \/ ClaimRun(w) \/ ClaimNothing(w)
    \/ StreamAnswer(w) \/ CheckCancelled(w) \/ StoreAnswer(w)
    \/ FailClaim(w) \/ ReconcileClaim(w) \/ SettleOpen(w)

Trouble(w) == ExecutorFails(w) \/ ExecutorTimesOut(w) \/ LoopError(w) \/ Crash(w)

Next ==
    \/ Request
    \/ \E w \in Workers : WorkerStep(w) \/ Trouble(w) \/ Heartbeat(w) \/ Restart(w)
    \/ \E r \in Runs : LeaseLapses(r) \/ HolderStalls(r)

Spec == Init /\ [][Next]_vars

\* Worker loops keep running and are started again after a crash (the local
\* launcher restarts the backend), and the clock moves on.  Nothing is assumed
\* of the user.
Fairness ==
    /\ \A w \in Workers : WF_vars(WorkerStep(w)) /\ WF_vars(Restart(w))
    /\ \A r \in Runs : WF_vars(LeaseLapses(r))

FairSpec == Spec /\ Fairness

----------------------------------------------------------------------------
(* What the queue promises.                                                *)

\* A run is settled only when the user's turn is: nothing can be left
\* "responding" behind a run that nobody will pick up again.
SettledRunsHaveSettledTurns ==
    \A r \in Runs : status[r] \in Terminal => turn[r] \in Terminal

\* The visible text agrees with the turn: one answer if it completed, one
\* notice if it failed or was cancelled, nothing while it runs, however many
\* workers executed it.
PartsAgreeWithTurn ==
    \A r \in Runs :
        /\ turn[r] = "completed" => parts[r] = <<"answer">>
        /\ turn[r] \in {"failed", "cancelled"} => parts[r] = <<"error">>
        /\ turn[r] \in {"none", "running"} => parts[r] = <<>>

\* What the queue, the turn and its text say of a question agrees (api and
\* worker write them in one transaction, or not at all).
RunTurnAndTextAgree == SettledRunsHaveSettledTurns /\ PartsAgreeWithTurn

\* A thread never has two active runs, nor a responding turn beside the active
\* run of another turn.
OneActiveRunPerThread ==
    \A r, q \in Runs :
        /\ thread[r] = thread[q]
        /\ status[r] \in Active /\ (status[q] \in Active \/ turn[q] = "running")
        => r = q

\* Subscribers are told "done" only about a turn that is durably over.
DoneOnlyAfterDurable ==
    \A r \in Runs : "done" \in published[r] => turn[r] \in Terminal

\* As long as no live worker's lease has lapsed, a run is executed by at most
\* one worker, whatever crashed before.
ExclusiveExecution ==
    stalls = 0 => \A v, w \in Workers : claim[v] = claim[w] /\ claim[v] # NoRun => v = w

\* One run of a thread at a time, one worker of a run at a time, and its end
\* announced when it is one (the three above).
RunsAreExclusive == OneActiveRunPerThread /\ DoneOnlyAfterDurable /\ ExclusiveExecution

\* Once a cancellation is durable, a turn that is still open can only end
\* cancelled: an answer that arrives later is neither stored nor shown.
LateOutputDiscarded ==
    [][\A r \in Runs : status[r] \in {"cancel_requested", "cancelled"} /\ turn[r] = "running"
            => turn'[r] \in {"running", "cancelled"}]_vars

\* Terminal turns and runs are final, whatever zombie worker reports late.
TerminalIsFinal ==
    [][\A r \in Runs : /\ turn[r] \in Terminal => turn'[r] = turn[r] /\ parts'[r] = parts[r]
                       /\ status[r] \in Terminal => status'[r] = status[r]]_vars

\* What has ended has ended, for a cancellation from the moment it is accepted:
\* no answer of a worker that comes back late changes what the user saw.
EndsAreFinal == LateOutputDiscarded /\ TerminalIsFinal

\* A requested cancellation is honoured even if the worker is gone.
CancelHonoured == \A r \in Runs : status[r] = "cancel_requested" ~> status[r] = "cancelled"

\* "Cannot archive an Assistant thread while GYO is responding"
\* (api/assistant.py:1036 and 1155): an archived thread is not responding.
ArchivedThreadsAreQuiet == \A t \in archived : ~Responding(t)

----------------------------------------------------------------------------
(* The queue implements the questions-and-answers specification: workers,  *)
(* leases, zombies and crashes are invisible to the user.                  *)

Turns == INSTANCE AssistantTurns WITH
    Questions  <- Runs,
    asked      <- {r \in Runs : status[r] # "none"},
    cancelling <- {r \in Runs : status[r] = "cancel_requested"},
    outcome    <- [r \in Runs |-> IF turn[r] \in Terminal THEN turn[r] ELSE "open"],
    settled    <- {r \in Runs : status[r] \in Terminal}

\* Every step of the queue is a step of the abstract specification or none.
ImplementsTurns == Turns!Spec

\* With the fairness of worker loops, also the promise that every question is
\* settled, through crashes and restarts.
ImplementsFairTurns == Turns!FairSpec
=============================================================================
