------------------------------- MODULE Outbox -------------------------------
(***************************************************************************)
(* The notification outbox and its dispatchers.                            *)
(*                                                                         *)
(* A task's final status is written with a row of the outbox.  A           *)
(* dispatcher claims a batch of rows under a lease, posts each to n8n, and *)
(* marks it sent, to be retried, or a dead letter.  SQLite lets one        *)
(* connection write at a time: a claim is part of a transaction that stays *)
(* open until the first row's outcome is audited, and whoever wants to     *)
(* write meanwhile waits for five seconds and fails.                       *)
(*                                                                         *)
(* Rows are numbered in the order of their creation.                       *)
(***************************************************************************)
EXTENDS Integers, FiniteSets

CONSTANTS
    NumRows,      \* notifications
    Workers,      \* dispatchers, one in each running backend
    NoWorker,     \* nobody
    MaxAttempts,  \* notification_outbox.max_attempts (5 in the code)
    BatchSize,    \* rows claimed at a time (10 in the code)
    SlowPosts,    \* whether a cycle may take longer than its lease
    MaxCuts       \* bound: cycles cut short

Rows == 1 .. NumRows

ASSUME ConstantsAssumption ==
    /\ NumRows \in Nat /\ MaxCuts \in Nat /\ SlowPosts \in BOOLEAN
    /\ MaxAttempts \in Nat \ {0} /\ BatchSize \in Nat \ {0}
    /\ NoWorker \notin Workers

VARIABLES
    status,    \* notification_outbox.status, "none" for a row that is not there
    attempts,  \* attempt_count
    locked,    \* locked_by, NoWorker when locked_at is NULL
    lapsed,    \* rows whose locked_at is older than the lease
    writer,    \* the dispatcher whose transaction is open
    at,        \* where a dispatcher is
    batch,     \* the rows it selected, then those it claimed and has not finished
    row,       \* the row it works on, or 0
    accepted,  \* rows n8n has answered with 2xx
    posts,     \* how often n8n has got a row
    cuts       \* cycles that a crash or a locked database cut short

outboxVars == <<status, attempts, locked, lapsed>>
workerVars == <<at, batch, row>>
n8nVars    == <<accepted, posts>>
vars       == <<outboxVars, writer, workerVars, n8nVars, cuts>>

Settled == {"sent", "dead_letter"}

TypeOK ==
    /\ status \in [Rows -> {"none", "pending", "retrying"} \cup Settled]
    /\ attempts \in [Rows -> 0 .. MaxAttempts]
    /\ locked \in [Rows -> Workers \cup {NoWorker}]
    /\ lapsed \subseteq Rows
    /\ writer \in Workers \cup {NoWorker}
    /\ at \in [Workers -> {"idle", "selected", "claimed", "posting", "answered", "ok", "failed", "audited_ok", "audited_failed"}]
    /\ batch \in [Workers -> SUBSET Rows]
    /\ row \in [Workers -> 0 .. NumRows]
    /\ accepted \subseteq Rows
    /\ posts \in [Rows -> Nat]
    /\ cuts \in 0 .. MaxCuts

Init ==
    /\ status = [r \in Rows |-> "none"]
    /\ attempts = [r \in Rows |-> 0]
    /\ locked = [r \in Rows |-> NoWorker]
    /\ lapsed = {}
    /\ writer = NoWorker
    /\ at = [w \in Workers |-> "idle"]
    /\ batch = [w \in Workers |-> {}]
    /\ row = [w \in Workers |-> 0]
    /\ accepted = {}
    /\ posts = [r \in Rows |-> 0]
    /\ cuts = 0

MayWrite(w) == writer \in {NoWorker, w}
Go(w, here) == at' = [at EXCEPT ![w] = here]

-----------------------------------------------------------------------------

\* The transaction of a task that ends; it cannot write in a dispatcher's.
Enqueue(r) ==
    /\ writer = NoWorker
    /\ status[r] = "none" /\ \A q \in Rows : q < r => status[q] # "none"
    /\ status' = [status EXCEPT ![r] = "pending"]
    /\ UNCHANGED <<attempts, locked, lapsed, writer, workerVars, n8nVars, cuts>>

\* Time passes: a lease of 30 s runs out. A batch of ten posts of up to 30 s
\* each is slower than that, which only another dispatcher can tell. A claim
\* goes by the time of its SELECT, and waits for no more than 5 s after it.
Lapse(r) ==
    /\ locked[r] # NoWorker /\ r \notin lapsed
    /\ \A w \in Workers : r \in batch[w] => SlowPosts /\ at[w] # "selected"
    /\ lapsed' = lapsed \cup {r}
    /\ UNCHANGED <<status, attempts, locked, writer, workerVars, n8nVars, cuts>>

-----------------------------------------------------------------------------
(* One cycle of a dispatcher.                                              *)

ClaimablePending(r) == \* mutant
    status[r] = "pending" /\ attempts[r] < MaxAttempts /\ (locked[r] = NoWorker \/ r \in lapsed)
Claimable(r) ==
    /\ status[r] \in {"pending", "retrying"}
    /\ attempts[r] < MaxAttempts
    /\ locked[r] = NoWorker \/ r \in lapsed

\* claim_pending reads the ids of its batch: the oldest rows that are claimable,
\* or were before the open transaction of another dispatcher ...
Unlocked(r) == Claimable(r) \/ (writer # NoWorker /\ r \in batch[writer])

NextBatch ==
    { r \in Rows : Unlocked(r) /\ Cardinality({ q \in 1 .. r : Unlocked(q) }) <= BatchSize }

Select(w) ==
    /\ at[w] = "idle" /\ NextBatch # {}
    /\ batch' = [batch EXCEPT ![w] = NextBatch]
    /\ Go(w, "selected")
    /\ UNCHANGED <<outboxVars, writer, row, n8nVars, cuts>>

\* ... locks those of them that are claimable still, in a transaction that
\* stays open, and works on the rows it has locked.
TakenById(w) == batch[w] \* mutant
Taken(w) == { r \in batch[w] : Claimable(r) }

Claim(w) ==
    /\ at[w] = "selected" /\ writer = NoWorker
    /\ Taken(w) # {}
    /\ locked' = [r \in Rows |-> IF r \in Taken(w) THEN w ELSE locked[r]]
    /\ lapsed' = lapsed \ Taken(w)
    /\ batch' = [batch EXCEPT ![w] = Taken(w)]
    /\ writer' = w
    /\ Go(w, "claimed")
    /\ UNCHANGED <<status, attempts, row, n8nVars, cuts>>

\* Another dispatcher has taken them all, or writes for too long: the cycle is
\* over, and its connection and transaction with it.
ClaimLost(w) ==
    /\ at[w] = "selected"
    /\ writer # NoWorker \/ Taken(w) = {}
    /\ batch' = [batch EXCEPT ![w] = {}]
    /\ Go(w, "idle")
    /\ UNCHANGED <<outboxVars, writer, row, n8nVars, cuts>>

\* The rows of a batch come in the order of their ids, which says nothing.
Post(w) ==
    /\ at[w] = "claimed"
    /\ \E r \in batch[w] : row' = [row EXCEPT ![w] = r]
    /\ Go(w, "posting")
    /\ UNCHANGED <<outboxVars, writer, batch, n8nVars, cuts>>

Answered(w) ==
    /\ at[w] = "posting"
    /\ accepted' = accepted \cup {row[w]}
    /\ posts' = [posts EXCEPT ![row[w]] = @ + 1]
    /\ Go(w, "answered")
    /\ UNCHANGED <<outboxVars, writer, batch, row, cuts>>

\* n8n is not configured, not there, answers with an error or not in time.
Unanswered(w) ==
    /\ at[w] = "posting"
    /\ \E got \in {0, 1} : posts' = [posts EXCEPT ![row[w]] = @ + got]
    /\ Go(w, "failed")
    /\ UNCHANGED <<outboxVars, writer, batch, row, accepted, cuts>>

\* The sender audits a success over a connection of its own, which has to
\* wait for any open transaction, the dispatcher's included.
SenderAudits(w) ==
    /\ at[w] = "answered"
    /\ Go(w, IF writer = NoWorker THEN "ok" ELSE "failed")
    /\ UNCHANGED <<outboxVars, writer, batch, row, n8nVars, cuts>>

\* The audit of the outcome commits, and with it the claim if it is open.
Audit(w) ==
    /\ at[w] \in {"ok", "failed"} /\ MayWrite(w)
    /\ writer' = NoWorker
    /\ Go(w, IF at[w] = "ok" THEN "audited_ok" ELSE "audited_failed")
    /\ UNCHANGED <<outboxVars, batch, row, n8nVars, cuts>>

Unlock(r) == locked' = [locked EXCEPT ![r] = NoWorker] /\ lapsed' = lapsed \ {r}

DoneWith(w) ==
    /\ batch' = [batch EXCEPT ![w] = @ \ {row[w]}]
    /\ row' = [row EXCEPT ![w] = 0]
    /\ Go(w, IF batch[w] = {row[w]} THEN "idle" ELSE "claimed")

MarkSent(w) ==
    /\ at[w] = "audited_ok" /\ MayWrite(w)
    /\ status' = [status EXCEPT ![row[w]] = "sent"]
    /\ Unlock(row[w])
    /\ DoneWith(w)
    /\ UNCHANGED <<attempts, writer, n8nVars, cuts>>

\* One attempt more, and the last one makes it a dead letter.
RetryStatusFailed(n) == IF n >= MaxAttempts THEN "failed" ELSE "retrying" \* mutant
RetryStatus(n) == IF n >= MaxAttempts THEN "dead_letter" ELSE "retrying"

NotAttempted(r) == attempts[r] \* mutant
Attempted(r) == attempts[r] + 1

MarkRetry(w) ==
    /\ at[w] = "audited_failed" /\ MayWrite(w)
    /\ LET n == Attempted(row[w])
       IN /\ attempts' = [attempts EXCEPT ![row[w]] = n]
          /\ status' = [status EXCEPT ![row[w]] = RetryStatus(n)]
    /\ Unlock(row[w])
    /\ DoneWith(w)
    /\ UNCHANGED <<writer, n8nVars, cuts>>

Leave(w) ==
    /\ cuts < MaxCuts
    /\ cuts' = cuts + 1
    /\ batch' = [batch EXCEPT ![w] = {}]
    /\ row' = [row EXCEPT ![w] = 0]
    /\ Go(w, "idle")

\* The database is locked for too long: the cycle ends with its exception,
\* and the rest of the batch waits for the lease to run out.
CycleFails(w) ==
    /\ at[w] \in {"ok", "failed", "audited_ok", "audited_failed"} /\ ~MayWrite(w)
    /\ Leave(w)
    /\ UNCHANGED <<outboxVars, writer, n8nVars>>

\* The process ends, and an open transaction with it; another starts.
Crash(w) ==
    /\ at[w] # "idle"
    /\ Leave(w)
    /\ IF writer = w
       THEN /\ writer' = NoWorker
            /\ locked' = [r \in Rows |-> IF r \in batch[w] THEN NoWorker ELSE locked[r]]
            /\ lapsed' = lapsed \ batch[w]
       ELSE UNCHANGED <<writer, locked, lapsed>>
    /\ UNCHANGED <<status, attempts, n8nVars>>

-----------------------------------------------------------------------------

Cycle(w) ==
    \/ Select(w) \/ Claim(w) \/ ClaimLost(w) \/ Post(w) \/ Answered(w) \/ Unanswered(w) \/ SenderAudits(w)
    \/ Audit(w) \/ MarkSent(w) \/ MarkRetry(w) \/ CycleFails(w)

Next ==
    \/ \E r \in Rows : Enqueue(r) \/ Lapse(r)
    \/ \E w \in Workers : Cycle(w) \/ Crash(w)

Spec == Init /\ [][Next]_vars

\* The loop polls for ever and a post times out; time passes.
Fairness ==
    /\ \A w \in Workers : WF_vars(Cycle(w))
    /\ \A r \in Rows : WF_vars(Lapse(r))

FairSpec == Spec /\ Fairness

-----------------------------------------------------------------------------
(* Properties.                                                             *)

\* A row is marked sent because n8n has accepted it, and given up because all
\* its attempts were used (ADR-004: 2xx, then sent; max attempts, then dead).
SettledForAReason ==
    \A r \in Rows :
        /\ status[r] = "sent" => r \in accepted
        /\ status[r] = "dead_letter" => attempts[r] = MaxAttempts

\* n8n gets a row once for every attempt on record, once for every cycle cut
\* short before it could record one, and once for the attempt that succeeded:
\* retries do not multiply.
PostsAreAccountedFor ==
    \A r \in Rows :
        posts[r] <= attempts[r] + cuts + Cardinality({ w \in Workers : row[w] = r })
                    + (IF status[r] = "sent" THEN 1 ELSE 0)

\* While a lease outlives its cycle, two dispatchers never work on the same row,
\* though both selected it (claim_pending's UPDATE).
ExclusivePosting ==
    \A w, v \in Workers : row[w] = row[v] /\ row[w] # 0 => w = v

\* What is settled stays settled: no row is sent after it was sent or given up.
SettledIsFinal ==
    [][\A r \in Rows : status[r] \in Settled => status'[r] = status[r]]_vars

\* All of this: rows are settled for a reason and for good, and n8n is not
\* posted to in vain or twice at a time.
OutboxIsOrderly ==
    /\ [](SettledForAReason /\ PostsAreAccountedFor /\ ExclusivePosting)
    /\ SettledIsFinal

\* Every notification is settled at last, whatever n8n does, if the
\* dispatcher survives (test_lifecycle_drains_pending_rows).
EveryRowSettles ==
    \A r \in Rows : status[r] = "pending" ~> status[r] \in Settled

\* "2xx -> status='sent'" (ADR-004): what n8n has accepted does not end as a
\* dead letter.
AcceptedIsNotGivenUp ==
    \A r \in Rows : r \in accepted => status[r] # "dead_letter"
=============================================================================
