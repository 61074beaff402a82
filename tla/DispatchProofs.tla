--------------------------- MODULE DispatchProofs ---------------------------
(***************************************************************************)
(* What the notification outbox, the tasks and the tasks of the user's day *)
(* promise: rows that dispatchers and overlapping requests read, decide on *)
(* and write.  Each theorem is about one component, for any number of      *)
(* rows, dispatchers and requests.                                         *)
(***************************************************************************)
EXTENDS MCDispatch, Naturals, FiniteSetTheorems, TLAPS

-----------------------------------------------------------------------------
(* The outbox (module Outbox).                                             *)

Places == {"idle", "selected", "claimed", "posting", "answered", "ok", "failed", "audited_ok", "audited_failed"}

\* TypeOK without the bound on the attempts, which depends on the leases.
Typed ==
    /\ status \in [Rows -> {"none", "pending", "retrying"} \cup Settled]
    /\ attempts \in [Rows -> Nat]
    /\ locked \in [Rows -> Workers \cup {NoWorker}]
    /\ lapsed \subseteq Rows
    /\ writer \in Workers \cup {NoWorker}
    /\ at \in [Workers -> Places]
    /\ batch \in [Workers -> SUBSET Rows]
    /\ row \in [Workers -> 0 .. NumRows]
    /\ accepted \subseteq Rows
    /\ posts \in [Rows -> Nat]
    /\ cuts \in 0 .. MaxCuts

\* A dispatcher has a batch while its cycle lasts, and works on a row of it
\* from the post to the mark.
WorkerShape ==
    \A w \in Workers :
        /\ at[w] = "idle" <=> batch[w] = {}
        /\ at[w] \in {"idle", "selected", "claimed"} <=> row[w] = 0
        /\ row[w] # 0 => row[w] \in batch[w]

\* A transaction is open from a claim to the first outcome.
WriterShape == writer # NoWorker => at[writer] \in {"claimed", "posting", "answered", "ok", "failed"}

\* What a dispatcher takes for a success, n8n has accepted.
SuccessesAreAccepted ==
    \A w \in Workers : at[w] \in {"answered", "ok", "audited_ok"} => row[w] \in accepted

SentIsAccepted == \A r \in Rows : status[r] = "sent" => r \in accepted

BaseInv == Typed /\ WorkerShape /\ WriterShape /\ SuccessesAreAccepted /\ SentIsAccepted

\* A dispatcher selects rows, and takes claimable ones and nothing else.
LEMMA TakenIsClaimable ==
    /\ NextBatch \in SUBSET Rows
    /\ \A w \in Workers : Taken(w) \subseteq batch[w] /\ \A r \in Taken(w) : Claimable(r)
  BY DEF NextBatch, Taken

LEMMA InitBase == Init => BaseInv
  BY ConstantsAssumption
     DEF Init, BaseInv, Typed, WorkerShape, WriterShape, SuccessesAreAccepted, SentIsAccepted, Places, Rows

LEMMA BaseInductive == BaseInv /\ [Next]_vars => BaseInv'
<1> SUFFICES ASSUME BaseInv, [Next]_vars PROVE BaseInv'
  OBVIOUS
<1> USE ConstantsAssumption
    DEF BaseInv, Typed, WorkerShape, WriterShape, SuccessesAreAccepted, SentIsAccepted, Places, Settled, Go
<1>0. 0 \notin Rows /\ \A i \in 0 .. NumRows : i # 0 => i \in Rows
  BY DEF Rows
<1>1. ASSUME NEW r \in Rows, Enqueue(r) PROVE BaseInv'
  BY <1>1 DEF Enqueue, workerVars, n8nVars
<1>2. ASSUME NEW r \in Rows, Lapse(r) PROVE BaseInv'
  BY <1>2 DEF Lapse, workerVars, n8nVars
<1>3. ASSUME NEW w \in Workers, Claim(w) PROVE BaseInv'
  <2>1. Typed'
    BY <1>3, TakenIsClaimable DEF Claim, n8nVars
  <2>2. WorkerShape' /\ WriterShape' /\ SuccessesAreAccepted' /\ SentIsAccepted'
    BY <1>0, <1>3, TakenIsClaimable DEF Claim, n8nVars
  <2>3. QED
    BY <2>1, <2>2
<1>3a. ASSUME NEW w \in Workers, Select(w) \/ ClaimLost(w) PROVE BaseInv'
  BY <1>0, <1>3a, TakenIsClaimable DEF Select, ClaimLost, outboxVars, n8nVars
<1>4. ASSUME NEW w \in Workers, Post(w) PROVE BaseInv'
  <2>1. PICK r \in batch[w] : row' = [row EXCEPT ![w] = r]
    BY <1>4 DEF Post
  <2>2. r \in Rows /\ r \in 0 .. NumRows /\ r # 0
    BY <2>1 DEF Rows
  <2>3. at[w] = "claimed" /\ at' = [at EXCEPT ![w] = "posting"]
        /\ UNCHANGED <<outboxVars, writer, batch, n8nVars, cuts>>
    BY <1>4 DEF Post
  <2>4. QED
    BY <2>1, <2>2, <2>3 DEF outboxVars, n8nVars
<1>5. ASSUME NEW w \in Workers, Answered(w) PROVE BaseInv'
  <2>1. row[w] \in Rows
    BY <1>0, <1>5 DEF Answered
  <2>2. QED
    BY <1>0, <1>5, <2>1 DEF Answered, outboxVars
<1>6. ASSUME NEW w \in Workers, Unanswered(w) PROVE BaseInv'
  <2>1. row[w] \in Rows
    BY <1>0, <1>6 DEF Unanswered
  <2>2. QED
    BY <1>0, <1>6, <2>1 DEF Unanswered, outboxVars
<1>7. ASSUME NEW w \in Workers, SenderAudits(w) PROVE BaseInv'
  BY <1>7 DEF SenderAudits, outboxVars, n8nVars
<1>8. ASSUME NEW w \in Workers, Audit(w) PROVE BaseInv'
  BY <1>8 DEF Audit, outboxVars, n8nVars
<1>9. ASSUME NEW w \in Workers, MarkSent(w) PROVE BaseInv'
  <2>1. row[w] \in Rows /\ row[w] \in accepted /\ row[w] \in batch[w]
    BY <1>0, <1>9 DEF MarkSent
  <2>2. QED
    BY <1>0, <1>9, <2>1 DEF MarkSent, Unlock, DoneWith, n8nVars
<1>10. ASSUME NEW w \in Workers, MarkRetry(w) PROVE BaseInv'
  <2>1. row[w] \in Rows /\ row[w] \in batch[w]
    BY <1>0, <1>10 DEF MarkRetry
  <2>2. QED
    BY <1>0, <1>10, <2>1 DEF MarkRetry, Unlock, DoneWith, RetryStatus, Attempted, n8nVars
<1>11. ASSUME NEW w \in Workers, CycleFails(w) PROVE BaseInv'
  BY <1>0, <1>11 DEF CycleFails, MayWrite, Leave, outboxVars, n8nVars
<1>12. ASSUME NEW w \in Workers, Crash(w) PROVE BaseInv'
  BY <1>0, <1>12 DEF Crash, Leave, n8nVars
<1>13. CASE UNCHANGED vars
  BY <1>13 DEF vars, outboxVars, workerVars, n8nVars
<1>14. QED
  BY <1>1, <1>2, <1>3, <1>3a, <1>4, <1>5, <1>6, <1>7, <1>8, <1>9, <1>10, <1>11, <1>12, <1>13 DEF Next, Cycle

LEMMA BaseHolds == Spec => []BaseInv
  BY InitBase, BaseInductive, PTL DEF Spec

\* Whatever the leases, the crashes and the number of dispatchers: a row is
\* marked sent only if n8n answered it with 2xx (ADR-004).
THEOREM SentWasAccepted == Spec => []SentIsAccepted
<1>1. BaseInv => SentIsAccepted
  BY DEF BaseInv
<1>2. QED
  BY <1>1, BaseHolds, PTL
-----------------------------------------------------------------------------
(* One dispatcher, as main.py starts, or several whose leases outlive their  *)
(* cycles: what a dispatcher has claimed is then its own.                    *)
LeasesSuffice == ~SlowPosts \/ \A v, w \in Workers : v = w

\* What a dispatcher has claimed, and not only selected.
Held(w) == IF at[w] = "selected" THEN {} ELSE batch[w]

\* The rows of a claimed batch are locked by its dispatcher, whose lease runs unless
\* cycles may outlast it, and have an attempt left.
BatchesAreHeld ==
    \A w \in Workers : \A r \in Held(w) :
        /\ locked[r] = w /\ (SlowPosts \/ r \notin lapsed)
        /\ status[r] \in {"pending", "retrying"} /\ attempts[r] < MaxAttempts

AttemptsAreBounded ==
    \A r \in Rows :
        /\ attempts[r] <= MaxAttempts
        /\ status[r] = "dead_letter" => attempts[r] = MaxAttempts

\* A dispatcher has posted the row and not recorded the outcome.
Unrecorded(r) == \E w \in Workers : row[w] = r /\ at[w] # "posting"

PostsAreCounted ==
    \A r \in Rows :
        posts[r] <= attempts[r] + cuts + (IF Unrecorded(r) THEN 1 ELSE 0)
                    + (IF status[r] = "sent" THEN 1 ELSE 0)

LeaseInv == BatchesAreHeld /\ AttemptsAreBounded /\ PostsAreCounted

\* Two dispatchers have no row in common.
LEMMA BatchesAreDisjoint ==
    ASSUME BatchesAreHeld, NEW v \in Workers, NEW w \in Workers, NEW r \in Held(v), r \in Held(w)
    PROVE  v = w
  BY DEF BatchesAreHeld

LEMMA RowIsHeld ==
    ASSUME WorkerShape, NEW w \in Workers, row[w] # 0
    PROVE  row[w] \in Held(w)
  BY DEF WorkerShape, Held

LEMMA InitLease == Init => LeaseInv
  BY ConstantsAssumption
     DEF Init, LeaseInv, BatchesAreHeld, Held, AttemptsAreBounded, PostsAreCounted, Unrecorded, Rows

\* The outcome of a post is recorded, or its cycle is cut short.
LEMMA HeldInductive ==
    ASSUME LeasesSuffice, BaseInv, BatchesAreHeld, [Next]_vars
    PROVE  BatchesAreHeld'
<1> USE DEF BaseInv, Typed, WorkerShape, BatchesAreHeld, Held, Settled, Go
<1>0. 0 \notin Rows /\ \A i \in 0 .. NumRows : i # 0 => i \in Rows
  BY ConstantsAssumption DEF Rows
<1>1. ASSUME NEW r \in Rows, Enqueue(r) PROVE BatchesAreHeld'
  BY <1>1 DEF Enqueue, workerVars
<1>2. ASSUME NEW r \in Rows, Lapse(r) PROVE BatchesAreHeld'
  BY <1>2 DEF Lapse, workerVars
<1>3. ASSUME NEW w \in Workers, Claim(w) PROVE BatchesAreHeld'
  <2>0. Taken(w) \subseteq batch[w] /\ \A r \in Taken(w) : Claimable(r)
    BY TakenIsClaimable
  <2>1. \A v \in Workers : v # w => Held(v) \cap Taken(w) = {}
    <3>1. CASE ~SlowPosts
      BY <2>0, <3>1, ConstantsAssumption DEF Claimable
    <3>2. QED
      BY <3>1 DEF LeasesSuffice
  <2>2. ASSUME NEW v \in Workers, v # w, NEW r \in Held(v)
        PROVE  locked'[r] = locked[r] /\ (r \in lapsed' <=> r \in lapsed)
    BY <1>3, <2>1, <2>2 DEF Claim
  <2>3. ASSUME NEW r \in Taken(w) PROVE locked'[r] = w /\ r \notin lapsed'
    BY <1>3, <2>0, <2>3 DEF Claim
  <2>4. batch'[w] = Taken(w) /\ \A v \in Workers : v # w => batch'[v] = batch[v] /\ at'[v] = at[v]
    BY <1>3 DEF Claim
  <2>5. status' = status /\ attempts' = attempts
    BY <1>3 DEF Claim
  <2>6. QED
    BY <2>0, <2>2, <2>3, <2>4, <2>5 DEF Claimable
<1>3a. ASSUME NEW w \in Workers, Select(w) \/ ClaimLost(w) PROVE BatchesAreHeld'
  BY <1>3a DEF Select, ClaimLost, outboxVars
<1>4. ASSUME NEW w \in Workers,
             Post(w) \/ Answered(w) \/ Unanswered(w) \/ SenderAudits(w) \/ Audit(w)
      PROVE  BatchesAreHeld'
  BY <1>4 DEF Post, Answered, Unanswered, SenderAudits, Audit, outboxVars
<1>5. ASSUME NEW w \in Workers, MarkSent(w) \/ MarkRetry(w) PROVE BatchesAreHeld'
  <2>1. row[w] \in batch[w] /\ row[w] \in Rows
    BY <1>0, <1>5 DEF MarkSent, MarkRetry
  <2>2. \A q \in Rows : q # row[w] =>
            /\ status'[q] = status[q] /\ attempts'[q] = attempts[q] /\ locked'[q] = locked[q]
            /\ q \in lapsed' <=> q \in lapsed
    BY <1>5, <2>1 DEF MarkSent, MarkRetry, Unlock
  <2>3. \A v \in Workers : row[w] \notin Held(v)' /\ Held(v)' \subseteq Held(v)
    BY <1>5, <2>1, BatchesAreDisjoint DEF MarkSent, MarkRetry, DoneWith
  <2>4. QED
    BY <2>2, <2>3
<1>6. ASSUME NEW w \in Workers, CycleFails(w) PROVE BatchesAreHeld'
  BY <1>6 DEF CycleFails, Leave, outboxVars
<1>7. ASSUME NEW w \in Workers, Crash(w) PROVE BatchesAreHeld'
  <2>1. /\ batch' = [batch EXCEPT ![w] = {}]
        /\ UNCHANGED <<status, attempts>>
        /\ \A v \in Workers : v # w => at'[v] = at[v]
        /\ \A q \in Rows \ Held(w) : locked'[q] = locked[q] /\ (q \in lapsed' => q \in lapsed)
    BY <1>7, ConstantsAssumption DEF Crash, Leave, WriterShape
  <2>2. \A v \in Workers : v # w => Held(v) \subseteq Rows \ Held(w)
    BY BatchesAreDisjoint
  <2>3. Held(w)' = {} /\ \A v \in Workers : v # w => Held(v)' = Held(v)
    BY <2>1
  <2>4. QED
    BY <2>1, <2>2, <2>3
<1>8. CASE UNCHANGED vars
  BY <1>8 DEF vars, outboxVars, workerVars
<1>9. QED
  BY <1>1, <1>2, <1>3, <1>3a, <1>4, <1>5, <1>6, <1>7, <1>8 DEF Next, Cycle

LEMMA BoundedInductive ==
    ASSUME BaseInv, BatchesAreHeld, AttemptsAreBounded, [Next]_vars
    PROVE  AttemptsAreBounded'
<1> USE ConstantsAssumption DEF BaseInv, Typed, WorkerShape, AttemptsAreBounded, Settled
<1>0. \A i \in 0 .. NumRows : i # 0 => i \in Rows
  BY DEF Rows
<1>1. ASSUME UNCHANGED <<status, attempts>> PROVE AttemptsAreBounded'
  BY <1>1
<1>2. ASSUME NEW r \in Rows, Enqueue(r) PROVE AttemptsAreBounded'
  BY <1>2 DEF Enqueue
<1>3. ASSUME NEW w \in Workers, MarkSent(w) PROVE AttemptsAreBounded'
  BY <1>0, <1>3 DEF MarkSent
<1>4. ASSUME NEW w \in Workers, MarkRetry(w) PROVE AttemptsAreBounded'
  <2>1. row[w] \in Rows /\ row[w] \in batch[w]
    BY <1>0, <1>4 DEF MarkRetry
  <2>2. attempts[row[w]] < MaxAttempts
    BY <1>4, <2>1, RowIsHeld DEF MarkRetry, BatchesAreHeld
  <2>3. QED
    BY <1>4, <2>1, <2>2 DEF MarkRetry, Attempted, RetryStatus
<1>5. QED
  BY <1>1, <1>2, <1>3, <1>4
     DEF Next, Cycle, Lapse, Select, Claim, ClaimLost, Post, Answered, Unanswered, SenderAudits, Audit,
         CycleFails, Crash,
         Leave, vars, outboxVars

LEMMA CountedInductive ==
    ASSUME BaseInv, BatchesAreHeld, PostsAreCounted, [Next]_vars
    PROVE  PostsAreCounted'
<1> USE DEF BaseInv, Typed, WorkerShape, Settled, Go
<1> DEFINE Slack(r) == attempts[r] + cuts + (IF Unrecorded(r) THEN 1 ELSE 0)
                       + (IF status[r] = "sent" THEN 1 ELSE 0)
<1>0. /\ 0 \notin Rows /\ \A i \in 0 .. NumRows : i # 0 => i \in Rows
      /\ cuts \in Nat
  BY ConstantsAssumption DEF Rows
<1>1. ASSUME NEW r \in Rows, Enqueue(r) PROVE PostsAreCounted'
  BY <1>1 DEF Enqueue, workerVars, n8nVars, PostsAreCounted, Unrecorded
<1>2. ASSUME UNCHANGED <<status, attempts, posts, cuts>>, \A q \in Rows : Unrecorded(q) => Unrecorded(q)'
      PROVE  PostsAreCounted'
  BY <1>0, <1>2 DEF PostsAreCounted
<1>3. ASSUME NEW r \in Rows, Lapse(r) PROVE PostsAreCounted'
  BY <1>2, <1>3 DEF Lapse, workerVars, n8nVars, Unrecorded
<1>4. ASSUME NEW w \in Workers,
             Select(w) \/ Claim(w) \/ ClaimLost(w) \/ Post(w) \/ SenderAudits(w) \/ Audit(w)
      PROVE  PostsAreCounted'
  <2>1. \A v \in Workers, q \in Rows : row[v] = q /\ at[v] # "posting" => row'[v] = q /\ at'[v] # "posting"
    BY <1>0, <1>4 DEF Select, Claim, ClaimLost, Post, SenderAudits, Audit
  <2>2. QED
    BY <1>2, <1>4, <2>1 DEF Select, Claim, ClaimLost, Post, SenderAudits, Audit, outboxVars, n8nVars,
       Unrecorded
<1>5. ASSUME NEW w \in Workers, Answered(w) \/ Unanswered(w) PROVE PostsAreCounted'
  <2>1. PICK r \in Rows : r = row[w] /\ r \in batch[w] /\ at[w] = "posting"
    BY <1>0, <1>5 DEF Answered, Unanswered
  <2>2. ~Unrecorded(r) /\ Unrecorded(r)'
    <3>1. \A v \in Workers : row[v] = r => v = w
      BY <1>0, <2>1, BatchesAreDisjoint, RowIsHeld
    <3>2. row' = row /\ at'[w] # "posting"
      BY <1>5 DEF Answered, Unanswered
    <3>3. QED
      BY <2>1, <3>1, <3>2 DEF Unrecorded
  <2>3. \A q \in Rows : q # r => posts'[q] = posts[q] /\ (Unrecorded(q) => Unrecorded(q)')
    BY <1>5, <2>1 DEF Answered, Unanswered, Unrecorded
  <2>4. posts'[r] <= posts[r] + 1
    BY <1>5, <2>1 DEF Answered, Unanswered
  <2>5. UNCHANGED <<status, attempts, cuts>> /\ posts' \in [Rows -> Nat]
    BY <1>5, <2>1 DEF Answered, Unanswered, outboxVars
  <2>6. posts'[r] <= Slack(r)'
    <3>1. posts[r] <= attempts[r] + cuts + (IF status[r] = "sent" THEN 1 ELSE 0)
      BY <1>0, <2>1, <2>2 DEF PostsAreCounted
    <3>2. Slack(r)' = attempts[r] + cuts + 1 + (IF status[r] = "sent" THEN 1 ELSE 0)
      BY <2>2, <2>5
    <3>3. posts'[r] \in Nat /\ posts[r] \in Nat /\ attempts[r] \in Nat
      BY <2>1, <2>5
    <3>4. QED
      BY <1>0, <2>4, <3>1, <3>2, <3>3
  <2>7. ASSUME NEW q \in Rows, q # r PROVE posts'[q] <= Slack(q)'
    BY <1>0, <2>3, <2>5, <2>7 DEF PostsAreCounted
  <2>8. QED
    BY <2>6, <2>7 DEF PostsAreCounted
<1>6. ASSUME NEW w \in Workers, MarkSent(w) \/ MarkRetry(w) PROVE PostsAreCounted'
  <2>1. PICK r \in Rows : r = row[w] /\ r \in batch[w] /\ status[r] # "sent"
    BY <1>0, <1>6, RowIsHeld DEF MarkSent, MarkRetry, BatchesAreHeld
  <2>2. \A q \in Rows : q # r => /\ status'[q] = status[q] /\ attempts'[q] = attempts[q]
                                 /\ Unrecorded(q) => Unrecorded(q)'
    BY <1>6, <2>1 DEF MarkSent, MarkRetry, DoneWith, Unrecorded
  <2>3. posts' = posts /\ cuts' = cuts
    BY <1>6 DEF MarkSent, MarkRetry, n8nVars
  <2>4. \/ status'[r] = "sent" /\ attempts'[r] = attempts[r]
        \/ status'[r] # "sent" /\ attempts'[r] = attempts[r] + 1
    BY <1>6, <2>1 DEF MarkSent, MarkRetry, Attempted, RetryStatus
  <2>5. QED
    BY <1>0, <2>1, <2>2, <2>3, <2>4 DEF PostsAreCounted
<1>7. ASSUME NEW w \in Workers, CycleFails(w) \/ Crash(w) PROVE PostsAreCounted'
  <2>1. UNCHANGED <<status, attempts, posts>> /\ cuts' = cuts + 1
    BY <1>7 DEF CycleFails, Crash, Leave, outboxVars, n8nVars
  <2>2. QED
    BY <1>0, <2>1 DEF PostsAreCounted
<1>8. CASE UNCHANGED vars
  BY <1>2, <1>8 DEF vars, outboxVars, workerVars, n8nVars, Unrecorded
<1>9. QED
  BY <1>1, <1>3, <1>4, <1>5, <1>6, <1>7, <1>8 DEF Next, Cycle

LEMMA LeaseHolds == ASSUME LeasesSuffice PROVE Spec => [](BaseInv /\ LeaseInv)
<1>1. BaseInv /\ LeaseInv /\ [Next]_vars => (BaseInv /\ LeaseInv)'
  BY BaseInductive, HeldInductive, BoundedInductive, CountedInductive DEF LeaseInv
<1>2. QED
  BY <1>1, InitBase, InitLease, PTL DEF Spec

\* With one dispatcher, or cycles that end within their lease, no row is
\* attempted more often than max_attempts, and every column keeps its type.
THEOREM TypeCorrect == ASSUME LeasesSuffice PROVE Spec => []TypeOK
<1>1. BaseInv /\ LeaseInv => TypeOK
  BY ConstantsAssumption DEF BaseInv, Typed, LeaseInv, AttemptsAreBounded, TypeOK, Places
<1>2. QED
  BY <1>1, LeaseHolds, PTL

\* What was sent or given up is neither sent again nor brought back.
LEMMA Finality == ASSUME LeasesSuffice PROVE Spec => SettledIsFinal
<1> DEFINE Step == \A r \in Rows : status[r] \in Settled => status'[r] = status[r]
<1>1. BaseInv /\ LeaseInv /\ [Next]_vars => [Step]_vars
  <2> SUFFICES ASSUME BaseInv, LeaseInv, Next PROVE Step
    OBVIOUS
  <2> USE DEF BaseInv, Typed, Settled
  <2>1. ASSUME NEW r \in Rows, Enqueue(r) PROVE Step
    BY <2>1 DEF Enqueue
  <2>2. ASSUME NEW w \in Workers, MarkSent(w) \/ MarkRetry(w) PROVE Step
    <3>1. row[w] \in batch[w] /\ status[row[w]] \notin Settled
      BY <2>2, RowIsHeld DEF MarkSent, MarkRetry, WorkerShape, LeaseInv, BatchesAreHeld
    <3>2. \A q \in Rows : q # row[w] => status'[q] = status[q]
      BY <2>2 DEF MarkSent, MarkRetry
    <3>3. QED
      BY <3>1, <3>2
  <2>3. QED
    BY <2>1, <2>2
       DEF Next, Cycle, Lapse, Select, Claim, ClaimLost, Post, Answered, Unanswered, SenderAudits, Audit,
         CycleFails, Crash,
           Leave, outboxVars
<1>2. QED
  BY <1>1, LeaseHolds, PTL DEF Spec, SettledIsFinal

\* With one dispatcher, however slow, or with several whose cycles end within
\* their lease: a row is sent because n8n accepted it and given up because its
\* attempts were used up; n8n gets a row no more often than attempts and cut
\* cycles account for; no two dispatchers work on the same row; and what was
\* sent or given up is neither sent again nor brought back.
THEOREM Orderly ==
    ASSUME LeasesSuffice
    PROVE  Spec => OutboxIsOrderly
<1>1. BaseInv /\ LeaseInv => ExclusivePosting
  BY RowIsHeld DEF BaseInv, LeaseInv, BatchesAreHeld, ExclusivePosting
<1>2. BaseInv /\ LeaseInv => SettledForAReason
  BY DEF BaseInv, SentIsAccepted, LeaseInv, AttemptsAreBounded, SettledForAReason
<1>3. ASSUME BaseInv, LeaseInv, NEW r \in Rows
      PROVE  posts[r] <= attempts[r] + cuts + Cardinality({ w \in Workers : row[w] = r })
                         + (IF status[r] = "sent" THEN 1 ELSE 0)
  <2> DEFINE Working == { w \in Workers : row[w] = r }
  <2>1. r # 0 /\ attempts[r] \in Nat /\ cuts \in Nat /\ posts[r] \in Nat
    BY <1>3, ConstantsAssumption DEF BaseInv, Typed, Rows
  <2>2. CASE \E w \in Workers : row[w] = r
    <3>1. PICK w \in Workers : row[w] = r
      BY <2>2
    <3>2. Working = {w}
      BY <1>1, <1>3, <2>1, <3>1 DEF ExclusivePosting
    <3>3. Cardinality(Working) = 1
      BY <3>2, FS_Singleton
    <3>4. QED
      BY <1>3, <2>1, <3>3 DEF LeaseInv, PostsAreCounted
  <2>3. CASE ~\E w \in Workers : row[w] = r
    <3>1. Working = {}
      BY <2>3
    <3>2. Cardinality(Working) = 0
      BY <3>1, FS_EmptySet
    <3>3. ~Unrecorded(r)
      BY <2>3 DEF Unrecorded
    <3>4. QED
      BY <1>3, <2>1, <3>2, <3>3 DEF LeaseInv, PostsAreCounted
  <2>4. QED
    BY <2>2, <2>3
<1>4. BaseInv /\ LeaseInv => PostsAreAccountedFor
  BY <1>3 DEF PostsAreAccountedFor
<1>5. QED
  BY <1>1, <1>2, <1>4, LeaseHolds, Finality, PTL DEF OutboxIsOrderly

-----------------------------------------------------------------------------
(* Tasks (module Tasks).                                                   *)

\* A request under way has its task, and a decision its action.
RequestsFit ==
    \A r \in Requests : req[r].at # "idle" =>
        /\ req[r].task \in TaskIds /\ req[r].op \in Lifecycle!Ops
        /\ req[r].op \in {"allow", "deny"} => req[r].action \in ActionIds

TasksInv == Lifecycle!TasksAgree /\ RequestsFit

LEMMA TasksInit == Lifecycle!Init => TasksInv
<1> SUFFICES ASSUME Lifecycle!Init PROVE TasksInv
  OBVIOUS
<1> USE DEF Lifecycle!Init, Lifecycle!Unknown, Lifecycle!NoRequest
<1>1. archived \in BOOLEAN
  BY Zenon
<1>2. Lifecycle!TypeOK
  BY <1>1 DEF Lifecycle!TypeOK, Lifecycle!Statuses
<1>3. QED
  BY <1>2 DEF TasksInv, RequestsFit, Lifecycle!TasksAgree, Lifecycle!WaitingIsDecidable, Lifecycle!EndIsNotified

\* A request's transaction: the status of its task, the action it asks for or
\* decides, and the notice of a cancellation.
LEMMA TasksWrite ==
    ASSUME TasksInv, NEW r \in Requests, Lifecycle!Write(r)
    PROVE  TasksInv'
<1> USE TasksAssumption
<1>1. PICK t \in TaskIds : t = req[r].task
  BY DEF TasksInv, RequestsFit, Lifecycle!Write
<1>2. PICK op \in Lifecycle!Ops : op = req[r].op
  BY DEF TasksInv, RequestsFit, Lifecycle!Write
<1>3. /\ taskStatus' = [taskStatus EXCEPT ![t] = Lifecycle!Target(op)]
      /\ req' = [req EXCEPT ![r] = Lifecycle!NoRequest] /\ UNCHANGED <<archived, run>>
      /\ notices' = (IF op = "cancel" THEN notices \cup {<<t, "cancelled">>} ELSE notices)
      /\ crossed' = Lifecycle!CrossedBy(t, op, req[r].action)
  BY <1>1, <1>2 DEF Lifecycle!Write, Lifecycle!Notify
<1>4. /\ Lifecycle!Target(op) \in {"queued", "running", "cancelled", "waiting_approval", "failed"}
      /\ Lifecycle!Target(op) = "waiting_approval" <=> op = "ask"
      /\ Lifecycle!Target(op) = "cancelled" <=> op = "cancel"
  BY DEF Lifecycle!Target, Lifecycle!Ops
<1>5. /\ action' \in [ActionIds -> [task : TaskIds \cup {NoTask}, status : {"none", "pending", "allowed", "denied"}]]
      /\ crossed' \in SUBSET TaskIds /\ crossed \ {t} \subseteq crossed'
      /\ \A a \in ActionIds : action[a].task \in TaskIds \ (crossed' \cup {t}) => action'[a] = action[a]
      /\ op = "ask" => \E a \in ActionIds : action'[a] = [task |-> t, status |-> "pending"]
  <2> DEFINE Action == [task : TaskIds \cup {NoTask}, status : {"none", "pending", "allowed", "denied"}]
         Kept == /\ action' \in [ActionIds -> Action]
                 /\ crossed' \in SUBSET TaskIds /\ crossed \ {t} \subseteq crossed'
                 /\ \A a \in ActionIds : action[a].task \in TaskIds \ (crossed' \cup {t}) => action'[a] = action[a]
                 /\ op = "ask" => \E a \in ActionIds : action'[a] = [task |-> t, status |-> "pending"]
  <2>0. action \in [ActionIds -> Action] /\ crossed \in SUBSET TaskIds
    BY DEF TasksInv, Lifecycle!TasksAgree, Lifecycle!TypeOK
  <2>1. ASSUME op = "ask" PROVE Kept
    <3>1. PICK a \in ActionIds : /\ action[a] = Lifecycle!Unknown
                                 /\ action' = [action EXCEPT ![a] = [task |-> t, status |-> "pending"]]
      BY <1>1, <1>2, <2>1 DEF Lifecycle!Write, Lifecycle!AskFor
    <3>2. action[a].task = NoTask
      BY <3>1 DEF Lifecycle!Unknown
    <3>3. crossed' = crossed \ {t}
      BY <1>3, <2>1 DEF Lifecycle!CrossedBy
    <3>4. QED
      BY <2>0, <3>1, <3>2, <3>3
  <2>2. ASSUME NEW d \in {"allowed", "denied"}, Lifecycle!Decide(req[r].action, d), op \in {"allow", "deny"}
        PROVE  Kept
    <3>1. PICK a \in ActionIds : a = req[r].action
      BY <1>2, <2>2 DEF TasksInv, RequestsFit, Lifecycle!Write
    <3>2. crossed' = crossed \cup ({action[a].task} \ {t, NoTask})
      BY <1>3, <2>2, <3>1 DEF Lifecycle!CrossedBy
    <3>3. action[a] \in Action
      BY <2>0
    <3>4. PICK b : b = [action[a] EXCEPT !.status = d]
      OBVIOUS
    <3>5. b \in Action
      BY <3>3, <3>4
    <3>6. \/ action' = action
          \/ action' = [action EXCEPT ![a] = b]
      BY <2>2, <3>1, <3>4 DEF Lifecycle!Decide
    <3>7. QED
      BY <2>0, <2>2, <3>2, <3>3, <3>5, <3>6
  <2>3. ASSUME op \notin {"ask", "allow", "deny"} PROVE Kept
    <3>1. action' = action
      BY <1>2, <2>3 DEF Lifecycle!Write
    <3>2. crossed' = crossed
      BY <1>3, <2>3 DEF Lifecycle!CrossedBy
    <3>3. QED
      BY <2>0, <2>3, <3>1, <3>2
  <2>4. QED
    BY <1>2, <2>1, <2>2, <2>3 DEF Lifecycle!Write
<1>6. Lifecycle!TypeOK'
  BY <1>3, <1>4, <1>5 DEF TasksInv, Lifecycle!TasksAgree, Lifecycle!TypeOK, Lifecycle!Statuses,
     Lifecycle!Terminal, Lifecycle!NoRequest
<1>7. Lifecycle!WaitingIsDecidable'
  <2> SUFFICES ASSUME NEW u \in TaskIds \ crossed', taskStatus'[u] = "waiting_approval"
               PROVE  \E a \in ActionIds : action'[a] = [task |-> u, status |-> "pending"]
    BY DEF Lifecycle!WaitingIsDecidable
  <2>1. CASE u = t
    BY <1>3, <1>4, <1>5, <2>1 DEF TasksInv, Lifecycle!TasksAgree, Lifecycle!TypeOK
  <2>2. CASE u # t
    <3>1. PICK a \in ActionIds : action[a] = [task |-> u, status |-> "pending"]
      BY <1>3, <1>5, <2>2 DEF TasksInv, Lifecycle!TasksAgree, Lifecycle!TypeOK, Lifecycle!WaitingIsDecidable
    <3>2. action[a].task = u
      BY <3>1
    <3>3. QED
      BY <1>5, <2>2, <3>1, <3>2
  <2>3. QED
    BY <2>1, <2>2
<1>8. Lifecycle!EndIsNotified'
  BY <1>3, <1>4 DEF TasksInv, Lifecycle!TasksAgree, Lifecycle!TypeOK, Lifecycle!EndIsNotified
<1>9. RequestsFit'
  BY <1>3 DEF TasksInv, Lifecycle!TasksAgree, Lifecycle!TypeOK, RequestsFit, Lifecycle!NoRequest
<1>10. QED
  BY <1>6, <1>7, <1>8, <1>9 DEF TasksInv, Lifecycle!TasksAgree

LEMMA TasksStep == TasksInv /\ [Lifecycle!Next]_(Lifecycle!vars) => TasksInv'
<1> SUFFICES ASSUME TasksInv, [Lifecycle!Next]_(Lifecycle!vars) PROVE TasksInv'
  OBVIOUS
<1> USE TasksAssumption DEF Lifecycle!NoRequest
<1>1. ASSUME NEW r \in Requests, Lifecycle!Check(r) PROVE TasksInv'
  <2>1. PICK op \in Lifecycle!Ops, t \in TaskIds, a \in ActionIds \cup {NoAction} :
           /\ (a # NoAction) = (op \in {"allow", "deny"})
           /\ req' = [req EXCEPT ![r] = [at |-> "checked", op |-> op, task |-> t, action |-> a]]
    BY <1>1 DEF Lifecycle!Check
  <2>2. UNCHANGED <<taskStatus, action, notices, archived, run, crossed>>
    BY <1>1 DEF Lifecycle!Check
  <2>3. Lifecycle!TypeOK'
    BY <2>1, <2>2 DEF TasksInv, Lifecycle!TasksAgree, Lifecycle!TypeOK
  <2>4. RequestsFit'
    BY <2>1, <2>2 DEF TasksInv, Lifecycle!TasksAgree, Lifecycle!TypeOK, RequestsFit
  <2>5. QED
    BY <2>2, <2>3, <2>4 DEF TasksInv, Lifecycle!TasksAgree, Lifecycle!WaitingIsDecidable, Lifecycle!EndIsNotified
<1>2. ASSUME NEW r \in Requests, Lifecycle!Validate(r) PROVE TasksInv'
  <2>1. /\ UNCHANGED <<taskStatus, action, notices, archived, run, crossed>> /\ req[r].at # "idle"
        /\ \/ req' = [req EXCEPT ![r] = [req[r] EXCEPT !.at = "validated"]]
           \/ req' = [req EXCEPT ![r] = Lifecycle!NoRequest]
    BY <1>2 DEF Lifecycle!Validate
  <2>2. PICK q : q = req[r]
    OBVIOUS
  <2>3. q \in [at : {"idle", "checked", "validated"}, op : Lifecycle!Ops \cup {"none"},
               task : TaskIds \cup {NoTask}, action : ActionIds \cup {NoAction}]
    BY <2>2 DEF TasksInv, Lifecycle!TasksAgree, Lifecycle!TypeOK
  <2>4. PICK v : v = [q EXCEPT !.at = "validated"]
    OBVIOUS
  <2>5. /\ v \in [at : {"idle", "checked", "validated"}, op : Lifecycle!Ops \cup {"none"},
                 task : TaskIds \cup {NoTask}, action : ActionIds \cup {NoAction}]
        /\ v.op = q.op /\ v.task = q.task /\ v.action = q.action
    BY <2>3, <2>4
  <2>6. CASE req' = [req EXCEPT ![r] = v]
    <3>1. Lifecycle!TypeOK'
      BY <2>1, <2>5, <2>6 DEF TasksInv, Lifecycle!TasksAgree, Lifecycle!TypeOK
    <3>2. RequestsFit'
      BY <2>1, <2>2, <2>5, <2>6 DEF TasksInv, Lifecycle!TasksAgree, Lifecycle!TypeOK, RequestsFit
    <3>3. QED
      BY <2>1, <3>1, <3>2 DEF TasksInv, Lifecycle!TasksAgree, Lifecycle!WaitingIsDecidable, Lifecycle!EndIsNotified
  <2>7. CASE req' = [req EXCEPT ![r] = Lifecycle!NoRequest]
    <3>1. Lifecycle!TypeOK'
      BY <2>1, <2>7 DEF TasksInv, Lifecycle!TasksAgree, Lifecycle!TypeOK
    <3>2. RequestsFit'
      BY <2>1, <2>7 DEF TasksInv, Lifecycle!TasksAgree, Lifecycle!TypeOK, RequestsFit
    <3>3. QED
      BY <2>1, <3>1, <3>2 DEF TasksInv, Lifecycle!TasksAgree, Lifecycle!WaitingIsDecidable, Lifecycle!EndIsNotified
  <2>8. QED
    BY <2>1, <2>2, <2>4, <2>6, <2>7
<1>3. ASSUME NEW t \in TaskIds, Lifecycle!Submit(t) PROVE TasksInv'
  <2>1. Lifecycle!TypeOK'
    BY <1>3 DEF Lifecycle!Submit, TasksInv, Lifecycle!TasksAgree, Lifecycle!TypeOK, Lifecycle!Statuses
  <2>2. QED
    BY <1>3, <2>1 DEF Lifecycle!Submit, TasksInv, RequestsFit, Lifecycle!TasksAgree, Lifecycle!TypeOK,
       Lifecycle!WaitingIsDecidable, Lifecycle!EndIsNotified
<1>4. ASSUME NEW t \in TaskIds, Lifecycle!RunEnds(t) PROVE TasksInv'
  BY <1>4 DEF Lifecycle!RunEnds, TasksInv, RequestsFit, Lifecycle!TasksAgree, Lifecycle!TypeOK,
     Lifecycle!WaitingIsDecidable, Lifecycle!EndIsNotified
<1>5. ASSUME NEW t \in TaskIds, Lifecycle!RunWrites(t) PROVE TasksInv'
  <2>1. PICK end \in {"succeeded", "failed"} :
           /\ taskStatus' = [taskStatus EXCEPT ![t] = end] /\ notices' = notices \cup {<<t, end>>}
           /\ run' = [run EXCEPT ![t] = "over"] /\ UNCHANGED <<action, archived, req, crossed>>
    BY <1>5 DEF Lifecycle!RunWrites, Lifecycle!Notify
  <2>2. Lifecycle!TypeOK'
    BY <2>1 DEF TasksInv, Lifecycle!TasksAgree, Lifecycle!TypeOK, Lifecycle!Statuses, Lifecycle!Terminal
  <2>3. QED
    BY <2>1, <2>2 DEF TasksInv, RequestsFit, Lifecycle!TasksAgree, Lifecycle!TypeOK,
       Lifecycle!WaitingIsDecidable, Lifecycle!EndIsNotified
<1>6. CASE Lifecycle!Archive
  BY <1>6 DEF Lifecycle!Archive, TasksInv, RequestsFit, Lifecycle!TasksAgree, Lifecycle!TypeOK,
     Lifecycle!WaitingIsDecidable, Lifecycle!EndIsNotified
<1>7. CASE Lifecycle!Crash
  BY <1>7 DEF Lifecycle!Crash, TasksInv, RequestsFit, Lifecycle!TasksAgree, Lifecycle!TypeOK,
     Lifecycle!WaitingIsDecidable, Lifecycle!EndIsNotified
<1>8. CASE UNCHANGED Lifecycle!vars
  BY <1>8 DEF Lifecycle!vars, TasksInv, RequestsFit, Lifecycle!TasksAgree, Lifecycle!TypeOK,
     Lifecycle!WaitingIsDecidable, Lifecycle!EndIsNotified
<1>9. ASSUME NEW r \in Requests, Lifecycle!WriteFails(r) PROVE TasksInv'
  BY <1>9 DEF Lifecycle!WriteFails, TasksInv, RequestsFit, Lifecycle!TasksAgree, Lifecycle!TypeOK,
     Lifecycle!WaitingIsDecidable, Lifecycle!EndIsNotified
<1>10. ASSUME NEW t \in TaskIds, Lifecycle!RunWriteFails(t) PROVE TasksInv'
  BY <1>10 DEF Lifecycle!RunWriteFails, TasksInv, RequestsFit, Lifecycle!TasksAgree, Lifecycle!TypeOK,
     Lifecycle!WaitingIsDecidable, Lifecycle!EndIsNotified
<1>11. QED
  BY <1>1, <1>2, <1>3, <1>4, <1>5, <1>6, <1>7, <1>8, <1>9, <1>10, TasksWrite
     DEF Lifecycle!Next, Lifecycle!RequestStep, Lifecycle!RunStep

\* However requests and runs overlap, and whatever actions their decisions name, a
\* task that waits has an action to decide on unless that was decided under
\* another task's name, and one that succeeded or was cancelled has its notice in
\* the outbox (services/task_service.py).
THEOREM TasksStayDecidable == Lifecycle!Spec => []TasksAgree
<1>1. TasksInv => TasksAgree
  BY DEF TasksInv, TasksAgree
<1>2. QED
  BY <1>1, TasksInit, TasksStep, PTL DEF Lifecycle!Spec

-----------------------------------------------------------------------------
(* The tasks of the user's day and their hand-off (module WorkspaceTasks). *)

DayRow == [work : Works \cup {"none"}, human : BOOLEAN, version : 0..MaxTaskVersion]
DayCall == [op : {"update", "delete", "handoff"}, task : WorkspaceTaskIds, saw : DayRow]
DayJob == [task : WorkspaceTaskIds \cup {"none"}, bound : Works \cup {"none"}]

DayTyped ==
    /\ tasks \in [WorkspaceTaskIds -> DayRow] /\ jobs \in [JobIds -> DayJob] /\ gone \subseteq Works
    /\ call \in [Windows -> {HandOff!Free} \cup DayCall \cup [op : {"answer"}, task : WorkspaceTaskIds]]
    /\ \A t \in WorkspaceTaskIds : tasks[t] # HandOff!NoRow => tasks[t].work \in Works

\* A job is of a task that is there, in its Work, and no other is of that task.
JobsFit ==
    /\ \A j \in JobIds :
           /\ jobs[j].task = "none" => jobs[j] = HandOff!NoJob
           /\ jobs[j].task # "none" => /\ tasks[jobs[j].task] # HandOff!NoRow
                                       /\ jobs[j].bound \in {"none", tasks[jobs[j].task].work}
    /\ \A i, j \in JobIds : jobs[i].task = jobs[j].task => i = j \/ jobs[i].task = "none"

\* What a request saw is not newer than the row, is the row if their versions
\* agree, and of its Work; a promised job is there as long as the task.
Current(saw, seen) ==
    /\ saw.work \in Works
    /\ seen # HandOff!NoRow => /\ saw.work = seen.work /\ saw.version <= seen.version
                          /\ (saw.version = seen.version => saw = seen)

CallsFit ==
    \A c \in Windows :
        /\ call[c] \in DayCall => Current(call[c].saw, tasks[call[c].task])
        /\ call[c].op = "answer" /\ tasks[call[c].task] # HandOff!NoRow =>
              \E j \in JobIds : jobs[j] = [task |-> call[c].task, bound |-> tasks[call[c].task].work]

DayInv == DayTyped /\ JobsFit /\ CallsFit

LEMMA DayStart == HandOff!WorkspaceInit => DayInv
<1> SUFFICES ASSUME HandOff!WorkspaceInit PROVE DayInv
  OBVIOUS
<1> USE HandOffAssumption DEF HandOff!WorkspaceInit, HandOff!NoRow, HandOff!NoJob, HandOff!Free
<1>0. /\ HandOff!NoRow \in DayRow /\ HandOff!NoJob \in DayJob
      /\ \A w \in Works : [work |-> w, human |-> FALSE, version |-> 1] \in DayRow
      /\ \A t \in WorkspaceTaskIds : [task |-> t, bound |-> "none"] \in DayJob
  <2>1. 0 \in 0..MaxTaskVersion /\ 1 \in 0..MaxTaskVersion
    OBVIOUS
  <2>2. QED
    BY <2>1 DEF DayRow, DayJob
<1>1. tasks \in [WorkspaceTaskIds -> DayRow] /\ jobs \in [JobIds -> DayJob]
  <2>1. ASSUME NEW t \in WorkspaceTaskIds PROVE tasks[t] \in DayRow
    <3>1. tasks[t] \in {HandOff!NoRow} \cup {[work |-> w, human |-> FALSE, version |-> 1] : w \in Works}
      BY Zenon
    <3>2. CASE tasks[t] = HandOff!NoRow
      BY <1>0, <3>2
    <3>3. CASE \E w \in Works : tasks[t] = [work |-> w, human |-> FALSE, version |-> 1]
      BY <1>0, <3>3, Zenon
    <3>4. QED
      BY <3>1, <3>2, <3>3, Zenon
  <2>2. \A j \in JobIds : jobs[j] \in DayJob
    BY <1>0
  <2>3. QED
    BY <2>1, <2>2
<1>2. \A t \in WorkspaceTaskIds : tasks[t] # HandOff!NoRow => tasks[t].work \in Works
  OBVIOUS
<1>3. \A j \in JobIds : jobs[j] = HandOff!NoJob \/ (jobs[j].task \in WorkspaceTaskIds /\ jobs[j].bound = "none")
  OBVIOUS
<1>4. DayTyped
  BY <1>1, <1>2 DEF DayTyped
<1>5. JobsFit
  BY <1>3 DEF JobsFit
<1>6. CallsFit
  BY DEF CallsFit, DayCall
<1>7. QED
  BY <1>4, <1>5, <1>6 DEF DayInv

\* A row of which only the version and the flag move stays what calls and jobs
\* rely on.
LEMMA UpdateKeeps ==
    ASSUME DayInv, NEW c \in Windows, HandOff!UpdateTask(c)
    PROVE  DayInv'
<1> USE HandOffAssumption
<1>1. PICK t \in WorkspaceTaskIds : t = call[c].task /\ call[c] \in DayCall
  BY DEF DayInv, DayTyped, DayCall, HandOff!UpdateTask, HandOff!Free
<1>2. /\ call' = [call EXCEPT ![c] = HandOff!Free] /\ jobs' = jobs /\ gone' = gone
  BY DEF HandOff!UpdateTask, HandOff!Finish
<1>3. CASE tasks' = tasks
  <2>1. DayTyped' /\ JobsFit'
    BY <1>2, <1>3 DEF DayInv, DayTyped, JobsFit
  <2>2. CallsFit'
    BY <1>2, <1>3 DEF DayInv, DayTyped, CallsFit, DayCall, HandOff!Free
  <2>3. QED
    BY <2>1, <2>2 DEF DayInv
<1>4. CASE tasks' # tasks
  <2>1. PICK h \in BOOLEAN : /\ tasks[t] # HandOff!NoRow /\ tasks[t].version < MaxTaskVersion
                             /\ tasks' = [tasks EXCEPT ![t].human = h, ![t].version = @ + 1]
    BY <1>1, <1>4 DEF HandOff!UpdateTask, HandOff!Unchanged
  <2>2. PICK old \in DayRow : old = tasks[t]
    BY DEF DayInv, DayTyped
  <2>3. PICK n \in 0..MaxTaskVersion : n = old.version + 1
    BY <2>1, <2>2 DEF DayRow
  <2>4. PICK seen : seen = [old EXCEPT !.human = h, !.version = n]
    OBVIOUS
  <2>5. seen \in DayRow /\ seen.work = old.work /\ seen.version = old.version + 1
    BY <2>2, <2>3, <2>4 DEF DayRow
  <2>6. tasks' = [tasks EXCEPT ![t] = seen]
    BY <2>1, <2>2, <2>3, <2>4 DEF DayInv, DayTyped
  <2>7. old.work \in Works /\ seen # HandOff!NoRow
    BY <2>1, <2>2, <2>5 DEF DayInv, DayTyped, HandOff!NoRow
  <2>8. DayTyped'
    BY <1>2, <2>5, <2>6, <2>7 DEF DayInv, DayTyped
  <2>9. JobsFit'
    BY <1>2, <2>1, <2>2, <2>5, <2>6, <2>7 DEF DayInv, DayTyped, JobsFit, DayJob
  <2>10. CallsFit'
    <3>1. \A u \in WorkspaceTaskIds : /\ tasks'[u] # HandOff!NoRow => tasks[u] # HandOff!NoRow
                                      /\ tasks'[u].work = tasks[u].work
                                      /\ tasks'[u] = tasks[u] \/ (u = t /\ tasks'[u].version = old.version + 1)
      BY <2>1, <2>2, <2>5, <2>6 DEF DayInv, DayTyped
    <3>2. ASSUME NEW d \in Windows, call'[d] \in DayCall
          PROVE  Current(call'[d].saw, tasks'[call'[d].task])
      <4>1. PICK u \in WorkspaceTaskIds : u = call[d].task
        BY <1>2, <3>2 DEF DayInv, DayTyped, DayCall, HandOff!Free
      <4>2. PICK saw \in DayRow : saw = call[d].saw
        BY <1>2, <3>2 DEF DayInv, DayTyped, DayCall, HandOff!Free
      <4>3. call'[d] = call[d] /\ Current(saw, tasks[u])
        BY <1>2, <3>2, <4>1, <4>2 DEF DayInv, DayTyped, CallsFit, DayCall, HandOff!Free
      <4>4. Current(saw, old) => Current(saw, seen)
        BY <2>1, <2>2, <2>5 DEF Current, DayRow
      <4>5. tasks'[u] = IF u = t THEN seen ELSE tasks[u]
        BY <2>6 DEF DayInv, DayTyped
      <4>6. Current(saw, tasks'[u])
        BY <2>2, <4>3, <4>4, <4>5
      <4>7. QED
        BY <4>1, <4>2, <4>3, <4>6
    <3>3. ASSUME NEW d \in Windows, call'[d].op = "answer", tasks'[call'[d].task] # HandOff!NoRow
          PROVE  \E j \in JobIds : jobs'[j] = [task |-> call'[d].task, bound |-> tasks'[call'[d].task].work]
      <4>1. call'[d] = call[d] /\ call[d].task \in WorkspaceTaskIds
        BY <1>2, <3>3 DEF DayInv, DayTyped, DayCall, HandOff!Free
      <4>2. QED
        BY <1>2, <3>1, <3>3, <4>1 DEF DayInv, CallsFit
    <3>4. QED
      BY <3>2, <3>3 DEF CallsFit
  <2>11. QED
    BY <2>8, <2>9, <2>10 DEF DayInv
<1>5. QED
  BY <1>3, <1>4

\* A deleted task takes its jobs along.
LEMMA DeleteKeeps ==
    ASSUME DayInv, NEW c \in Windows, HandOff!DeleteTask(c)
    PROVE  DayInv'
<1> USE HandOffAssumption
<1>1. PICK t \in WorkspaceTaskIds : t = call[c].task
  BY DEF DayInv, DayTyped, DayCall, HandOff!DeleteTask, HandOff!Free
<1>2. /\ call' = [call EXCEPT ![c] = HandOff!Free] /\ gone' = gone /\ tasks' = [tasks EXCEPT ![t] = HandOff!NoRow]
      /\ jobs' = [j \in JobIds |-> IF jobs[j].task = t THEN HandOff!NoJob ELSE jobs[j]]
  BY <1>1 DEF HandOff!DeleteTask, HandOff!Finish
<1>3. DayTyped'
  <2>1. HandOff!NoRow \in DayRow /\ HandOff!NoJob \in DayJob
    <3>1. 0 \in 0..MaxTaskVersion
      OBVIOUS
    <3>2. QED
      BY <3>1 DEF DayRow, DayJob, HandOff!NoRow, HandOff!NoJob
  <2>2. tasks' \in [WorkspaceTaskIds -> DayRow] /\ jobs' \in [JobIds -> DayJob]
    BY <1>2, <2>1 DEF DayInv, DayTyped
  <2>3. QED
    BY <1>2, <2>2 DEF DayInv, DayTyped
<1>4. JobsFit'
  BY <1>2 DEF DayInv, DayTyped, JobsFit, DayJob, HandOff!NoJob
<1>5. CallsFit'
  <2>1. \A d \in Windows : call'[d] = call[d] \/ call'[d] = HandOff!Free
    BY <1>2 DEF DayInv, DayTyped
  <2>2. \A u \in WorkspaceTaskIds : tasks'[u] # HandOff!NoRow => u # t /\ tasks'[u] = tasks[u]
    BY <1>2 DEF DayInv, DayTyped
  <2>3. \A j \in JobIds : jobs[j].task # t => jobs'[j] = jobs[j]
    BY <1>2
  <2>4. ASSUME NEW d \in Windows, call'[d] \in DayCall
        PROVE  Current(call'[d].saw, tasks'[call'[d].task])
    <3>1. call'[d] = call[d]
      BY <2>1, <2>4 DEF DayCall, HandOff!Free
    <3>2. PICK u \in WorkspaceTaskIds : u = call[d].task
      BY <2>4, <3>1 DEF DayCall
    <3>3. Current(call[d].saw, tasks[u])
      BY <2>4, <3>1, <3>2 DEF DayInv, CallsFit
    <3>4. Current(call[d].saw, tasks'[u])
      BY <2>2, <3>3 DEF Current
    <3>5. QED
      BY <3>1, <3>2, <3>4
  <2>5. ASSUME NEW d \in Windows, call'[d].op = "answer", tasks'[call'[d].task] # HandOff!NoRow
        PROVE  \E j \in JobIds : jobs'[j] = [task |-> call'[d].task, bound |-> tasks'[call'[d].task].work]
    <3>1. call'[d] = call[d] /\ call[d].task \in WorkspaceTaskIds
      BY <2>1, <2>5 DEF DayInv, DayTyped, DayCall, HandOff!Free
    <3>2. PICK j \in JobIds : jobs[j] = [task |-> call[d].task, bound |-> tasks[call[d].task].work]
      BY <2>2, <2>5, <3>1 DEF DayInv, CallsFit
    <3>3. jobs[j].task = call[d].task
      BY <3>2
    <3>4. QED
      BY <2>2, <2>3, <2>5, <3>1, <3>2, <3>3
  <2>6. QED
    BY <2>4, <2>5 DEF CallsFit
<1>6. QED
  BY <1>3, <1>4, <1>5 DEF DayInv

\* A hand-off binds the one job its task has.
LEMMA HandOffKeeps ==
    ASSUME DayInv, NEW c \in Windows, HandOff!HandOff(c)
    PROVE  DayInv'
<1> USE HandOffAssumption
<1>1. PICK t \in WorkspaceTaskIds : t = call[c].task /\ call[c] \in DayCall
  BY DEF DayInv, DayTyped, DayCall, HandOff!HandOff, HandOff!Free
<1>2. /\ call' = [call EXCEPT ![c] = [op |-> "answer", task |-> t]] /\ gone' = gone /\ tasks' = tasks
      /\ tasks[t] # HandOff!NoRow
  BY <1>1 DEF HandOff!HandOff
<1>3. PICK w \in Works : w = call[c].saw.work /\ w = tasks[t].work
  BY <1>1, <1>2 DEF DayInv, CallsFit, Current
<1>4. PICK k \in JobIds : /\ jobs' = [jobs EXCEPT ![k] = [task |-> t, bound |-> w]]
                          /\ \A j \in JobIds : jobs[j].task = t => j = k
                          /\ jobs[k].task \in {"none", t}
  <2>1. CASE HandOff!NoneOpen(t) /\ \E j \in JobIds : jobs[j] = HandOff!NoJob /\ HandOff!Bind(j, c)
    <3>1. PICK j \in JobIds : jobs[j] = HandOff!NoJob /\ HandOff!Bind(j, c)
      BY <2>1
    <3>2. jobs' = [jobs EXCEPT ![j] = [task |-> t, bound |-> w]]
      BY <1>1, <1>3, <3>1 DEF HandOff!Bind
    <3>3. jobs[j].task = "none" /\ \A k \in JobIds : jobs[k].task # t
      BY <2>1, <3>1 DEF HandOff!NoneOpen, HandOff!Open, HandOff!NoJob
    <3>4. QED
      BY <3>2, <3>3
  <2>2. CASE \E j \in HandOff!Open(t) : jobs[j].bound = "none" /\ HandOff!Bind(j, c)
    <3>1. PICK j \in JobIds : jobs[j].task = t /\ HandOff!Bind(j, c)
      BY <2>2 DEF HandOff!Open
    <3>2. jobs' = [jobs EXCEPT ![j] = [task |-> t, bound |-> w]]
      BY <1>1, <1>3, <3>1 DEF HandOff!Bind
    <3>3. \A k \in JobIds : jobs[k].task = t => k = j
      BY <3>1 DEF DayInv, JobsFit
    <3>4. QED
      BY <3>1, <3>2, <3>3
  <2>3. CASE (\E j \in HandOff!Open(t) : jobs[j].bound # "none") /\ UNCHANGED jobs
    <3>1. PICK j \in JobIds : jobs[j].task = t /\ jobs[j].bound # "none"
      BY <2>3 DEF HandOff!Open
    <3>2. jobs[j] \in DayJob /\ jobs[j].bound = w
      BY <1>3, <3>1 DEF DayInv, DayTyped, JobsFit
    <3>3. jobs[j] = [task |-> t, bound |-> w]
      BY <3>1, <3>2 DEF DayJob
    <3>4. jobs' = [jobs EXCEPT ![j] = [task |-> t, bound |-> w]]
      BY <2>3, <3>3 DEF DayInv, DayTyped
    <3>5. QED
      BY <3>1, <3>4 DEF DayInv, JobsFit
  <2>4. QED
    BY <1>1, <2>1, <2>2, <2>3 DEF HandOff!HandOff
<1>5. DayTyped'
  BY <1>2, <1>4 DEF DayInv, DayTyped, DayJob
<1>6. \A j \in JobIds : jobs'[j] = IF j = k THEN [task |-> t, bound |-> w] ELSE jobs[j]
  BY <1>4 DEF DayInv, DayTyped
<1>7. JobsFit'
  BY <1>2, <1>3, <1>4, <1>6 DEF DayInv, JobsFit
<1>8. CallsFit'
  <2>1. \A d \in Windows : call'[d] = IF d = c THEN [op |-> "answer", task |-> t] ELSE call[d]
    BY <1>2 DEF DayInv, DayTyped
  <2>2. ASSUME NEW d \in Windows, call'[d] \in DayCall
        PROVE  call'[d] = call[d]
    BY <2>1, <2>2 DEF DayCall
  <2>3. ASSUME NEW d \in Windows, call'[d].op = "answer", tasks[call'[d].task] # HandOff!NoRow
        PROVE  \E j \in JobIds : jobs'[j] = [task |-> call'[d].task, bound |-> tasks[call'[d].task].work]
    <3>1. CASE call'[d].task = t
      BY <1>3, <1>6, <3>1
    <3>2. CASE call'[d].task # t
      <4>1. call'[d] = call[d] /\ call[d].task \in WorkspaceTaskIds
        BY <2>1, <2>3, <3>2 DEF DayInv, DayTyped, DayCall, HandOff!Free
      <4>2. PICK j \in JobIds : jobs[j] = [task |-> call[d].task, bound |-> tasks[call[d].task].work]
        BY <2>3, <4>1 DEF DayInv, CallsFit
      <4>3. jobs[j].task = call[d].task
        BY <4>2
      <4>4. QED
        BY <1>4, <1>6, <3>2, <4>1, <4>2, <4>3
    <3>3. QED
      BY <3>1, <3>2
  <2>4. QED
    BY <1>2, <2>2, <2>3 DEF DayInv, CallsFit
<1>9. QED
  BY <1>5, <1>7, <1>8 DEF DayInv

LEMMA DayStep == DayInv /\ [HandOff!WorkspaceNext]_(HandOff!workspaceVars) => DayInv'
<1> SUFFICES ASSUME DayInv, [HandOff!WorkspaceNext]_(HandOff!workspaceVars) PROVE DayInv'
  OBVIOUS
<1> USE HandOffAssumption
<1>1. ASSUME NEW w \in Works, HandOff!ArchiveOrRestore(w) PROVE DayInv'
  BY <1>1 DEF HandOff!ArchiveOrRestore, DayInv, DayTyped, JobsFit, CallsFit
<1>2. ASSUME NEW w \in Works, NEW t \in WorkspaceTaskIds, HandOff!CreateTask(t, w) PROVE DayInv'
  <2>1. PICK h \in BOOLEAN : tasks' = [tasks EXCEPT ![t] = [work |-> w, human |-> h, version |-> 1]]
    BY <1>2 DEF HandOff!CreateTask
  <2>n. 1 \in 0..MaxTaskVersion
    OBVIOUS
  <2>2. PICK seen \in DayRow : seen = [work |-> w, human |-> h, version |-> 1]
    BY <2>n DEF DayRow
  <2>3. /\ UNCHANGED <<jobs, gone, call>> /\ tasks[t] = HandOff!NoRow /\ \A c \in Windows : call[c] = HandOff!Free
        /\ seen.work = w /\ seen # HandOff!NoRow /\ tasks' = [tasks EXCEPT ![t] = seen]
    BY <1>2, <2>1, <2>2 DEF HandOff!CreateTask, HandOff!NoRow
  <2>4. DayTyped'
    BY <2>3 DEF DayInv, DayTyped
  <2>5. JobsFit'
    BY <2>3 DEF DayInv, DayTyped, JobsFit, DayJob
  <2>6. CallsFit'
    BY <2>3 DEF CallsFit, DayCall, HandOff!Free
  <2>7. QED
    BY <2>4, <2>5, <2>6 DEF DayInv
<1>3. ASSUME NEW c \in Windows, NEW t \in WorkspaceTaskIds, NEW op \in {"update", "delete", "handoff"},
             HandOff!ReadTask(c, t, op)
      PROVE  DayInv'
  <2>1. PICK seen \in DayRow : seen = tasks[t]
    BY DEF DayInv, DayTyped
  <2>2. PICK new : new = [op |-> op, task |-> t, saw |-> seen]
    OBVIOUS
  <2>3. /\ new \in DayCall /\ new.task = t /\ new.saw = seen /\ new.op # "answer"
        /\ UNCHANGED <<tasks, jobs, gone>> /\ call' = [call EXCEPT ![c] = new] /\ seen # HandOff!NoRow
    BY <1>3, <2>1, <2>2 DEF DayCall, HandOff!ReadTask, HandOff!Reachable
  <2>4. seen.work \in Works /\ seen.version \in Nat
    BY <2>1, <2>3 DEF DayInv, DayTyped, DayRow
  <2>5. DayTyped' /\ JobsFit'
    BY <2>3 DEF DayInv, DayTyped, JobsFit
  <2>6. \A d \in Windows : call'[d] = IF d = c THEN new ELSE call[d]
    BY <2>3 DEF DayInv, DayTyped
  <2>7. CallsFit'
    BY <2>1, <2>3, <2>4, <2>6 DEF DayInv, CallsFit, Current
  <2>8. QED
    BY <2>5, <2>7 DEF DayInv
<1>4. ASSUME NEW c \in Windows, call' = [call EXCEPT ![c] = HandOff!Free], UNCHANGED <<tasks, jobs, gone>> PROVE DayInv'
  <2>1. DayTyped' /\ JobsFit'
    BY <1>4 DEF DayInv, DayTyped, JobsFit
  <2>2. \A d \in Windows : call'[d] = IF d = c THEN HandOff!Free ELSE call[d]
    BY <1>4 DEF DayInv, DayTyped
  <2>3. CallsFit'
    BY <1>4, <2>2 DEF DayInv, CallsFit, DayCall, HandOff!Free
  <2>4. QED
    BY <2>1, <2>3 DEF DayInv
<1>5. ASSUME NEW c \in Windows, HandOff!HandOffFails(c) \/ HandOff!AnswerHandOff(c) PROVE DayInv'
  BY <1>4, <1>5 DEF HandOff!HandOffFails, HandOff!AnswerHandOff, HandOff!Finish
<1>6. CASE UNCHANGED HandOff!workspaceVars
  BY <1>6 DEF HandOff!workspaceVars, DayInv, DayTyped, JobsFit, CallsFit
<1>7. QED
  BY <1>1, <1>2, <1>3, <1>5, <1>6, UpdateKeeps, DeleteKeeps, HandOffKeeps DEF HandOff!WorkspaceNext

\* An update that writes saw the row as it is.
LEMMA UpdatesSee ==
    ASSUME DayInv, [HandOff!WorkspaceNext]_(HandOff!workspaceVars), NEW c \in Windows,
           call[c].op = "update", tasks' # tasks, call'[c] = HandOff!Free
    PROVE  tasks[call[c].task] = call[c].saw
<1>1. call[c] # HandOff!Free /\ call[c] \in DayCall
  BY DEF HandOff!Free, DayInv, DayTyped, DayCall
<1>2. HandOff!UpdateTask(c)
  <2>1. ASSUME NEW d \in Windows, d # c, NEW v, call' = [call EXCEPT ![d] = v] PROVE FALSE
    BY <1>1, <2>1 DEF DayInv, DayTyped
  <2>2. ASSUME NEW d \in Windows, HandOff!UpdateTask(d) \/ HandOff!DeleteTask(d) PROVE HandOff!UpdateTask(c)
    BY <2>1, <2>2 DEF HandOff!UpdateTask, HandOff!DeleteTask, HandOff!Finish
  <2>3. QED
    BY <1>1, <2>2 DEF HandOff!WorkspaceNext, HandOff!workspaceVars, HandOff!ArchiveOrRestore, HandOff!CreateTask, HandOff!ReadTask,
       HandOff!HandOff, HandOff!HandOffFails, HandOff!AnswerHandOff
<1>3. QED
  BY <1>1, <1>2 DEF HandOff!UpdateTask, HandOff!Unchanged, DayInv, CallsFit, Current

\* The parts of the property are parts of the invariant.
LEMMA DayHolds == DayInv => HandOff!WorkspaceTypeOK /\ HandOff!OneHandOffPerTask
<1> SUFFICES ASSUME DayInv PROVE HandOff!WorkspaceTypeOK /\ HandOff!OneHandOffPerTask
  OBVIOUS
<1>1. HandOff!WorkspaceTypeOK
  BY DEF HandOff!WorkspaceTypeOK, DayInv, DayTyped, DayRow, DayJob, DayCall, HandOff!Free
<1>2. ASSUME NEW t \in WorkspaceTaskIds, NEW i \in HandOff!Open(t), NEW j \in HandOff!Open(t) PROVE i = j
  BY <1>2, HandOffAssumption DEF HandOff!Open, DayInv, JobsFit
<1>3. ASSUME NEW j \in JobIds, jobs[j] # HandOff!NoJob
      PROVE  tasks[jobs[j].task] # HandOff!NoRow /\ jobs[j].bound \in {"none", tasks[jobs[j].task].work}
  BY <1>3 DEF DayInv, JobsFit
<1>4. ASSUME NEW c \in Windows, call[c].op = "answer", tasks[call[c].task] # HandOff!NoRow
      PROVE  \E j \in HandOff!Open(call[c].task) : jobs[j].bound = tasks[call[c].task].work
  <2>1. PICK j \in JobIds : jobs[j] = [task |-> call[c].task, bound |-> tasks[call[c].task].work]
    BY <1>4 DEF DayInv, CallsFit
  <2>2. jobs[j].task = call[c].task /\ jobs[j].bound = tasks[call[c].task].work
    BY <2>1
  <2>3. QED
    BY <2>2 DEF HandOff!Open
<1>5. QED
  BY <1>1, <1>2, <1>3, <1>4 DEF HandOff!OneHandOffPerTask

\* However many windows ask at once, a task of the day has one open job in its
\* own Work, which lasts as long as the task and the answer that promised it,
\* and an update applies to the row its window read or not at all
\* (api/workspace.py).
THEOREM HandOffsAgree == HandOff!WorkspaceSpec => WorkspaceAgrees
<1>1. DayInv /\ [HandOff!WorkspaceNext]_(HandOff!workspaceVars)
        => [\A c \in Windows : call[c].op = "update" /\ tasks' # tasks /\ call'[c] = HandOff!Free =>
                tasks[call[c].task] = call[c].saw]_(HandOff!workspaceVars)
  BY UpdatesSee
<1>2. QED
  BY <1>1, DayStart, DayStep, DayHolds, PTL
     DEF HandOff!WorkspaceSpec, WorkspaceAgrees, HandOff!WorkspaceAgrees, HandOff!NoTaskUpdateIsLost
=============================================================================
