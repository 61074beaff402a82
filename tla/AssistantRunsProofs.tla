------------------------ MODULE AssistantRunsProofs ------------------------
(***************************************************************************)
(* Theorems about the durable run queue, for any number of threads, runs,  *)
(* workers, faults and stalled leases; about the context pack of a run,    *)
(* for any sources, limits and changes; and about a file of the workspace, *)
(* for any folders, inodes and times.                                      *)
(***************************************************************************)
EXTENDS MCRunParts, FiniteNumbers, FiniteSetTheorems, TLAPS

ClaimPcs == ExecutorPcs \cup {"reconciling", "settling"}

\* A worker holds a claim exactly while it executes or settles one.
WorkerShape ==
    \A w \in Workers : pc[w] \in ClaimPcs <=> claim[w] \in Runs

\* A worker that is about to store an answer has one.
AnswerShape ==
    \A w \in Workers : pc[w] \in {"answered", "storing"} => result[w] \in Terminal

TypeInv == TypeOK /\ WorkerShape /\ AnswerShape

\* The columns of the two tables that executing a run writes.
RowsTyped ==
    /\ status \in [Runs -> {"none"} \cup Active \cup Terminal]
    /\ owner \in [Runs -> Workers \cup {NoOwner, Dead}]
    /\ lease \in [Runs -> {"none", "live", "expired"}]
    /\ turn \in [Runs -> {"none", "running"} \cup Terminal]
    /\ parts \in [Runs -> Seq({"answer", "error"})]

LEMMA CancelRowsTyped ==
    ASSUME RowsTyped, NEW S, FinalizeCancelRows(S)
    PROVE  RowsTyped'
<1>1. <<"error">> \in Seq({"answer", "error"})
  OBVIOUS
<1>2. QED
  BY <1>1 DEF RowsTyped, FinalizeCancelRows, Terminal

LEMMA MarkRunFailedTyped ==
    ASSUME RowsTyped, outbox \in [Workers -> SUBSET Events],
           NEW w \in Workers, claim[w] \in Runs, NEW label, NEW then, MarkRunFailed(w, label, then)
    PROVE  RowsTyped' /\ outbox' \in [Workers -> SUBSET Events]
<1> DEFINE r == claim[w]
<1>1. CASE status[r] = "cancel_requested"
  <2>1. FinalizeCancelRows({r}) /\ outbox' = [outbox EXCEPT ![w] = {Done(r)}]
    BY <1>1 DEF MarkRunFailed
  <2>2. RowsTyped'
    BY <2>1, CancelRowsTyped
  <2>3. QED
    BY <2>1, <2>2 DEF Done, Events
<1>2. CASE status[r] = "running"
  <2>1. <<"error">> \in Seq({"answer", "error"})
    OBVIOUS
  <2>2. /\ turn' = [turn EXCEPT ![r] = IF @ = "running" THEN "failed" ELSE @]
        /\ parts' = [parts EXCEPT ![r] = IF @ = <<>> THEN <<"error">> ELSE @]
        /\ status' = [status EXCEPT ![r] = "failed"]
        /\ owner' = [owner EXCEPT ![r] = NoOwner]
        /\ lease' = [lease EXCEPT ![r] = "none"]
        /\ UNCHANGED outbox
    BY <1>2 DEF MarkRunFailed
  <2>3. parts' \in [Runs -> Seq({"answer", "error"})]
    BY <2>1, <2>2 DEF RowsTyped
  <2>4. turn' \in [Runs -> {"none", "running"} \cup Terminal]
    BY <2>2 DEF RowsTyped, Terminal
  <2>5. QED
    BY <2>2, <2>3, <2>4 DEF RowsTyped, Terminal
<1>3. CASE status[r] \notin {"cancel_requested", "running"}
  BY <1>3 DEF MarkRunFailed, RowsTyped, runVars, turnVars
<1>4. QED
  BY <1>1, <1>2, <1>3

LEMMA TypeInvInductive == TypeInv /\ [Next]_vars => TypeInv'
<1> SUFFICES ASSUME TypeInv, [Next]_vars PROVE TypeInv'
  OBVIOUS
<1> USE BoundsAssumption, NullAssumption DEF Runs
<1>1. ASSUME NEW t \in Threads, CreateRun(t) PROVE TypeInv'
  BY <1>1 DEF CreateRun, EnqueueRun, workerVars, TypeInv, TypeOK, WorkerShape, AnswerShape, Active, Terminal,
     Pcs, LoopPcs, ExecutorPcs, Events
<1>2. ASSUME NEW t \in Threads, ArchiveCheck(t) PROVE TypeInv'
  BY <1>2 DEF ArchiveCheck, runVars, turnVars, workerVars, TypeInv, TypeOK, WorkerShape, AnswerShape, Active,
     Terminal, Pcs, LoopPcs, ExecutorPcs, Events
<1>3. ASSUME NEW t \in Threads, ArchiveCommit(t) PROVE TypeInv'
  BY <1>3 DEF ArchiveCommit, runVars, turnVars, workerVars, TypeInv, TypeOK, WorkerShape, AnswerShape, Active,
     Terminal, Pcs, LoopPcs, ExecutorPcs, Events
<1>4. ASSUME NEW t \in Threads, Reopen(t) PROVE TypeInv'
  BY <1>4 DEF Reopen, runVars, turnVars, workerVars, TypeInv, TypeOK, WorkerShape, AnswerShape, Active,
     Terminal, Pcs, LoopPcs, ExecutorPcs, Events
<1>5. ASSUME NEW r \in Runs, RetryCheck(r) PROVE TypeInv'
  BY <1>5 DEF RetryCheck, runVars, turnVars, workerVars, TypeInv, TypeOK, WorkerShape, AnswerShape, Active,
     Terminal, Pcs, LoopPcs, ExecutorPcs, Events
<1>6. ASSUME NEW r \in Runs, RetryCommit(r) PROVE TypeInv'
  BY <1>6 DEF RetryCommit, EnqueueRun, runVars, turnVars, workerVars, TypeInv, TypeOK,
     WorkerShape, AnswerShape, Active, Terminal, Pcs, LoopPcs, ExecutorPcs, Events
<1>7. ASSUME NEW r \in Runs, CancelTurn(r) PROVE TypeInv'
  BY <1>7 DEF CancelTurn, Active, requestVars, turnVars, workerVars, TypeInv, TypeOK, WorkerShape, AnswerShape,
     Terminal, Pcs, LoopPcs, ExecutorPcs, Events
<1>8. ASSUME NEW w \in Workers, Publish(w) PROVE TypeInv'
  BY <1>8 DEF Publish, requestVars, runVars, turnVars, TypeInv, TypeOK, WorkerShape, AnswerShape, Active,
     Terminal, Pcs, LoopPcs, ExecutorPcs, Events
<1>9. ASSUME NEW w \in Workers, RecoverStale(w) PROVE TypeInv'
  <2>1. TypeOK'
    BY <1>9 DEF RecoverStale, At, requestVars, turnVars, TypeInv, TypeOK, WorkerShape, ClaimPcs,
       Active, Terminal, Pcs, LoopPcs, ExecutorPcs, Events
  <2>2. WorkerShape'
    BY <1>9 DEF RecoverStale, At, TypeInv, TypeOK, WorkerShape, ClaimPcs, ExecutorPcs, LoopPcs
  <2>3. AnswerShape'
    BY <1>9 DEF RecoverStale, At, TypeInv, TypeOK, AnswerShape
  <2>4. QED
    BY <2>1, <2>2, <2>3 DEF TypeInv
<1>10. ASSUME NEW w \in Workers, FinalizeCancelRequested(w) PROVE TypeInv'
  <2>1. TypeOK'
    <3>1. RowsTyped'
      BY <1>10, CancelRowsTyped DEF FinalizeCancelRequested, RowsTyped, TypeInv, TypeOK
    <3>2. outbox' \in [Workers -> SUBSET Events]
      <4>1. {Done(r) : r \in FinalizableCancels} \subseteq Events
        BY DEF FinalizableCancels, Done, Events
      <4>2. QED
        BY <1>10, <4>1 DEF FinalizeCancelRequested, TypeInv, TypeOK
    <3>3. QED
      BY <1>10, <3>1, <3>2 DEF FinalizeCancelRequested, RowsTyped, TypeInv, TypeOK, Pcs, LoopPcs,
         requestVars
  <2>2. WorkerShape'
    BY <1>10 DEF FinalizeCancelRequested, At, TypeInv, TypeOK, WorkerShape, ClaimPcs, ExecutorPcs,
       LoopPcs
  <2>3. AnswerShape'
    BY <1>10 DEF FinalizeCancelRequested, At, TypeInv, TypeOK, AnswerShape
  <2>4. QED
    BY <2>1, <2>2, <2>3 DEF TypeInv
<1>11. ASSUME NEW w \in Workers, ClaimRun(w) PROVE TypeInv'
  <2>1. TypeOK'
    BY <1>11 DEF ClaimRun, At, requestVars, turnVars, TypeInv, TypeOK, WorkerShape, ClaimPcs,
       Active, Terminal, Pcs, LoopPcs, ExecutorPcs, Events
  <2>2. WorkerShape'
    BY <1>11 DEF ClaimRun, At, TypeInv, TypeOK, WorkerShape, ClaimPcs, ExecutorPcs, LoopPcs
  <2>3. AnswerShape'
    BY <1>11 DEF ClaimRun, At, TypeInv, TypeOK, AnswerShape
  <2>4. QED
    BY <2>1, <2>2, <2>3 DEF TypeInv
<1>12. ASSUME NEW w \in Workers, ClaimNothing(w) PROVE TypeInv'
  <2>1. TypeOK'
    BY <1>12 DEF ClaimNothing, At, requestVars, runVars, turnVars, TypeInv, TypeOK, WorkerShape,
       ClaimPcs, Active, Terminal, Pcs, LoopPcs, ExecutorPcs, Events
  <2>2. WorkerShape'
    BY <1>12 DEF ClaimNothing, At, TypeInv, TypeOK, WorkerShape, ClaimPcs, ExecutorPcs, LoopPcs
  <2>3. AnswerShape'
    BY <1>12 DEF ClaimNothing, At, TypeInv, TypeOK, AnswerShape
  <2>4. QED
    BY <2>1, <2>2, <2>3 DEF TypeInv
<1>13. ASSUME NEW w \in Workers, StreamAnswer(w) PROVE TypeInv'
  <2>1. TypeOK'
    BY <1>13 DEF StreamAnswer, StreamOutcomes, At, Terminal, requestVars, runVars, turnVars, TypeInv, TypeOK,
       WorkerShape, ClaimPcs, Active, Pcs, LoopPcs, ExecutorPcs, Events
  <2>2. WorkerShape'
    BY <1>13 DEF StreamAnswer, StreamOutcomes, At, Terminal, TypeInv, TypeOK, WorkerShape, ClaimPcs, ExecutorPcs,
       LoopPcs
  <2>3. AnswerShape'
    BY <1>13 DEF StreamAnswer, StreamOutcomes, At, TypeInv, TypeOK, AnswerShape
  <2>4. QED
    BY <2>1, <2>2, <2>3 DEF TypeInv
<1>14. ASSUME NEW w \in Workers, CheckCancelled(w) PROVE TypeInv'
  <2>1. TypeOK'
    <3>1. pc' \in [Workers -> Pcs] /\ result' \in [Workers -> {"none"} \cup Terminal]
      BY <1>14 DEF CheckCancelled, TypeInv, TypeOK, Pcs, ExecutorPcs
    <3>2. QED
      BY <1>14, <3>1 DEF CheckCancelled, TypeInv, TypeOK, requestVars, runVars, turnVars
  <2>2. WorkerShape'
    BY <1>14 DEF CheckCancelled, At, TypeInv, TypeOK, WorkerShape, ClaimPcs, ExecutorPcs, LoopPcs
  <2>3. AnswerShape'
    BY <1>14 DEF CheckCancelled, At, TypeInv, TypeOK, AnswerShape
  <2>4. QED
    BY <2>1, <2>2, <2>3 DEF TypeInv
<1>15. ASSUME NEW w \in Workers, StoreAnswer(w) PROVE TypeInv'
  <2>1. TypeOK'
    <3> DEFINE r == claim[w]
    <3>1. r \in Runs
      BY <1>15 DEF StoreAnswer, At, TypeInv, WorkerShape, ClaimPcs, ExecutorPcs
    <3>2. CASE ~MayStore(r)
      BY <1>15, <3>2 DEF StoreAnswer, TypeInv, TypeOK, Pcs, turnVars, requestVars, runVars
    <3>3. CASE MayStore(r)
      <4>1. /\ turn' = [turn EXCEPT ![r] = result[w]]
            /\ outbox' = [outbox EXCEPT ![w] =
                    {IF result[w] = "failed" THEN Error(r) ELSE Done(r)}]
            /\ pc' = [pc EXCEPT ![w] = "stored"]
            /\ result' = [result EXCEPT ![w] = "none"]
        BY <1>15, <3>3 DEF StoreAnswer
      <4>2. turn' \in [Runs -> {"none", "running"} \cup Terminal]
        BY <4>1 DEF TypeInv, TypeOK
      <4>3. outbox' \in [Workers -> SUBSET Events]
        BY <3>1, <4>1 DEF TypeInv, TypeOK, Events, Done, Error
      <4>4. parts' \in [Runs -> Seq({"answer", "error"})]
        <5>1. PICK k \in {"answer", "error"} : parts' = [parts EXCEPT ![r] = Append(@, k)]
          BY <1>15, <3>3 DEF StoreAnswer
        <5>2. Append(parts[r], k) \in Seq({"answer", "error"})
          BY <3>1 DEF TypeInv, TypeOK
        <5>3. QED
          BY <5>1, <5>2 DEF TypeInv, TypeOK
      <4>5. pc' \in [Workers -> Pcs] /\ result' \in [Workers -> {"none"} \cup Terminal]
        BY <4>1 DEF TypeInv, TypeOK, Pcs, ExecutorPcs
      <4>6. QED
        BY <1>15, <4>2, <4>3, <4>4, <4>5 DEF StoreAnswer, TypeInv, TypeOK, requestVars, runVars
    <3>4. QED
      BY <3>2, <3>3
  <2>2. WorkerShape'
    BY <1>15 DEF StoreAnswer, At, TypeInv, TypeOK, WorkerShape, ClaimPcs, ExecutorPcs, LoopPcs
  <2>3. AnswerShape'
    BY <1>15 DEF StoreAnswer, At, TypeInv, TypeOK, AnswerShape
  <2>4. QED
    BY <2>1, <2>2, <2>3 DEF TypeInv
<1>16. ASSUME NEW w \in Workers, FailClaim(w) PROVE TypeInv'
  <2>1. TypeOK'
    <3>1. claim[w] \in Runs
      BY <1>16 DEF FailClaim, MarkRunFailed, At, TypeInv, WorkerShape, ClaimPcs, ExecutorPcs
    <3>2. RowsTyped' /\ outbox' \in [Workers -> SUBSET Events]
      BY <1>16, <3>1, MarkRunFailedTyped DEF FailClaim, RowsTyped, TypeInv, TypeOK
    <3>3. QED
      BY <1>16, <3>2 DEF FailClaim, MarkRunFailed, RowsTyped, TypeInv, TypeOK, Pcs, LoopPcs, requestVars
  <2>2. WorkerShape'
    BY <1>16 DEF FailClaim, MarkRunFailed, At, TypeInv, TypeOK, WorkerShape, ClaimPcs, ExecutorPcs,
       LoopPcs
  <2>3. AnswerShape'
    BY <1>16 DEF FailClaim, MarkRunFailed, At, TypeInv, TypeOK, AnswerShape
  <2>4. QED
    BY <2>1, <2>2, <2>3 DEF TypeInv
<1>17. ASSUME NEW w \in Workers, ReconcileClaim(w) PROVE TypeInv'
  <2>1. TypeOK'
    <3> DEFINE r == claim[w]
    <3>1. r \in Runs
      BY <1>17 DEF ReconcileClaim, At, TypeInv, WorkerShape, ClaimPcs, ExecutorPcs
    <3>2. RowsTyped' /\ outbox' \in [Workers -> SUBSET Events]
      <4>1. CASE status[r] = "cancel_requested"
        <5>1. FinalizeCancelRows({r}) /\ outbox' = [outbox EXCEPT ![w] = {Done(r)}]
          BY <1>17, <4>1 DEF ReconcileClaim
        <5>2. RowsTyped'
          BY <5>1, CancelRowsTyped DEF RowsTyped, TypeInv, TypeOK
        <5>3. QED
          BY <3>1, <5>1, <5>2 DEF Done, Events, TypeInv, TypeOK
      <4>2. CASE status[r] = "running" /\ turn[r] \in Terminal
        BY <1>17, <4>2 DEF ReconcileClaim, RowsTyped, TypeInv, TypeOK, turnVars
      <4>3. CASE ~(status[r] = "cancel_requested" \/ (status[r] = "running" /\ turn[r] \in Terminal))
        BY <1>17, <4>3 DEF ReconcileClaim, RowsTyped, TypeInv, TypeOK, runVars, turnVars
      <4>4. QED
        BY <4>1, <4>2, <4>3
    <3>3. pc' \in [Workers -> Pcs] /\ claim' \in [Workers -> Runs \cup {NoRun}]
      BY <1>17 DEF ReconcileClaim, TypeInv, TypeOK, Pcs, LoopPcs
    <3>4. QED
      BY <1>17, <3>2, <3>3 DEF ReconcileClaim, RowsTyped, TypeInv, TypeOK, requestVars
  <2>2. WorkerShape'
    BY <1>17 DEF ReconcileClaim, At, Terminal, TypeInv, TypeOK, WorkerShape, ClaimPcs, ExecutorPcs,
       LoopPcs
  <2>3. AnswerShape'
    BY <1>17 DEF ReconcileClaim, At, TypeInv, TypeOK, AnswerShape
  <2>4. QED
    BY <2>1, <2>2, <2>3 DEF TypeInv
<1>18. ASSUME NEW w \in Workers, SettleOpen(w) PROVE TypeInv'
  <2>1. TypeOK'
    <3>1. claim[w] \in Runs
      BY <1>18 DEF SettleOpen, MarkRunFailed, At, TypeInv, WorkerShape, ClaimPcs, ExecutorPcs
    <3>2. RowsTyped' /\ outbox' \in [Workers -> SUBSET Events]
      BY <1>18, <3>1, MarkRunFailedTyped DEF SettleOpen, RowsTyped, TypeInv, TypeOK
    <3>3. QED
      BY <1>18, <3>2 DEF SettleOpen, MarkRunFailed, RowsTyped, TypeInv, TypeOK, Pcs, LoopPcs, requestVars
  <2>2. WorkerShape'
    BY <1>18 DEF SettleOpen, MarkRunFailed, At, TypeInv, TypeOK, WorkerShape, ClaimPcs, ExecutorPcs,
       LoopPcs
  <2>3. AnswerShape'
    BY <1>18 DEF SettleOpen, MarkRunFailed, At, TypeInv, TypeOK, AnswerShape
  <2>4. QED
    BY <2>1, <2>2, <2>3 DEF TypeInv
<1>19. ASSUME NEW w \in Workers, ExecutorFails(w) PROVE TypeInv'
  <2>1. TypeOK'
    <3>1. claim[w] \in Runs
      BY <1>19 DEF ExecutorFails, At, TypeInv, WorkerShape, ClaimPcs, ExecutorPcs
    <3>2. outbox' \in [Workers -> SUBSET Events]
      BY <1>19, <3>1 DEF ExecutorFails, Error, Events, TypeInv, TypeOK
    <3>3. QED
      BY <1>19, <3>2 DEF ExecutorFails, TypeInv, TypeOK, Pcs, ExecutorPcs, requestVars, runVars,
         turnVars
  <2>2. WorkerShape'
    BY <1>19 DEF ExecutorFails, At, TypeInv, TypeOK, WorkerShape, ClaimPcs, ExecutorPcs, LoopPcs
  <2>3. AnswerShape'
    BY <1>19 DEF ExecutorFails, At, TypeInv, TypeOK, AnswerShape
  <2>4. QED
    BY <2>1, <2>2, <2>3 DEF TypeInv
<1>20. ASSUME NEW w \in Workers, ExecutorTimesOut(w) PROVE TypeInv'
  <2>1. TypeOK'
    BY <1>20 DEF ExecutorTimesOut, requestVars, runVars, turnVars, TypeInv, TypeOK, WorkerShape,
       ClaimPcs, Active, Terminal, Pcs, LoopPcs, ExecutorPcs, Events
  <2>2. WorkerShape'
    BY <1>20 DEF ExecutorTimesOut, TypeInv, TypeOK, WorkerShape, ClaimPcs, ExecutorPcs, LoopPcs
  <2>3. AnswerShape'
    BY <1>20 DEF ExecutorTimesOut, At, TypeInv, TypeOK, AnswerShape
  <2>4. QED
    BY <2>1, <2>2, <2>3 DEF TypeInv
<1>21. ASSUME NEW w \in Workers, LoopError(w) PROVE TypeInv'
  <2>1. TypeOK'
    BY <1>21 DEF LoopError, LoopPcs, requestVars, runVars, turnVars, TypeInv, TypeOK, WorkerShape,
       ClaimPcs, Active, Terminal, Pcs, ExecutorPcs, Events
  <2>2. WorkerShape'
    BY <1>21 DEF LoopError, LoopPcs, TypeInv, TypeOK, WorkerShape, ClaimPcs, ExecutorPcs
  <2>3. AnswerShape'
    BY <1>21 DEF LoopError, At, TypeInv, TypeOK, AnswerShape, LoopPcs
  <2>4. QED
    BY <2>1, <2>2, <2>3 DEF TypeInv
<1>22. ASSUME NEW w \in Workers, Crash(w) PROVE TypeInv'
  <2>1. TypeOK'
    BY <1>22 DEF Crash, requestVars, turnVars, TypeInv, TypeOK, WorkerShape, ClaimPcs, Active,
       Terminal, Pcs, LoopPcs, ExecutorPcs, Events
  <2>2. WorkerShape'
    BY <1>22 DEF Crash, TypeInv, TypeOK, WorkerShape, ClaimPcs, ExecutorPcs, LoopPcs
  <2>3. AnswerShape'
    BY <1>22 DEF Crash, At, TypeInv, TypeOK, AnswerShape
  <2>4. QED
    BY <2>1, <2>2, <2>3 DEF TypeInv
<1>23. ASSUME NEW w \in Workers, Heartbeat(w) PROVE TypeInv'
  BY <1>23 DEF Heartbeat, ExecutorPcs, requestVars, turnVars, workerVars, TypeInv, TypeOK,
     WorkerShape, AnswerShape, Active, Terminal, Pcs, LoopPcs, Events
<1>24. ASSUME NEW w \in Workers, Restart(w) PROVE TypeInv'
  <2>1. TypeOK'
    BY <1>24 DEF Restart, requestVars, runVars, turnVars, TypeInv, TypeOK, WorkerShape, ClaimPcs,
       Active, Terminal, Pcs, LoopPcs, ExecutorPcs, Events
  <2>2. WorkerShape'
    BY <1>24 DEF Restart, TypeInv, TypeOK, WorkerShape, ClaimPcs, ExecutorPcs, LoopPcs
  <2>3. AnswerShape'
    BY <1>24 DEF Restart, At, TypeInv, TypeOK, AnswerShape
  <2>4. QED
    BY <2>1, <2>2, <2>3 DEF TypeInv
<1>25. ASSUME NEW r \in Runs, LeaseLapses(r) PROVE TypeInv'
  BY <1>25 DEF LeaseLapses, requestVars, turnVars, workerVars, TypeInv, TypeOK, WorkerShape, AnswerShape,
     Active, Terminal, Pcs, LoopPcs, ExecutorPcs, Events
<1>26. ASSUME NEW r \in Runs, HolderStalls(r) PROVE TypeInv'
  BY <1>26 DEF HolderStalls, requestVars, turnVars, workerVars, TypeInv, TypeOK, WorkerShape, AnswerShape,
     Active, Terminal, Pcs, LoopPcs, ExecutorPcs, Events
<1>27. CASE UNCHANGED vars
  BY <1>27 DEF vars, requestVars, runVars, turnVars, workerVars, TypeInv, TypeOK, WorkerShape, AnswerShape
<1>28. QED
  BY <1>1, <1>2, <1>3, <1>4, <1>5, <1>6, <1>7, <1>8, <1>9, <1>10, <1>11, <1>12, <1>13, <1>14,
     <1>15, <1>16, <1>17, <1>18, <1>19, <1>20, <1>21, <1>22, <1>23, <1>24, <1>25, <1>26, <1>27
     DEF Next, Request, WorkerStep, Trouble

\* Every variable of the queue keeps its type: in particular a turn or a run
\* only ever gets a status its CHECK constraint admits.
THEOREM TypeCorrect == Spec => []TypeOK
<1>1. Init => TypeInv
  BY BoundsAssumption, NullAssumption
     DEF Init, TypeInv, TypeOK, WorkerShape, AnswerShape, ClaimPcs, Runs, Pcs, LoopPcs, ExecutorPcs
<1>2. TypeInv => TypeOK
  BY DEF TypeInv
<1>3. QED
  BY <1>1, <1>2, TypeInvInductive, PTL DEF Spec
----------------------------------------------------------------------------
(* What a step does to the two tables.  Every step of the queue does       *)
(* nothing to them or makes one of eight changes; the theorems below argue *)
(* about these changes instead of the twenty-six actions.                  *)

RequestCancel(r) ==
    /\ status[r] \in {"queued", "running"}
    /\ status' = [status EXCEPT ![r] = "cancel_requested"]
    /\ UNCHANGED <<next, turn, parts>>

Requeue(S) ==
    /\ \A r \in S : status[r] = "running"
    /\ status' = [r \in Runs |-> IF r \in S THEN "queued" ELSE status[r]]
    /\ UNCHANGED <<next, turn, parts>>

FinalizeCancels(S) ==
    /\ \A r \in S : status[r] = "cancel_requested"
    /\ FinalizeCancelRows(S)
    /\ UNCHANGED next

Claim(r) ==
    /\ status[r] = "queued"
    /\ status' = [status EXCEPT ![r] = "running"]
    /\ UNCHANGED <<next, turn, parts>>

Store(r, s) ==
    /\ MayStore(r)
    /\ turn' = [turn EXCEPT ![r] = s]
    /\ parts' = [parts EXCEPT ![r] = Append(@, IF s = "completed" THEN "answer" ELSE "error")]
    /\ UNCHANGED <<next, status>>

Fail(r) ==
    /\ status[r] = "running"
    /\ turn' = [turn EXCEPT ![r] = IF @ = "running" THEN "failed" ELSE @]
    /\ parts' = [parts EXCEPT ![r] = IF @ = <<>> THEN <<"error">> ELSE @]
    /\ status' = [status EXCEPT ![r] = "failed"]
    /\ UNCHANGED next

Reconcile(r) ==
    /\ status[r] = "running" /\ turn[r] \in Terminal
    /\ status' = [status EXCEPT ![r] = turn[r]]
    /\ UNCHANGED <<next, turn, parts>>

RowStep ==
    \/ UNCHANGED <<next, status, turn, parts>>
    \/ \E t \in Threads : MayEnqueue(t) /\ EnqueueRun(t)
    \/ \E r \in Runs : RequestCancel(r) \/ Claim(r) \/ Fail(r) \/ Reconcile(r)
    \/ \E S \in SUBSET Runs : Requeue(S) \/ FinalizeCancels(S)
    \/ \E r \in Runs, s \in Terminal : Store(r, s)

LEMMA MarkRunFailedRows ==
    ASSUME TypeInv, NEW w \in Workers, NEW label \in {"failing", "settling"}, NEW then,
           MarkRunFailed(w, label, then)
    PROVE  RowStep
<1> DEFINE r == claim[w]
<1>1. r \in Runs
  BY DEF MarkRunFailed, At, TypeInv, WorkerShape, ClaimPcs, ExecutorPcs
<1>2. CASE status[r] = "cancel_requested"
  <2>1. FinalizeCancels({r})
    BY <1>2 DEF MarkRunFailed, FinalizeCancels, requestVars
  <2>2. {r} \subseteq Runs
    BY <1>1
  <2>3. QED
    BY <2>1, <2>2 DEF RowStep
<1>3. CASE status[r] = "running"
  <2>1. Fail(r)
    BY <1>3 DEF MarkRunFailed, Fail, requestVars
  <2>2. QED
    BY <1>1, <2>1 DEF RowStep
<1>4. CASE status[r] \notin {"cancel_requested", "running"}
  BY <1>4 DEF MarkRunFailed, RowStep, requestVars, runVars, turnVars
<1>5. QED
  BY <1>2, <1>3, <1>4

LEMMA StepsAreRowSteps == TypeInv /\ [Next]_vars => RowStep
<1> SUFFICES ASSUME TypeInv, [Next]_vars PROVE RowStep
  OBVIOUS
<1>1. ASSUME NEW t \in Threads, ArchiveCheck(t) PROVE RowStep
  BY <1>1 DEF RowStep, ArchiveCheck, runVars, turnVars, workerVars
<1>2. ASSUME NEW t \in Threads, ArchiveCommit(t) PROVE RowStep
  BY <1>2 DEF RowStep, ArchiveCommit, runVars, turnVars, workerVars
<1>3. ASSUME NEW t \in Threads, Reopen(t) PROVE RowStep
  BY <1>3 DEF RowStep, Reopen, runVars, turnVars, workerVars
<1>4. ASSUME NEW r \in Runs, RetryCheck(r) PROVE RowStep
  BY <1>4 DEF RowStep, RetryCheck, runVars, turnVars, workerVars
<1>5. ASSUME NEW w \in Workers, Publish(w) PROVE RowStep
  BY <1>5 DEF RowStep, Publish, requestVars, runVars, turnVars
<1>6. ASSUME NEW w \in Workers, ClaimNothing(w) PROVE RowStep
  BY <1>6 DEF RowStep, ClaimNothing, requestVars, runVars, turnVars
<1>7. ASSUME NEW w \in Workers, StreamAnswer(w) PROVE RowStep
  BY <1>7 DEF RowStep, StreamAnswer, requestVars, runVars, turnVars
<1>8. ASSUME NEW w \in Workers, CheckCancelled(w) PROVE RowStep
  BY <1>8 DEF RowStep, CheckCancelled, requestVars, runVars, turnVars
<1>9. ASSUME NEW w \in Workers, ExecutorFails(w) PROVE RowStep
  BY <1>9 DEF RowStep, ExecutorFails, requestVars, runVars, turnVars
<1>10. ASSUME NEW w \in Workers, ExecutorTimesOut(w) PROVE RowStep
  BY <1>10 DEF RowStep, ExecutorTimesOut, requestVars, runVars, turnVars
<1>11. ASSUME NEW w \in Workers, LoopError(w) PROVE RowStep
  BY <1>11 DEF RowStep, LoopError, requestVars, runVars, turnVars
<1>12. ASSUME NEW w \in Workers, Crash(w) PROVE RowStep
  BY <1>12 DEF RowStep, Crash, requestVars, turnVars
<1>13. ASSUME NEW w \in Workers, Heartbeat(w) PROVE RowStep
  BY <1>13 DEF RowStep, Heartbeat, requestVars, turnVars, workerVars
<1>14. ASSUME NEW w \in Workers, Restart(w) PROVE RowStep
  BY <1>14 DEF RowStep, Restart, requestVars, runVars, turnVars
<1>15. ASSUME NEW r \in Runs, LeaseLapses(r) PROVE RowStep
  BY <1>15 DEF RowStep, LeaseLapses, requestVars, turnVars, workerVars
<1>16. ASSUME NEW r \in Runs, HolderStalls(r) PROVE RowStep
  BY <1>16 DEF RowStep, HolderStalls, requestVars, turnVars, workerVars
<1>17. ASSUME NEW t \in Threads, CreateRun(t) PROVE RowStep
  BY <1>17 DEF RowStep, CreateRun
<1>18. ASSUME NEW r \in Runs, RetryCommit(r) PROVE RowStep
  BY <1>18 DEF RowStep, RetryCommit, TypeInv, TypeOK, runVars, turnVars
<1>19. ASSUME NEW r \in Runs, CancelTurn(r) PROVE RowStep
  BY <1>19 DEF RowStep, CancelTurn, RequestCancel, Active, requestVars, turnVars
<1>20. ASSUME NEW w \in Workers, RecoverStale(w) PROVE RowStep
  <2>1. StaleRuns \subseteq Runs /\ \A r \in StaleRuns : status[r] = "running"
    BY DEF StaleRuns
  <2>2. Requeue(StaleRuns)
    BY <1>20, <2>1 DEF RecoverStale, Requeue, requestVars, turnVars
  <2>3. QED
    BY <2>1, <2>2 DEF RowStep
<1>21. ASSUME NEW w \in Workers, FinalizeCancelRequested(w) PROVE RowStep
  <2>1. FinalizableCancels \subseteq Runs /\ \A r \in FinalizableCancels : status[r] = "cancel_requested"
    BY DEF FinalizableCancels
  <2>2. FinalizeCancels(FinalizableCancels)
    BY <1>21, <2>1 DEF FinalizeCancelRequested, FinalizeCancels, requestVars
  <2>3. QED
    BY <2>1, <2>2 DEF RowStep
<1>22. ASSUME NEW w \in Workers, ClaimRun(w) PROVE RowStep
  BY <1>22 DEF RowStep, ClaimRun, Claim, requestVars, turnVars
<1>23. ASSUME NEW w \in Workers, StoreAnswer(w) PROVE RowStep
  <2> DEFINE r == claim[w]
  <2>1. r \in Runs
    BY <1>23 DEF StoreAnswer, At, TypeInv, WorkerShape, ClaimPcs, ExecutorPcs
  <2>2. CASE ~MayStore(r)
    BY <1>23, <2>2 DEF StoreAnswer, RowStep, requestVars, runVars, turnVars
  <2>3. CASE MayStore(r)
    <3>1. result[w] \in Terminal
      BY <1>23 DEF StoreAnswer, At, TypeInv, AnswerShape
    <3>2. Store(r, result[w])
      BY <1>23, <2>3 DEF StoreAnswer, Store, requestVars, runVars
    <3>3. QED
      BY <2>1, <3>1, <3>2 DEF RowStep
  <2>4. QED
    BY <2>2, <2>3
<1>24. ASSUME NEW w \in Workers, FailClaim(w) PROVE RowStep
  BY <1>24, MarkRunFailedRows DEF FailClaim
<1>25. ASSUME NEW w \in Workers, SettleOpen(w) PROVE RowStep
  BY <1>25, MarkRunFailedRows DEF SettleOpen
<1>26. ASSUME NEW w \in Workers, ReconcileClaim(w) PROVE RowStep
  <2> DEFINE r == claim[w]
  <2>1. r \in Runs
    BY <1>26 DEF ReconcileClaim, At, TypeInv, WorkerShape, ClaimPcs, ExecutorPcs
  <2>2. CASE status[r] = "cancel_requested"
    <3>1. FinalizeCancels({r})
      BY <1>26, <2>1, <2>2 DEF ReconcileClaim, FinalizeCancels, requestVars
    <3>2. {r} \subseteq Runs
      BY <2>1
    <3>3. QED
      BY <3>1, <3>2 DEF RowStep
  <2>3. CASE status[r] = "running" /\ turn[r] \in Terminal
    <3>1. Reconcile(r)
      BY <1>26, <2>3 DEF ReconcileClaim, Reconcile, requestVars, turnVars
    <3>2. QED
      BY <2>1, <3>1 DEF RowStep
  <2>4. CASE ~(status[r] = "cancel_requested" \/ (status[r] = "running" /\ turn[r] \in Terminal))
    BY <1>26, <2>4 DEF ReconcileClaim, RowStep, requestVars, runVars, turnVars
  <2>5. QED
    BY <2>2, <2>3, <2>4
<1>27. CASE UNCHANGED vars
  BY <1>27 DEF vars, RowStep, requestVars, runVars, turnVars
<1>28. QED
  BY <1>1, <1>2, <1>3, <1>4, <1>5, <1>6, <1>7, <1>8, <1>9, <1>10, <1>11, <1>12, <1>13, <1>14,
     <1>15, <1>16, <1>17, <1>18, <1>19, <1>20, <1>21, <1>22, <1>23, <1>24, <1>25, <1>26, <1>27
     DEF Next, Request, WorkerStep, Trouble
----------------------------------------------------------------------------
(* The safety of settled runs and visible answers.                         *)

\* Ids are handed out in order, and a turn is inserted with its run.
FreshRuns ==
    \A r \in Runs : (r >= next <=> status[r] = "none") /\ (status[r] = "none" <=> turn[r] = "none")

RowInv == FreshRuns /\ SettledRunsHaveSettledTurns /\ PartsAgreeWithTurn

LEMMA RowInvInductive == TypeInv /\ RowInv /\ [Next]_vars => RowInv'
<1> SUFFICES ASSUME TypeInv, RowInv, RowStep PROVE RowInv'
  BY StepsAreRowSteps
<1> USE BoundsAssumption DEF Runs, RowInv, FreshRuns, SettledRunsHaveSettledTurns,
                             PartsAgreeWithTurn, Terminal
<1>0. next \in 1 .. MaxRuns + 1 /\ status \in [Runs -> {"none"} \cup Active \cup Terminal]
      /\ turn \in [Runs -> {"none", "running"} \cup Terminal]
      /\ parts \in [Runs -> Seq({"answer", "error"})]
  BY DEF TypeInv, TypeOK
<1>a. <<"answer">> # <<>> /\ <<"error">> # <<>>
  OBVIOUS
<1>1. CASE UNCHANGED <<next, status, turn, parts>>
  BY <1>1
<1>2. ASSUME NEW t \in Threads, EnqueueRun(t) PROVE RowInv'
  <2>1. /\ next \in Runs /\ next' = next + 1
        /\ status' = [status EXCEPT ![next] = "queued"]
        /\ turn' = [turn EXCEPT ![next] = "running"]
        /\ parts' = parts
    BY <1>2 DEF EnqueueRun
  <2>2. FreshRuns'
    <3>1. \A r \in Runs : r >= next' <=> r >= next /\ r # next
      <4>1. next \in Nat /\ next' = next + 1
        BY <1>0, <2>1
      <4>2. ASSUME NEW i \in Nat, NEW n \in Nat PROVE i >= n + 1 <=> i >= n /\ i # n
        OBVIOUS
      <4>3. QED
        BY <4>1, <4>2
    <3>2. \A r \in Runs : r # next => status'[r] = status[r] /\ turn'[r] = turn[r]
      BY <1>0, <2>1
    <3>3. status'[next] = "queued" /\ turn'[next] = "running"
      BY <1>0, <2>1
    <3>4. QED
      BY <2>1, <3>1, <3>2, <3>3
  <2>3. SettledRunsHaveSettledTurns'
    BY <1>0, <2>1
  <2>4. PartsAgreeWithTurn'
    <3>1. parts[next] = <<>>
      BY <2>1
    <3>2. QED
      BY <1>0, <2>1, <3>1
  <2>5. QED
    BY <2>2, <2>3, <2>4
<1>3. ASSUME NEW r \in Runs, RequestCancel(r) PROVE RowInv'
  BY <1>0, <1>3 DEF RequestCancel, Active
<1>4. ASSUME NEW r \in Runs, Claim(r) PROVE RowInv'
  BY <1>0, <1>4 DEF Claim, Active
<1>5. ASSUME NEW r \in Runs, Fail(r) PROVE RowInv'
  <2>1. /\ status[r] = "running"
        /\ turn' = [turn EXCEPT ![r] = IF @ = "running" THEN "failed" ELSE @]
        /\ parts' = [parts EXCEPT ![r] = IF @ = <<>> THEN <<"error">> ELSE @]
        /\ status' = [status EXCEPT ![r] = "failed"]
        /\ next' = next
    BY <1>5 DEF Fail
  <2>2. FreshRuns'
    BY <1>0, <2>1
  <2>3. SettledRunsHaveSettledTurns'
    BY <1>0, <2>1
  <2>4. PartsAgreeWithTurn'
    <3> SUFFICES ASSUME NEW q \in Runs
                 PROVE  /\ turn'[q] = "completed" => parts'[q] = <<"answer">>
                        /\ turn'[q] \in {"failed", "cancelled"} => parts'[q] = <<"error">>
                        /\ turn'[q] \in {"none", "running"} => parts'[q] = <<>>
      OBVIOUS
    <3>1. CASE turn[q] \in {"completed", "failed", "cancelled"}
      BY <1>0, <1>a, <2>1, <3>1
    <3>2. CASE turn[q] \in {"none", "running"}
      BY <1>0, <2>1, <3>2
    <3>3. QED
      BY <1>0, <3>1, <3>2
  <2>5. QED
    BY <2>2, <2>3, <2>4
<1>6. ASSUME NEW r \in Runs, Reconcile(r) PROVE RowInv'
  BY <1>0, <1>6 DEF Reconcile, Active
<1>7. ASSUME NEW S \in SUBSET Runs, Requeue(S) PROVE RowInv'
  BY <1>0, <1>7 DEF Requeue, Active
<1>8. ASSUME NEW S \in SUBSET Runs, FinalizeCancels(S) PROVE RowInv'
  <2>1. /\ turn' = [r \in Runs |-> IF r \in S /\ turn[r] = "running" THEN "cancelled" ELSE turn[r]]
        /\ parts' = [r \in Runs |-> IF r \in S /\ parts[r] = <<>> THEN <<"error">> ELSE parts[r]]
        /\ status' = [r \in Runs |-> IF r \in S THEN "cancelled" ELSE status[r]]
        /\ next' = next
        /\ \A r \in S : status[r] = "cancel_requested"
    BY <1>8 DEF FinalizeCancels, FinalizeCancelRows
  <2>2. FreshRuns'
    BY <1>0, <2>1
  <2>3. SettledRunsHaveSettledTurns'
    BY <1>0, <2>1
  <2>4. PartsAgreeWithTurn'
    <3> SUFFICES ASSUME NEW q \in Runs
                 PROVE  /\ turn'[q] = "completed" => parts'[q] = <<"answer">>
                        /\ turn'[q] \in {"failed", "cancelled"} => parts'[q] = <<"error">>
                        /\ turn'[q] \in {"none", "running"} => parts'[q] = <<>>
      OBVIOUS
    <3>1. CASE turn[q] \in {"completed", "failed", "cancelled"}
      BY <1>0, <1>a, <2>1, <3>1
    <3>2. CASE turn[q] \in {"none", "running"}
      BY <1>0, <2>1, <3>2
    <3>3. QED
      BY <1>0, <3>1, <3>2
  <2>5. QED
    BY <2>2, <2>3, <2>4
<1>9. ASSUME NEW r \in Runs, NEW s \in Terminal, Store(r, s) PROVE RowInv'
  <2>1. turn[r] = "running" /\ parts[r] = <<>> /\ status[r] = "running"
    BY <1>9 DEF Store, MayStore
  <2>2. turn' = [turn EXCEPT ![r] = s] /\ UNCHANGED <<next, status>>
    BY <1>9 DEF Store
  <2>3. parts' = [parts EXCEPT ![r] = IF s = "completed" THEN <<"answer">> ELSE <<"error">>]
    <3>1. parts' = [parts EXCEPT ![r] = Append(<<>>, IF s = "completed" THEN "answer" ELSE "error")]
      BY <1>0, <1>9, <2>1 DEF Store
    <3>2. \A k \in {"answer", "error"} : Append(<<>>, k) = <<k>>
      OBVIOUS
    <3>3. QED
      BY <3>1, <3>2
  <2>4. FreshRuns' /\ SettledRunsHaveSettledTurns'
    BY <1>0, <2>1, <2>2
  <2>5. PartsAgreeWithTurn'
    BY <1>0, <2>2, <2>3
  <2>6. QED
    BY <2>4, <2>5
<1>10. QED
  BY <1>1, <1>2, <1>3, <1>4, <1>5, <1>6, <1>7, <1>8, <1>9 DEF RowStep

LEMMA InvariantsHold == Spec => [](TypeInv /\ RowInv)
<1>1. Init => TypeInv
  BY BoundsAssumption, NullAssumption
     DEF Init, TypeInv, TypeOK, WorkerShape, AnswerShape, ClaimPcs, Runs, Pcs, LoopPcs, ExecutorPcs
<1>2. Init => RowInv
  BY BoundsAssumption DEF Init, RowInv, FreshRuns, SettledRunsHaveSettledTurns, PartsAgreeWithTurn,
     Terminal, Runs
<1>3. QED
  BY <1>1, <1>2, TypeInvInductive, RowInvInductive, PTL DEF Spec

\* No run is settled while the user's turn is still open, so that nothing
\* stays "responding" behind a run that no worker will pick up again; and
\* however many workers execute a run, its turn shows one answer if it
\* completed, one notice if it did not, and nothing before that.
THEOREM Agreement == Spec => []RunTurnAndTextAgree
<1>1. RowInv => RunTurnAndTextAgree
  BY DEF RowInv, RunTurnAndTextAgree
<1>2. QED
  BY <1>1, InvariantsHold, PTL

\* An answer that arrives after an accepted cancellation is never stored.
LEMMA LateOutput == Spec => LateOutputDiscarded
<1> DEFINE Step == \A r \in Runs :
      status[r] \in {"cancel_requested", "cancelled"} /\ turn[r] = "running"
         => turn'[r] \in {"running", "cancelled"}
<1>1. TypeInv /\ RowInv /\ [Next]_vars => [Step]_vars
  <2> SUFFICES ASSUME TypeInv, RowInv, RowStep PROVE Step
    BY StepsAreRowSteps
  <2> SUFFICES ASSUME NEW q \in Runs, status[q] \in {"cancel_requested", "cancelled"},
                      turn[q] = "running"
               PROVE  turn'[q] \in {"running", "cancelled"}
    OBVIOUS
  <2>0. turn \in [Runs -> {"none", "running"} \cup Terminal]
        /\ (status[q] # "none") /\ (next \in Runs => status[next] = "none")
    BY BoundsAssumption DEF TypeInv, TypeOK, RowInv, FreshRuns, Runs
  <2>1. ASSUME NEW t \in Threads, EnqueueRun(t) PROVE turn'[q] = "running"
    BY <2>0, <2>1 DEF EnqueueRun
  <2>2. ASSUME NEW r \in Runs, Fail(r) PROVE turn'[q] = "running"
    BY <2>0, <2>2 DEF Fail
  <2>3. ASSUME NEW S \in SUBSET Runs, FinalizeCancels(S) PROVE turn'[q] \in {"running", "cancelled"}
    BY <2>0, <2>3 DEF FinalizeCancels, FinalizeCancelRows
  <2>4. ASSUME NEW r \in Runs, NEW s \in Terminal, Store(r, s) PROVE turn'[q] = "running"
    BY <2>0, <2>4 DEF Store, MayStore
  <2>5. CASE UNCHANGED turn
    BY <2>5
  <2>6. QED
    BY <2>1, <2>2, <2>3, <2>4, <2>5 DEF RowStep, RequestCancel, Claim, Reconcile, Requeue
<1>2. QED
  BY <1>1, InvariantsHold, PTL DEF Spec, LateOutputDiscarded

\* What has ended does not change in a step.
Ended(r) ==
    /\ turn[r] \in Terminal => turn'[r] = turn[r] /\ parts'[r] = parts[r]
    /\ status[r] \in Terminal => status'[r] = status[r]

LEMMA StepsKeepEnds == TypeInv /\ RowInv /\ [Next]_vars => \A r \in Runs : Ended(r)
<1> SUFFICES ASSUME TypeInv, RowInv, RowStep, NEW q \in Runs
             PROVE  Ended(q)
  BY StepsAreRowSteps
<1> USE DEF Terminal, Ended
<1>0. /\ turn \in [Runs -> {"none", "running"} \cup Terminal]
      /\ status \in [Runs -> {"none"} \cup Active \cup Terminal]
      /\ parts \in [Runs -> Seq({"answer", "error"})]
  BY DEF TypeInv, TypeOK
<1>a. next \in Runs => status[next] = "none" /\ turn[next] = "none"
  BY BoundsAssumption DEF TypeInv, TypeOK, RowInv, FreshRuns, Runs
<1>b. turn[q] \in Terminal => parts[q] # <<>>
  BY DEF RowInv, PartsAgreeWithTurn
<1>1. ASSUME NEW t \in Threads, EnqueueRun(t) PROVE Ended(q)
  BY <1>0, <1>a, <1>1 DEF EnqueueRun
<1>2. ASSUME NEW r \in Runs, RequestCancel(r) \/ Claim(r) \/ Reconcile(r) PROVE Ended(q)
  BY <1>0, <1>2 DEF RequestCancel, Claim, Reconcile
<1>3. ASSUME NEW r \in Runs, Fail(r) PROVE Ended(q)
  BY <1>0, <1>b, <1>3 DEF Fail
<1>4. ASSUME NEW S \in SUBSET Runs, Requeue(S) PROVE Ended(q)
  BY <1>0, <1>4 DEF Requeue
<1>5. ASSUME NEW S \in SUBSET Runs, FinalizeCancels(S) PROVE Ended(q)
  BY <1>0, <1>b, <1>5 DEF FinalizeCancels, FinalizeCancelRows
<1>6. ASSUME NEW r \in Runs, NEW s \in Terminal, Store(r, s) PROVE Ended(q)
  BY <1>0, <1>6 DEF Store, MayStore
<1>7. CASE UNCHANGED <<next, status, turn, parts>>
  BY <1>7
<1>8. QED
  BY <1>1, <1>2, <1>3, <1>4, <1>5, <1>6, <1>7 DEF RowStep

\* A settled run and a turn that ended never change again, whatever a worker
\* with an outdated claim reports.
LEMMA Finality == Spec => TerminalIsFinal
  BY StepsKeepEnds, InvariantsHold, PTL DEF Spec, TerminalIsFinal, Ended

\* Both together: no late worker rewrites what the user saw.
THEOREM Ends == Spec => EndsAreFinal
  BY LateOutput, Finality, PTL DEF EndsAreFinal

----------------------------------------------------------------------------
(* Exclusion: one run of a thread, one worker of a run.                    *)

LEMMA ThreadsAreFixed == [Next]_vars => thread' = thread
<1>1. Request => thread' = thread
  BY DEF Request, CreateRun, ArchiveCheck, ArchiveCommit, Reopen, RetryCheck, RetryCommit, CancelTurn,
     requestVars
<1>2. ASSUME NEW w \in Workers, WorkerStep(w) PROVE thread' = thread
  BY <1>2 DEF WorkerStep, Publish, RecoverStale, FinalizeCancelRequested, ClaimRun, ClaimNothing,
     StreamAnswer, CheckCancelled, StoreAnswer, FailClaim, SettleOpen, MarkRunFailed, ReconcileClaim,
     requestVars
<1>3. ASSUME NEW w \in Workers, Trouble(w) \/ Heartbeat(w) \/ Restart(w) PROVE thread' = thread
  BY <1>3 DEF Trouble, ExecutorFails, ExecutorTimesOut, LoopError, Crash, Heartbeat, Restart, requestVars
<1>4. ASSUME NEW r \in Runs, LeaseLapses(r) \/ HolderStalls(r) PROVE thread' = thread
  BY <1>4 DEF LeaseLapses, HolderStalls, requestVars
<1>5. QED
  BY <1>1, <1>2, <1>3, <1>4 DEF Next, vars, requestVars

\* A run only becomes active, and a turn only starts to respond, when it is
\* inserted, which MayEnqueue guards.
LEMMA OneActiveInductive ==
    ASSUME TypeInv, OneActiveRunPerThread, [Next]_vars
    PROVE  OneActiveRunPerThread'
<1> DEFINE Busy(r) == status[r] \in Active \/ turn[r] = "running"
           Starts(r) == Busy(r)' /\ ~Busy(r)
<1> USE DEF Active, Terminal
<1>0. /\ turn \in [Runs -> {"none", "running"} \cup Terminal]
      /\ status \in [Runs -> {"none"} \cup Active \cup Terminal]
  BY DEF TypeInv, TypeOK
<1>1. thread' = thread
  BY ThreadsAreFixed
<1>2. ASSUME NEW t \in Threads, MayEnqueue(t), EnqueueRun(t) PROVE OneActiveRunPerThread'
  <2>1. next \in Runs /\ thread[next] = t
    BY <1>2 DEF EnqueueRun
  <2>2. /\ status' = [status EXCEPT ![next] = "queued"]
        /\ turn' = [turn EXCEPT ![next] = "running"]
    BY <1>2 DEF EnqueueRun
  <2>3. \A r \in Runs : thread[r] = t => status[r] \notin Active /\ turn[r] # "running"
    BY <1>2 DEF MayEnqueue, Responding, HasActiveRun
  <2>4. \A r \in Runs : r # next => status'[r] = status[r] /\ turn'[r] = turn[r]
    BY <1>0, <2>1, <2>2
  <2>5. QED
    BY <1>1, <2>1, <2>3, <2>4 DEF OneActiveRunPerThread
<1>3. ASSUME \A r \in Runs : /\ status'[r] \in Active => status[r] \in Active
                             /\ turn'[r] = "running" => turn[r] = "running"
      PROVE  OneActiveRunPerThread'
  BY <1>1, <1>3 DEF OneActiveRunPerThread
<1>4. ASSUME NEW r \in Runs, RequestCancel(r) \/ Claim(r) \/ Fail(r) \/ Reconcile(r)
      PROVE  OneActiveRunPerThread'
  BY <1>0, <1>3, <1>4 DEF RequestCancel, Claim, Fail, Reconcile
<1>5. ASSUME NEW S \in SUBSET Runs, Requeue(S) \/ FinalizeCancels(S) PROVE OneActiveRunPerThread'
  BY <1>0, <1>3, <1>5 DEF Requeue, FinalizeCancels, FinalizeCancelRows
<1>6. ASSUME NEW r \in Runs, NEW s \in Terminal, Store(r, s) PROVE OneActiveRunPerThread'
  BY <1>0, <1>3, <1>6 DEF Store
<1>7. CASE UNCHANGED <<next, status, turn, parts>>
  BY <1>3, <1>7
<1>8. RowStep
  BY StepsAreRowSteps
<1>9. QED
  BY <1>2, <1>4, <1>5, <1>6, <1>7, <1>8 DEF RowStep

\* A worker has "done" to publish only for a turn that is durably over.
DoneIsTrue == \A w \in Workers : \A e \in outbox[w] : e.type = "done" => turn[e.run] \in Terminal

AnnounceInv == DoneIsTrue /\ DoneOnlyAfterDurable

\* A worker writes down what it has to publish, for turns that this step has
\* ended at the latest.
Announce(w, E) ==
    /\ outbox' = [outbox EXCEPT ![w] = E]
    /\ \A e \in E : e.type = "done" => turn'[e.run] \in Terminal
    /\ UNCHANGED published

\* What _finalize_cancel_row leaves behind is a turn that ended.
LEMMA CancelEndsTurns ==
    ASSUME TypeInv, RowInv, NEW S \in SUBSET Runs, \A r \in S : status[r] = "cancel_requested",
           FinalizeCancelRows(S)
    PROVE  \A r \in S : turn'[r] \in Terminal
  BY DEF FinalizeCancelRows, TypeInv, TypeOK, RowInv, FreshRuns, Terminal

AnnounceStep ==
    \/ UNCHANGED <<outbox, published>>
    \/ \E w \in Workers : Publish(w)
    \/ \E w \in Workers, E \in SUBSET Events : Announce(w, E)

LEMMA MarkRunFailedAnnounces ==
    ASSUME TypeInv, RowInv, NEW w \in Workers, NEW label \in {"failing", "settling"}, NEW then,
           MarkRunFailed(w, label, then)
    PROVE  AnnounceStep
<1> DEFINE r == claim[w]
<1>1. r \in Runs
  BY DEF MarkRunFailed, At, TypeInv, WorkerShape, ClaimPcs, ExecutorPcs
<1>2. CASE status[r] = "cancel_requested"
  <2>1. turn'[r] \in Terminal
    BY <1>1, <1>2, CancelEndsTurns DEF MarkRunFailed
  <2>2. Announce(w, {Done(r)}) /\ {Done(r)} \in SUBSET Events
    BY <1>1, <1>2, <2>1 DEF MarkRunFailed, Announce, Done, Events
  <2>3. QED
    BY <2>2 DEF AnnounceStep
<1>3. CASE status[r] # "cancel_requested"
  BY <1>3 DEF MarkRunFailed, AnnounceStep
<1>4. QED
  BY <1>2, <1>3

LEMMA StepsAnnounceTheTruth == TypeInv /\ RowInv /\ [Next]_vars => AnnounceStep
<1> SUFFICES ASSUME TypeInv, RowInv, [Next]_vars PROVE AnnounceStep
  OBVIOUS
<1>1. CASE Request
  BY <1>1 DEF Request, CreateRun, ArchiveCheck, ArchiveCommit, Reopen, RetryCheck, RetryCommit, CancelTurn,
     workerVars, AnnounceStep
<1>2. ASSUME NEW w \in Workers, Publish(w) PROVE AnnounceStep
  BY <1>2 DEF AnnounceStep
<1>3. ASSUME NEW w \in Workers,
             RecoverStale(w) \/ ClaimRun(w) \/ ClaimNothing(w) \/ StreamAnswer(w) \/ CheckCancelled(w)
                \/ LoopError(w) \/ Heartbeat(w) \/ Restart(w)
      PROVE  AnnounceStep
  BY <1>3 DEF RecoverStale, ClaimRun, ClaimNothing, StreamAnswer, CheckCancelled, LoopError, Heartbeat,
     Restart, workerVars, AnnounceStep
<1>4. ASSUME NEW w \in Workers, FinalizeCancelRequested(w) PROVE AnnounceStep
  <2> DEFINE S == FinalizableCancels
             E == {Done(r) : r \in S}
  <2>1. S \in SUBSET Runs /\ \A r \in S : status[r] = "cancel_requested"
    BY DEF FinalizableCancels
  <2>2. \A r \in S : turn'[r] \in Terminal
    BY <1>4, <2>1, CancelEndsTurns DEF FinalizeCancelRequested
  <2>3. E \in SUBSET Events
    BY <2>1 DEF Done, Events
  <2>4. \A e \in E : turn'[e.run] \in Terminal
    BY <2>2 DEF Done
  <2>5. Announce(w, E)
    BY <1>4, <2>4 DEF FinalizeCancelRequested, Announce
  <2>6. QED
    BY <2>3, <2>5 DEF AnnounceStep
<1>5. ASSUME NEW w \in Workers, StoreAnswer(w) PROVE AnnounceStep
  <2> DEFINE r == claim[w]
             e == IF result[w] = "failed" THEN Error(r) ELSE Done(r)
  <2>1. r \in Runs /\ result[w] \in Terminal
    BY <1>5 DEF StoreAnswer, At, TypeInv, WorkerShape, AnswerShape, ClaimPcs, ExecutorPcs
  <2>2. CASE ~MayStore(r)
    BY <1>5, <2>2 DEF StoreAnswer, AnnounceStep
  <2>3. CASE MayStore(r)
    <3>1. turn' = [turn EXCEPT ![r] = result[w]] /\ outbox' = [outbox EXCEPT ![w] = {e}]
          /\ published' = published
      BY <1>5, <2>3 DEF StoreAnswer
    <3>2. turn'[r] \in Terminal
      BY <2>1, <3>1 DEF TypeInv, TypeOK
    <3>3. e \in Events /\ e.run = r
      BY <2>1 DEF Done, Error, Events
    <3>4. Announce(w, {e})
      BY <3>1, <3>2, <3>3 DEF Announce
    <3>5. QED
      BY <3>3, <3>4 DEF AnnounceStep
  <2>4. QED
    BY <2>2, <2>3
<1>6. ASSUME NEW w \in Workers, FailClaim(w) \/ SettleOpen(w) PROVE AnnounceStep
  BY <1>6, MarkRunFailedAnnounces DEF FailClaim, SettleOpen
<1>7. ASSUME NEW w \in Workers, ReconcileClaim(w) PROVE AnnounceStep
  <2> DEFINE r == claim[w]
  <2>1. r \in Runs
    BY <1>7 DEF ReconcileClaim, At, TypeInv, WorkerShape, ClaimPcs, ExecutorPcs
  <2>2. CASE status[r] = "cancel_requested"
    <3>1. turn'[r] \in Terminal
      BY <1>7, <2>1, <2>2, CancelEndsTurns DEF ReconcileClaim
    <3>2. Announce(w, {Done(r)}) /\ {Done(r)} \in SUBSET Events
      BY <1>7, <2>1, <2>2, <3>1 DEF ReconcileClaim, Announce, Done, Events
    <3>3. QED
      BY <3>2 DEF AnnounceStep
  <2>3. CASE status[r] # "cancel_requested"
    BY <1>7, <2>3 DEF ReconcileClaim, AnnounceStep
  <2>4. QED
    BY <2>2, <2>3
<1>8. ASSUME NEW w \in Workers, ExecutorFails(w) PROVE AnnounceStep
  <2>1. claim[w] \in Runs
    BY <1>8 DEF ExecutorFails, At, TypeInv, WorkerShape, ClaimPcs, ExecutorPcs
  <2>2. Announce(w, {Error(claim[w])}) /\ {Error(claim[w])} \in SUBSET Events
    BY <1>8, <2>1 DEF ExecutorFails, Announce, Error, Events
  <2>3. QED
    BY <2>2 DEF AnnounceStep
<1>9. ASSUME NEW w \in Workers, ExecutorTimesOut(w) \/ Crash(w) PROVE AnnounceStep
  <2>1. Announce(w, {}) /\ {} \in SUBSET Events
    BY <1>9 DEF ExecutorTimesOut, Crash, Announce
  <2>2. QED
    BY <2>1 DEF AnnounceStep
<1>10. ASSUME NEW r \in Runs, LeaseLapses(r) \/ HolderStalls(r) PROVE AnnounceStep
  BY <1>10 DEF LeaseLapses, HolderStalls, workerVars, AnnounceStep
<1>11. CASE UNCHANGED vars
  BY <1>11 DEF vars, workerVars, AnnounceStep
<1>12. QED
  BY <1>1, <1>2, <1>3, <1>4, <1>5, <1>6, <1>7, <1>8, <1>9, <1>10, <1>11
     DEF Next, WorkerStep, Trouble

LEMMA AnnounceInductive == TypeInv /\ RowInv /\ AnnounceInv /\ [Next]_vars => AnnounceInv'
<1> SUFFICES ASSUME TypeInv, RowInv, AnnounceInv, AnnounceStep, \A r \in Runs : Ended(r)
             PROVE  AnnounceInv'
  BY StepsAnnounceTheTruth, StepsKeepEnds
<1> USE DEF AnnounceInv, DoneIsTrue, DoneOnlyAfterDurable
<1>0. /\ outbox \in [Workers -> SUBSET Events]
      /\ published \in [Runs -> SUBSET {"done", "error"}]
      /\ \A e \in Events : e.run \in Runs
      /\ \A r \in Runs : turn[r] \in Terminal => turn'[r] \in Terminal
  BY DEF TypeInv, TypeOK, Events, Ended
<1>1. CASE UNCHANGED <<outbox, published>>
  BY <1>0, <1>1
<1>2. ASSUME NEW w \in Workers, Publish(w) PROVE AnnounceInv'
  <2>1. PICK e \in outbox[w] : /\ outbox' = [outbox EXCEPT ![w] = @ \ {e}]
                               /\ published' = [published EXCEPT ![e.run] = @ \cup {e.type}]
    BY <1>2 DEF Publish
  <2>2. e \in Events /\ (e.type = "done" => turn[e.run] \in Terminal)
    BY <1>0
  <2>3. DoneIsTrue'
    BY <1>0, <2>1
  <2>4. DoneOnlyAfterDurable'
    BY <1>0, <2>1, <2>2
  <2>5. QED
    BY <2>3, <2>4
<1>3. ASSUME NEW w \in Workers, NEW E \in SUBSET Events, Announce(w, E) PROVE AnnounceInv'
  BY <1>0, <1>3 DEF Announce
<1>4. QED
  BY <1>1, <1>2, <1>3 DEF AnnounceStep

\* While no live holder has lost its lease, a claimed run has left the queue
\* for good, and as long as it runs its row names the one worker that has it,
\* under a live lease.
ClaimsAreHeld ==
    stalls = 0 =>
        \A w \in Workers, r \in Runs : claim[w] = r =>
            /\ status[r] \notin {"none", "queued"}
            /\ status[r] = "running" => owner[r] = w /\ lease[r] = "live"
            /\ \A v \in Workers : claim[v] = r => v = w

\* What a step that leaves the claims alone, or drops some, may do to the rows.
Keeps(w, r) ==
    /\ status'[r] = "running" => status[r] = "running" /\ owner'[r] = owner[r]
    /\ status[r] \notin {"none", "queued"} => status'[r] \notin {"none", "queued"}
    /\ owner[r] = w /\ lease[r] = "live" /\ status'[r] = "running" => lease'[r] = "live"

LEMMA ClaimsStayHeld ==
    ASSUME TypeInv, ClaimsAreHeld, stalls' = 0 => stalls = 0,
           \A v \in Workers, q \in Runs : claim'[v] = q => claim[v] = q /\ (stalls = 0 => Keeps(v, q))
    PROVE  ClaimsAreHeld'
  BY DEF ClaimsAreHeld, Keeps

LEMMA MarkRunFailedKeepsClaims ==
    ASSUME TypeInv, ClaimsAreHeld, NEW w \in Workers, NEW label \in {"failing", "settling"},
           NEW then \in {"reconciling", "recovering"}, MarkRunFailed(w, label, then)
    PROVE  ClaimsAreHeld'
<1> DEFINE r == claim[w]
<1>1. r \in Runs
  BY DEF MarkRunFailed, At, TypeInv, WorkerShape, ClaimPcs, ExecutorPcs
<1>2. stalls' = stalls /\ claim' = [claim EXCEPT ![w] = IF then = "recovering" THEN NoRun ELSE @]
  BY DEF MarkRunFailed
<1>3. \A v \in Workers, q \in Runs : claim'[v] = q => claim[v] = q
  BY <1>2, NullAssumption DEF TypeInv, TypeOK
<1>4. ASSUME NEW v \in Workers, NEW q \in Runs PROVE Keeps(v, q)
  <2>1. CASE status[r] = "cancel_requested"
    BY <1>1, <2>1 DEF MarkRunFailed, FinalizeCancelRows, Keeps, TypeInv, TypeOK
  <2>2. CASE status[r] = "running"
    BY <1>1, <2>2 DEF MarkRunFailed, Keeps, TypeInv, TypeOK
  <2>3. CASE status[r] \notin {"cancel_requested", "running"}
    BY <2>3 DEF MarkRunFailed, runVars, Keeps
  <2>4. QED
    BY <2>1, <2>2, <2>3
<1>5. QED
  BY <1>2, <1>3, <1>4, ClaimsStayHeld

LEMMA ClaimsInductive ==
    ASSUME TypeInv, RowInv, ClaimsAreHeld, [Next]_vars
    PROVE  ClaimsAreHeld'
<1> USE DEF Active, Terminal
<1>0. /\ status \in [Runs -> {"none"} \cup Active \cup Terminal]
      /\ owner \in [Runs -> Workers \cup {NoOwner, Dead}]
      /\ lease \in [Runs -> {"none", "live", "expired"}]
      /\ claim \in [Workers -> Runs \cup {NoRun}]
      /\ stalls \in Nat
      /\ NoRun \notin Runs /\ NoOwner \notin Workers /\ Dead \notin Workers
  BY BoundsAssumption, NullAssumption DEF TypeInv, TypeOK
<1>1. ASSUME UNCHANGED <<status, owner, lease, claim, stalls>> PROVE ClaimsAreHeld'
  BY <1>1 DEF ClaimsAreHeld
<1>2. ASSUME NEW t \in Threads, EnqueueRun(t), UNCHANGED <<claim, stalls>> PROVE ClaimsAreHeld'
  <2>1. next \in Runs /\ status[next] = "none"
    BY <1>2, BoundsAssumption DEF EnqueueRun, RowInv, FreshRuns, Runs, TypeInv, TypeOK
  <2>2. \A q \in Runs : q # next => status'[q] = status[q]
    BY <1>0, <1>2, <2>1 DEF EnqueueRun
  <2>3. owner' = owner /\ lease' = lease
    BY <1>2 DEF EnqueueRun
  <2>4. \A v \in Workers : claim[v] = next => stalls # 0
    BY <2>1 DEF ClaimsAreHeld
  <2>5. QED
    BY <1>2, <2>1, <2>2, <2>3, <2>4 DEF ClaimsAreHeld
<1>3. CASE Request
  <2>1. ASSUME NEW r \in Runs, CancelTurn(r) PROVE ClaimsAreHeld'
    BY <1>0, <2>1, ClaimsStayHeld DEF CancelTurn, Keeps, workerVars
  <2>2. ASSUME NEW r \in Runs, RetryCommit(r) PROVE ClaimsAreHeld'
    BY <1>1, <1>2, <2>2 DEF RetryCommit, runVars, workerVars, TypeInv, TypeOK
  <2>3. ASSUME NEW t \in Threads, CreateRun(t) PROVE ClaimsAreHeld'
    BY <1>2, <2>3 DEF CreateRun, workerVars
  <2>4. QED
    BY <1>1, <1>3, <2>1, <2>2, <2>3
       DEF Request, ArchiveCheck, ArchiveCommit, Reopen, RetryCheck, runVars, workerVars
<1>4. ASSUME NEW w \in Workers,
             Publish(w) \/ ClaimNothing(w) \/ StreamAnswer(w) \/ CheckCancelled(w) \/ StoreAnswer(w)
                \/ ExecutorFails(w) \/ ExecutorTimesOut(w) \/ Restart(w)
      PROVE  ClaimsAreHeld'
  BY <1>1, <1>4 DEF Publish, ClaimNothing, StreamAnswer, CheckCancelled, StoreAnswer, ExecutorFails,
     ExecutorTimesOut, Restart, runVars
<1>5. ASSUME NEW w \in Workers, RecoverStale(w) PROVE ClaimsAreHeld'
  <2>1. \A v \in Workers, q \in Runs : stalls = 0 /\ claim[v] = q => q \notin StaleRuns
    BY DEF ClaimsAreHeld, StaleRuns
  <2>2. \A q \in Runs : q \notin StaleRuns =>
            status'[q] = status[q] /\ owner'[q] = owner[q] /\ lease'[q] = lease[q]
    BY <1>5 DEF RecoverStale
  <2>3. QED
    BY <1>5, <2>1, <2>2, ClaimsStayHeld DEF RecoverStale, Keeps
<1>6. ASSUME NEW w \in Workers, FinalizeCancelRequested(w) PROVE ClaimsAreHeld'
  <2>1. \A q \in FinalizableCancels : status[q] = "cancel_requested"
    BY DEF FinalizableCancels
  <2>2. \A v \in Workers, q \in Runs : Keeps(v, q)
    BY <1>6, <2>1 DEF FinalizeCancelRequested, FinalizeCancelRows, Keeps
  <2>3. QED
    BY <1>6, <2>2, ClaimsStayHeld DEF FinalizeCancelRequested
<1>7. ASSUME NEW w \in Workers, ClaimRun(w) PROVE ClaimsAreHeld'
  <2>1. PICK r \in Runs : /\ status[r] = "queued"
                          /\ status' = [status EXCEPT ![r] = "running"]
                          /\ owner' = [owner EXCEPT ![r] = w]
                          /\ lease' = [lease EXCEPT ![r] = "live"]
                          /\ claim' = [claim EXCEPT ![w] = r]
    BY <1>7 DEF ClaimRun
  <2>2. stalls' = stalls
    BY <1>7 DEF ClaimRun
  <2>3. \A v \in Workers : claim[v] = r => stalls # 0
    BY <2>1 DEF ClaimsAreHeld
  <2>4. QED
    BY <1>0, <2>1, <2>2, <2>3 DEF ClaimsAreHeld
<1>8. ASSUME NEW w \in Workers, FailClaim(w) \/ SettleOpen(w) PROVE ClaimsAreHeld'
  BY <1>8, MarkRunFailedKeepsClaims DEF FailClaim, SettleOpen
<1>9. ASSUME NEW w \in Workers, ReconcileClaim(w) PROVE ClaimsAreHeld'
  <2> DEFINE r == claim[w]
  <2>1. r \in Runs
    BY <1>9 DEF ReconcileClaim, At, TypeInv, WorkerShape, ClaimPcs, ExecutorPcs
  <2>2. stalls' = stalls /\ (claim' = claim \/ claim' = [claim EXCEPT ![w] = NoRun])
    BY <1>9 DEF ReconcileClaim
  <2>3. ASSUME NEW v \in Workers, NEW q \in Runs PROVE Keeps(v, q)
    <3>1. CASE status[r] = "cancel_requested"
      BY <1>0, <1>9, <2>1, <3>1 DEF ReconcileClaim, FinalizeCancelRows, Keeps
    <3>2. CASE status[r] = "running" /\ turn[r] \in Terminal
      BY <1>0, <1>9, <2>1, <3>2 DEF ReconcileClaim, Keeps
    <3>3. CASE ~(status[r] = "cancel_requested" \/ (status[r] = "running" /\ turn[r] \in Terminal))
      BY <1>9, <3>3 DEF ReconcileClaim, runVars, Keeps
    <3>4. QED
      BY <3>1, <3>2, <3>3
  <2>4. QED
    BY <1>0, <2>2, <2>3, ClaimsStayHeld
<1>10. ASSUME NEW w \in Workers, LoopError(w) PROVE ClaimsAreHeld'
  BY <1>0, <1>10, ClaimsStayHeld DEF LoopError, runVars, Keeps
<1>11. ASSUME NEW w \in Workers, Crash(w) PROVE ClaimsAreHeld'
  <2>1. /\ status' = status /\ lease' = lease /\ stalls' = stalls
        /\ claim' = [claim EXCEPT ![w] = NoRun]
        /\ owner' = [r \in Runs |-> IF owner[r] = w THEN Dead ELSE owner[r]]
    BY <1>11 DEF Crash
  <2>2. \A v \in Workers, q \in Runs : claim'[v] = q => v # w /\ claim[v] = q
    BY <1>0, <2>1
  <2>3. \A v \in Workers, q \in Runs :
            v # w /\ claim[v] = q /\ status[q] = "running" /\ stalls = 0 => owner'[q] = owner[q]
    BY <1>0, <2>1 DEF ClaimsAreHeld
  <2>4. QED
    BY <2>1, <2>2, <2>3 DEF ClaimsAreHeld
<1>12. ASSUME NEW w \in Workers, Heartbeat(w) PROVE ClaimsAreHeld'
  <2>1. claim[w] \in Runs
    BY <1>12 DEF Heartbeat, TypeInv, WorkerShape, ClaimPcs
  <2>2. QED
    BY <1>0, <1>12, <2>1, ClaimsStayHeld DEF Heartbeat, workerVars, Keeps
<1>13. ASSUME NEW r \in Runs, LeaseLapses(r) PROVE ClaimsAreHeld'
  <2>1. \A v \in Workers : claim[v] = r /\ stalls = 0 => status[r] # "running"
    BY <1>13 DEF LeaseLapses, Held, ClaimsAreHeld
  <2>2. /\ lease' = [lease EXCEPT ![r] = "expired"]
        /\ UNCHANGED <<status, owner, claim, stalls>>
    BY <1>13 DEF LeaseLapses, workerVars
  <2>3. QED
    BY <1>0, <2>1, <2>2 DEF ClaimsAreHeld
<1>14. ASSUME NEW r \in Runs, HolderStalls(r) PROVE ClaimsAreHeld'
  BY <1>0, <1>14 DEF HolderStalls, ClaimsAreHeld
<1>15. CASE UNCHANGED vars
  BY <1>1, <1>15 DEF vars, runVars, workerVars
<1>16. QED
  BY <1>3, <1>4, <1>5, <1>6, <1>7, <1>8, <1>9, <1>10, <1>11, <1>12, <1>13, <1>14, <1>15
     DEF Next, WorkerStep, Trouble

\* A thread has one active run at a time; subscribers hear "done" only about a
\* turn that is over; and a run is executed by at most one worker, whoever
\* crashed, failed or started again, as long as no live holder lost its lease
\* (the claim and the compare-and-set of services/assistant_runs.py).
THEOREM Exclusion == Spec => []RunsAreExclusive
<1> DEFINE Inv == OneActiveRunPerThread /\ AnnounceInv /\ ClaimsAreHeld
<1>1. Init => Inv
  BY NullAssumption DEF Init, OneActiveRunPerThread, AnnounceInv, DoneIsTrue, DoneOnlyAfterDurable,
     ClaimsAreHeld, Active
<1>2. TypeInv /\ RowInv /\ Inv /\ [Next]_vars => Inv'
  BY OneActiveInductive, AnnounceInductive, ClaimsInductive
<1>3. TypeInv /\ Inv => RunsAreExclusive
  BY DEF RunsAreExclusive, AnnounceInv, ClaimsAreHeld, ExclusiveExecution, TypeInv, TypeOK
<1>4. QED
  BY <1>1, <1>2, <1>3, InvariantsHold, PTL DEF Spec

----------------------------------------------------------------------------
(* The queue implements AssistantTurns.                                    *)

LEMMA InitMaps == Init => Turns!Init
  BY DEF Init, Turns!Init, Terminal

\* Each change to the tables is a step of the abstract specification or none.
LEMMA StepMaps == TypeInv /\ RowInv /\ [Next]_vars => [Turns!Next]_(Turns!vars)
<1> SUFFICES ASSUME TypeInv, RowInv, RowStep PROVE Turns!Next \/ UNCHANGED Turns!vars
  BY StepsAreRowSteps
<1> USE DEF Turns!vars, Terminal
<1>0. /\ status \in [Runs -> {"none"} \cup Active \cup Terminal]
      /\ turn \in [Runs -> {"none", "running"} \cup Terminal]
  BY DEF TypeInv, TypeOK
<1>a. /\ \A r \in Runs : status[r] = "none" <=> turn[r] = "none"
      /\ \A r \in Runs : status[r] \in Terminal => turn[r] \in Terminal
      /\ next \in Runs => status[next] = "none" /\ turn[next] = "none"
  BY BoundsAssumption DEF TypeInv, TypeOK, RowInv, FreshRuns, SettledRunsHaveSettledTurns, Runs
<1>1. CASE UNCHANGED <<next, status, turn, parts>>
  BY <1>1
<1>2. ASSUME NEW t \in Threads, EnqueueRun(t), NEW n \in Runs, n = next PROVE Turns!Ask(n)
  BY <1>0, <1>a, <1>2 DEF EnqueueRun, Turns!Ask
<1>3. ASSUME NEW r \in Runs, RequestCancel(r) PROVE Turns!Cancel(r)
  BY <1>0, <1>3 DEF RequestCancel, Turns!Cancel
<1>4. ASSUME NEW r \in Runs, Claim(r) PROVE UNCHANGED Turns!vars
  BY <1>0, <1>4 DEF Claim
<1>5. ASSUME NEW r \in Runs, Fail(r) PROVE Turns!Settle({r})
  BY <1>0, <1>a, <1>5 DEF Fail, Turns!Settle
<1>6. ASSUME NEW r \in Runs, Reconcile(r) PROVE Turns!Settle({r})
  BY <1>0, <1>6 DEF Reconcile, Turns!Settle
<1>7. ASSUME NEW S \in SUBSET Runs, Requeue(S) PROVE UNCHANGED Turns!vars
  BY <1>0, <1>7 DEF Requeue
<1>8. ASSUME NEW S \in SUBSET Runs, FinalizeCancels(S), S # {} PROVE Turns!Settle(S)
  BY <1>0, <1>a, <1>8 DEF FinalizeCancels, FinalizeCancelRows, Turns!Settle
<1>9. ASSUME NEW S \in SUBSET Runs, FinalizeCancels(S), S = {} PROVE UNCHANGED Turns!vars
  BY <1>0, <1>9 DEF FinalizeCancels, FinalizeCancelRows
<1>10. ASSUME NEW r \in Runs, NEW s \in Terminal, Store(r, s) PROVE Turns!Answer(r)
  BY <1>0, <1>10 DEF Store, MayStore, Turns!Answer
<1>11. QED
  <2>1. \A r \in Runs : {r} \in SUBSET Runs
    OBVIOUS
  <2>2. ASSUME NEW t \in Threads, EnqueueRun(t) PROVE Turns!Next
    <3>1. PICK n \in Runs : n = next
      BY <2>2 DEF EnqueueRun
    <3>2. Turns!Ask(n)
      BY <1>2, <2>2, <3>1
    <3>3. QED
      BY <3>1, <3>2 DEF Turns!Next
  <2>3. ASSUME NEW r \in Runs, RequestCancel(r) \/ Claim(r) \/ Fail(r) \/ Reconcile(r)
        PROVE  Turns!Next \/ UNCHANGED Turns!vars
    BY <1>3, <1>4, <1>5, <1>6, <2>1, <2>3 DEF Turns!Next
  <2>4. ASSUME NEW S \in SUBSET Runs, Requeue(S) \/ FinalizeCancels(S)
        PROVE  Turns!Next \/ UNCHANGED Turns!vars
    BY <1>7, <1>8, <1>9, <2>4 DEF Turns!Next
  <2>5. ASSUME NEW r \in Runs, NEW s \in Terminal, Store(r, s) PROVE Turns!Next
    BY <1>10, <2>5 DEF Turns!Next
  <2>6. QED
    BY <1>1, <2>2, <2>3, <2>4, <2>5 DEF RowStep

\* Workers, leases, zombies and crashes are invisible: every behaviour of the
\* queue is a behaviour of the questions-and-answers specification.
THEOREM Refinement == Spec => ImplementsTurns
  BY InitMaps, StepMaps, InvariantsHold, PTL DEF Spec, ImplementsTurns, Turns!Spec

-----------------------------------------------------------------------------
(* The context pack (module ContextPack).                                    *)

\* Where the run is, the pack and the descriptors are as far as that.
ProgressFits ==
    /\ packPc \in {"check", "checking", "discover"} => sections = <<>>
    /\ packPc \in {"check", "checking"} => \A s \in Sources : seen[s] = "unseen"
    /\ packPc \in {"discover", "load", "done"} => admitted
    /\ packPc \in {"load", "done"} => listed = 6
    /\ packPc = "done" => left = {}

\* A kind that was listed, and the source within its listing.
InCatalogue(s) ==
    /\ \E n \in 1..listed : Kind[s] = Pack!Kinds[n]
    /\ Kind[s] \in Pack!CappedKinds => s \in Reached \cup Selected

\* What the catalogue says of a source that was fit all along is true, and it
\* lists what can be used again only if the Work's scope allows that.
CatalogueFits ==
    packPc \in {"discover", "load", "done"} =>
        \A s \in Sources :
            /\ seen[s] # "unseen" /\ Kind[s] \in {"knowledge", "skill"} => open
            /\ s \notin changed /\ Pack!Fit(s) /\ InCatalogue(s) => seen[s] = live[s]

\* What is still to be loaded may be, as far as the plan step and the Work go.
LeftFits ==
    packPc = "load" =>
        \A s \in left :
            /\ Kind[s] = "memory_hub" => frozen = "active_work_memory"
            /\ Kind[s] \in {"knowledge", "skill"} => open

\* The pack is in rank order and ahead of what is still to be loaded.
OrderFits ==
    packPc \in {"load", "done"} =>
        /\ \A i, j \in DOMAIN sections :
              i < j => Rank[sections[i].source] < Rank[sections[j].source]
        /\ \A i \in DOMAIN sections, s \in left : Rank[sections[i].source] < Rank[s]

\* What was fit all along is in the pack, will be loaded, or had no room.
NothingIsLostYet ==
    packPc \in {"load", "done"} =>
        \A s \in Sources \ (changed \cup Pack!Shown \cup left) :
            Pack!Fit(s) => remaining = 0 \/ Pack!KindIsFull(s)

PackInv ==
    /\ Pack!PackTypeOK
    /\ ProgressFits /\ CatalogueFits /\ LeftFits /\ OrderFits /\ NothingIsLostYet

LEMMA KindsAreSix ==
    /\ \A s \in Sources : Kind[s] \in {"work", "conversation", "artifact", "memory_hub", "knowledge", "skill"}
    /\ \A s \in Sources : \E n \in 1..6 : Kind[s] = Pack!Kinds[n]
<1>1. /\ Pack!Kinds[1] = "work" /\ Pack!Kinds[2] = "conversation" /\ Pack!Kinds[3] = "artifact"
      /\ Pack!Kinds[4] = "memory_hub" /\ Pack!Kinds[5] = "knowledge" /\ Pack!Kinds[6] = "skill"
  BY DEF Pack!Kinds
<1>2. \A s \in Sources : \E n \in 1..6 : Kind[s] = Pack!Kinds[n]
  BY PackAssumption
<1>3. ASSUME NEW s \in Sources, NEW n \in 1..6, Kind[s] = Pack!Kinds[n]
      PROVE  Kind[s] \in {"work", "conversation", "artifact", "memory_hub", "knowledge", "skill"}
  <2>1. n \in {1, 2, 3, 4, 5, 6}
    OBVIOUS
  <2>2. QED
    BY <1>1, <1>3, <2>1
<1>4. QED
  BY <1>2, <1>3

LEMMA PackStarts == Pack!PackInit => PackInv
<1> SUFFICES ASSUME Pack!PackInit PROVE PackInv
  OBVIOUS
<1>1. 0 \in 0..6 /\ ByteLimit \in 0..ByteLimit /\ 0 \in 0..MaxChanges
  BY PackAssumption
<1>2. Pack!PackTypeOK
  <2>1. live \in [Sources -> Pack!States] /\ \A s \in Sources : live[s] \in Pack!StatesOf(s)
    BY DEF Pack!PackInit, Pack!States
  <2>2. /\ seen \in [Sources -> Pack!States \cup {"unseen"}]
        /\ \A s \in Sources : seen[s] \in Pack!StatesOf(s) \cup {"unseen"}
    BY DEF Pack!PackInit
  <2>3. left \subseteq Sources /\ sections \in Seq(Pack!Sections)
    BY PackAssumption DEF Pack!PackInit
  <2>4. /\ library \in BOOLEAN /\ open \in BOOLEAN /\ policy \in Pack!Policies
        /\ workArchived \in BOOLEAN /\ admitted \in BOOLEAN
        /\ frozen \in Pack!Policies /\ packPc = "asking" /\ changed \subseteq Sources
    BY DEF Pack!PackInit, Pack!Policies
  <2>5. listed \in 0..6 /\ remaining \in 0..ByteLimit /\ changes \in 0..MaxChanges
    BY <1>1 DEF Pack!PackInit
  <2>6. QED
    BY <2>1, <2>2, <2>3, <2>4, <2>5 DEF Pack!PackTypeOK
<1>3. packPc = "asking"
  BY DEF Pack!PackInit
<1>4. QED
  BY <1>2, <1>3 DEF PackInv, ProgressFits, CatalogueFits, LeftFits, OrderFits, NothingIsLostYet

\* The first of the sources left is one of them.
LEMMA FirstIsLeft ==
    ASSUME Pack!PackTypeOK, left # {}
    PROVE  Pack!First \in left /\ \A s \in left \ {Pack!First} : Rank[Pack!First] < Rank[s]
<1>1. left \subseteq Sources
  BY DEF Pack!PackTypeOK
<1> DEFINE Ranks == {Rank[s] : s \in left}
<1>2. Ranks \subseteq Nat /\ Ranks # {}
  BY <1>1, PackAssumption
<1>3. PICK i \in Ranks : \A j \in Ranks : i <= j
  <2> HIDE DEF Ranks
  <2>1. QED
    BY <1>2, Least
<1>4. \E s \in left : \A t \in left : Rank[s] <= Rank[t]
  BY <1>3
<1>5. Pack!First \in left /\ \A t \in left : Rank[Pack!First] <= Rank[t]
  BY <1>4 DEF Pack!First
<1>6. ASSUME NEW s \in left \ {Pack!First} PROVE Rank[Pack!First] < Rank[s]
  <2>1. Rank[s] \in Nat /\ Rank[Pack!First] \in Nat /\ Rank[s] # Rank[Pack!First]
    BY <1>1, <1>5, PackAssumption
  <2>2. QED
    BY <1>5, <2>1
<1>7. QED
  BY <1>5, <1>6

\* What others change is counted as changed; the rest is as it was.
LEMMA ChangesAreNoted ==
    ASSUME PackInv, NEW s \in Sources, Pack!ChangeArtifact(s) \/ Pack!ChangeRecord(s)
    PROVE  PackInv' /\ Pack!OnlyFit
<1>1. /\ UNCHANGED <<workArchived, library, policy, frozen, packPc, listed, left, seen, open, admitted,
                     sections, remaining>>
      /\ changes < MaxChanges /\ changes' = changes + 1 /\ changed' = changed \cup {s}
  BY DEF Pack!ChangeArtifact, Pack!ChangeRecord, Pack!Note, Pack!RunStays
<1>2. /\ \A t \in Sources \ {s} : live'[t] = live[t]
      /\ live'[s] \in Pack!StatesOf(s) /\ live' \in [Sources -> Pack!States]
  <2>1. CASE Pack!ChangeArtifact(s)
    <3>1. PICK state \in {"intact", "edited", "missing"} : live' = [live EXCEPT ![s] = state]
      BY <2>1 DEF Pack!ChangeArtifact
    <3>2. Kind[s] = "artifact"
      BY <2>1 DEF Pack!ChangeArtifact
    <3>3. state \in Pack!StatesOf(s)
      BY <3>2 DEF Pack!StatesOf
    <3>4. QED
      BY <3>1, <3>3 DEF PackInv, Pack!PackTypeOK, Pack!States
  <2>2. CASE Pack!ChangeRecord(s)
    <3>1. Pack!StatesOf(s) = {"draft", "active"}
      BY <2>2 DEF Pack!ChangeRecord, Pack!StatesOf
    <3>2. (CHOOSE t \in Pack!StatesOf(s) : t # live[s]) \in Pack!StatesOf(s)
      BY <3>1
    <3>3. QED
      BY <2>2, <3>1, <3>2 DEF Pack!ChangeRecord, PackInv, Pack!PackTypeOK, Pack!States
  <2>3. QED
    BY <2>1, <2>2
<1>3. Pack!PackTypeOK'
  <2>1. changes' \in 0..MaxChanges
    BY <1>1, PackAssumption DEF PackInv, Pack!PackTypeOK
  <2>2. \A t \in Sources : live'[t] \in Pack!StatesOf(t)
    BY <1>2 DEF PackInv, Pack!PackTypeOK
  <2>3. QED
    BY <1>1, <1>2, <2>1, <2>2 DEF PackInv, Pack!PackTypeOK, Pack!StatesOf
<1>4. \A t \in Sources \ changed' : t \notin changed /\ live'[t] = live[t] /\ (Pack!Fit(t)' <=> Pack!Fit(t))
  BY <1>1, <1>2 DEF Pack!Fit, Pack!Attachable
<1>5. ProgressFits' /\ LeftFits' /\ OrderFits'
  BY <1>1 DEF PackInv, ProgressFits, LeftFits, OrderFits
<1>6. CatalogueFits'
  BY <1>1, <1>4 DEF PackInv, CatalogueFits, InCatalogue
<1>7. NothingIsLostYet'
  <2> SUFFICES ASSUME packPc \in {"load", "done"},
                      NEW t \in Sources \ (changed' \cup Pack!Shown' \cup left'), Pack!Fit(t)'
               PROVE  remaining = 0 \/ Pack!KindIsFull(t)'
    BY <1>1 DEF NothingIsLostYet
  <2>1. t \in Sources \ (changed \cup Pack!Shown \cup left) /\ Pack!Fit(t)
    BY <1>1, <1>4 DEF Pack!Shown
  <2>2. Pack!KindIsFull(t)' <=> Pack!KindIsFull(t)
    BY <1>1 DEF Pack!KindIsFull, Pack!SeenFit
  <2>3. QED
    BY <2>1, <2>2 DEF PackInv, NothingIsLostYet
<1>8. Pack!OnlyFit
  BY <1>1 DEF Pack!OnlyFit, Pack!Shown
<1>9. QED
  BY <1>3, <1>5, <1>6, <1>7, <1>8 DEF PackInv

\* A Work, a library or a policy that changes does so behind the run's back.
LEMMA SettingsAreFrozen ==
    ASSUME PackInv, Pack!ChangeWork \/ Pack!ChangeLibrary \/ Pack!ChangePolicy
    PROVE  PackInv' /\ Pack!OnlyFit
<1>1. /\ UNCHANGED <<live, frozen, packPc, listed, left, seen, open, admitted, sections, remaining, changed>>
      /\ changes < MaxChanges /\ changes' = changes + 1
      /\ workArchived' \in BOOLEAN /\ library' \in BOOLEAN /\ policy' \in Pack!Policies
  BY DEF Pack!ChangeWork, Pack!ChangeLibrary, Pack!ChangePolicy, Pack!RunStays, PackInv, Pack!PackTypeOK
<1>2. changes' \in 0..MaxChanges
  BY <1>1, PackAssumption DEF PackInv, Pack!PackTypeOK
<1>3. Pack!PackTypeOK'
  BY <1>1, <1>2 DEF PackInv, Pack!PackTypeOK, Pack!StatesOf
<1>4. ProgressFits' /\ LeftFits' /\ OrderFits'
  BY <1>1 DEF PackInv, ProgressFits, LeftFits, OrderFits
<1>5. \A t \in Sources : (Pack!Fit(t)' <=> Pack!Fit(t)) /\ (Pack!KindIsFull(t)' <=> Pack!KindIsFull(t))
  BY <1>1 DEF Pack!Fit, Pack!Attachable, Pack!KindIsFull, Pack!SeenFit
<1>6. CatalogueFits' /\ NothingIsLostYet'
  BY <1>1, <1>5 DEF PackInv, CatalogueFits, InCatalogue, NothingIsLostYet, Pack!Shown
<1>7. QED
  BY <1>1, <1>3, <1>4, <1>6 DEF PackInv, Pack!OnlyFit, Pack!Shown

\* Until the catalogue is read the pack is empty, and nothing is promised of it.
LEMMA PackPrepares ==
    ASSUME PackInv, Pack!AttachTo \/ Pack!Attach \/ Pack!Ask \/ Pack!Start \/ Pack!Scope
    PROVE  PackInv' /\ Pack!OnlyFit
<1>1. /\ UNCHANGED <<live, workArchived, library, policy, changes>>
      /\ (sections' = sections /\ remaining' = remaining) \/ (sections' = <<>> /\ remaining' = ByteLimit)
      /\ seen' = seen \/ seen' = [s \in Sources |-> "unseen"]
      /\ changed' = changed \/ changed' = {}
      /\ frozen' \in {frozen, policy} /\ open' \in {open, library} /\ listed' \in {listed, 0}
      /\ admitted' = admitted \/ admitted' = ~workArchived
      /\ left' \subseteq left \cup Selected
      /\ packPc' \in {"asking", "attaching", "asked", "check", "checking", "discover", "refused", "unasked"}
  BY DEF Pack!AttachTo, Pack!Reject, Pack!Attach, Pack!Ask, Pack!Start, Pack!Scope, Pack!PackStays, Pack!SourcesStay
<1>2. Pack!PackTypeOK'
  <2>1. /\ live' \in [Sources -> Pack!States] /\ changes' \in 0..MaxChanges
        /\ \A s \in Sources : live'[s] \in Pack!StatesOf(s)
        /\ library' \in BOOLEAN /\ policy' \in Pack!Policies
        /\ workArchived' \in BOOLEAN /\ admitted' \in BOOLEAN
    BY <1>1 DEF PackInv, Pack!PackTypeOK
  <2>2. /\ seen' \in [Sources -> Pack!States \cup {"unseen"}]
        /\ \A s \in Sources : seen'[s] \in Pack!StatesOf(s) \cup {"unseen"}
    BY <1>1 DEF PackInv, Pack!PackTypeOK
  <2>3. frozen' \in Pack!Policies /\ open' \in BOOLEAN /\ listed' \in 0..6
    BY <1>1 DEF PackInv, Pack!PackTypeOK
  <2>4. left' \subseteq Sources /\ changed' \subseteq Sources
    BY <1>1, PackAssumption DEF PackInv, Pack!PackTypeOK
  <2>5. sections' \in Seq(Pack!Sections) /\ remaining' \in 0..ByteLimit
    <3>1. ByteLimit \in 0..ByteLimit /\ <<>> \in Seq(Pack!Sections)
      BY PackAssumption
    <3>2. QED
      BY <1>1, <3>1 DEF PackInv, Pack!PackTypeOK
  <2>6. QED
    BY <1>1, <2>1, <2>2, <2>3, <2>4, <2>5 DEF Pack!PackTypeOK, Pack!StatesOf
<1>3. ProgressFits'
  <2>1. packPc' \in {"check", "checking", "discover"} => sections' = <<>>
    BY DEF PackInv, ProgressFits, Pack!AttachTo, Pack!Reject, Pack!Attach, Pack!Ask, Pack!Start, Pack!Scope,
           Pack!PackStays
  <2>2. packPc' \in {"check", "checking"} => \A s \in Sources : seen'[s] = "unseen"
    BY DEF PackInv, ProgressFits, Pack!AttachTo, Pack!Reject, Pack!Attach, Pack!Ask, Pack!Start, Pack!Scope
  <2>3. packPc' = "discover" => admitted'
    BY DEF Pack!AttachTo, Pack!Reject, Pack!Attach, Pack!Ask, Pack!Start, Pack!Scope, Pack!InUse
  <2>4. QED
    BY <1>1, <2>1, <2>2, <2>3 DEF ProgressFits
<1>4. CatalogueFits'
  <2>1. CASE packPc' = "discover"
    <3>1. packPc = "checking" /\ listed' = 0 /\ seen' = seen
      BY <2>1 DEF Pack!AttachTo, Pack!Reject, Pack!Attach, Pack!Ask, Pack!Start, Pack!Scope
    <3>2. \A s \in Sources : seen'[s] = "unseen" /\ ~InCatalogue(s)'
      BY <3>1 DEF PackInv, ProgressFits, InCatalogue
    <3>3. QED
      BY <3>2 DEF CatalogueFits
  <2>2. QED
    BY <1>1, <2>1 DEF CatalogueFits
<1>5. LeftFits' /\ OrderFits' /\ NothingIsLostYet'
  BY <1>1 DEF LeftFits, OrderFits, NothingIsLostYet
<1>6. Pack!OnlyFit
  BY <1>1 DEF Pack!OnlyFit, Pack!Shown
<1>7. QED
  BY <1>2, <1>3, <1>4, <1>5, <1>6 DEF PackInv

\* What a listing leaves out is not fit, or beyond its reach.
LEMMA PackIsDiscovered ==
    ASSUME PackInv, Pack!Discover
    PROVE  PackInv' /\ Pack!OnlyFit
<1>1. /\ UNCHANGED <<live, workArchived, library, policy, changes, frozen, packPc, left, open, admitted,
                     changed, sections, remaining>>
      /\ packPc = "discover" /\ listed < 6 /\ listed' = listed + 1
      /\ seen' = [s \in Sources |-> IF Kind[s] = Pack!Kinds[listed + 1] /\ Pack!Listed(s)
                                      THEN live[s] ELSE seen[s]]
  BY DEF Pack!Discover, Pack!PackStays, Pack!SourcesStay
<1>2. listed \in 0..6 /\ listed' \in 0..6
  BY <1>1 DEF PackInv, Pack!PackTypeOK
<1>3. \A s \in Sources : seen'[s] = IF Kind[s] = Pack!Kinds[listed + 1] /\ Pack!Listed(s)
                                     THEN live[s] ELSE seen[s]
  BY <1>1
<1>4. Pack!PackTypeOK'
  <2>1. /\ seen' \in [Sources -> Pack!States \cup {"unseen"}]
        /\ \A s \in Sources : seen'[s] \in Pack!StatesOf(s) \cup {"unseen"}
    BY <1>1 DEF PackInv, Pack!PackTypeOK
  <2>2. QED
    BY <1>1, <1>2, <2>1 DEF PackInv, Pack!PackTypeOK, Pack!StatesOf
<1>5. \A s \in Sources : Pack!Fit(s)' <=> Pack!Fit(s)
  BY <1>1 DEF Pack!Fit, Pack!Attachable
<1>6. CatalogueFits'
  <2> SUFFICES ASSUME NEW s \in Sources
               PROVE  /\ seen'[s] # "unseen" /\ Kind[s] \in {"knowledge", "skill"} => open
                      /\ s \notin changed /\ Pack!Fit(s) /\ InCatalogue(s)' => seen'[s] = live[s]
    BY <1>1, <1>5 DEF CatalogueFits
  <2>1. /\ seen[s] # "unseen" /\ Kind[s] \in {"knowledge", "skill"} => open
        /\ s \notin changed /\ Pack!Fit(s) /\ InCatalogue(s) => seen[s] = live[s]
    BY <1>1 DEF PackInv, CatalogueFits
  <2>2. CASE Kind[s] = Pack!Kinds[listed + 1] /\ Pack!Listed(s)
    <3>1. Kind[s] \in {"knowledge", "skill"} => open
      BY <2>2 DEF Pack!Listed
    <3>2. QED
      BY <1>3, <2>2, <3>1
  <2>3. CASE ~(Kind[s] = Pack!Kinds[listed + 1] /\ Pack!Listed(s))
    <3>1. seen'[s] = seen[s]
      BY <1>3, <2>3
    <3>2. ASSUME Pack!Fit(s), InCatalogue(s)' PROVE InCatalogue(s)
      <4>1. /\ \E n \in 1..(listed + 1) : Kind[s] = Pack!Kinds[n]
            /\ Kind[s] \in Pack!CappedKinds => s \in Reached \cup Selected
        BY <1>1, <3>2 DEF InCatalogue
      <4>2. Pack!Listed(s)
        <5>1. Kind[s] = "conversation" => live[s] = "active"
          BY <3>2 DEF Pack!Fit
        <5>2. Kind[s] = "memory_hub" => Pack!Policy # "none"
          BY <3>2 DEF Pack!Fit, Pack!Policy
        <5>3. Kind[s] \in {"knowledge", "skill"} => open
          BY <3>2 DEF Pack!Fit
        <5>4. QED
          BY <4>1, <5>1, <5>2, <5>3, KindsAreSix DEF Pack!Listed
      <4>3. PICK n \in 1..(listed + 1) : Kind[s] = Pack!Kinds[n]
        BY <4>1
      <4>4. n # listed + 1
        BY <2>3, <4>2, <4>3
      <4>5. n \in 1..listed
        BY <1>2, <4>4
      <4>6. QED
        BY <4>1, <4>3, <4>5 DEF InCatalogue
    <3>3. QED
      BY <2>1, <3>1, <3>2
  <2>4. QED
    BY <2>2, <2>3
<1>7. ProgressFits' /\ LeftFits' /\ OrderFits' /\ NothingIsLostYet'
  BY <1>1 DEF PackInv, ProgressFits, LeftFits, OrderFits, NothingIsLostYet
<1>8. Pack!OnlyFit
  BY <1>1 DEF Pack!OnlyFit, Pack!Shown
<1>9. QED
  BY <1>4, <1>6, <1>7, <1>8 DEF PackInv

\* What the ranking leaves out of the fit has as many before it as its kind holds.
LEMMA PackIsRanked ==
    ASSUME PackInv, Pack!FilterAndRank
    PROVE  PackInv' /\ Pack!OnlyFit
<1> DEFINE Allowed == {s \in Sources : Pack!Allowed(s)}
<1>1. /\ UNCHANGED <<live, workArchived, library, policy, changes, frozen, listed, seen, open, admitted,
                     changed, sections, remaining>>
      /\ packPc = "discover" /\ listed = 6 /\ packPc' = "load" /\ left' = Pack!Ranked(Allowed)
      /\ sections = <<>> /\ admitted
  BY DEF Pack!FilterAndRank, Pack!PackStays, Pack!SourcesStay, PackInv, ProgressFits
<1>2. left' \subseteq Allowed /\ Allowed \subseteq Sources
  BY <1>1 DEF Pack!Ranked
<1>3. Pack!PackTypeOK'
  BY <1>1, <1>2 DEF PackInv, Pack!PackTypeOK, Pack!StatesOf
<1>4. \A s \in Sources : /\ Pack!Fit(s)' <=> Pack!Fit(s)
                         /\ Pack!KindIsFull(s)' <=> Pack!KindIsFull(s)
                         /\ InCatalogue(s)' <=> InCatalogue(s)
  BY <1>1 DEF Pack!Fit, Pack!Attachable, Pack!KindIsFull, Pack!SeenFit, InCatalogue
<1>5. \A s \in Sources :
          /\ seen[s] # "unseen" /\ Kind[s] \in {"knowledge", "skill"} => open
          /\ s \notin changed /\ Pack!Fit(s) /\ InCatalogue(s) => seen[s] = live[s]
  BY <1>1 DEF PackInv, CatalogueFits
<1>6. CatalogueFits'
  BY <1>1, <1>4, <1>5 DEF CatalogueFits
<1>7. LeftFits'
  <2> SUFFICES ASSUME NEW s \in left'
               PROVE  /\ Kind[s] = "memory_hub" => frozen = "active_work_memory"
                      /\ Kind[s] \in {"knowledge", "skill"} => open
    BY <1>1 DEF LeftFits
  <2>1. s \in Sources /\ Pack!Allowed(s)
    BY <1>2
  <2>2. Kind[s] = "memory_hub" => frozen = "active_work_memory"
    BY <2>1 DEF Pack!Allowed, Pack!Policy
  <2>3. Kind[s] \in {"knowledge", "skill"} => seen[s] # "unseen"
    BY <2>1 DEF Pack!Allowed
  <2>4. QED
    BY <1>5, <2>1, <2>2, <2>3
<1>8. NothingIsLostYet'
  <2> SUFFICES ASSUME NEW s \in Sources, s \notin changed, s \notin left', Pack!Fit(s)
               PROVE  Pack!KindIsFull(s)
    BY <1>1, <1>4 DEF NothingIsLostYet, Pack!Shown
  <2>1. CASE ~InCatalogue(s)
    <3>1. \E n \in 1..listed : Kind[s] = Pack!Kinds[n]
      BY <1>1, KindsAreSix
    <3>2. QED
      BY <2>1, <3>1 DEF InCatalogue, Pack!KindIsFull
  <2>2. CASE InCatalogue(s)
    <3>1. seen[s] = live[s]
      BY <1>5, <2>2
    <3>2. Pack!Allowed(s)
      <4>1. Kind[s] = "work" => live[s] = "active"
        BY DEF PackInv, Pack!PackTypeOK, Pack!StatesOf
      <4>2. QED
        BY <3>1, <4>1 DEF Pack!Allowed, Pack!Fit, Pack!Attachable, Pack!Policy
    <3>3. Kind[s] \in Pack!CappedKinds /\ s \notin Selected /\ ~(Pack!Cardinality(Pack!Ahead(s, Allowed)) < Cap)
      BY <1>1, <3>2 DEF Pack!Ranked
    <3> DEFINE Before == {t \in Pack!Ahead(s, Sources) : Pack!SeenFit(t)}
    <3>4. Pack!Ahead(s, Allowed) \subseteq Before /\ Before \subseteq Sources
      <4>1. ASSUME NEW t \in Sources, Pack!Allowed(t) PROVE Pack!SeenFit(t)
        <5>1. seen[t] \in Pack!StatesOf(t) \cup {"unseen"}
          BY DEF PackInv, Pack!PackTypeOK
        <5>2. QED
          BY <4>1, <5>1 DEF Pack!Allowed, Pack!SeenFit, Pack!StatesOf
      <4>2. QED
        BY <4>1 DEF Pack!Ahead
    <3>5. /\ Cardinality(Before) \in Nat /\ Cardinality(Pack!Ahead(s, Allowed)) \in Nat
          /\ Cardinality(Pack!Ahead(s, Allowed)) <= Cardinality(Before)
      <4> HIDE DEF Before, Allowed
      <4>1. IsFiniteSet(Before)
        BY <3>4, FS_Subset, PackAssumption
      <4>2. IsFiniteSet(Pack!Ahead(s, Allowed))
        BY <3>4, <4>1, FS_Subset
      <4>3. QED
        BY <3>4, <4>1, <4>2, FS_Subset, FS_CardinalityType
    <3>6. Pack!Cardinality(Before) >= Cap
      <4>1. \A S : Pack!Cardinality(S) = Cardinality(S)
        BY DEF Pack!Cardinality, Cardinality
      <4> HIDE DEF Before, Allowed
      <4>2. Pack!Cardinality(Before) = Cardinality(Before)
            /\ Pack!Cardinality(Pack!Ahead(s, Allowed)) = Cardinality(Pack!Ahead(s, Allowed))
        BY <4>1
      <4>3. QED
        BY <3>3, <3>5, <4>2, PackAssumption
    <3>7. QED
      BY <3>3, <3>6 DEF Pack!KindIsFull
  <2>3. QED
    BY <2>1, <2>2
<1>9. ProgressFits' /\ OrderFits'
  BY <1>1 DEF ProgressFits, OrderFits
<1>10. Pack!OnlyFit
  BY <1>1 DEF Pack!OnlyFit, Pack!Shown
<1>11. QED
  BY <1>3, <1>6, <1>7, <1>8, <1>9, <1>10 DEF PackInv

\* The first source left is shown only if it is fit, and left out only if it is
\* not or nothing has room.
LEMMA PackIsLoaded ==
    ASSUME PackInv, Pack!Load
    PROVE  PackInv' /\ Pack!OnlyFit
<1>1. /\ UNCHANGED <<live, workArchived, library, policy, changes, frozen, packPc, listed, seen, open,
                     admitted, changed>>
      /\ packPc = "load" /\ listed = 6 /\ admitted /\ left # {} /\ left' = left \ {Pack!First}
  BY DEF Pack!Load, Pack!SourcesStay, PackInv, ProgressFits
<1>2. /\ Pack!First \in left /\ left \subseteq Sources /\ Pack!First \in Sources
      /\ \A s \in left \ {Pack!First} : Rank[Pack!First] < Rank[s]
  BY <1>1, FirstIsLeft DEF PackInv, Pack!PackTypeOK
<1>3. sections \in Seq(Pack!Sections) /\ remaining \in Nat /\ remaining <= ByteLimit
  BY PackAssumption DEF PackInv, Pack!PackTypeOK
<1>4. \/ /\ Pack!Loadable(Pack!First)
         /\ \E x \in Pack!Sections :
               /\ x.source = Pack!First /\ x.bytes <= remaining
               /\ sections' = Append(sections, x) /\ remaining' = remaining - x.bytes
      \/ /\ Pack!Loadable(Pack!First) => remaining = 0
         /\ sections' = sections /\ remaining' = remaining
  <2> DEFINE s == Pack!First
  <2>1. ASSUME NEW x \in Pack!Fitted(s)
        PROVE  x \in Pack!Sections /\ x.source = s /\ x.bytes <= remaining
    <3>1. Bytes[s] \in Nat /\ Bytes[s] # 0 /\ ByteLimit \in Nat
      BY <1>2, PackAssumption
    <3>2. CASE Bytes[s] <= remaining
      <4>1. x = [source |-> s, bytes |-> Bytes[s], whole |-> TRUE]
        BY <2>1, <3>2 DEF Pack!Fitted
      <4>2. Bytes[s] \in 1..ByteLimit
        BY <1>3, <3>1, <3>2
      <4>3. QED
        BY <1>2, <3>2, <4>1, <4>2 DEF Pack!Sections
    <3>3. CASE ~(Bytes[s] <= remaining)
      <4>1. PICK n \in 1..remaining : x = [source |-> s, bytes |-> n, whole |-> FALSE]
        BY <2>1, <3>3 DEF Pack!Fitted
      <4>2. n \in 1..ByteLimit /\ n <= remaining
        BY <1>3, <3>1
      <4>3. QED
        BY <1>2, <4>1, <4>2 DEF Pack!Sections
    <3>4. QED
      BY <3>2, <3>3
  <2>2. Pack!Fitted(s) = {} => remaining = 0
    <3>1. SUFFICES ASSUME Pack!Fitted(s) = {}, remaining # 0 PROVE FALSE
      OBVIOUS
    <3>2. 1 \in 1..remaining
      BY <1>3, <3>1
    <3>3. QED
      BY <3>1, <3>2 DEF Pack!Fitted
  <2>3. QED
    BY <2>1, <2>2 DEF Pack!Load, Pack!PackStays
<1>5. /\ \A i \in DOMAIN sections : i \in DOMAIN sections' /\ sections'[i] = sections[i]
      /\ \/ /\ DOMAIN sections' = DOMAIN sections
            /\ Pack!Loadable(Pack!First) => remaining = 0
         \/ /\ Pack!Loadable(Pack!First)
            /\ DOMAIN sections' = DOMAIN sections \cup {Len(sections) + 1}
            /\ sections'[Len(sections) + 1].source = Pack!First
      /\ DOMAIN sections = 1..Len(sections)
  <2>1. DOMAIN sections = 1..Len(sections) /\ Len(sections) \in Nat
    BY <1>3
  <2>2. CASE sections' = sections /\ (Pack!Loadable(Pack!First) => remaining = 0)
    BY <2>1, <2>2
  <2>3. CASE /\ Pack!Loadable(Pack!First)
             /\ \E x \in Pack!Sections : x.source = Pack!First /\ sections' = Append(sections, x)
    <3>1. PICK x \in Pack!Sections : x.source = Pack!First /\ sections' = Append(sections, x)
      BY <2>3
    <3>2. /\ sections' \in Seq(Pack!Sections) /\ Len(sections') = Len(sections) + 1
          /\ sections'[Len(sections) + 1] = x
          /\ \A i \in 1..Len(sections) : sections'[i] = sections[i]
      BY <1>3, <3>1
    <3>3. DOMAIN sections' = DOMAIN sections \cup {Len(sections) + 1}
      BY <2>1, <3>2
    <3>4. QED
      BY <2>1, <2>3, <3>1, <3>2, <3>3
  <2>4. QED
    BY <1>4, <2>1, <2>2, <2>3
<1>6. sections' \in Seq(Pack!Sections) /\ remaining' \in 0..ByteLimit /\ (remaining = 0 => remaining' = 0)
  <2>1. CASE sections' = sections /\ remaining' = remaining
    BY <1>3, <2>1, PackAssumption
  <2>2. CASE \E x \in Pack!Sections :
               /\ x.source = Pack!First /\ x.bytes <= remaining
               /\ sections' = Append(sections, x) /\ remaining' = remaining - x.bytes
    <3>1. PICK x \in Pack!Sections :
               /\ x.source = Pack!First /\ x.bytes <= remaining
               /\ sections' = Append(sections, x) /\ remaining' = remaining - x.bytes
      BY <2>2
    <3>2. x.bytes \in Nat /\ x.bytes > 0
      BY DEF Pack!Sections
    <3>3. remaining' \in 0..ByteLimit /\ (remaining = 0 => remaining' = 0)
      BY <1>3, <3>1, <3>2, PackAssumption
    <3>4. QED
      BY <1>3, <3>1, <3>3
  <2>3. QED
    BY <1>4, <2>1, <2>2
<1>7. Pack!PackTypeOK'
  BY <1>1, <1>2, <1>6 DEF PackInv, Pack!PackTypeOK, Pack!StatesOf
<1>8. \A s \in Sources : /\ Pack!Fit(s)' <=> Pack!Fit(s)
                         /\ Pack!KindIsFull(s)' <=> Pack!KindIsFull(s)
                         /\ InCatalogue(s)' <=> InCatalogue(s)
  BY <1>1 DEF Pack!Fit, Pack!Attachable, Pack!KindIsFull, Pack!SeenFit, InCatalogue
<1>9. CatalogueFits' /\ LeftFits' /\ ProgressFits'
  <2>1. CatalogueFits'
    BY <1>1, <1>8 DEF PackInv, CatalogueFits
  <2>2. LeftFits' /\ ProgressFits'
    BY <1>1 DEF PackInv, LeftFits, ProgressFits
  <2>3. QED
    BY <2>1, <2>2
<1>10. OrderFits'
  <2>1. /\ \A i, j \in DOMAIN sections : i < j => Rank[sections[i].source] < Rank[sections[j].source]
        /\ \A i \in DOMAIN sections, s \in left : Rank[sections[i].source] < Rank[s]
    BY <1>1 DEF PackInv, OrderFits
  <2>2. ASSUME NEW i \in DOMAIN sections', NEW j \in DOMAIN sections', i < j
        PROVE  Rank[sections'[i].source] < Rank[sections'[j].source]
    <3>1. CASE j \in DOMAIN sections
      <4>1. i \in DOMAIN sections
        BY <1>3, <1>5, <2>2, <3>1
      <4>2. QED
        BY <1>5, <2>1, <2>2, <3>1, <4>1
    <3>2. CASE j \notin DOMAIN sections
      <4>1. j = Len(sections) + 1 /\ sections'[j].source = Pack!First
        BY <1>5, <3>2
      <4>2. i \in DOMAIN sections
        BY <1>3, <1>5, <2>2, <4>1
      <4>3. QED
        BY <1>2, <1>5, <2>1, <4>1, <4>2
    <3>3. QED
      BY <3>1, <3>2
  <2>3. ASSUME NEW i \in DOMAIN sections', NEW s \in left'
        PROVE  Rank[sections'[i].source] < Rank[s]
    <3>1. s \in left /\ s \in left \ {Pack!First}
      BY <1>1, <2>3
    <3>2. CASE i \in DOMAIN sections
      BY <1>5, <2>1, <3>1, <3>2
    <3>3. CASE i \notin DOMAIN sections
      <4>1. sections'[i].source = Pack!First
        BY <1>5, <3>3
      <4>2. QED
        BY <1>2, <3>1, <4>1
    <3>4. QED
      BY <3>2, <3>3
  <2>4. QED
    BY <2>2, <2>3 DEF OrderFits
<1>11. Pack!Shown \subseteq Pack!Shown' /\ Pack!Shown' \subseteq Pack!Shown \cup {Pack!First}
  <2>1. Pack!Shown \subseteq Pack!Shown'
    BY <1>5 DEF Pack!Shown
  <2>2. ASSUME NEW i \in DOMAIN sections', sections'[i].source # Pack!First
        PROVE  sections'[i].source \in Pack!Shown
    <3>1. i \in DOMAIN sections
      BY <1>5, <2>2
    <3>2. QED
      BY <1>5, <3>1 DEF Pack!Shown
  <2>3. QED
    BY <2>1, <2>2 DEF Pack!Shown
<1>12. Pack!First \notin Pack!Shown' => (Pack!Loadable(Pack!First) => remaining = 0)
  <2>1. CASE DOMAIN sections' = DOMAIN sections /\ (Pack!Loadable(Pack!First) => remaining = 0)
    BY <2>1
  <2>2. CASE /\ DOMAIN sections' = DOMAIN sections \cup {Len(sections) + 1}
             /\ sections'[Len(sections) + 1].source = Pack!First
    BY <2>2 DEF Pack!Shown
  <2>3. QED
    BY <1>5, <2>1, <2>2
<1>13. Pack!First \in Pack!Shown' \ Pack!Shown => Pack!Loadable(Pack!First)
  <2>1. SUFFICES ASSUME ~Pack!Loadable(Pack!First), Pack!First \in Pack!Shown'
                 PROVE  Pack!First \in Pack!Shown
    OBVIOUS
  <2>2. DOMAIN sections' = DOMAIN sections
    BY <1>5, <2>1
  <2>3. QED
    BY <1>5, <2>1, <2>2 DEF Pack!Shown
<1>14. NothingIsLostYet'
  <2> SUFFICES ASSUME NEW s \in Sources, s \notin changed, s \notin Pack!Shown', s \notin left', Pack!Fit(s)
               PROVE  remaining' = 0 \/ Pack!KindIsFull(s)
    BY <1>1, <1>8 DEF NothingIsLostYet
  <2>1. CASE s = Pack!First
    <3>1. Pack!Loadable(s)
      BY KindsAreSix DEF Pack!Fit, Pack!Loadable
    <3>2. QED
      BY <1>6, <1>12, <2>1, <3>1
  <2>2. CASE s # Pack!First
    <3>1. s \notin left /\ s \notin Pack!Shown
      BY <1>1, <1>11, <2>2
    <3>2. remaining = 0 \/ Pack!KindIsFull(s)
      BY <1>1, <3>1 DEF PackInv, NothingIsLostYet
    <3>3. QED
      BY <1>6, <3>2
  <2>3. QED
    BY <2>1, <2>2
<1>15. Pack!OnlyFit
  <2> SUFFICES ASSUME NEW s \in Sources, s \in Pack!Shown', s \notin Pack!Shown PROVE Pack!Fit(s)
    BY <1>1 DEF Pack!OnlyFit
  <2>1. s = Pack!First /\ s \in left /\ Pack!Loadable(s)
    BY <1>2, <1>11, <1>13
  <2>2. /\ Kind[s] = "memory_hub" => frozen = "active_work_memory"
        /\ Kind[s] \in {"knowledge", "skill"} => open
    BY <1>1, <2>1 DEF PackInv, LeftFits
  <2>3. QED
    BY <1>1, <2>1, <2>2, KindsAreSix DEF Pack!Fit, Pack!Loadable
<1>16. QED
  BY <1>7, <1>9, <1>10, <1>14, <1>15 DEF PackInv

LEMMA PackIsFinished ==
    ASSUME PackInv, Pack!Finish
    PROVE  PackInv' /\ Pack!OnlyFit
<1>1. /\ UNCHANGED <<live, workArchived, library, policy, changes, frozen, listed, left, seen, open, admitted,
                     changed, sections, remaining>>
      /\ packPc = "load" /\ packPc' = "done" /\ left = {}
  BY DEF Pack!Finish, Pack!PackStays, Pack!SourcesStay
<1>2. Pack!PackTypeOK'
  BY <1>1 DEF PackInv, Pack!PackTypeOK, Pack!StatesOf
<1>3. \A s \in Sources : /\ Pack!Fit(s)' <=> Pack!Fit(s)
                         /\ Pack!KindIsFull(s)' <=> Pack!KindIsFull(s)
                         /\ InCatalogue(s)' <=> InCatalogue(s)
  BY <1>1 DEF Pack!Fit, Pack!Attachable, Pack!KindIsFull, Pack!SeenFit, InCatalogue
<1>4. ProgressFits' /\ LeftFits' /\ OrderFits'
  BY <1>1 DEF PackInv, ProgressFits, LeftFits, OrderFits
<1>5. CatalogueFits'
  BY <1>1, <1>3 DEF PackInv, CatalogueFits
<1>6. NothingIsLostYet'
  BY <1>1, <1>3 DEF PackInv, NothingIsLostYet, Pack!Shown
<1>7. Pack!OnlyFit
  BY <1>1 DEF Pack!OnlyFit, Pack!Shown
<1>8. QED
  BY <1>2, <1>4, <1>5, <1>6, <1>7 DEF PackInv

LEMMA PackHolds ==
    ASSUME PackInv, [Pack!PackNext]_(Pack!packVars)
    PROVE  PackInv' /\ Pack!OnlyFit
<1>1. CASE Pack!PackNext
  <2>1. \/ \E s \in Sources : Pack!ChangeArtifact(s) \/ Pack!ChangeRecord(s)
        \/ Pack!ChangeWork \/ Pack!ChangeLibrary \/ Pack!ChangePolicy
        \/ Pack!AttachTo \/ Pack!Attach \/ Pack!Ask \/ Pack!Start \/ Pack!Scope
        \/ Pack!Discover \/ Pack!FilterAndRank \/ Pack!Load \/ Pack!Finish
    BY <1>1 DEF Pack!PackNext, Pack!PackStep
  <2>2. QED
    BY <2>1, ChangesAreNoted, SettingsAreFrozen, PackPrepares, PackIsDiscovered, PackIsRanked,
       PackIsLoaded, PackIsFinished
<1>2. CASE UNCHANGED Pack!packVars
  <2>1. UNCHANGED <<live, workArchived, library, policy, frozen, packPc, listed, left, seen, open, admitted,
                    sections, remaining, changed, changes>>
    BY <1>2 DEF Pack!packVars
  <2>2. Pack!PackTypeOK'
    BY <2>1 DEF PackInv, Pack!PackTypeOK, Pack!StatesOf
  <2>3. ProgressFits' /\ LeftFits' /\ OrderFits'
    BY <2>1 DEF PackInv, ProgressFits, LeftFits, OrderFits
  <2>4. \A s \in Sources : /\ Pack!Fit(s)' <=> Pack!Fit(s)
                           /\ Pack!KindIsFull(s)' <=> Pack!KindIsFull(s)
                           /\ InCatalogue(s)' <=> InCatalogue(s)
    BY <2>1 DEF Pack!Fit, Pack!Attachable, Pack!KindIsFull, Pack!SeenFit, InCatalogue
  <2>5. CatalogueFits' /\ NothingIsLostYet'
    BY <2>1, <2>4 DEF PackInv, CatalogueFits, NothingIsLostYet, Pack!Shown
  <2>6. Pack!OnlyFit
    BY <2>1 DEF Pack!OnlyFit, Pack!Shown
  <2>7. QED
    BY <2>2, <2>3, <2>5, <2>6 DEF PackInv
<1>3. QED
  BY <1>1, <1>2

\* A body enters the pack only for a run that found the Work open, and only while
\* it is fit itself; a finished pack has left out nothing that was fit all along
\* (services/context_broker.py). The Work may be archived in between.
THEOREM PackGoverned == Pack!PackSpec => PackIsGoverned
<1>1. Pack!PackInit => PackInv
  BY PackStarts
<1>2. PackInv /\ [Pack!PackNext]_(Pack!packVars) => PackInv' /\ Pack!OnlyFit
  BY PackHolds
<1>3. PackInv => Pack!PackTypeOK /\ Pack!NothingFitIsLost
  <2> SUFFICES ASSUME PackInv PROVE Pack!NothingFitIsLost
    BY DEF PackInv
  <2>1. packPc = "done" => left = {}
    BY DEF PackInv, ProgressFits
  <2>2. QED
    BY <2>1 DEF PackInv, OrderFits, NothingIsLostYet, Pack!NothingFitIsLost
<1>4. QED
  BY <1>1, <1>2, <1>3, PTL DEF Pack!PackSpec, PackIsGoverned, Pack!OnlyFitIsRead

-----------------------------------------------------------------------------
(* A file of the workspace (module SandboxFiles).                            *)

\* What a read has taken is the file's, unless the file changed since it was
\* opened: every change comes later than the one the read has noted.
ReadFits ==
    op.pc \in {"first", "second", "third", "read"} =>
        /\ op.does = "read" /\ op.fd \in Inodes
        /\ file[op.fd].links = 1 /\ op.before <= file[op.fd].changed
        /\ file[op.fd].changed = op.before =>
              /\ op.pc \in {"second", "third"} => op.got[1] = file[op.fd].halves[1]
              /\ op.pc = "third" => op.got[2] = file[op.fd].halves[2]

\* The temporary file of a write is no program's but the server's until it has
\* its name, and holds what was written to it.
WriteFits ==
    op.pc \in {"temp", "half", "full", "checked"} =>
        /\ op.does = "write" /\ op.fd \in Inodes
        /\ file[op.fd].links = 1 /\ \A f \in Folders : entry[f] # op.fd
        /\ op.pc # "temp" => file[op.fd].halves[1] = op.before
        /\ op.pc \in {"full", "checked"} => file[op.fd].halves[2] = op.before

SandInv ==
    /\ Sandbox!SandboxTypeOK
    /\ op.pc # "rest" => op.held \in Folders
    /\ ReadFits /\ WriteFits

LEMMA SandboxStarts == Sandbox!SandboxInit => SandInv
<1> SUFFICES ASSUME Sandbox!SandboxInit PROVE SandInv
  OBVIOUS
<1>1. 0 \in 0..MaxTime /\ 0 \in 0..0 /\ 0 \in 0..2
  BY SandboxAssumption
<1>2. <<0, 0>> \in Sandbox!Texts
  BY <1>1 DEF Sandbox!Texts
<1>3. Sandbox!SandboxTypeOK
  BY <1>1, <1>2 DEF Sandbox!SandboxInit, Sandbox!SandboxTypeOK, Sandbox!Operation, Sandbox!NoFile, Sandbox!Rest,
                    Sandbox!Others
<1>4. op.pc = "rest"
  BY DEF Sandbox!SandboxInit, Sandbox!Rest
<1>5. QED
  BY <1>3, <1>4 DEF SandInv, ReadFits, WriteFits

\* An operation that ends holds on to nothing.
LEMMA OperationEnds ==
    ASSUME SandInv, op' = Sandbox!Rest, UNCHANGED <<system, path, now>>,
           entry' \in [Folders -> Inodes \cup Sandbox!Others],
           temp' \in [Folders -> Inodes \cup {"none"}],
           file' \in [Inodes -> [halves : Sandbox!Texts, changed : 0..now, links : 0..2]]
    PROVE  SandInv' /\ op'.pc = "rest"
<1>1. 0 \in 0..MaxTime
  BY SandboxAssumption
<1>2. <<0, 0>> \in Sandbox!Texts
  BY <1>1 DEF Sandbox!Texts
<1>3. op'.pc = "rest"
  BY DEF Sandbox!Rest
<1>4. Sandbox!SandboxTypeOK'
  BY <1>1, <1>2 DEF SandInv, Sandbox!SandboxTypeOK, Sandbox!Operation, Sandbox!Rest
<1>5. QED
  BY <1>3, <1>4 DEF SandInv, ReadFits, WriteFits

\* A program edits a file, unless it is one that the server is writing.
LEMMA EditIsSeen ==
    ASSUME SandInv, NEW i \in Inodes, Sandbox!EditInPlace(i)
    PROVE  SandInv' /\ UNCHANGED <<op, entry>>
<1>1. /\ (\E f \in Folders : entry[f] = i) \/ (op.does = "read" /\ op.fd = i)
      /\ now < MaxTime /\ now' = now + 1 /\ UNCHANGED <<system, path, entry, temp, op>>
  BY DEF Sandbox!EditInPlace, Sandbox!Tick
<1>2. PICK h \in {1, 2} : file' = [file EXCEPT ![i].halves[h] = now', ![i].changed = now']
  BY DEF Sandbox!EditInPlace
<1>3. PICK row \in [halves : Sandbox!Texts, changed : 0..now, links : 0..2] : row = file[i]
  BY DEF SandInv, Sandbox!SandboxTypeOK
<1>4. now \in 0..MaxTime /\ now' \in 0..MaxTime /\ now' \in 0..now' /\ \A k \in 0..now : k \in 0..now' /\ k < now'
  BY <1>1, SandboxAssumption DEF SandInv, Sandbox!SandboxTypeOK
<1> DEFINE half == [row.halves EXCEPT ![h] = now']
           new == [row EXCEPT !.halves = half, !.changed = now']
<1>5. half \in Sandbox!Texts /\ new \in [halves : Sandbox!Texts, changed : 0..now', links : 0..2]
  BY <1>4 DEF Sandbox!Texts
<1>6. file' = [file EXCEPT ![i] = new]
  <2>1. file' = [file EXCEPT ![i] = [file[i] EXCEPT !.halves = [file[i].halves EXCEPT ![h] = now'],
                                                    !.changed = now']]
    BY <1>2
  <2>2. QED
    BY <2>1, <1>3
<1>7. new.changed = now' /\ new.links = row.links
  OBVIOUS
<1> HIDE DEF new
<1>8. file'[i] = new /\ \A j \in Inodes \ {i} : file'[j] = file[j]
  BY <1>6 DEF SandInv, Sandbox!SandboxTypeOK
<1>9. file' \in [Inodes -> [halves : Sandbox!Texts, changed : 0..now', links : 0..2]]
  <2>1. \A j \in Inodes : file[j] \in [halves : Sandbox!Texts, changed : 0..now', links : 0..2]
    BY <1>4 DEF SandInv, Sandbox!SandboxTypeOK
  <2>2. QED
    BY <1>5, <1>6, <2>1 DEF SandInv, Sandbox!SandboxTypeOK
<1>10. Sandbox!SandboxTypeOK'
  BY <1>1, <1>4, <1>9 DEF SandInv, Sandbox!SandboxTypeOK
<1>11. ReadFits'
  <2> SUFFICES ASSUME op.pc \in {"first", "second", "third", "read"} PROVE ReadFits'
    BY <1>1 DEF ReadFits
  <2>1. op.fd \in Inodes /\ file[op.fd].changed \in 0..now /\ op.before <= file[op.fd].changed
    BY DEF SandInv, ReadFits, Sandbox!SandboxTypeOK
  <2>2. op.before \in Nat /\ op.before < now'
    <3>1. op.before \in 0..MaxTime /\ now \in 0..MaxTime /\ MaxTime \in Nat
      BY <1>4, SandboxAssumption DEF SandInv, Sandbox!SandboxTypeOK, Sandbox!Operation
    <3>2. QED
      BY <1>1, <2>1, <3>1
  <2>3. CASE op.fd = i
    <3>1. file'[op.fd].changed # op.before /\ op.before <= file'[op.fd].changed
      BY <1>4, <1>7, <1>8, <2>2, <2>3
    <3>2. file'[op.fd].links = 1
      BY <1>3, <1>7, <1>8, <2>3 DEF SandInv, ReadFits
    <3>3. QED
      BY <1>1, <3>1, <3>2 DEF SandInv, ReadFits
  <2>4. CASE op.fd # i
    BY <1>1, <1>8, <2>1, <2>4 DEF SandInv, ReadFits
  <2>5. QED
    BY <2>3, <2>4
<1>12. WriteFits'
  <2> SUFFICES ASSUME op.pc \in {"temp", "half", "full", "checked"} PROVE WriteFits'
    BY <1>1 DEF WriteFits
  <2>1. op.fd \in Inodes /\ op.fd # i
    BY <1>1 DEF SandInv, WriteFits
  <2>2. QED
    BY <1>1, <1>8, <2>1 DEF SandInv, WriteFits
<1>13. QED
  BY <1>1, <1>10, <1>11, <1>12 DEF SandInv

\* Programs give a name to a file of their own, or to none.
LEMMA NamesAreOthers ==
    ASSUME SandInv, (\E f \in Folders : Sandbox!PutFile(f) \/ Sandbox!PutOther(f)) \/ Sandbox!MoveFolder
    PROVE  SandInv' /\ UNCHANGED op
<1>1. now < MaxTime /\ now' = now + 1 /\ UNCHANGED <<system, temp, op>>
  BY DEF Sandbox!PutFile, Sandbox!PutOther, Sandbox!MoveFolder, Sandbox!Tick
<1>2. now' \in 0..MaxTime /\ now' \in 0..now' /\ 0..now \subseteq 0..now'
  BY <1>1, SandboxAssumption DEF SandInv, Sandbox!SandboxTypeOK
<1> DEFINE Files == [Inodes -> [halves : Sandbox!Texts, changed : 0..now', links : 0..2]]
<1>3. file \in Files
  BY <1>2 DEF SandInv, Sandbox!SandboxTypeOK
<1>4. CASE \E f \in Folders : Sandbox!PutFile(f)
  <2>1. PICK f \in Folders, i \in Inodes, links \in {1, 2} :
           /\ Sandbox!Fresh(i) /\ entry' = [entry EXCEPT ![f] = i] /\ path' = path
           /\ file' = [file EXCEPT ![i] = [halves |-> <<now', now'>>, changed |-> now', links |-> links]]
    BY <1>4 DEF Sandbox!PutFile
  <2>2. <<now', now'>> \in Sandbox!Texts /\ links \in 0..2
    BY <1>2 DEF Sandbox!Texts
  <2>3. file' \in Files /\ \A j \in Inodes \ {i} : file'[j] = file[j]
    BY <1>2, <1>3, <2>1, <2>2
  <2>4. entry' \in [Folders -> Inodes \cup Sandbox!Others]
        /\ \A g \in Folders : entry'[g] = entry[g] \/ entry'[g] = i
    BY <2>1 DEF SandInv, Sandbox!SandboxTypeOK
  <2>5. file[i].links = 0
    BY <2>1 DEF Sandbox!Fresh, Sandbox!NoFile
  <2>6. Sandbox!SandboxTypeOK'
    BY <1>1, <1>2, <2>1, <2>3, <2>4 DEF SandInv, Sandbox!SandboxTypeOK
  <2>7. ReadFits'
    BY <1>1, <2>3, <2>5 DEF SandInv, ReadFits
  <2>8. WriteFits'
    BY <1>1, <2>3, <2>4, <2>5 DEF SandInv, WriteFits
  <2>9. QED
    BY <1>1, <2>6, <2>7, <2>8 DEF SandInv
<1>5. CASE (\E f \in Folders : Sandbox!PutOther(f)) \/ Sandbox!MoveFolder
  <2>1. /\ entry' \in [Folders -> Inodes \cup Sandbox!Others]
        /\ \A g \in Folders : entry'[g] = entry[g] \/ entry'[g] \in Sandbox!Others
        /\ path' \in Folders \cup {"link", "none"} /\ file' = file
    BY <1>5 DEF SandInv, Sandbox!SandboxTypeOK, Sandbox!PutOther, Sandbox!MoveFolder
  <2>2. Sandbox!SandboxTypeOK'
    BY <1>1, <1>2, <1>3, <2>1 DEF SandInv, Sandbox!SandboxTypeOK
  <2>3. ReadFits'
    BY <1>1, <2>1 DEF SandInv, ReadFits
  <2>4. WriteFits'
    BY <1>1, <2>1, SandboxAssumption DEF SandInv, WriteFits, Sandbox!Others
  <2>5. QED
    BY <1>1, <2>2, <2>3, <2>4 DEF SandInv
<1>6. QED
  BY <1>4, <1>5

\* The folder is opened: nothing of the file is known yet.
LEMMA FolderOpens ==
    ASSUME SandInv, NEW does \in {"read", "write", "delete", "rmdir", "mkdir"}, NEW new \in BOOLEAN,
           Sandbox!OpenFolder(does, new)
    PROVE  SandInv' /\ Sandbox!WholeTextsOnly
<1> DEFINE Opened(f) == [Sandbox!Rest EXCEPT !.pc = "opened", !.does = does, !.new = new, !.held = f]
<1>1. ASSUME NEW f \in Folders
      PROVE  Opened(f) \in Sandbox!Operation /\ Opened(f).pc = "opened" /\ Opened(f).held = f
  <2>1. 0 \in 0..MaxTime
    BY SandboxAssumption
  <2>2. <<0, 0>> \in Sandbox!Texts
    BY <2>1 DEF Sandbox!Texts
  <2>3. QED
    BY <2>1, <2>2 DEF Sandbox!Operation, Sandbox!Rest
<1> HIDE DEF Opened
<1>2. op.pc = "rest"
  BY DEF Sandbox!OpenFolder
<1>3. CASE Sandbox!Refuse
  <2>1. SandInv' /\ op'.pc = "rest"
    BY <1>3, OperationEnds DEF SandInv, Sandbox!SandboxTypeOK, Sandbox!Refuse, Sandbox!Server
  <2>2. QED
    BY <1>2, <2>1 DEF Sandbox!WholeTextsOnly
<1>4. CASE ~Sandbox!Refuse
  <2>1. PICK f \in Folders :
           /\ op' = Opened(f) /\ path' \in Folders /\ UNCHANGED <<system, entry, temp, file>>
           /\ now' = now \/ (now < MaxTime /\ now' = now + 1)
    BY <1>4 DEF Sandbox!OpenFolder, Sandbox!Tick, Opened
  <2>2. now' \in 0..MaxTime /\ 0..now \subseteq 0..now'
    BY <2>1, SandboxAssumption DEF SandInv, Sandbox!SandboxTypeOK
  <2>3. Sandbox!SandboxTypeOK'
    BY <1>1, <2>1, <2>2 DEF SandInv, Sandbox!SandboxTypeOK
  <2>4. op'.pc = "opened" /\ op'.held \in Folders
    BY <1>1, <2>1
  <2>5. QED
    BY <1>2, <2>3, <2>4 DEF SandInv, ReadFits, WriteFits, Sandbox!WholeTextsOnly
<1>5. QED
  BY <1>3, <1>4

\* A step of the operation that touches neither names nor files.
LEMMA OperationMoves ==
    ASSUME SandInv, UNCHANGED <<system, path, now, entry, temp, file>>,
           op' \in Sandbox!Operation, op'.held \in Folders, ReadFits', WriteFits',
           op'.pc = "read" /\ op.pc # "read" => op.got = file[op.fd].halves
    PROVE  SandInv' /\ Sandbox!WholeTextsOnly
  BY DEF SandInv, Sandbox!SandboxTypeOK, Sandbox!WholeTextsOnly

\* An operation is refused, answered or cut off.
LEMMA NothingIsTouched ==
    ASSUME SandInv, op' = Sandbox!Rest, UNCHANGED <<system, path, now, entry, temp, file>>
    PROVE  SandInv' /\ Sandbox!WholeTextsOnly
<1>1. SandInv' /\ op'.pc = "rest"
  BY OperationEnds DEF SandInv, Sandbox!SandboxTypeOK
<1>2. QED
  BY <1>1 DEF Sandbox!WholeTextsOnly

\* A read notes when the file was changed last, takes one half after the other
\* and answers if the file is still the one it noted.
LEMMA ReadGoesOn ==
    ASSUME SandInv,
           \/ Sandbox!OpenFile \/ Sandbox!AnswerRead
           \/ Sandbox!ReadHalf("first", 1, "second") \/ Sandbox!ReadHalf("second", 2, "third")
    PROVE  SandInv' /\ Sandbox!WholeTextsOnly
<1>1. CASE Sandbox!Refuse
  BY <1>1, NothingIsTouched DEF Sandbox!Refuse, Sandbox!Server
<1>2. CASE Sandbox!OpenFile /\ ~Sandbox!Refuse
  <2> DEFINE i == entry[op.held]
  <2>1. /\ op.pc = "opened" /\ op.does = "read" /\ i \in Inodes /\ file[i].links = 1
        /\ op' = [op EXCEPT !.pc = "first", !.fd = i, !.before = file[i].changed]
        /\ UNCHANGED <<system, path, now, entry, temp, file>>
    BY <1>2 DEF Sandbox!OpenFile, Sandbox!At, Sandbox!Usable, Sandbox!Target, Sandbox!Server
  <2>2. file[i].changed \in 0..MaxTime
    <3>1. file[i].changed \in 0..now /\ now \in 0..MaxTime /\ MaxTime \in Nat
      BY <2>1, SandboxAssumption DEF SandInv, Sandbox!SandboxTypeOK
    <3>2. QED
      BY <3>1
  <2> HIDE DEF i
  <2>3. /\ op' \in Sandbox!Operation /\ op'.pc = "first" /\ op'.fd = i /\ op'.before = file[i].changed
        /\ op'.does = "read" /\ op'.held = op.held
    BY <2>1, <2>2 DEF SandInv, Sandbox!SandboxTypeOK, Sandbox!Operation
  <2>4. ReadFits'
    BY <2>1, <2>2, <2>3, SandboxAssumption DEF ReadFits
  <2>5. WriteFits' /\ op'.held \in Folders
    BY <2>1, <2>3 DEF WriteFits, SandInv
  <2>6. QED
    BY <2>1, <2>3, <2>4, <2>5, OperationMoves
<1>3. ASSUME NEW h \in {1, 2}, NEW after \in {"second", "third"}, h = 1 <=> after = "second",
             op.pc = (IF h = 1 THEN "first" ELSE "second"), Sandbox!ReadHalf(op.pc, h, after)
      PROVE  SandInv' /\ Sandbox!WholeTextsOnly
  <2>1. /\ op' = [op EXCEPT !.pc = after, !.got = [op.got EXCEPT ![h] = file[op.fd].halves[h]]]
        /\ UNCHANGED <<system, path, now, entry, temp, file>>
    BY <1>3 DEF Sandbox!ReadHalf, Sandbox!Server
  <2>2. op.fd \in Inodes /\ op.does = "read" /\ op.held \in Folders /\ op.got \in Sandbox!Texts
    BY <1>3 DEF SandInv, ReadFits, Sandbox!SandboxTypeOK, Sandbox!Operation
  <2>3. file[op.fd].halves \in Sandbox!Texts
    BY <2>2 DEF SandInv, Sandbox!SandboxTypeOK
  <2> DEFINE got == [op.got EXCEPT ![h] = file[op.fd].halves[h]]
  <2>4. got \in Sandbox!Texts /\ got[h] = file[op.fd].halves[h] /\ (h = 2 => got[1] = op.got[1])
    BY <2>2, <2>3 DEF Sandbox!Texts
  <2>5. op' = [op EXCEPT !.pc = after, !.got = got]
    BY <2>1
  <2> HIDE DEF got
  <2>6. /\ op' \in Sandbox!Operation /\ op'.pc = after /\ op'.got = got /\ op'.fd = op.fd
        /\ op'.before = op.before /\ op'.does = "read" /\ op'.held = op.held
    BY <2>2, <2>4, <2>5 DEF SandInv, Sandbox!SandboxTypeOK, Sandbox!Operation
  <2>7. ReadFits'
    BY <1>3, <2>1, <2>4, <2>6 DEF SandInv, ReadFits
  <2>8. WriteFits'
    BY <2>6 DEF WriteFits
  <2>9. QED
    BY <2>1, <2>2, <2>6, <2>7, <2>8, OperationMoves
<1>4. CASE Sandbox!AnswerRead /\ ~Sandbox!Refuse
  <2>1. /\ op.pc = "third" /\ file[op.fd].changed = op.before
        /\ op' = [op EXCEPT !.pc = "read"]
        /\ UNCHANGED <<system, path, now, entry, temp, file>>
    BY <1>4 DEF Sandbox!AnswerRead, Sandbox!At, Sandbox!Goes, Sandbox!SameIdentity, Sandbox!Server
  <2>2. op.fd \in Inodes /\ op.held \in Folders /\ op.got \in Sandbox!Texts
    BY <2>1 DEF SandInv, ReadFits, Sandbox!SandboxTypeOK, Sandbox!Operation
  <2>3. file[op.fd].halves \in Sandbox!Texts
    BY <2>2 DEF SandInv, Sandbox!SandboxTypeOK
  <2>4. op.got = file[op.fd].halves
    <3>1. op.got[1] = file[op.fd].halves[1] /\ op.got[2] = file[op.fd].halves[2]
      BY <2>1 DEF SandInv, ReadFits
    <3>2. QED
      BY <2>2, <2>3, <3>1 DEF Sandbox!Texts
  <2>5. /\ op' \in Sandbox!Operation /\ op'.pc = "read" /\ op'.fd = op.fd
        /\ op'.before = op.before /\ op'.does = op.does /\ op'.held = op.held
    BY <2>1 DEF SandInv, Sandbox!SandboxTypeOK, Sandbox!Operation
  <2>6. ReadFits' /\ WriteFits'
    BY <2>1, <2>5 DEF SandInv, ReadFits, WriteFits
  <2>7. QED
    BY <2>1, <2>2, <2>4, <2>5, <2>6, OperationMoves
<1>5. CASE Sandbox!ReadHalf("first", 1, "second")
  BY <1>5, <1>3 DEF Sandbox!ReadHalf, Sandbox!At
<1>6. CASE Sandbox!ReadHalf("second", 2, "third")
  BY <1>6, <1>3 DEF Sandbox!ReadHalf, Sandbox!At
<1>7. QED
  BY <1>1, <1>2, <1>4, <1>5, <1>6

\* A step of a write that changes its temporary file at most.
LEMMA WriteMoves ==
    ASSUME SandInv, op.pc \in {"opened", "temp", "half", "full"}, UNCHANGED <<system, path, entry>>,
           now' = now \/ (now < MaxTime /\ now' = now + 1),
           temp' \in [Folders -> Inodes \cup {"none"}],
           NEW i \in Inodes, NEW row \in [halves : Sandbox!Texts, changed : 0..now', links : 0..2],
           file' = [file EXCEPT ![i] = row], row.links = 1, \A f \in Folders : entry[f] # i,
           NEW new \in Sandbox!Operation, op' = new, new.held = op.held, new.does = "write", new.fd = i,
           new.pc \in {"temp", "half", "full", "checked"},
           new.pc # "temp" => row.halves[1] = new.before,
           new.pc \in {"full", "checked"} => row.halves[2] = new.before
    PROVE  SandInv' /\ Sandbox!WholeTextsOnly
<1>1. now' \in 0..MaxTime /\ 0..now \subseteq 0..now'
  BY SandboxAssumption DEF SandInv, Sandbox!SandboxTypeOK
<1>2. file' \in [Inodes -> [halves : Sandbox!Texts, changed : 0..now', links : 0..2]]
      /\ file'[i] = row
  BY <1>1 DEF SandInv, Sandbox!SandboxTypeOK
<1>3. Sandbox!SandboxTypeOK'
  BY <1>1, <1>2 DEF SandInv, Sandbox!SandboxTypeOK
<1>4. ReadFits' /\ WriteFits' /\ op'.held \in Folders
  BY <1>2 DEF SandInv, ReadFits, WriteFits
<1>5. QED
  BY <1>3, <1>4 DEF SandInv, Sandbox!WholeTextsOnly

LEMMA WriteGoesOn ==
    ASSUME SandInv, Sandbox!MakeTemp \/ Sandbox!FillTemp \/ Sandbox!SyncTemp
    PROVE  SandInv' /\ Sandbox!WholeTextsOnly
<1>1. now \in 0..MaxTime /\ MaxTime \in Nat /\ op \in Sandbox!Operation
  BY SandboxAssumption DEF SandInv, Sandbox!SandboxTypeOK
<1>2. CASE Sandbox!Refuse
  BY <1>2, NothingIsTouched DEF Sandbox!Refuse, Sandbox!Server
<1>3. CASE Sandbox!MakeTemp /\ ~Sandbox!Refuse
  <2>1. PICK i \in Inodes :
           /\ op.pc = "opened" /\ op.does = "write" /\ Sandbox!Fresh(i)
           /\ temp' = [temp EXCEPT ![op.held] = i]
           /\ file' = [file EXCEPT ![i] = [halves |-> <<0, 0>>, changed |-> now, links |-> 1]]
           /\ op' = [op EXCEPT !.pc = "temp", !.fd = i] /\ UNCHANGED <<system, path, now, entry>>
    BY <1>3 DEF Sandbox!MakeTemp, Sandbox!At, Sandbox!Server
  <2> DEFINE row == [halves |-> <<0, 0>>, changed |-> now, links |-> 1]
             new == [op EXCEPT !.pc = "temp", !.fd = i]
  <2>2. <<0, 0>> \in Sandbox!Texts /\ now \in 0..now /\ 1 \in 0..2
    BY <1>1 DEF Sandbox!Texts
  <2>3. row \in [halves : Sandbox!Texts, changed : 0..now', links : 0..2] /\ row.links = 1
    BY <2>1, <2>2
  <2>4. new \in Sandbox!Operation /\ new.pc = "temp" /\ new.fd = i /\ new.does = "write"
        /\ new.held = op.held
    BY <1>1, <2>1 DEF Sandbox!Operation
  <2>5. \A f \in Folders : entry[f] # i
    BY <2>1 DEF Sandbox!Fresh
  <2>6. temp' \in [Folders -> Inodes \cup {"none"}]
    BY <2>1 DEF SandInv, Sandbox!SandboxTypeOK
  <2>7. file' = [file EXCEPT ![i] = row] /\ op' = new
    BY <2>1
  <2> HIDE DEF row, new
  <2>8. QED
    BY <2>1, <2>3, <2>4, <2>5, <2>6, <2>7, WriteMoves
<1>4. CASE Sandbox!FillTemp
  <2> DEFINE i == op.fd
  <2>1. /\ op.pc = "temp" /\ now < MaxTime /\ now' = now + 1 /\ UNCHANGED <<system, path, entry, temp>>
        /\ file' = [file EXCEPT ![i] = [file[i] EXCEPT !.halves = [file[i].halves EXCEPT ![1] = now'],
                                                      !.changed = now']]
        /\ op' = [op EXCEPT !.pc = "half", !.before = now']
    BY <1>4 DEF Sandbox!FillTemp, Sandbox!At, Sandbox!Tick
  <2>2. i \in Inodes /\ op.does = "write" /\ file[i].links = 1 /\ \A f \in Folders : entry[f] # i
    BY <2>1 DEF SandInv, WriteFits
  <2>3. PICK old \in [halves : Sandbox!Texts, changed : 0..now, links : 0..2] : old = file[i]
    BY <2>2 DEF SandInv, Sandbox!SandboxTypeOK
  <2> DEFINE half == [old.halves EXCEPT ![1] = now']
             row == [old EXCEPT !.halves = half, !.changed = now']
             new == [op EXCEPT !.pc = "half", !.before = now']
  <2>4. now' \in 0..MaxTime /\ now' \in 0..now'
    BY <1>1, <2>1
  <2>5. half \in Sandbox!Texts /\ half[1] = now'
    BY <2>4 DEF Sandbox!Texts
  <2> HIDE DEF half
  <2>6. row \in [halves : Sandbox!Texts, changed : 0..now', links : 0..2] /\ row.links = 1
        /\ row.halves = half
    BY <2>2, <2>3, <2>4, <2>5
  <2>7. new \in Sandbox!Operation /\ new.pc = "half" /\ new.fd = i /\ new.does = "write"
        /\ new.held = op.held /\ new.before = now'
    BY <1>1, <2>2, <2>4 DEF Sandbox!Operation
  <2>8. file' = [file EXCEPT ![i] = row] /\ op' = new
    BY <2>1, <2>3 DEF half
  <2>9. temp' \in [Folders -> Inodes \cup {"none"}]
    BY <2>1 DEF SandInv, Sandbox!SandboxTypeOK
  <2>10. row.halves[1] = new.before
    BY <2>5, <2>6, <2>7
  <2>11. op.pc = "temp" /\ now < MaxTime /\ now' = now + 1 /\ UNCHANGED <<system, path, entry>>
    BY <2>1
  <2> HIDE DEF row, new, i
  <2>12. QED
    BY <2>2, <2>6, <2>7, <2>8, <2>9, <2>10, <2>11, WriteMoves
<1>5. CASE Sandbox!SyncTemp
  <2> DEFINE i == op.fd
  <2>1. /\ op.pc = "half" /\ UNCHANGED <<system, path, now, entry, temp>>
        /\ file' = [file EXCEPT ![i] = [file[i] EXCEPT !.halves = [file[i].halves EXCEPT ![2] = op.before]]]
        /\ op' = [op EXCEPT !.pc = "full"]
    BY <1>5 DEF Sandbox!SyncTemp, Sandbox!At, Sandbox!Goes, Sandbox!Server
  <2>2. i \in Inodes /\ op.does = "write" /\ file[i].links = 1 /\ file[i].halves[1] = op.before
        /\ \A f \in Folders : entry[f] # i
    BY <2>1 DEF SandInv, WriteFits
  <2>3. PICK old \in [halves : Sandbox!Texts, changed : 0..now, links : 0..2] : old = file[i]
    BY <2>2 DEF SandInv, Sandbox!SandboxTypeOK
  <2> DEFINE half == [old.halves EXCEPT ![2] = op.before]
             row == [old EXCEPT !.halves = half]
             new == [op EXCEPT !.pc = "full"]
  <2>4. op.before \in 0..MaxTime
    BY <1>1 DEF Sandbox!Operation
  <2>5. half \in Sandbox!Texts /\ half[1] = op.before /\ half[2] = op.before
    BY <2>2, <2>3, <2>4 DEF Sandbox!Texts
  <2> HIDE DEF half
  <2>6. row \in [halves : Sandbox!Texts, changed : 0..now', links : 0..2] /\ row.links = 1
        /\ row.halves = half
    BY <2>1, <2>2, <2>3, <2>5
  <2>7. new \in Sandbox!Operation /\ new.pc = "full" /\ new.fd = i /\ new.does = "write"
        /\ new.held = op.held /\ new.before = op.before
    BY <1>1, <2>2 DEF Sandbox!Operation
  <2>8. file' = [file EXCEPT ![i] = row] /\ op' = new
    BY <2>1, <2>3 DEF half
  <2>9. temp' \in [Folders -> Inodes \cup {"none"}]
    BY <2>1 DEF SandInv, Sandbox!SandboxTypeOK
  <2>10. row.halves[1] = new.before /\ row.halves[2] = new.before
    BY <2>5, <2>6, <2>7
  <2>11. op.pc = "half" /\ now' = now /\ UNCHANGED <<system, path, entry>>
    BY <2>1
  <2> HIDE DEF row, new, i
  <2>12. QED
    BY <2>2, <2>6, <2>7, <2>8, <2>9, <2>10, <2>11, WriteMoves
<1>6. QED
  BY <1>2, <1>3, <1>4, <1>5

\* Its temporary file goes with a write that is given up.
LEMMA WriteIsGivenUp ==
    ASSUME SandInv, op.pc \in {"full", "checked"}, Sandbox!GiveUp
    PROVE  SandInv' /\ Sandbox!WholeTextsOnly
<1>1. /\ op' = Sandbox!Rest /\ UNCHANGED <<system, path, now, entry>>
      /\ temp' = [temp EXCEPT ![op.held] = "none"]
      /\ file' = [file EXCEPT ![op.fd] = Sandbox!NoFile]
  BY DEF Sandbox!GiveUp, Sandbox!DropTemp, Sandbox!Server
<1>2. now \in 0..MaxTime /\ MaxTime \in Nat
  BY SandboxAssumption DEF SandInv, Sandbox!SandboxTypeOK
<1>3. <<0, 0>> \in Sandbox!Texts /\ 0 \in 0..now /\ 0 \in 0..2
  BY <1>2 DEF Sandbox!Texts
<1>4. Sandbox!NoFile \in [halves : Sandbox!Texts, changed : 0..now, links : 0..2]
  BY <1>3 DEF Sandbox!NoFile
<1>5. /\ entry' \in [Folders -> Inodes \cup Sandbox!Others]
      /\ temp' \in [Folders -> Inodes \cup {"none"}]
      /\ file' \in [Inodes -> [halves : Sandbox!Texts, changed : 0..now, links : 0..2]]
  BY <1>1, <1>4 DEF SandInv, Sandbox!SandboxTypeOK
<1>6. SandInv' /\ op'.pc = "rest"
  BY <1>1, <1>5, OperationEnds
<1>7. QED
  BY <1>1, <1>6 DEF Sandbox!WholeTextsOnly

\* A write takes its name, or the name goes, or becomes a folder: the folder
\* the operation holds, and no other, has it changed.
LEMMA WriteIsPlaced ==
    ASSUME SandInv, Sandbox!CheckAgain \/ Sandbox!PosixReplace \/ Sandbox!WindowsRename
    PROVE  SandInv' /\ Sandbox!WholeTextsOnly
<1>1. op.pc \in {"full", "checked"} /\ op \in Sandbox!Operation
  BY DEF Sandbox!CheckAgain, Sandbox!PosixReplace, Sandbox!WindowsRename, Sandbox!At,
         SandInv, Sandbox!SandboxTypeOK
<1>2. op.does = "write" /\ op.fd \in Inodes /\ op.held \in Folders
      /\ file[op.fd].halves[1] = op.before /\ file[op.fd].halves[2] = op.before
  BY <1>1 DEF SandInv, WriteFits
<1>3. CASE Sandbox!GiveUp
  BY <1>1, <1>3, WriteIsGivenUp
<1>4. CASE Sandbox!CheckAgain /\ ~Sandbox!GiveUp
  <2>1. op.pc = "full" /\ op' = [op EXCEPT !.pc = "checked"]
        /\ UNCHANGED <<system, path, now, entry, temp, file>>
    BY <1>4 DEF Sandbox!CheckAgain, Sandbox!At, Sandbox!Goes, Sandbox!Server
  <2>2. /\ op' \in Sandbox!Operation /\ op'.pc = "checked" /\ op'.fd = op.fd
        /\ op'.before = op.before /\ op'.does = op.does /\ op'.held = op.held
    BY <1>1, <2>1 DEF Sandbox!Operation
  <2>3. ReadFits' /\ WriteFits'
    BY <2>1, <2>2 DEF SandInv, ReadFits, WriteFits
  <2>4. QED
    BY <1>2, <2>1, <2>2, <2>3, OperationMoves
<1>5. CASE Sandbox!Place /\ (Sandbox!PosixReplace \/ Sandbox!WindowsRename) /\ ~Sandbox!GiveUp
  <2>1. /\ op' = [op EXCEPT !.pc = "placed"] /\ UNCHANGED <<system, path, now, file>>
        /\ entry' = [entry EXCEPT ![op.held] = op.fd] /\ temp' = [temp EXCEPT ![op.held] = "none"]
    BY <1>5 DEF Sandbox!Place, Sandbox!Goes, Sandbox!DropTemp, Sandbox!Server
  <2>2. op.new /\ system = "windows" => entry[op.held] = "none"
    BY <1>5 DEF Sandbox!PosixReplace, Sandbox!WindowsRename, Sandbox!Target
  <2>3. op' \in Sandbox!Operation /\ op'.pc = "placed" /\ op'.held = op.held
    BY <1>1, <2>1 DEF Sandbox!Operation
  <2>4. SandInv'
    BY <1>2, <2>1, <2>3 DEF SandInv, Sandbox!SandboxTypeOK, ReadFits, WriteFits
  <2>5. Sandbox!Whole(op.fd, op.before)
    <3>1. file[op.fd].halves \in Sandbox!Texts /\ op.before \in 0..MaxTime
      BY <1>1, <1>2 DEF SandInv, Sandbox!SandboxTypeOK, Sandbox!Operation
    <3>2. QED
      BY <1>2, <3>1 DEF Sandbox!Whole, Sandbox!Texts
  <2>6. \A f \in Folders : entry'[f] # entry[f] => f = op.held /\ entry'[f] = op.fd
    BY <2>1 DEF SandInv, Sandbox!SandboxTypeOK
  <2>7. QED
    BY <1>2, <2>2, <2>3, <2>4, <2>5, <2>6 DEF Sandbox!WholeTextsOnly
<1>6. QED
  BY <1>3, <1>4, <1>5 DEF Sandbox!PosixReplace, Sandbox!WindowsRename

LEMMA NameIsTaken ==
    ASSUME SandInv, Sandbox!PosixDelete \/ Sandbox!WindowsDelete
                    \/ Sandbox!DeleteEmptyFolder \/ Sandbox!MakeFolder
    PROVE  SandInv' /\ Sandbox!WholeTextsOnly
<1>1. CASE Sandbox!Refuse
  BY <1>1, NothingIsTouched DEF Sandbox!Refuse, Sandbox!Server
<1>2. CASE ~Sandbox!Refuse
  <2>1. PICK e \in {"none", "folder"} :
           /\ op.pc = "opened" /\ entry' = [entry EXCEPT ![op.held] = e] /\ op' = Sandbox!Rest
           /\ UNCHANGED <<system, path, now, temp, file>>
    BY <1>2 DEF Sandbox!PosixDelete, Sandbox!WindowsDelete, Sandbox!DeleteEmptyFolder,
                Sandbox!MakeFolder, Sandbox!At, Sandbox!Server
  <2>2. op.held \in Folders /\ e \in Sandbox!Others /\ e \notin Inodes
    BY <2>1, SandboxAssumption DEF SandInv, Sandbox!Others
  <2>3. /\ entry' \in [Folders -> Inodes \cup Sandbox!Others]
        /\ \A f \in Folders : entry'[f] # entry[f] => f = op.held /\ entry'[f] = e
    BY <2>1, <2>2 DEF SandInv, Sandbox!SandboxTypeOK
  <2>4. SandInv' /\ op'.pc = "rest"
    BY <2>1, <2>3, OperationEnds DEF SandInv, Sandbox!SandboxTypeOK
  <2>5. QED
    BY <2>2, <2>3, <2>4 DEF Sandbox!WholeTextsOnly
<1>3. QED
  BY <1>1, <1>2

LEMMA SandboxHolds ==
    SandInv /\ [Sandbox!SandboxNext]_(Sandbox!sandVars) => SandInv' /\ [Sandbox!WholeTextsOnly]_(Sandbox!sandVars)
<1> SUFFICES ASSUME SandInv, [Sandbox!SandboxNext]_(Sandbox!sandVars)
             PROVE  SandInv' /\ [Sandbox!WholeTextsOnly]_(Sandbox!sandVars)
  OBVIOUS
<1>1. CASE Sandbox!OtherStep
  <2>1. SandInv' /\ UNCHANGED op
    BY <1>1, EditIsSeen, NamesAreOthers DEF Sandbox!OtherStep
  <2>2. QED
    BY <2>1 DEF Sandbox!WholeTextsOnly
<1>2. CASE Sandbox!ServerStep
  <2>1. CASE Sandbox!AnswerWrite \/ Sandbox!ReadAnswered \/ Sandbox!Crash
    <3>1. op' = Sandbox!Rest /\ UNCHANGED <<system, path, now, entry, temp, file>>
      BY <2>1 DEF Sandbox!AnswerWrite, Sandbox!ReadAnswered, Sandbox!Crash, Sandbox!Server
    <3>2. QED
      BY <3>1, NothingIsTouched
  <2>2. QED
    BY <1>2, <2>1, FolderOpens, ReadGoesOn, WriteGoesOn, WriteIsPlaced, NameIsTaken DEF Sandbox!ServerStep
<1>3. CASE UNCHANGED Sandbox!sandVars
  BY <1>3 DEF Sandbox!sandVars, SandInv, Sandbox!SandboxTypeOK, ReadFits, WriteFits
<1>4. QED
  BY <1>1, <1>2, <1>3 DEF Sandbox!SandboxNext

\* A read answers with a text the file had at one time, and a write brings to
\* the name the whole text that was asked for or changes nothing there, whenever
\* it is cut off and whatever other programs do to the file and its folder
\* (snapshot, write_bytes).
THEOREM WholeTexts == Sandbox!SandboxSpec => TextsAreWhole
<1>1. SandInv => Sandbox!SandboxTypeOK
  BY DEF SandInv
<1>2. QED
  BY <1>1, SandboxStarts, SandboxHolds, PTL DEF Sandbox!SandboxSpec, TextsAreWhole, Sandbox!TextsAreWhole
=============================================================================
