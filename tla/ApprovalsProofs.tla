--------------------------- MODULE ApprovalsProofs ---------------------------
(***************************************************************************)
(* What the approval requests promise, for any number of approvals,        *)
(* decisions and faults; and, at the end, what the review of skills does.  *)
(***************************************************************************)
EXTENDS MCApprovals, FiniteSetTheorems, TLAPS

\* TypeOK without the bound on the memories, which rests on the winners.
Typed ==
    /\ row \in [Approvals -> {"none", "pending", "processing", "resolved", "expired"}]
    /\ decision \in [Approvals -> {"none"} \cup Decisions]
    /\ entry \in [Approvals -> BOOLEAN]
    /\ heard \in [Approvals -> {"none"} \cup Decisions]
    /\ waiter \in [Approvals -> {"none", "registering", "waiting", "expiring", "nobody", "gone"} \cup Decisions]
    /\ submit \in [Submits -> {NoSubmit} \cup Submit]
    /\ memory \in [Approvals -> Nat]
    /\ faults \in 0 .. MaxFaults

Holds(s) == submit[s].at \in {"claimed", "applied"}
Wins(s)  == submit[s].at \in {"claimed", "applied", "committed", "recorded"}

\* Nobody is asked twice: an approval's row comes with its waiter, a curator's
\* proposal never gets one, and only the waiter's own deadline expires a row.
WaitersFit ==
    \A a \in Approvals :
        /\ waiter[a] \in {"none", "registering"} => row[a] = "none"
        /\ a \in Unattended => waiter[a] \in {"none", "registering", "nobody", "gone"}
        /\ row[a] = "expired" => waiter[a] = "deny" /\ decision[a] = "deny"

\* An approval has one winner, from its claim to its answer, and none while its
\* row may be claimed; the row is the winner's until it expires.
WinnersFit ==
    \A s \in Submits : Wins(s) =>
        LET a == submit[s].approval
        IN  /\ row[a] \notin {"none", "pending"}
            /\ \A t \in Submits : submit[t].approval = a /\ Wins(t) => t = s
            /\ Holds(s) => row[a] \in {"processing", "expired"}
            /\ ~Holds(s) => row[a] = "expired" \/ (row[a] = "resolved" /\ decision[a] = submit[s].decision)

\* What a waiter may hear is on record.
HeardIsOnRecord ==
    \A a \in Approvals : heard[a] # "none" =>
        row[a] = "expired" \/ (row[a] = "resolved" /\ decision[a] = heard[a])

\* Unless a request failed half-way, a memory that is stored was stored once,
\* by the winner, under a decision that allows it.
Unbroken(a) == \A s \in Submits : submit[s].approval = a => submit[s].at \notin {"failed", "lost"}
Stored(s)   == submit[s].at \in {"applied", "committed", "recorded"}

MemoriesFit ==
    \A a \in Unattended : Unbroken(a) =>
        \/ memory[a] = 0
        \/ /\ memory[a] = 1
           /\ \E s \in Submits : submit[s].approval = a /\ Stored(s) /\ submit[s].decision \in Allows

\* The requests that may have stored the memory.
Spent(a) == {s \in Submits : submit[s].approval = a /\ submit[s].at \notin {"checked", "claimed"}}
MemoriesAreCounted == \A a \in Approvals : memory[a] <= Cardinality(Spent(a))

\* A row that is about to be inserted has its entry, but for faults.
RegisteringIsEntered == faults = 0 => \A a \in Approvals : waiter[a] = "registering" => entry[a]

RecordInv == WaitersFit /\ WinnersFit /\ HeardIsOnRecord

-----------------------------------------------------------------------------
(* Where a decision stands.                                                *)

\* A decision that was sent.
Sent(s) == submit[s].at \in InFlight \cup Ended

\* A step on one decision leaves its contents and the others alone.
Moves(s, where) ==
    /\ \A t \in Submits : t # s => submit'[t] = submit[t]
    /\ submit'[s].approval = submit[s].approval /\ submit'[s].decision = submit[s].decision
    /\ submit'[s].at = where
    /\ submit[s].approval \in Approvals /\ submit[s].decision \in Decisions

LEMMA SetAtMoves ==
    ASSUME Typed, NEW s \in Submits, Sent(s), NEW where \in InFlight \cup Ended, SetAt(s, where)
    PROVE  Moves(s, where) /\ submit' \in [Submits -> {NoSubmit} \cup Submit]
<1>1. submit[s] \in Submit
  BY DEF Typed, Sent, NoSubmit, InFlight, Ended
<1>2. submit' = [submit EXCEPT ![s].at = where]
  BY DEF SetAt
<1>3. [submit[s] EXCEPT !.at = where] \in Submit
  BY <1>1 DEF Submit
<1>4. submit' = [submit EXCEPT ![s] = [submit[s] EXCEPT !.at = where]]
  BY <1>2 DEF Typed
<1>5. QED
  BY <1>1, <1>3, <1>4 DEF Typed, Moves, Submit

LEMMA SendMoves ==
    ASSUME Typed, NEW s \in Submits, NEW a \in Approvals, NEW d \in Decisions, Send(s, a, d)
    PROVE  /\ submit' \in [Submits -> {NoSubmit} \cup Submit]
           /\ \A t \in Submits : t # s => submit'[t] = submit[t]
           /\ submit'[s] = [approval |-> a, decision |-> d, at |-> "checked"]
           /\ submit[s] = NoSubmit
  BY DEF Send, Typed, Submit, InFlight

LEMMA CrashMoves ==
    ASSUME Typed, Crash
    PROVE  /\ submit' \in [Submits -> {NoSubmit} \cup Submit]
           /\ \A s \in Submits :
                 /\ submit'[s].approval = submit[s].approval /\ submit'[s].decision = submit[s].decision
                 /\ submit'[s].at = IF submit[s].at \in InFlight THEN "lost" ELSE submit[s].at
<1> SUFFICES ASSUME NEW s \in Submits
             PROVE  /\ submit'[s] \in {NoSubmit} \cup Submit
                    /\ submit'[s].approval = submit[s].approval /\ submit'[s].decision = submit[s].decision
                    /\ submit'[s].at = IF submit[s].at \in InFlight THEN "lost" ELSE submit[s].at
  BY DEF Crash
<1>1. CASE submit[s].at \in InFlight
  <2>1. submit[s] \in Submit
    BY <1>1 DEF Typed, NoSubmit, InFlight
  <2>2. submit'[s] = [submit[s] EXCEPT !.at = "lost"]
    BY <1>1 DEF Crash
  <2>3. QED
    BY <1>1, <2>1, <2>2 DEF Submit, Ended
<1>2. CASE submit[s].at \notin InFlight
  BY <1>2 DEF Crash, Typed
<1>3. QED
  BY <1>1, <1>2

LEMMA TypedInductive == Typed /\ [Next]_vars => Typed'
<1> SUFFICES ASSUME Typed, [Next]_vars PROVE Typed'
  OBVIOUS
<1> USE ConstantsAssumption
<1>0. faults + 1 \in Nat /\ faults \in Nat
  BY DEF Typed
<1>1. ASSUME NEW a \in Approvals, Register(a) \/ WaiterStep(a) \/ Abandon(a) PROVE Typed'
  <2> USE DEF Typed, Decisions, Allows
  <2>1. CASE Register(a) \/ Insert(a) \/ Timeout(a)
    BY <2>1 DEF Register, Insert, Timeout
  <2>2. CASE Return(a)
    BY <2>2 DEF Return
  <2>3. CASE Expire(a)
    BY <2>3 DEF Expire, ExpiredStatus
  <2>4. CASE Abandon(a)
    BY <1>0, <2>4 DEF Abandon
  <2>5. QED
    BY <1>1, <2>1, <2>2, <2>3, <2>4 DEF WaiterStep
<1>2. ASSUME NEW s \in Submits, NEW a \in Approvals, NEW d \in Decisions, Send(s, a, d) PROVE Typed'
  BY <1>2, SendMoves DEF Send, Typed
<1>3. ASSUME NEW s \in Submits, SubmitStep(s) \/ Fail(s) \/ ResetFails(s) PROVE Typed'
  <2>1. Sent(s)
    BY <1>3 DEF SubmitStep, Claim, ApplyMemory, Resolve, ReadyToResolve, Signal, Fail, ResetFails, Sent,
       InFlight
  <2>2. submit[s].approval \in Approvals /\ submit[s].decision \in Decisions
    BY <2>1 DEF Typed, Sent, NoSubmit, Submit, InFlight, Ended
  <2>3. submit' \in [Submits -> {NoSubmit} \cup Submit]
    BY <1>3, <2>1, SetAtMoves DEF SubmitStep, Claim, ApplyMemory, Resolve, Signal, Fail, ResetFails,
       InFlight, Ended
  <2>4. QED
    BY <1>0, <1>3, <2>2, <2>3 DEF SubmitStep, Claim, ApplyMemory, Resolve, Signal, Fail, ResetFails, Reset,
       Typed
<1>4. CASE Crash
  BY <1>0, <1>4, CrashMoves DEF Crash, Typed
<1>5. CASE UNCHANGED vars
  BY <1>5 DEF vars, Typed
<1>6. QED
  BY <1>1, <1>2, <1>3, <1>4, <1>5 DEF Next

-----------------------------------------------------------------------------
(* The row, its waiter and its winner.                                     *)

\* Steps of the caller's side: the decisions stand where they stood.
LEMMA CallerKeepsRecord ==
    ASSUME Typed, RecordInv, NEW a \in Approvals, Register(a) \/ WaiterStep(a) \/ Abandon(a)
    PROVE  RecordInv'
<1> USE DEF RecordInv
<1>0. submit' = submit /\ \A b \in Approvals : Of(b)' = Of(b)
  BY DEF Register, WaiterStep, Insert, Return, Timeout, Expire, Abandon, Of
<1>1. \A s \in Submits : Wins(s) => submit[s].approval \in Approvals
  BY ConstantsAssumption DEF Typed, Wins, NoSubmit, Submit
<1>2. CASE Register(a)
  <2>1. UNCHANGED <<row, decision, heard>>
        /\ waiter[a] = "none" /\ waiter' = [waiter EXCEPT ![a] = "registering"]
    BY <1>2 DEF Register
  <2>2. WaitersFit'
    BY <2>1 DEF WaitersFit, Typed, Decisions, Allows
  <2>3. WinnersFit' /\ HeardIsOnRecord'
    BY <1>0, <1>1, <2>1 DEF WinnersFit, HeardIsOnRecord, Holds, Wins
  <2>4. QED
    BY <2>2, <2>3
<1>3. CASE Insert(a)
  <2>1. row[a] = "none"
    BY <1>3 DEF Insert, WaitersFit
  <2>2. heard[a] = "none" /\ \A s \in Submits : Wins(s) => submit[s].approval # a
    BY <2>1 DEF WinnersFit, HeardIsOnRecord
  <2>3. WaitersFit'
    BY <1>3 DEF Insert, WaitersFit, Typed, Decisions, Allows
  <2>4. WinnersFit'
    BY <1>0, <1>1, <1>3, <2>2 DEF Insert, WinnersFit, Holds, Wins, Typed
  <2>5. HeardIsOnRecord'
    BY <1>3, <2>2 DEF Insert, HeardIsOnRecord, Typed
  <2>6. QED
    BY <2>3, <2>4, <2>5
<1>4. CASE Return(a) \/ Timeout(a) \/ Abandon(a)
  <2>1. (row[a] # "expired" /\ a \notin Unattended) \/ waiter'[a] = "gone"
    BY <1>4 DEF Return, Timeout, MayTimeOut, Abandon, WaitersFit, Typed
  <2>2. row' = row /\ decision' = decision /\ heard' = heard
    BY <1>4 DEF Return, Timeout, Abandon
  <2>3. /\ waiter' = [waiter EXCEPT ![a] = waiter'[a]]
        /\ waiter[a] \in {"registering", "waiting", "expiring"}
        /\ waiter'[a] \in {"expiring", "gone"} \cup Decisions
    BY <1>4 DEF Return, Timeout, MayTimeOut, Abandon, Typed
  <2>4. WaitersFit'
    BY <2>1, <2>2, <2>3 DEF WaitersFit, Typed, Decisions, Allows
  <2>5. WinnersFit' /\ HeardIsOnRecord'
    BY <1>0, <1>1, <2>2 DEF WinnersFit, HeardIsOnRecord, Holds, Wins
  <2>6. QED
    BY <2>4, <2>5
<1>5. CASE Expire(a)
  <2>1. a \notin Unattended
    BY <1>5 DEF Expire, WaitersFit
  <2>2. WaitersFit'
    BY <1>5, <2>1 DEF Expire, ExpiredStatus, WaitersFit, Typed, Decisions, Allows
  <2>3. WinnersFit'
    BY <1>0, <1>1, <1>5 DEF Expire, ExpiredStatus, WinnersFit, Holds, Wins, Typed
  <2>4. HeardIsOnRecord'
    BY <1>5 DEF Expire, ExpiredStatus, HeardIsOnRecord, Typed
  <2>5. QED
    BY <2>2, <2>3, <2>4
<1>6. QED
  BY <1>2, <1>3, <1>4, <1>5 DEF WaiterStep

LEMMA MovesKeepContents ==
    ASSUME NEW s \in Submits, NEW where, Moves(s, where)
    PROVE  /\ \A b \in Approvals : Of(b)' = Of(b)
           /\ \A t \in Submits : submit'[t].approval = submit[t].approval
                                 /\ submit'[t].decision = submit[t].decision
           /\ \A t \in Submits : t # s => /\ submit'[t].at = submit[t].at
                                          /\ Wins(t)' <=> Wins(t)
                                          /\ Holds(t)' <=> Holds(t)
           /\ Wins(s)' <=> (where \in {"claimed", "applied", "committed", "recorded"})
           /\ Holds(s)' <=> (where \in {"claimed", "applied"})
<1>1. \A t \in Submits : submit'[t].approval = submit[t].approval /\ submit'[t].decision = submit[t].decision
  BY DEF Moves
<1>2. \A b \in Approvals : Of(b)' = Of(b)
  BY <1>1 DEF Of
<1>3. QED
  BY <1>1, <1>2 DEF Moves, Wins, Holds

\* Steps of a decision: the waiters stand where they stood.
LEMMA SubmitKeepsRecord ==
    ASSUME Typed, RecordInv, NEW s \in Submits, SubmitStep(s) \/ Fail(s) \/ ResetFails(s)
    PROVE  RecordInv'
<1> USE DEF RecordInv, InFlight, Ended
<1>0. Sent(s)
  BY DEF SubmitStep, Claim, ApplyMemory, Resolve, ReadyToResolve, Signal, Fail, ResetFails, Sent
<1>1. PICK a \in Approvals : a = submit[s].approval
  BY <1>0 DEF Typed, Sent, NoSubmit, Submit
<1>2. waiter' = waiter
  BY DEF SubmitStep, Claim, ApplyMemory, Resolve, Signal, Fail, ResetFails
<1>3. \A t \in Submits : t # s /\ Wins(t) /\ Wins(s) => submit[t].approval # a
  BY <1>1 DEF WinnersFit
<1>4. \A t \in Submits : Wins(t) => submit[t].approval \in Approvals
  BY ConstantsAssumption DEF Typed, Wins, NoSubmit, Submit
<1>5. ASSUME Claim(s), MayClaim(a) PROVE RecordInv'
  <2>1. /\ row[a] = "pending" /\ row' = [row EXCEPT ![a] = "processing"]
        /\ UNCHANGED <<decision, heard>> /\ SetAt(s, "claimed")
    BY <1>1, <1>5 DEF Claim, MayClaim
  <2>2. Moves(s, "claimed")
    BY <1>0, <2>1, SetAtMoves
  <2>3. heard[a] = "none" /\ \A t \in Submits : Wins(t) => submit[t].approval # a
    BY <2>1 DEF HeardIsOnRecord, WinnersFit
  <2>4. WaitersFit' /\ HeardIsOnRecord'
    BY <1>2, <2>1, <2>3 DEF WaitersFit, HeardIsOnRecord, Typed
  <2>5. WinnersFit'
    BY <1>1, <1>4, <2>1, <2>2, <2>3, MovesKeepContents DEF WinnersFit, Typed
  <2>6. QED
    BY <2>4, <2>5
<1>6. ASSUME Claim(s), ~MayClaim(a) PROVE RecordInv'
  <2>1. UNCHANGED <<row, decision, heard>> /\ SetAt(s, "rejected") /\ ~Wins(s)
    BY <1>1, <1>6 DEF Claim, Wins
  <2>2. Moves(s, "rejected")
    BY <1>0, <2>1, SetAtMoves
  <2>3. WaitersFit' /\ HeardIsOnRecord'
    BY <1>2, <2>1 DEF WaitersFit, HeardIsOnRecord
  <2>4. WinnersFit'
    BY <1>4, <2>1, <2>2, MovesKeepContents DEF WinnersFit
  <2>5. QED
    BY <2>3, <2>4
<1>7. CASE ApplyMemory(s)
  <2>1. UNCHANGED <<row, decision, heard>> /\ SetAt(s, "applied") /\ Wins(s) /\ Holds(s)
    BY <1>7 DEF ApplyMemory, Wins, Holds
  <2>2. Moves(s, "applied")
    BY <1>0, <2>1, SetAtMoves
  <2>3. WaitersFit' /\ HeardIsOnRecord'
    BY <1>2, <2>1 DEF WaitersFit, HeardIsOnRecord
  <2>4. WinnersFit'
    BY <1>4, <2>1, <2>2, MovesKeepContents DEF WinnersFit
  <2>5. QED
    BY <2>3, <2>4
<1>8. CASE Resolve(s)
  <2>1. SetAt(s, "committed") /\ heard' = heard /\ Wins(s) /\ Holds(s)
    BY <1>8 DEF Resolve, ReadyToResolve, Wins, Holds
  <2>2. Moves(s, "committed")
    BY <1>0, <2>1, SetAtMoves
  <2>3. \/ /\ row[a] = "processing" /\ row' = [row EXCEPT ![a] = "resolved"]
           /\ decision' = [decision EXCEPT ![a] = submit[s].decision]
        \/ row[a] = "expired" /\ row' = row /\ decision' = decision
    BY <1>1, <1>8, <2>1 DEF Resolve, Resolves, WinnersFit
  <2>4. WaitersFit' /\ HeardIsOnRecord'
    BY <1>2, <2>1, <2>3 DEF WaitersFit, HeardIsOnRecord, Typed
  <2>5. WinnersFit'
    BY <1>1, <1>3, <1>4, <2>1, <2>2, <2>3, MovesKeepContents DEF WinnersFit, Typed
  <2>6. QED
    BY <2>4, <2>5
<1>9. CASE Fail(s)
  <2>1. SetAt(s, "failed") /\ UNCHANGED <<heard, decision>> /\ Wins(s) /\ Holds(s)
        /\ row' = [row EXCEPT ![a] = Reset(a)]
    BY <1>1, <1>9 DEF Fail, Wins, Holds
  <2>2. Moves(s, "failed")
    BY <1>0, <2>1, SetAtMoves
  <2>3. row[a] \in {"processing", "expired"} /\ (row[a] = "expired" => row'[a] = "expired")
        /\ (row[a] = "processing" => row'[a] = "pending" /\ heard[a] = "none")
    BY <1>1, <2>1 DEF WinnersFit, HeardIsOnRecord, Reset, Typed
  <2>4. WaitersFit' /\ HeardIsOnRecord'
    BY <1>2, <2>1, <2>3 DEF WaitersFit, HeardIsOnRecord, Typed
  <2>5. WinnersFit'
    BY <1>1, <1>3, <1>4, <2>1, <2>2, <2>3, MovesKeepContents DEF WinnersFit, Typed
  <2>6. QED
    BY <2>4, <2>5
<1>10. CASE ResetFails(s)
  <2>1. UNCHANGED <<row, decision, heard>> /\ SetAt(s, "lost")
    BY <1>10 DEF ResetFails
  <2>2. Moves(s, "lost")
    BY <1>0, <2>1, SetAtMoves
  <2>3. WaitersFit' /\ HeardIsOnRecord'
    BY <1>2, <2>1 DEF WaitersFit, HeardIsOnRecord
  <2>4. WinnersFit'
    BY <1>4, <2>1, <2>2, MovesKeepContents DEF WinnersFit
  <2>5. QED
    BY <2>3, <2>4
<1>11. CASE Signal(s)
  <2>1. UNCHANGED <<row, decision>> /\ SetAt(s, "recorded") /\ Wins(s) /\ ~Holds(s)
        /\ heard' = [heard EXCEPT ![a] = submit[s].decision]
    BY <1>1, <1>11 DEF Signal, Wins, Holds
  <2>2. Moves(s, "recorded")
    BY <1>0, <2>1, SetAtMoves
  <2>3. row[a] = "expired" \/ (row[a] = "resolved" /\ decision[a] = submit[s].decision)
    BY <1>1, <2>1 DEF WinnersFit
  <2>4. WaitersFit' /\ HeardIsOnRecord'
    BY <1>2, <2>1, <2>3 DEF WaitersFit, HeardIsOnRecord, Typed
  <2>5. WinnersFit'
    BY <1>4, <2>1, <2>2, MovesKeepContents DEF WinnersFit
  <2>6. QED
    BY <2>4, <2>5
<1>12. QED
  BY <1>1, <1>5, <1>6, <1>7, <1>8, <1>9, <1>10, <1>11 DEF SubmitStep

LEMMA RecordInductive == Typed /\ RecordInv /\ [Next]_vars => RecordInv'
<1> SUFFICES ASSUME Typed, RecordInv, [Next]_vars PROVE RecordInv'
  OBVIOUS
<1>0. \A t \in Submits : Wins(t) => submit[t].approval \in Approvals
  BY ConstantsAssumption DEF Typed, Wins, NoSubmit, Submit
<1>1. ASSUME NEW s \in Submits, NEW a \in Approvals, NEW d \in Decisions, Send(s, a, d) PROVE RecordInv'
  <2>1. UNCHANGED <<row, decision, heard, waiter>>
    BY <1>1 DEF Send
  <2>2. \A t \in Submits : t # s => submit'[t] = submit[t]
    BY <1>1, SendMoves
  <2>3. ~Wins(s) /\ ~Wins(s)'
    <3>1. submit[s].at = "unsent"
      BY <1>1 DEF Send, NoSubmit
    <3>2. submit'[s] = [approval |-> a, decision |-> d, at |-> "checked"]
      BY <1>1, SendMoves
    <3>3. submit'[s].at = "checked"
      BY <3>2
    <3>4. QED
      BY <3>1, <3>3 DEF Wins
  <2>4. \A t \in Submits : (Wins(t)' <=> Wins(t)) /\ (Wins(t) => submit'[t] = submit[t] /\ (Holds(t)' <=> Holds(t)))
    BY <2>2, <2>3 DEF Wins, Holds
  <2>5. WinnersFit'
    BY <1>0, <2>1, <2>4 DEF RecordInv, WinnersFit
  <2>6. QED
    BY <2>1, <2>5 DEF RecordInv, WaitersFit, HeardIsOnRecord
<1>2. CASE Crash
  <2>1. UNCHANGED <<row, decision, heard>>
        /\ waiter' = [a \in Approvals |->
              IF waiter[a] \in {"registering", "waiting", "expiring"} THEN "gone" ELSE waiter[a]]
    BY <1>2 DEF Crash
  <2>2. \A t \in Submits : /\ submit'[t].approval = submit[t].approval
                           /\ submit'[t].decision = submit[t].decision
                           /\ Wins(t)' => Wins(t) /\ ~Holds(t) /\ ~Holds(t)'
    BY <1>2, CrashMoves DEF Wins, Holds, InFlight
  <2>3. WaitersFit'
    BY <2>1 DEF RecordInv, WaitersFit
  <2>4. WinnersFit'
    BY <1>0, <2>1, <2>2 DEF RecordInv, WinnersFit
  <2>5. QED
    BY <2>1, <2>3, <2>4 DEF RecordInv, HeardIsOnRecord
<1>3. CASE UNCHANGED vars
  BY <1>3 DEF vars, RecordInv, WaitersFit, WinnersFit, HeardIsOnRecord, Wins, Holds, Of
<1>4. QED
  BY <1>1, <1>2, <1>3, CallerKeepsRecord, SubmitKeepsRecord DEF Next

-----------------------------------------------------------------------------
(* What is stored.                                                         *)

\* A decision keeps its contents once it is sent, and once it is past its
\* claim it never returns before it.
LEMMA SentStays ==
    ASSUME Typed, [Next]_vars, NEW s \in Submits, Sent(s)
    PROVE  /\ submit'[s].approval = submit[s].approval /\ submit'[s].decision = submit[s].decision
           /\ submit'[s].at \in InFlight \cup Ended
           /\ submit[s].at \notin {"checked", "claimed"} => submit'[s].at \notin {"checked", "claimed"}
           /\ submit[s].at \in {"failed", "lost"} => submit'[s].at = submit[s].at
<1> USE DEF InFlight, Ended
<1>1. CASE submit' = submit
  BY <1>1 DEF Sent
<1>2. ASSUME NEW t \in Submits, NEW a \in Approvals, NEW d \in Decisions, Send(t, a, d)
      PROVE  submit'[s] = submit[s]
  <2>1. submit[t].at = "unsent"
    BY <1>2 DEF Send, NoSubmit
  <2>2. QED
    BY <1>2, <2>1, SendMoves DEF Sent
<1>3. ASSUME NEW t \in Submits, NEW where \in InFlight \cup Ended, Sent(t), SetAt(t, where),
             where \notin {"checked", "claimed"}, submit[t].at \notin {"failed", "lost"}
      PROVE  /\ submit'[s].approval = submit[s].approval /\ submit'[s].decision = submit[s].decision
             /\ submit'[s].at \in InFlight \cup Ended
             /\ submit[s].at \notin {"checked", "claimed"} => submit'[s].at \notin {"checked", "claimed"}
             /\ submit[s].at \in {"failed", "lost"} => submit'[s].at = submit[s].at
  BY <1>3, SetAtMoves DEF Moves, Sent
<1>4. ASSUME NEW t \in Submits, submit[t].at = "checked", SetAt(t, "claimed")
      PROVE  /\ submit'[s].approval = submit[s].approval /\ submit'[s].decision = submit[s].decision
             /\ submit'[s].at \in InFlight \cup Ended
             /\ submit[s].at \notin {"checked", "claimed"} => submit'[s].at \notin {"checked", "claimed"}
             /\ submit[s].at \in {"failed", "lost"} => submit'[s].at = submit[s].at
  BY <1>4, SetAtMoves DEF Moves, Sent
<1>5. CASE Crash
  BY <1>5, CrashMoves DEF Sent
<1>6. ASSUME NEW t \in Submits, SubmitStep(t) \/ Fail(t) \/ ResetFails(t)
      PROVE  \/ submit[t].at = "checked" /\ SetAt(t, "claimed")
             \/ /\ Sent(t) /\ submit[t].at \notin {"failed", "lost"}
                /\ \E where \in (InFlight \cup Ended) \ {"checked", "claimed"} : SetAt(t, where)
  BY <1>6 DEF SubmitStep, Claim, ApplyMemory, Resolve, ReadyToResolve, Signal, Fail, ResetFails, Sent
<1>7. ASSUME NEW a \in Approvals, Register(a) \/ WaiterStep(a) \/ Abandon(a) PROVE submit' = submit
  BY <1>7 DEF Register, WaiterStep, Insert, Return, Timeout, Expire, Abandon
<1>8. CASE UNCHANGED vars
  BY <1>1, <1>8 DEF vars
<1>9. ASSUME NEW t \in Submits, SubmitStep(t) \/ Fail(t) \/ ResetFails(t)
      PROVE  /\ submit'[s].approval = submit[s].approval /\ submit'[s].decision = submit[s].decision
             /\ submit'[s].at \in InFlight \cup Ended
             /\ submit[s].at \notin {"checked", "claimed"} => submit'[s].at \notin {"checked", "claimed"}
             /\ submit[s].at \in {"failed", "lost"} => submit'[s].at = submit[s].at
  BY <1>3, <1>4, <1>6, <1>9
<1>10. QED
  BY <1>1, <1>2, <1>5, <1>7, <1>8, <1>9 DEF Next, Sent

\* Only ApplyMemory touches a memory.
LEMMA OthersKeepMemories ==
    ASSUME [Next]_vars, NEW b \in Approvals, Typed,
           \A s \in Submits : ApplyMemory(s) => submit[s].approval # b
    PROVE  memory'[b] = memory[b]
<1>1. ASSUME NEW s \in Submits, ApplyMemory(s) PROVE memory'[b] = memory[b]
  BY <1>1 DEF ApplyMemory, Typed
<1>2. QED
  BY <1>1 DEF Next, vars, Register, WaiterStep, Insert, Return, Timeout, Expire, Abandon, Send, SubmitStep,
     Claim, Resolve, Signal, Fail, ResetFails, Crash

LEMMA CountInductive == Typed /\ MemoriesAreCounted /\ [Next]_vars => MemoriesAreCounted'
<1> SUFFICES ASSUME Typed, MemoriesAreCounted, [Next]_vars, NEW b \in Approvals
             PROVE  memory'[b] <= Cardinality(Spent(b)')
  BY DEF MemoriesAreCounted
<1>1. Spent(b) \subseteq Spent(b)'
  <2> SUFFICES ASSUME NEW s \in Spent(b) PROVE s \in Spent(b)'
    OBVIOUS
  <2>1. s \in Submits /\ Sent(s) /\ submit[s].approval = b /\ submit[s].at \notin {"checked", "claimed"}
    BY ConstantsAssumption DEF Spent, Typed, NoSubmit, Submit, Sent
  <2>2. QED
    BY <2>1, SentStays DEF Spent
<1>2. IsFiniteSet(Spent(b)) /\ IsFiniteSet(Spent(b)')
  <2>1. Spent(b) \subseteq Submits /\ Spent(b)' \subseteq Submits
    BY DEF Spent
  <2>2. QED
    BY <2>1, FS_Subset, ConstantsAssumption
<1>3. Cardinality(Spent(b)) <= Cardinality(Spent(b)')
      /\ Cardinality(Spent(b)) \in Nat /\ Cardinality(Spent(b)') \in Nat
  BY <1>1, <1>2, FS_Subset, FS_CardinalityType
<1>4. memory[b] \in Nat /\ memory[b] <= Cardinality(Spent(b))
  BY DEF Typed, MemoriesAreCounted
<1>5. ASSUME NEW s \in Submits, ApplyMemory(s), submit[s].approval = b
      PROVE  memory'[b] <= Cardinality(Spent(b)')
  <2>1. memory'[b] = memory[b] + 1
    BY <1>5 DEF ApplyMemory, Typed
  <2>2. s \notin Spent(b)
    BY <1>5 DEF ApplyMemory, Spent
  <2>3. Moves(s, "applied")
    BY <1>5, SetAtMoves DEF ApplyMemory, Sent, InFlight, Ended
  <2>4. s \in Spent(b)'
    BY <1>5, <2>3 DEF Moves, Spent
  <2>5. Spent(b) \cup {s} \subseteq Spent(b)'
    BY <1>1, <2>4
  <2>6. Cardinality(Spent(b) \cup {s}) = Cardinality(Spent(b)) + 1
    BY <1>2, <2>2, FS_AddElement
  <2>7. Cardinality(Spent(b) \cup {s}) <= Cardinality(Spent(b)')
    BY <1>2, <2>5, FS_Subset
  <2>8. QED
    BY <1>3, <1>4, <2>1, <2>6, <2>7
<1>6. CASE \A s \in Submits : ApplyMemory(s) => submit[s].approval # b
  BY <1>3, <1>4, <1>6, OthersKeepMemories
<1>7. QED
  BY <1>5, <1>6

LEMMA MemoriesInductive == Typed /\ RecordInv /\ MemoriesFit /\ [Next]_vars => MemoriesFit'
<1> SUFFICES ASSUME Typed, RecordInv, MemoriesFit, [Next]_vars, NEW b \in Unattended, Unbroken(b)'
             PROVE  \/ memory'[b] = 0
                    \/ /\ memory'[b] = 1
                       /\ \E s \in Submits : /\ submit'[s].approval = b /\ Stored(s)'
                                             /\ submit'[s].decision \in Allows
  BY DEF MemoriesFit
<1>0. b \in Approvals
  BY ConstantsAssumption
<1>1. Unbroken(b)
  <2> SUFFICES ASSUME NEW s \in Submits, submit[s].approval = b, submit[s].at \in {"failed", "lost"}
               PROVE  FALSE
    BY DEF Unbroken
  <2>1. Sent(s)
    BY DEF Sent, Ended
  <2>2. QED
    BY <2>1, SentStays DEF Unbroken
<1>2. \/ memory[b] = 0
      \/ /\ memory[b] = 1
         /\ \E s \in Submits : submit[s].approval = b /\ Stored(s) /\ submit[s].decision \in Allows
  BY <1>1 DEF MemoriesFit
<1>3. ASSUME NEW s \in Submits, submit[s].approval = b, Stored(s)
      PROVE  submit'[s].approval = b /\ Stored(s)' /\ submit'[s].decision = submit[s].decision
  <2>1. Sent(s) /\ submit[s].at \notin {"checked", "claimed"}
    BY <1>3 DEF Stored, Sent, InFlight, Ended
  <2>2. /\ submit'[s].approval = b /\ submit'[s].decision = submit[s].decision
        /\ submit'[s].at \in (InFlight \cup Ended) \ {"checked", "claimed"}
    BY <1>3, <2>1, SentStays
  <2>3. submit'[s].at # "rejected"
    <3>1. ASSUME NEW t \in Submits, SubmitStep(t) \/ Fail(t) \/ ResetFails(t), t = s
          PROVE  submit'[s].at \in {"committed", "recorded", "failed", "lost"}
      BY <1>3, <2>1, <3>1, SetAtMoves DEF SubmitStep, Claim, ApplyMemory, Resolve, Signal, Fail, ResetFails,
         Stored, Moves, InFlight, Ended
    <3>2. ASSUME NEW t \in Submits, SubmitStep(t) \/ Fail(t) \/ ResetFails(t), t # s
          PROVE  submit'[s] = submit[s]
      BY <3>2 DEF SubmitStep, Claim, ApplyMemory, Resolve, Signal, Fail, ResetFails, SetAt, Typed
    <3>3. ASSUME NEW t \in Submits, NEW a \in Approvals, NEW d \in Decisions, Send(t, a, d)
          PROVE  submit'[s] = submit[s]
      <4>1. submit[t].at = "unsent"
        BY <3>3 DEF Send, NoSubmit
      <4>2. QED
        BY <1>3, <3>3, <4>1, SendMoves DEF Stored
    <3>4. CASE Crash
      BY <1>3, <3>4, CrashMoves DEF Stored, InFlight
    <3>5. ASSUME NEW a \in Approvals, Register(a) \/ WaiterStep(a) \/ Abandon(a) PROVE submit' = submit
      BY <3>5 DEF Register, WaiterStep, Insert, Return, Timeout, Expire, Abandon
    <3>6. CASE UNCHANGED vars
      BY <1>3, <3>6 DEF vars, Stored
    <3>7. QED
      BY <1>3, <3>1, <3>2, <3>3, <3>4, <3>5, <3>6 DEF Next, Stored
  <2>4. submit'[s].at \notin {"failed", "lost"}
    BY <2>2 DEF Unbroken
  <2>5. QED
    BY <2>2, <2>3, <2>4 DEF Stored, InFlight, Ended
<1>4. CASE \A s \in Submits : ApplyMemory(s) => submit[s].approval # b
  <2>1. memory'[b] = memory[b]
    BY <1>0, <1>4, OthersKeepMemories
  <2>2. QED
    BY <1>2, <1>3, <2>1
<1>5. ASSUME NEW s \in Submits, ApplyMemory(s), submit[s].approval = b
      PROVE  memory'[b] = 1 /\ submit'[s].approval = b /\ Stored(s)' /\ submit'[s].decision \in Allows
  <2>1. submit[s].at = "claimed" /\ submit[s].decision \in Allows /\ memory'[b] = memory[b] + 1
    BY <1>0, <1>5 DEF ApplyMemory, StoresMemory, Typed
  <2>2. Moves(s, "applied")
    BY <1>5, SetAtMoves DEF ApplyMemory, Sent, InFlight, Ended
  <2>3. \A t \in Submits : submit[t].approval = b /\ Stored(t) => FALSE
    BY <1>5, <2>1 DEF RecordInv, WinnersFit, Wins, Stored
  <2>4. memory[b] = 0
    BY <1>2, <2>3
  <2>5. QED
    BY <1>5, <2>1, <2>2, <2>4 DEF Moves, Stored
<1>6. QED
  BY <1>4, <1>5

-----------------------------------------------------------------------------
(* What the waiter returns, and who can still settle a row.                *)

LEMMA WaiterAgreesInductive ==
    Typed /\ RecordInv /\ WaiterAgreesWithRow /\ [Next]_vars => WaiterAgreesWithRow'
<1> SUFFICES ASSUME Typed, RecordInv, WaiterAgreesWithRow, [Next]_vars PROVE WaiterAgreesWithRow'
  OBVIOUS
<1> USE DEF Decisions, Allows
<1>1. ASSUME NEW a \in Approvals, Register(a) \/ Insert(a) \/ Timeout(a) \/ Abandon(a)
      PROVE  WaiterAgreesWithRow'
  <2>1. decision' = decision /\ \A c \in Approvals : c # a => row'[c] = row[c] /\ waiter'[c] = waiter[c]
    BY <1>1 DEF Register, Insert, Timeout, Abandon, Typed
  <2>2. waiter'[a] \notin Decisions
    BY <1>1 DEF Register, Insert, Timeout, Abandon, Typed
  <2>3. QED
    BY <2>1, <2>2 DEF WaiterAgreesWithRow
<1>2. ASSUME NEW a \in Approvals, Return(a) PROVE WaiterAgreesWithRow'
  <2>1. row[a] = "resolved" /\ decision[a] = heard[a]
    BY <1>2 DEF Return, RecordInv, WaitersFit, HeardIsOnRecord
  <2>2. QED
    BY <1>2, <2>1 DEF Return, WaiterAgreesWithRow, Typed
<1>3. ASSUME NEW a \in Approvals, Expire(a) PROVE WaiterAgreesWithRow'
  BY <1>3 DEF Expire, ExpiredStatus, WaiterAgreesWithRow, Typed
<1>4. ASSUME NEW s \in Submits, SubmitStep(s) \/ Fail(s) PROVE WaiterAgreesWithRow'
  <2>1. submit[s].approval \in Approvals
    BY <1>4, ConstantsAssumption DEF SubmitStep, Claim, ApplyMemory, Resolve, ReadyToResolve, Signal, Fail,
       Typed, NoSubmit, Submit
  <2>2. waiter' = waiter
    BY <1>4 DEF SubmitStep, Claim, ApplyMemory, Resolve, Signal, Fail
  <2>3. \A c \in Approvals : row[c] \in {"resolved", "expired"} => row'[c] = row[c] /\ decision'[c] = decision[c]
    BY <1>4, <2>1 DEF SubmitStep, Claim, MayClaim, ApplyMemory, Resolve, Resolves, Signal, Fail, Reset, Typed
  <2>4. QED
    BY <2>2, <2>3 DEF WaiterAgreesWithRow
<1>5. CASE Crash
  BY <1>5 DEF Crash, WaiterAgreesWithRow
<1>6. ASSUME UNCHANGED <<row, decision, waiter>> PROVE WaiterAgreesWithRow'
  BY <1>6 DEF WaiterAgreesWithRow
<1>7. QED
  BY <1>1, <1>2, <1>3, <1>4, <1>5, <1>6 DEF Next, vars, WaiterStep, Send, ResetFails

\* The third of DecisionsAgree, with the requests instead of the sets of them.
Settleable ==
    faults = 0 => \A a \in Approvals :
        /\ row[a] = "pending" => entry[a] \/ waiter[a] = "expiring"
        /\ row[a] = "processing" => \E s \in Submits : submit[s].approval = a /\ Holds(s)

LEMMA SettleableInductive ==
    /\ Typed /\ RecordInv /\ RegisteringIsEntered /\ Settleable /\ [Next]_vars
    => RegisteringIsEntered' /\ Settleable'
<1> SUFFICES ASSUME Typed, RecordInv, RegisteringIsEntered, Settleable, [Next]_vars
             PROVE  RegisteringIsEntered' /\ Settleable'
  OBVIOUS
<1>1. ASSUME faults' = faults + 1 PROVE RegisteringIsEntered' /\ Settleable'
  BY <1>1 DEF Typed, RegisteringIsEntered, Settleable
<1>2. ASSUME NEW a \in Approvals, Register(a) \/ WaiterStep(a) PROVE RegisteringIsEntered' /\ Settleable'
  <2>1. submit' = submit /\ faults' = faults
    BY <1>2 DEF Register, WaiterStep, Insert, Return, Timeout, Expire
  <2>2. /\ waiter'[a] = "registering" => entry'[a]
        /\ \A c \in Approvals : c # a => waiter'[c] = waiter[c] /\ entry'[c] = entry[c] /\ row'[c] = row[c]
    BY <1>2 DEF Register, WaiterStep, Insert, Return, Timeout, Expire, Typed, Decisions, Allows
  <2>3. ASSUME faults = 0, row'[a] = "pending" PROVE entry'[a] \/ waiter'[a] = "expiring"
    BY <1>2, <2>3 DEF Register, WaiterStep, Insert, Return, Timeout, Expire, ExpiredStatus, Typed,
       RegisteringIsEntered, RecordInv, WaitersFit, HeardIsOnRecord
  <2>4. row'[a] = "processing" => row[a] = "processing"
    BY <1>2 DEF Register, WaiterStep, Insert, Return, Timeout, Expire, ExpiredStatus, Typed
  <2>5. \A s \in Submits : Holds(s)' <=> Holds(s)
    BY <2>1 DEF Holds
  <2>6. RegisteringIsEntered'
    BY <2>1, <2>2 DEF RegisteringIsEntered
  <2>7. Settleable'
    BY <2>1, <2>2, <2>3, <2>4, <2>5 DEF Settleable
  <2>8. QED
    BY <2>6, <2>7
<1>3. ASSUME NEW s \in Submits, NEW a \in Approvals, NEW d \in Decisions, Send(s, a, d)
      PROVE  RegisteringIsEntered' /\ Settleable'
  <2>1. UNCHANGED <<row, entry, waiter, faults>>
    BY <1>3 DEF Send
  <2>2. submit[s].at = "unsent"
    BY <1>3 DEF Send, NoSubmit
  <2>3. \A t \in Submits : Holds(t) => submit'[t].approval = submit[t].approval /\ Holds(t)'
    BY <1>3, <2>2, SendMoves DEF Holds
  <2>4. QED
    BY <2>1, <2>3 DEF RegisteringIsEntered, Settleable
<1>4. ASSUME NEW s \in Submits, SubmitStep(s) PROVE RegisteringIsEntered' /\ Settleable'
  <2>1. UNCHANGED <<entry, waiter, faults>>
    BY <1>4 DEF SubmitStep, Claim, ApplyMemory, Resolve, Signal
  <2>2. submit[s].approval \in Approvals
    BY <1>4, ConstantsAssumption DEF SubmitStep, Claim, ApplyMemory, Resolve, ReadyToResolve, Signal,
       Typed, NoSubmit, Submit
  <2>3. \E where \in InFlight \cup Ended : Moves(s, where)
    BY <1>4, SetAtMoves DEF SubmitStep, Claim, ApplyMemory, Resolve, ReadyToResolve, Signal, Sent, InFlight,
       Ended
  <2>4. \A t \in Submits : /\ submit'[t].approval = submit[t].approval
                           /\ t # s => (Holds(t)' <=> Holds(t))
    BY <2>3, MovesKeepContents
  <2>5. \A c \in Approvals : row'[c] = "pending" => row[c] = "pending"
    BY <1>4, <2>2 DEF SubmitStep, Claim, ApplyMemory, Resolve, Signal, Typed
  <2>6. \A c \in Approvals : row'[c] = "processing" => row[c] = "processing" \/ c = submit[s].approval
    BY <1>4, <2>2 DEF SubmitStep, Claim, ApplyMemory, Resolve, Signal, Typed
  <2>7. ASSUME row'[submit[s].approval] = "processing", Holds(s) \/ row[submit[s].approval] # "processing"
        PROVE  Holds(s)'
    <3>1. CASE Claim(s)
      <4>1. SetAt(s, "claimed")
        BY <2>2, <2>7, <3>1 DEF Claim, Holds, Typed
      <4>2. Moves(s, "claimed")
        BY <3>1, <4>1, SetAtMoves DEF Claim, Sent, InFlight
      <4>3. QED
        BY <4>2 DEF Moves, Holds
    <3>2. CASE ApplyMemory(s)
      <4>1. Moves(s, "applied")
        BY <3>2, SetAtMoves DEF ApplyMemory, Sent, InFlight
      <4>2. QED
        BY <4>1 DEF Moves, Holds
    <3>3. CASE Resolve(s)
      BY <2>2, <2>7, <3>3 DEF Resolve, Resolves, Typed
    <3>4. CASE Signal(s)
      BY <2>7, <3>4 DEF Signal, Holds
    <3>5. QED
      BY <1>4, <3>1, <3>2, <3>3, <3>4 DEF SubmitStep
  <2>8. ASSUME faults = 0, NEW c \in Approvals, row'[c] = "processing"
        PROVE  \E t \in Submits : submit'[t].approval = c /\ Holds(t)'
    <3>1. CASE row[c] = "processing"
      <4>1. PICK t \in Submits : submit[t].approval = c /\ Holds(t)
        BY <2>8, <3>1 DEF Settleable
      <4>2. QED
        BY <2>4, <2>7, <2>8, <4>1
    <3>2. CASE row[c] # "processing"
      BY <2>4, <2>6, <2>7, <2>8, <3>2
    <3>3. QED
      BY <3>1, <3>2
  <2>9. QED
    BY <2>1, <2>5, <2>8 DEF RegisteringIsEntered, Settleable
<1>5. CASE UNCHANGED vars
  BY <1>5 DEF vars, RegisteringIsEntered, Settleable, Holds
<1>6. QED
  BY <1>1, <1>2, <1>3, <1>4, <1>5 DEF Next, Abandon, Fail, ResetFails, Crash

-----------------------------------------------------------------------------
(* The theorems.                                                           *)

Inv ==
    /\ Typed /\ RecordInv
    /\ MemoriesFit /\ MemoriesAreCounted
    /\ WaiterAgreesWithRow
    /\ RegisteringIsEntered /\ Settleable

LEMMA InitInv == Init => Inv
<1> SUFFICES ASSUME Init PROVE Inv
  OBVIOUS
<1> USE ConstantsAssumption DEF Init
<1>1. Typed
  BY DEF Typed
<1>2. \A s \in Submits : submit[s].at = "unsent"
  BY DEF NoSubmit
<1>3. RecordInv
  BY <1>2 DEF RecordInv, WaitersFit, WinnersFit, HeardIsOnRecord, Wins
<1>4. MemoriesFit /\ RegisteringIsEntered /\ Settleable
  BY DEF MemoriesFit, RegisteringIsEntered, Settleable
<1>5. WaiterAgreesWithRow
  BY DEF WaiterAgreesWithRow, Decisions, Allows
<1>6. MemoriesAreCounted
  <2> SUFFICES ASSUME NEW a \in Approvals PROVE memory[a] <= Cardinality(Spent(a))
    BY DEF MemoriesAreCounted
  <2>1. IsFiniteSet(Spent(a))
    <3>1. Spent(a) \subseteq Submits
      BY DEF Spent
    <3>2. QED
      BY <3>1, FS_Subset
  <2>2. Cardinality(Spent(a)) \in Nat
    BY <2>1, FS_CardinalityType
  <2>3. QED
    BY <2>2
<1>7. QED
  BY <1>1, <1>3, <1>4, <1>5, <1>6 DEF Inv

LEMMA InvInductive == Inv /\ [Next]_vars => Inv'
  BY TypedInductive, RecordInductive, MemoriesInductive, CountInductive, WaiterAgreesInductive,
     SettleableInductive DEF Inv

LEMMA Invariant == Spec => []Inv
<1>1. Init => Inv
  BY InitInv
<1>2. Inv /\ [Next]_vars => Inv'
  BY InvInductive
<1>3. QED
  BY <1>1, <1>2, PTL DEF Spec

\* Every variable keeps its type, and no memory is stored more often than
\* decisions were sent (_apply_curator_memory_if_needed commits the memory
\* before submit_approval records the decision).
THEOREM TypeCorrect == Spec => []TypeOK
<1>1. Inv => TypeOK
  <2> SUFFICES ASSUME Inv, NEW a \in Approvals PROVE memory[a] \in 0 .. Cardinality(Submits)
    BY DEF Inv, Typed, TypeOK
  <2>1. Spent(a) \subseteq Submits
    BY DEF Spent
  <2>2. /\ Cardinality(Spent(a)) <= Cardinality(Submits)
        /\ Cardinality(Spent(a)) \in Nat /\ Cardinality(Submits) \in Nat
    BY <2>1, FS_Subset, FS_CardinalityType, ConstantsAssumption
  <2>3. memory[a] \in Nat /\ memory[a] <= Cardinality(Spent(a))
    BY DEF Inv, Typed, MemoriesAreCounted
  <2>4. QED
    BY <2>2, <2>3
<1>2. QED
  BY <1>1, Invariant, PTL

LEMMA AtMostOne ==
    ASSUME NEW S, \A x, y \in S : x = y
    PROVE  Cardinality(S) <= 1
<1>1. CASE S = {}
  BY <1>1, FS_EmptySet
<1>2. CASE S # {}
  <2>1. PICK x \in S : TRUE
    BY <1>2
  <2>2. S = {x}
    BY <2>1
  <2>3. QED
    BY <2>2, FS_Singleton
<1>3. QED
  BY <1>1, <1>2

LEMMA OneWinner == Inv => OneWinnerOneEffect
<1> SUFFICES ASSUME Inv PROVE OneWinnerOneEffect
  OBVIOUS
<1>1. ASSUME NEW a \in Approvals
      PROVE  Cardinality({s \in Of(a) : submit[s].at = "recorded"}) <= 1
  <2>1. \A s, t \in {r \in Of(a) : submit[r].at = "recorded"} : s = t
    BY DEF Inv, RecordInv, WinnersFit, Wins, Of
  <2>2. QED
    BY <2>1, AtMostOne
<1>2. ASSUME NEW a \in Unattended, \A s \in Of(a) : submit[s].at \notin {"failed", "lost"}
      PROVE  /\ memory[a] <= 1
             /\ memory[a] = 1 =>
                  \/ row[a] = "processing"
                  \/ row[a] = "resolved" /\ decision[a] \in Allows
  <2>1. Unbroken(a)
    BY <1>2 DEF Unbroken, Of
  <2>2. \/ memory[a] = 0
        \/ /\ memory[a] = 1
           /\ \E s \in Submits : submit[s].approval = a /\ Stored(s) /\ submit[s].decision \in Allows
    BY <2>1 DEF Inv, MemoriesFit
  <2>3. row[a] # "expired"
    BY ConstantsAssumption DEF Inv, RecordInv, WaitersFit
  <2>4. ASSUME NEW s \in Submits, submit[s].approval = a, Stored(s)
        PROVE  row[a] = "processing" \/ (row[a] = "resolved" /\ decision[a] = submit[s].decision)
    BY <2>3, <2>4 DEF Inv, RecordInv, WinnersFit, Stored, Wins, Holds
  <2>5. QED
    BY <2>2, <2>4
<1>3. QED
  BY <1>1, <1>2 DEF OneWinnerOneEffect

\* A decision is one decision: for its waiter, its row and its memory, and
\* without a fault no row is left that nobody can settle (submit_approval,
\* wait_for_approval).
THEOREM Agreement == Spec => []DecisionsAgree
<1>1. Inv => OpenIsSettleable
  BY DEF Inv, Settleable, OpenIsSettleable, Holds, Of
<1>2. Inv => DecisionsAgree
  BY <1>1, OneWinner DEF Inv, DecisionsAgree
<1>3. QED
  BY <1>2, Invariant, PTL

-----------------------------------------------------------------------------
(* Skills (module Skills).                                                 *)

\* A skill that could be in the table: it has a text, and only an approved one,
\* of a text that was approved, is enabled.
RowIsFair(skill, texts) ==
    /\ skill.status # "gone" => skill.text \in Texts
    /\ skill.enabled = TRUE => skill.status = "approved"
    /\ skill.status = "approved" => skill.text \in texts

\* What an update will write is such a skill, by the approvals there are; what a
\* decision will write is no deletion.
SkillsFit ==
    /\ \A s \in SkillIds : RowIsFair(skills[s], vetted[s])
    /\ \A s \in SkillIds : \A e \in Edits : edit[s][e].pc = "read" =>
           /\ edit[s][e].op = "update" => RowIsFair(edit[s][e].new, vetted[s])
           /\ edit[s][e].op = "status" => edit[s][e].new.status # "gone"

SkillsInv == Review!SkillsTypeOK /\ SkillsFit

LEMMA SkillsStart == Review!SkillsInit => SkillsInv
  BY SkillsAssumption DEF Review!SkillsInit, SkillsInv, SkillsFit, RowIsFair, Review!SkillsTypeOK,
     Review!Gone, Review!NoEdit, Review!Row

\* What an update that read a skill will write: an edit of an approved text takes
\* the approval back.
LEMMA EditedIsFair ==
    ASSUME NEW skill \in Review!Row, NEW texts, RowIsFair(skill, texts),
           skill.version < MaxVersion, skill.status # "gone",
           NEW text \in Texts, NEW enabled \in BOOLEAN, NEW changed \in BOOLEAN,
           text # skill.text => changed, enabled => skill.status = "approved"
    PROVE  /\ Review!Edited(skill, [skill EXCEPT !.text = text, !.enabled = enabled], changed) \in Review!Row
           /\ RowIsFair(Review!Edited(skill, [skill EXCEPT !.text = text, !.enabled = enabled], changed), texts)
<1> USE SkillsAssumption DEF Review!Row
<1>1. PICK old : old = [skill EXCEPT !.text = text, !.enabled = enabled]
  OBVIOUS
<1>2. /\ old \in Review!Row /\ old.text = text /\ old.enabled = enabled
      /\ old.status = skill.status /\ old.version = skill.version
  BY <1>1
<1>n. PICK n \in 0..MaxVersion : n = skill.version + 1
  OBVIOUS
<1>3. CASE changed /\ skill.status = "approved"
  <2>1. PICK new : new = [old EXCEPT !.version = n, !.status = "draft", !.enabled = FALSE]
    OBVIOUS
  <2>2. Review!Edited(skill, old, changed) = new
    BY <1>2, <1>n, <1>3, <2>1 DEF Review!Edited
  <2>3. /\ new.text = text /\ new.status = "draft" /\ new.enabled = FALSE
        /\ new \in Review!Row
    BY <1>2, <2>1
  <2>4. QED
    BY <1>1, <2>2, <2>3 DEF RowIsFair
<1>4. CASE ~(changed /\ skill.status = "approved")
  <2>1. PICK new : new = [old EXCEPT !.version = n, !.status = old.status, !.enabled = old.enabled]
    OBVIOUS
  <2>2. Review!Edited(skill, old, changed) = new
    BY <1>2, <1>n, <1>4, <2>1 DEF Review!Edited
  <2>3. /\ new.text = text /\ new.status = skill.status /\ new.enabled = enabled
        /\ new \in Review!Row
    BY <1>2, <2>1
  <2>4. skill.status = "approved" => text = skill.text
    BY <1>4
  <2>5. QED
    BY <1>1, <2>2, <2>3, <2>4 DEF RowIsFair
<1>5. QED
  BY <1>3, <1>4

\* What a decision writes over the skill it finds.
LEMMA DecidedIsFair ==
    ASSUME NEW skill \in Review!Row, NEW texts, RowIsFair(skill, texts),
           skill.status # "gone", NEW new \in Review!Row, new.status # "gone"
    PROVE  /\ [skill EXCEPT !.status = new.status, !.version = new.version,
                          !.enabled = @ /\ new.status = "approved"] \in Review!Row
           /\ RowIsFair([skill EXCEPT !.status = new.status, !.version = new.version,
                                    !.enabled = @ /\ new.status = "approved"],
                        IF new.status = "approved" THEN texts \cup {skill.text} ELSE texts)
<1> USE SkillsAssumption DEF Review!Row
<1>1. PICK on \in BOOLEAN : on = (skill.enabled /\ new.status = "approved")
  BY Zenon
<1>2. PICK v : v = [skill EXCEPT !.status = new.status, !.version = new.version,
                               !.enabled = skill.enabled /\ new.status = "approved"]
  OBVIOUS
<1>3. v = [skill EXCEPT !.status = new.status, !.version = new.version, !.enabled = on]
  BY <1>1, <1>2, Zenon
<1>4. /\ v \in Review!Row /\ v.text = skill.text /\ v.status = new.status /\ v.enabled = on
  BY <1>3
<1>5. on = TRUE => new.status = "approved"
  BY <1>1
<1>6. RowIsFair(v, IF new.status = "approved" THEN texts \cup {skill.text} ELSE texts)
  BY <1>4, <1>5 DEF RowIsFair
<1>7. QED
  BY <1>2, <1>4, <1>6

LEMMA SkillsStep == SkillsInv /\ [Review!SkillsNext]_(Review!skillVars) => SkillsInv'
<1> SUFFICES ASSUME SkillsInv, [Review!SkillsNext]_(Review!skillVars) PROVE SkillsInv'
  OBVIOUS
<1>0. /\ skills \in [SkillIds -> Review!Row] /\ vetted \in [SkillIds -> SUBSET Texts]
      /\ edit \in [SkillIds -> [Edits -> [pc : {"idle", "read"}, new : Review!Row,
                                         op : {"none", "update", "status", "delete"}]]]
      /\ SkillsFit
  BY DEF SkillsInv, Review!SkillsTypeOK
<1>g. Review!Gone \in Review!Row /\ Review!NoEdit.pc = "idle" /\ Review!NoEdit.new \in Review!Row
      /\ Review!NoEdit \in [pc : {"idle", "read"}, new : Review!Row,
                            op : {"none", "update", "status", "delete"}]
  BY SkillsAssumption DEF Review!Gone, Review!NoEdit, Review!Row
<1>1. ASSUME NEW s \in SkillIds, Review!CreateSkill(s) PROVE SkillsInv'
  <2>1. PICK text \in Texts : Review!Draft(s, text)
    BY <1>1 DEF Review!CreateSkill
  <2>2. PICK new : new = [status |-> "draft", text |-> text, enabled |-> FALSE, version |-> 1]
    OBVIOUS
  <2>3. /\ skills' = [skills EXCEPT ![s] = new] /\ vetted' = [vetted EXCEPT ![s] = {}] /\ edit' = edit
        /\ \A e \in Edits : edit[s][e].pc = "idle"
    BY <1>1, <1>g, <2>1, <2>2 DEF Review!CreateSkill, Review!Draft
  <2>n. new \in Review!Row /\ RowIsFair(new, {})
    BY <2>2, SkillsAssumption DEF Review!Row, RowIsFair
  <2>4. Review!SkillsTypeOK'
    BY <1>0, <2>3, <2>n DEF Review!SkillsTypeOK
  <2>5. SkillsFit'
    BY <1>0, <2>3, <2>n DEF SkillsFit
  <2>6. QED
    BY <2>4, <2>5 DEF SkillsInv
\* A request reads its skill and keeps what it will write.
<1>2. ASSUME NEW s \in SkillIds, NEW e \in Edits, NEW o \in {"update", "status", "delete"},
             NEW new \in Review!Row, Review!Submit(s, e, o, new),
             (o = "update") => RowIsFair(new, vetted[s]), (o = "status") => new.status # "gone"
      PROVE  SkillsInv'
  <2>1. /\ edit' = [edit EXCEPT ![s] = [edit[s] EXCEPT ![e] = [pc |-> "read", op |-> o, new |-> new]]]
        /\ skills' = skills /\ vetted' = vetted
    BY <1>2 DEF Review!Submit
  <2>2. Review!SkillsTypeOK'
    BY <1>0, <2>1 DEF Review!SkillsTypeOK
  <2>3. SkillsFit'
    <3>1. \A t \in SkillIds, f \in Edits :
             edit'[t][f] = IF t = s /\ f = e THEN [pc |-> "read", op |-> o, new |-> new] ELSE edit[t][f]
      BY <1>0, <2>1
    <3>2. QED
      BY <1>0, <1>2, <2>1, <3>1 DEF SkillsFit
  <2>4. QED
    BY <2>2, <2>3 DEF SkillsInv
<1>3. ASSUME NEW s \in SkillIds, NEW e \in Edits, Review!ReadForUpdate(s, e) PROVE SkillsInv'
  <2>1. PICK text \in Texts, enabled \in BOOLEAN, changed \in BOOLEAN :
           /\ skills[s].version < MaxVersion /\ (text # skills[s].text => changed)
           /\ enabled => skills[s].status = "approved"
           /\ Review!Submit(s, e, "update",
                 Review!Edited(skills[s], [skills[s] EXCEPT !.text = text, !.enabled = enabled], changed))
    BY <1>3 DEF Review!ReadForUpdate
  <2>2. skills[s] \in Review!Row /\ RowIsFair(skills[s], vetted[s]) /\ skills[s].status # "gone"
    BY <1>0, <2>1 DEF SkillsFit, Review!Submit, Review!Present
  <2>3. PICK new : new = Review!Edited(skills[s], [skills[s] EXCEPT !.text = text, !.enabled = enabled], changed)
    OBVIOUS
  <2>4. new \in Review!Row /\ RowIsFair(new, vetted[s])
    BY <2>1, <2>2, <2>3, EditedIsFair
  <2>5. QED
    BY <1>2, <2>1, <2>3, <2>4
<1>4. ASSUME NEW s \in SkillIds, NEW e \in Edits, Review!ReadForStatus(s, e) PROVE SkillsInv'
  <2>1. PICK to \in Review!Reachable(skills[s].status) :
           /\ skills[s].version < MaxVersion
           /\ Review!Submit(s, e, "status", [skills[s] EXCEPT !.status = to, !.version = @ + 1])
    BY <1>4 DEF Review!ReadForStatus
  <2>2. to \in {"draft", "review_pending", "approved"}
    BY <2>1 DEF Review!Reachable
  <2>3. PICK new : new = [skills[s] EXCEPT !.status = to, !.version = @ + 1]
    OBVIOUS
  <2>4. PICK skill \in Review!Row : skill = skills[s]
    BY <1>0
  <2>n. PICK n \in 0..MaxVersion : n = skill.version + 1
    BY <2>1, <2>4, SkillsAssumption DEF Review!Row
  <2>5. new = [skill EXCEPT !.status = to, !.version = n]
    BY <2>3, <2>4, <2>n
  <2>6. new \in Review!Row /\ new.status # "gone"
    BY <2>2, <2>4, <2>n, <2>5 DEF Review!Row
  <2>7. QED
    BY <1>2, <2>1, <2>3, <2>6
<1>5. ASSUME NEW s \in SkillIds, NEW e \in Edits, Review!ReadForDelete(s, e) PROVE SkillsInv'
  BY <1>2, <1>5, <1>g DEF Review!ReadForDelete
\* A request writes its skill, if the skill is still there, and is over.
<1>6. ASSUME NEW s \in SkillIds, NEW e \in Edits, NEW skill \in Review!Row, NEW texts \in SUBSET Texts,
             edit' = [edit EXCEPT ![s] = [edit[s] EXCEPT ![e] = Review!NoEdit]],
             skills' = [skills EXCEPT ![s] = skill], vetted' = [vetted EXCEPT ![s] = texts],
             vetted[s] \subseteq texts, RowIsFair(skill, texts)
      PROVE  SkillsInv'
  <2>1. Review!SkillsTypeOK'
    BY <1>0, <1>6, <1>g DEF Review!SkillsTypeOK
  <2>2. SkillsFit'
    <3>1. \A t \in SkillIds, f \in Edits :
             edit'[t][f] = IF t = s /\ f = e THEN Review!NoEdit ELSE edit[t][f]
      BY <1>0, <1>6
    <3>2. \A t \in SkillIds : /\ vetted[t] \subseteq vetted'[t] /\ RowIsFair(skills'[t], vetted'[t])
      BY <1>0, <1>6 DEF SkillsFit
    <3>3. \A t \in SkillIds, r \in Review!Row : RowIsFair(r, vetted[t]) => RowIsFair(r, vetted'[t])
      BY <3>2 DEF RowIsFair
    <3>4. ASSUME NEW t \in SkillIds, NEW f \in Edits, edit'[t][f].pc = "read"
          PROVE  /\ (edit'[t][f].op = "update" => RowIsFair(edit'[t][f].new, vetted'[t]))
                 /\ (edit'[t][f].op = "status" => edit'[t][f].new.status # "gone")
      <4>1. edit'[t][f] = edit[t][f]
        BY <1>g, <3>1, <3>4
      <4>2. edit[t][f].new \in Review!Row
        BY <1>0
      <4>3. /\ (edit[t][f].op = "update" => RowIsFair(edit[t][f].new, vetted[t]))
            /\ (edit[t][f].op = "status" => edit[t][f].new.status # "gone")
        BY <1>0, <3>4, <4>1 DEF SkillsFit
      <4>4. QED
        BY <3>3, <4>1, <4>2, <4>3
    <3>5. QED
      BY <3>2, <3>4 DEF SkillsFit
  <2>3. QED
    BY <2>1, <2>2 DEF SkillsInv
<1>7. ASSUME NEW s \in SkillIds, NEW e \in Edits,
             edit' = [edit EXCEPT ![s] = [edit[s] EXCEPT ![e] = Review!NoEdit]], skills' = skills, vetted' = vetted
      PROVE  SkillsInv'
  <2>1. skills' = [skills EXCEPT ![s] = skills[s]] /\ vetted' = [vetted EXCEPT ![s] = vetted[s]]
    BY <1>0, <1>7
  <2>2. RowIsFair(skills[s], vetted[s]) /\ skills[s] \in Review!Row /\ vetted[s] \in SUBSET Texts
    BY <1>0 DEF SkillsFit
  <2>3. QED
    BY <1>6, <1>7, <2>1, <2>2
<1>8. ASSUME NEW s \in SkillIds, NEW e \in Edits, Review!WriteUpdate(s, e) PROVE SkillsInv'
  <2>1. PICK new \in Review!Row : new = edit[s][e].new
    BY <1>0
  <2>2. /\ edit' = [edit EXCEPT ![s] = [edit[s] EXCEPT ![e] = Review!NoEdit]] /\ vetted' = vetted /\ RowIsFair(new, vetted[s])
        /\ skills' = [skills EXCEPT ![s] = new] \/ skills' = skills
    BY <1>0, <1>8, <2>1 DEF Review!WriteUpdate, Review!Write, SkillsFit
  <2>3. vetted' = [vetted EXCEPT ![s] = vetted[s]] /\ vetted[s] \in SUBSET Texts
    BY <1>0, <2>2
  <2>4. QED
    BY <1>6, <1>7, <2>1, <2>2, <2>3
<1>9. ASSUME NEW s \in SkillIds, NEW e \in Edits, Review!WriteStatus(s, e) PROVE SkillsInv'
  <2>1. PICK new \in Review!Row : new = edit[s][e].new
    BY <1>0
  <2>2. /\ edit[s][e].op = "status" /\ edit[s][e].pc = "read"
        /\ edit' = [edit EXCEPT ![s] = [edit[s] EXCEPT ![e] = Review!NoEdit]] /\ new.status # "gone"
    BY <1>0, <1>9, <2>1 DEF Review!WriteStatus, Review!Write, SkillsFit
  <2>3. CASE ~Review!Present(s)
    <3>1. skills' = skills /\ vetted' = vetted
      BY <1>9, <2>3 DEF Review!WriteStatus, Review!Write
    <3>2. QED
      BY <1>7, <2>2, <3>1
  <2>4. CASE Review!Present(s)
    <3>1. PICK skill : skill = [skills[s] EXCEPT !.status = new.status, !.version = new.version,
                                             !.enabled = @ /\ new.status = "approved"]
      OBVIOUS
    <3>2. PICK texts : texts = IF new.status = "approved" THEN vetted[s] \cup {skills[s].text} ELSE vetted[s]
      OBVIOUS
    <3>3. skills' = [skills EXCEPT ![s] = skill]
      BY <1>9, <2>1, <2>4, <3>1 DEF Review!WriteStatus, Review!Write
    <3>4. vetted' = [vetted EXCEPT ![s] = texts]
      BY <1>0, <1>9, <2>1, <2>4, <3>2 DEF Review!WriteStatus
    <3>5. skills[s] \in Review!Row /\ RowIsFair(skills[s], vetted[s]) /\ skills[s].status # "gone"
      BY <1>0, <2>4 DEF SkillsFit, Review!Present
    <3>6. skill \in Review!Row /\ RowIsFair(skill, texts)
      BY <2>1, <2>2, <3>1, <3>2, <3>5, DecidedIsFair
    <3>7. texts \in SUBSET Texts /\ vetted[s] \subseteq texts
      BY <1>0, <3>2, <3>5 DEF RowIsFair
    <3>8. QED
      BY <1>6, <2>2, <3>3, <3>4, <3>6, <3>7
  <2>5. QED
    BY <2>3, <2>4
<1>10. ASSUME NEW s \in SkillIds, NEW e \in Edits, Review!DeleteSkill(s, e) PROVE SkillsInv'
  <2>1. /\ edit' = [edit EXCEPT ![s] = [edit[s] EXCEPT ![e] = Review!NoEdit]] /\ skills' = [skills EXCEPT ![s] = Review!Gone]
        /\ vetted' = [vetted EXCEPT ![s] = vetted[s]] /\ vetted[s] \in SUBSET Texts
    BY <1>0, <1>10 DEF Review!DeleteSkill
  <2>2. RowIsFair(Review!Gone, vetted[s])
    BY DEF RowIsFair, Review!Gone
  <2>3. QED
    BY <1>6, <1>g, <2>1, <2>2
<1>11. CASE UNCHANGED Review!skillVars
  BY <1>11 DEF Review!skillVars, SkillsInv, SkillsFit, Review!SkillsTypeOK
<1>12. QED
  BY <1>1, <1>3, <1>4, <1>5, <1>8, <1>9, <1>10, <1>11 DEF Review!SkillsNext

\* However edits and review decisions overwrite each other, only an approved
\* skill is enabled, and an approved text is one that an approval was written
\* for (api/skills.py).
THEOREM SkillsAreVetted == Review!SkillsSpec => []EnabledIsVetted
<1>1. SkillsInv => EnabledIsVetted
  BY DEF SkillsInv, SkillsFit, RowIsFair, EnabledIsVetted, Review!EnabledIsVetted, Review!SkillsTypeOK, Review!Row
<1>2. QED
  BY <1>1, SkillsStart, SkillsStep, PTL DEF Review!SkillsSpec
=============================================================================
