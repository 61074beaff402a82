----------------------------- MODULE Approvals -----------------------------
(***************************************************************************)
(* Approval requests: a tool call of the agent that may change something   *)
(* waits for the user's decision.                                          *)
(*                                                                         *)
(* A request lives in two places, a row of approval_requests and an entry  *)
(* of the in-process dictionary pending_approvals, whose event its waiter  *)
(* sleeps on.  Decisions arrive as HTTP requests, possibly several at a    *)
(* time and contradictory; the waiter gives up after a timeout.  Proposals *)
(* of the curator have no waiter: the decision itself stores the memory.   *)
(***************************************************************************)
EXTENDS Naturals, FiniteSets

CONSTANTS
    Approvals,   \* approval requests
    Unattended,  \* those of the curator: no waiter, a memory to store
    External,    \* those with external or destructive effects
    Submits,     \* decisions sent by the user
    MaxFaults,   \* bound: crashes, database errors and cancelled waiters
    NoApproval   \* the approval of a decision not sent yet

ASSUME ConstantsAssumption ==
    /\ Unattended \subseteq Approvals /\ External \subseteq Approvals
    /\ NoApproval \notin Approvals
    /\ IsFiniteSet(Submits) /\ MaxFaults \in Nat

VARIABLES
    row,       \* approval_requests.status, "none" before the insert
    decision,  \* approval_requests.decision, "none" when NULL
    entry,     \* the keys of pending_approvals
    heard,     \* the decision of an entry whose event is set, else "none"
    waiter,    \* wait_for_approval: where it stands, or what it returned
    submit,    \* the user's decisions and where submit_approval stands
    memory,    \* how often an approval's memory was stored
    faults     \* crashes, errors and cancellations so far

vars == <<row, decision, entry, heard, waiter, submit, memory, faults>>

Allows    == {"allow_once", "allow_for_session"}
Decisions == Allows \cup {"deny"}
InFlight  == {"checked", "claimed", "applied", "committed"}
Ended     == {"recorded", "rejected", "failed", "lost"}

NoSubmit == [approval |-> NoApproval, decision |-> "none", at |-> "unsent"]
Submit   == [approval : Approvals, decision : Decisions, at : InFlight \cup Ended]

TypeOK ==
    /\ row \in [Approvals -> {"none", "pending", "processing", "resolved", "expired"}]
    /\ decision \in [Approvals -> {"none"} \cup Decisions]
    /\ entry \in [Approvals -> BOOLEAN]
    /\ heard \in [Approvals -> {"none"} \cup Decisions]
    /\ waiter \in [Approvals -> {"none", "registering", "waiting", "expiring", "nobody", "gone"} \cup Decisions]
    /\ submit \in [Submits -> {NoSubmit} \cup Submit]
    /\ memory \in [Approvals -> 0 .. Cardinality(Submits)]
    /\ faults \in 0 .. MaxFaults

Init ==
    /\ row = [a \in Approvals |-> "none"]
    /\ decision = [a \in Approvals |-> "none"]
    /\ entry = [a \in Approvals |-> FALSE]
    /\ heard = [a \in Approvals |-> "none"]
    /\ waiter = [a \in Approvals |-> "none"]
    /\ submit = [s \in Submits |-> NoSubmit]
    /\ memory = [a \in Approvals |-> 0]
    /\ faults = 0

-----------------------------------------------------------------------------
(* The caller: register_pending_approval, then wait_for_approval.          *)

Register(a) ==
    /\ waiter[a] = "none"
    /\ entry' = [entry EXCEPT ![a] = TRUE]
    /\ waiter' = [waiter EXCEPT ![a] = "registering"]
    /\ UNCHANGED <<row, decision, heard, submit, memory, faults>>

Insert(a) ==
    /\ waiter[a] = "registering"
    /\ row' = [row EXCEPT ![a] = "pending"]
    /\ waiter' = [waiter EXCEPT ![a] = IF a \in Unattended THEN "nobody" ELSE "waiting"]
    /\ UNCHANGED <<decision, entry, heard, submit, memory, faults>>

Return(a) ==
    /\ waiter[a] = "waiting" /\ heard[a] # "none"
    /\ entry' = [entry EXCEPT ![a] = FALSE]
    /\ waiter' = [waiter EXCEPT ![a] = heard[a]]
    /\ UNCHANGED <<row, decision, heard, submit, memory, faults>>

\* The deadline may pass with the event already set but not yet noticed.
MayTimeOut(a) == waiter[a] = "waiting"

Timeout(a) ==
    /\ MayTimeOut(a)
    /\ entry' = [entry EXCEPT ![a] = FALSE]
    /\ waiter' = [waiter EXCEPT ![a] = "expiring"]
    /\ UNCHANGED <<row, decision, heard, submit, memory, faults>>

\* The row is marked by its id, whatever its status has become.
ExpiredAsDenied(a) == "denied" \* mutant
ExpiredStatus(a) == "expired"

Expire(a) ==
    /\ waiter[a] = "expiring"
    /\ row' = [row EXCEPT ![a] = ExpiredStatus(a)]
    /\ decision' = [decision EXCEPT ![a] = "deny"]
    /\ waiter' = [waiter EXCEPT ![a] = "deny"]
    /\ UNCHANGED <<entry, heard, submit, memory, faults>>

\* The task that waits is cancelled, or a statement of it fails.
Abandon(a) ==
    /\ waiter[a] \in {"registering", "waiting", "expiring"} /\ faults < MaxFaults
    /\ waiter' = [waiter EXCEPT ![a] = "gone"]
    /\ faults' = faults + 1
    /\ UNCHANGED <<row, decision, entry, heard, submit, memory>>

-----------------------------------------------------------------------------
(* The user: submit_approval.                                              *)

SetAt(s, where) == submit' = [submit EXCEPT ![s].at = where]

\* Decisions on entries that are gone are refused and change nothing.
Send(s, a, d) ==
    /\ submit[s] = NoSubmit
    /\ entry[a]
    /\ d = "allow_for_session" => a \notin External
    /\ submit' = [submit EXCEPT ![s] = [approval |-> a, decision |-> d, at |-> "checked"]]
    /\ UNCHANGED <<row, decision, entry, heard, waiter, memory, faults>>

MayClaimTwice(a) == row[a] \in {"pending", "processing"} \* mutant
MayClaim(a) == row[a] = "pending"

Claim(s) ==
    /\ submit[s].at = "checked"
    /\ LET a == submit[s].approval
       IN  \/ /\ MayClaim(a)
              /\ row' = [row EXCEPT ![a] = "processing"]
              /\ SetAt(s, "claimed")
           \/ /\ ~MayClaim(a)
              /\ SetAt(s, "rejected")
              /\ UNCHANGED row
    /\ UNCHANGED <<decision, entry, heard, waiter, memory, faults>>

StoresMemory(s) == submit[s].approval \in Unattended /\ submit[s].decision \in Allows

\* The audit event of the memory commits it, before the decision is recorded.
ApplyMemory(s) ==
    /\ submit[s].at = "claimed" /\ StoresMemory(s)
    /\ memory' = [memory EXCEPT ![submit[s].approval] = @ + 1]
    /\ SetAt(s, "applied")
    /\ UNCHANGED <<row, decision, entry, heard, waiter, faults>>

ReadyToResolve(s) ==
    \/ submit[s].at = "claimed" /\ ~StoresMemory(s)
    \/ submit[s].at = "applied"

\* The update is guarded by the status, but whether it changed a row is not
\* looked at.
Resolves(a) == row[a] = "processing"

Resolve(s) ==
    /\ ReadyToResolve(s)
    /\ LET a == submit[s].approval
       IN  IF Resolves(a)
           THEN /\ row' = [row EXCEPT ![a] = "resolved"]
                /\ decision' = [decision EXCEPT ![a] = submit[s].decision]
           ELSE UNCHANGED <<row, decision>>
    /\ SetAt(s, "committed")
    /\ UNCHANGED <<entry, heard, waiter, memory, faults>>

\* A statement fails: rollback, and the row is pending again.
NoReset(a) == row[a] \* mutant
Reset(a) == IF row[a] = "processing" THEN "pending" ELSE row[a]

Fail(s) ==
    /\ submit[s].at \in {"claimed", "applied"} /\ faults < MaxFaults
    /\ row' = [row EXCEPT ![submit[s].approval] = Reset(submit[s].approval)]
    /\ SetAt(s, "failed")
    /\ faults' = faults + 1
    /\ UNCHANGED <<decision, entry, heard, waiter, memory>>

\* ... unless that update fails as well.
ResetFails(s) ==
    /\ submit[s].at \in {"claimed", "applied"} /\ faults < MaxFaults
    /\ SetAt(s, "lost")
    /\ faults' = faults + 1
    /\ UNCHANGED <<row, decision, entry, heard, waiter, memory>>

\* The entry the request holds may no longer be in the dictionary.
Signal(s) ==
    /\ submit[s].at = "committed"
    /\ heard' = [heard EXCEPT ![submit[s].approval] = submit[s].decision]
    /\ SetAt(s, "recorded")
    /\ UNCHANGED <<row, decision, entry, waiter, memory, faults>>

\* The process ends: the dictionary, the waiters and the requests are gone.
Crash ==
    /\ faults < MaxFaults
    /\ \E a \in Approvals : entry[a]
    /\ entry' = [a \in Approvals |-> FALSE]
    /\ waiter' = [a \in Approvals |->
          IF waiter[a] \in {"registering", "waiting", "expiring"} THEN "gone" ELSE waiter[a]]
    /\ submit' = [s \in Submits |->
          IF submit[s].at \in InFlight THEN [submit[s] EXCEPT !.at = "lost"] ELSE submit[s]]
    /\ faults' = faults + 1
    /\ UNCHANGED <<row, decision, heard, memory>>

WaiterStep(a) == Insert(a) \/ Return(a) \/ Timeout(a) \/ Expire(a)
SubmitStep(s) == Claim(s) \/ ApplyMemory(s) \/ Resolve(s) \/ Signal(s)

Next ==
    \/ \E a \in Approvals : Register(a) \/ WaiterStep(a) \/ Abandon(a)
    \/ \E s \in Submits :
          \/ \E a \in Approvals, d \in Decisions : Send(s, a, d)
          \/ SubmitStep(s) \/ Fail(s) \/ ResetFails(s)
    \/ Crash

Spec == Init /\ [][Next]_vars

\* Requests and waiters run on as long as the process does; timeouts fire.
Fairness ==
    /\ \A a \in Approvals : WF_vars(WaiterStep(a))
    /\ \A s \in Submits : WF_vars(SubmitStep(s))

FairSpec == Spec /\ Fairness

-----------------------------------------------------------------------------
(* Properties.                                                             *)

Of(a) == {s \in Submits : submit[s].approval = a}

\* What the waiter returns is what the row says, for ever: an allowed action
\* is on record as allowed, and a wait that timed out never as anything but
\* denied, whatever decision was on its way.
WaiterAgreesWithRow ==
    \A a \in Approvals : waiter[a] \in Decisions =>
        \/ row[a] = "resolved" /\ decision[a] = waiter[a]
        \/ row[a] = "expired" /\ decision[a] = "deny" /\ waiter[a] = "deny"

\* However many decisions arrive at once, one at most is answered "recorded"
\* (test_concurrent_contradictory_approval_has_exactly_one_winner), and unless
\* a request failed half-way a curator's memory is stored once, and only under
\* a decision that allows it.
OneWinnerOneEffect ==
    /\ \A a \in Approvals : Cardinality({s \in Of(a) : submit[s].at = "recorded"}) <= 1
    /\ \A a \in Unattended :
        (\A s \in Of(a) : submit[s].at \notin {"failed", "lost"}) =>
            /\ memory[a] <= 1
            /\ memory[a] = 1 =>
                 \/ row[a] = "processing"
                 \/ row[a] = "resolved" /\ decision[a] \in Allows

\* A row is pending or processing only while somebody can still settle it: its
\* waiter, a request in flight or, for the curator, the user; other than after
\* a fault.
OpenIsSettleable ==
    faults = 0 => \A a \in Approvals :
        /\ row[a] = "pending" => entry[a] \/ waiter[a] = "expiring"
        /\ row[a] = "processing" => \E s \in Of(a) : submit[s].at \in {"claimed", "applied"}

\* A decision is one decision, for its waiter, its row and its memory, and no
\* row is left without somebody to settle it (the three above).
DecisionsAgree == WaiterAgreesWithRow /\ OneWinnerOneEffect /\ OpenIsSettleable

\* Every wait ends, with a decision or with the task that waits; and a claimed
\* decision is settled or undone, unless its request died.
EveryApprovalEnds ==
    \A a \in Approvals :
        /\ waiter[a] = "waiting" ~> waiter[a] \in Decisions \cup {"gone"}
        /\ row[a] = "processing" ~>
              (row[a] # "processing" \/ \E s \in Of(a) : submit[s].at = "lost")
=============================================================================
