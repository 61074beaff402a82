--------------------------- MODULE AssistantTurns ---------------------------
(***************************************************************************)
(* What the durable run queue promises a user, without workers, leases,    *)
(* crashes or retries of the execution: a question gets one final outcome; *)
(* from the moment a cancellation is accepted an open question can only    *)
(* end cancelled; and a question stays pending until its outcome is        *)
(* settled, which happens after the outcome itself is visible.             *)
(***************************************************************************)
CONSTANT Questions

VARIABLES
    asked,      \* questions the user has asked
    cancelling, \* pending questions whose cancellation was accepted
    outcome,    \* what the user sees: open, answered, failed or cancelled
    settled     \* questions the queue will not touch again

vars == <<asked, cancelling, outcome, settled>>

Outcomes == {"open", "completed", "failed", "cancelled"}

Init ==
    /\ asked = {} /\ cancelling = {} /\ settled = {}
    /\ outcome = [q \in Questions |-> "open"]

Ask(q) ==
    /\ q \notin asked
    /\ asked' = asked \cup {q}
    /\ UNCHANGED <<cancelling, outcome, settled>>

Cancel(q) ==
    /\ q \in asked \ settled
    /\ q \notin cancelling
    /\ cancelling' = cancelling \cup {q}
    /\ UNCHANGED <<asked, outcome, settled>>

\* The answer, or a notice that there is none, becomes visible.
Answer(q) ==
    /\ q \in asked \ (cancelling \cup settled)
    /\ outcome[q] = "open"
    /\ \E o \in {"completed", "failed", "cancelled"} : outcome' = [outcome EXCEPT ![q] = o]
    /\ UNCHANGED <<asked, cancelling, settled>>

\* The queue lets go of questions.  One that is open ends here: as cancelled if
\* that was requested, otherwise as failed.
Settle(S) ==
    /\ S # {} /\ S \subseteq asked \ settled
    /\ outcome' = [q \in Questions |->
          IF q \in S /\ outcome[q] = "open"
          THEN IF q \in cancelling THEN "cancelled" ELSE "failed"
          ELSE outcome[q]]
    /\ settled' = settled \cup S
    /\ cancelling' = cancelling \ S
    /\ UNCHANGED asked

Next ==
    \/ \E q \in Questions : Ask(q) \/ Cancel(q) \/ Answer(q)
    \/ \E S \in SUBSET Questions : Settle(S)

\* Every question that was asked is settled at some point.
Fairness == \A q \in Questions : WF_vars(\E S \in SUBSET Questions : q \in S /\ Settle(S))

Spec == Init /\ [][Next]_vars
FairSpec == Spec /\ Fairness
=============================================================================
