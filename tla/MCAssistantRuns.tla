-------------------------- MODULE MCAssistantRuns --------------------------
(* Instances of AssistantRuns for the model checker. *)
EXTENDS AssistantRuns, TLC

CONSTANTS t1, w1, w2

\* Worker loops are interchangeable (used only without liveness properties).
WorkerSymmetry == Permutations({w1, w2})

\* One thing goes wrong at a time: a crash or error, or a lease that lapses.
OneTrouble == faults + stalls <= 1
=============================================================================
