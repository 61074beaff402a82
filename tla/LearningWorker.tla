--------------------------- MODULE LearningWorker ---------------------------
(***************************************************************************)
(* The durable worker that turns what GYO suggests to learn into proposals *)
(* of the Memory Hub and drafts of skills.                                 *)
(*                                                                         *)
(* A completed turn may leave one job. A pass of the worker puts jobs left *)
(* in processing back, takes the oldest pending ones and decides each. The *)
(* candidate is committed by the function that stores it, together with    *)
(* the processing mark; the job's outcome is a second transaction, and in  *)
(* between the process may end or a reviewer may already take the          *)
(* candidate up.                                                           *)
(***************************************************************************)
EXTENDS Naturals, FiniteSetsExt

CONSTANTS
    NumTurns,   \* bound: completed assistant turns of one scope
    Payloads,   \* candidates by their hash, "bad" one that is refused
    Limit,      \* jobs a pass takes (10 in the code)
    MaxFaults   \* bound: crashes and failed passes

Turns == 1..NumTurns

VARIABLES
    turns,    \* completed turns, numbered from the oldest
    job,      \* gyo_learning_jobs, by turn
    made,     \* candidates stored for a turn's job
    strays,   \* history: candidates stored without their job marked created
    today,    \* jobs whose created_at is less than a day ago
    allowed,  \* the work is open and its scope learns
    worker,   \* run_gyo_learning_worker_loop
    faults    \* passes cut short and outcomes lost so far

learnVars == <<turns, job, made, strays, today, allowed, worker, faults>>

NoJob == [status |-> "none", kind |-> "memory", payload |-> "bad"]
Job == [status : {"none", "pending", "processing", "created", "skipped", "failed"},
        kind : {"memory", "skill"}, payload : Payloads]
Resting == [pc |-> "rest", todo |-> {}]

LearningTypeOK ==
    /\ turns \in 0..NumTurns
    /\ job \in [Turns -> Job]
    /\ made \in [Turns -> Nat] /\ strays \in [Turns -> 0..MaxFaults]
    /\ today \subseteq Turns
    /\ allowed \in BOOLEAN
    /\ worker \in [pc : {"rest", "pass", "stored"}, todo : SUBSET Turns]
    /\ faults \in 0..MaxFaults

LearningInit ==
    /\ turns = 0
    /\ job = [t \in Turns |-> NoJob]
    /\ made = [t \in Turns |-> 0] /\ strays = [t \in Turns |-> 0]
    /\ today = {}
    /\ allowed = TRUE
    /\ worker = Resting
    /\ faults = 0

-----------------------------------------------------------------------------

\* A turn is completed and its job, if it has a candidate, inserted with it.
CompleteTurn ==
    /\ turns < NumTurns
    /\ turns' = turns + 1
    /\ \/ UNCHANGED <<job, today>>
       \/ /\ \E kind \in {"memory", "skill"}, p \in Payloads :
                 job' = [job EXCEPT ![turns'] = [status |-> "pending", kind |-> kind, payload |-> p]]
          /\ today' = today \cup {turns'}
    /\ UNCHANGED <<made, strays, allowed, worker, faults>>

\* The work is archived or restored, or learning in the step turned off or on.
ChangeScope ==
    /\ allowed' = ~allowed
    /\ UNCHANGED <<turns, job, made, strays, today, worker, faults>>

DayPasses ==
    /\ today # {}
    /\ today' = {}
    /\ UNCHANGED <<turns, job, made, strays, allowed, worker, faults>>

-----------------------------------------------------------------------------

Requeued == [t \in Turns |->
    IF job[t].status = "processing" THEN [job[t] EXCEPT !.status = "pending"] ELSE job[t]]

Oldest(pending) == {t \in pending : Cardinality({u \in pending : u < t}) < Limit}

OnlyFetch == \* mutant
    LET pending == {t \in Turns : job[t].status = "pending"}
    IN  /\ worker.pc = "rest" /\ pending # {}
        /\ worker' = [pc |-> "pass", todo |-> Oldest(pending)]
        /\ UNCHANGED <<turns, job, made, strays, today, allowed, faults>>
StartPass ==
    LET pending == {t \in Turns : Requeued[t].status = "pending"}
    IN  /\ worker.pc = "rest" /\ pending # {}
        /\ job' = Requeued
        /\ worker' = [pc |-> "pass", todo |-> Oldest(pending)]
        /\ UNCHANGED <<turns, made, strays, today, allowed, faults>>

Others(t) == {u \in Turns \ {t} : job[u].kind = job[t].kind}
NeverLimited(t) == FALSE \* mutant
RateLimited(t) == \E u \in Others(t) \cap today : job[u].status = "created"
Duplicate(t) == \E u \in Others(t) : /\ job[u].payload = job[t].payload
                                     /\ job[u].status \in {"pending", "processing", "created"}
Eligible(t) == allowed /\ ~RateLimited(t) /\ ~Duplicate(t)

\* A skill needs this turn to be one of the latest two completed ones.
Repeated(t) == turns >= 2 /\ t \in {turns, turns - 1}

\* A pass goes through its jobs from the oldest on.
Current == Min(worker.todo)
SetJob(status) == job' = [job EXCEPT ![Current].status = status]
NextJob == LET rest == worker.todo \ {Current}
           IN  worker' = IF rest = {} THEN Resting ELSE [pc |-> "pass", todo |-> rest]

Skip ==
    /\ worker.pc = "pass"
    /\ ~Eligible(Current) \/ (job[Current].kind = "skill" /\ ~Repeated(Current))
    /\ SetJob("skipped") /\ NextJob
    /\ UNCHANGED <<turns, made, strays, today, allowed, faults>>

Refuse ==
    /\ worker.pc = "pass" /\ Eligible(Current) /\ job[Current].payload = "bad"
    /\ job[Current].kind = "skill" => Repeated(Current)
    /\ SetJob("failed") /\ NextJob
    /\ UNCHANGED <<turns, made, strays, today, allowed, faults>>

\* The candidate and the processing mark are one commit.
Store ==
    /\ worker.pc = "pass" /\ Eligible(Current) /\ job[Current].payload # "bad"
    /\ job[Current].kind = "skill" => Repeated(Current)
    /\ SetJob("processing")
    /\ made' = [made EXCEPT ![Current] = @ + 1]
    /\ worker' = [worker EXCEPT !.pc = "stored"]
    /\ UNCHANGED <<turns, strays, today, allowed, faults>>

Settle ==
    /\ worker.pc = "stored"
    /\ SetJob("created") /\ NextJob
    /\ UNCHANGED <<turns, made, strays, today, allowed, faults>>

\* The stored candidate is read back: a reviewer has been quicker, and it is
\* no longer the proposal or draft that was stored.
Overtaken ==
    /\ worker.pc = "stored" /\ faults < MaxFaults /\ faults' = faults + 1
    /\ SetJob("failed") /\ NextJob
    /\ strays' = [strays EXCEPT ![Current] = @ + 1]
    /\ UNCHANGED <<turns, made, today, allowed>>

\* The process ends or a statement fails; what is not committed is undone.
Interrupt ==
    /\ worker.pc # "rest" /\ faults < MaxFaults /\ faults' = faults + 1
    /\ worker' = Resting
    /\ strays' = IF worker.pc = "stored" THEN [strays EXCEPT ![Current] = @ + 1] ELSE strays
    /\ UNCHANGED <<turns, job, made, today, allowed>>

WorkerStep == StartPass \/ Skip \/ Refuse \/ Store \/ Settle
LearningNext ==
    \/ CompleteTurn \/ ChangeScope \/ DayPasses \/ WorkerStep \/ Overtaken \/ Interrupt

LearningSpec == LearningInit /\ [][LearningNext]_learnVars /\ WF_learnVars(WorkerStep)

-----------------------------------------------------------------------------

(* A stored candidate belongs to a job marked created or about to be; there  *)
(* is one more of a job only for every time its outcome was lost, and a job  *)
(* skipped or failed without such a loss has left nothing behind.            *)
CandidatesAreAccountedFor ==
    \A t \in Turns :
        made[t] = strays[t] + (IF \/ job[t].status = "created"
                                  \/ worker.pc = "stored" /\ Current = t THEN 1 ELSE 0)

(* Of the jobs of one day and kind at most one becomes a candidate.          *)
OneADay ==
    \A t, u \in today : /\ job[t].status = "created" /\ job[u].status = "created"
                        /\ job[t].kind = job[u].kind
                        => t = u

LearningIsBounded == CandidatesAreAccountedFor /\ OneADay

(* Every job ends, whatever passes fail: the worker's loop goes on.          *)
EveryJobEnds ==
    \A t \in Turns : job[t].status \in {"pending", "processing"}
                     ~> job[t].status \in {"created", "skipped", "failed"}
=============================================================================
