------------------------ MODULE OperationClaimsProofs ------------------------
(***************************************************************************)
(* What OperationClaims promises, for any number of requests and payloads  *)
(* and for work that may outlast its claim.                                *)
(***************************************************************************)
EXTENDS OperationClaims, TLAPS

\* A completed claim holds the answer of a request whose work is committed: what
\* makes a replay true.
ResponseIsDone == claim.state = "completed" => claim.response \in done

IInv == TypeOK /\ ClaimTellsTheTruth /\ AnswersAreTrue /\ ResponseIsDone

\* They hold at the start.
LEMMA InitInv == Init => IInv
<1> SUFFICES ASSUME Init PROVE IInv
    OBVIOUS
<1> USE DEF Init, NoClaim, Unsent, Hashes, Claims, States
<1>1. TypeOK
    BY DEF TypeOK
<1>2. ClaimTellsTheTruth /\ ResponseIsDone
    BY DEF ClaimTellsTheTruth, ResponseIsDone
<1>3. AnswersAreTrue
    BY DEF AnswersAreTrue
<1> QED
    BY <1>1, <1>2, <1>3 DEF IInv

\* No step of a request, of the clock or of a dying process breaks them.
LEMMA StepInv == IInv /\ [Next]_vars => IInv'
<1> SUFFICES ASSUME IInv, [Next]_vars PROVE IInv'
    OBVIOUS
<1> USE DEF IInv, TypeOK, ClaimTellsTheTruth, AnswersAreTrue, ResponseIsDone, Hashes, Claims, States
<1>1. ASSUME NEW r \in Requests, Send(r) PROVE IInv'
    BY <1>1 DEF Send, Unsent, Sent
<1>2. ASSUME NEW r \in Requests, Acquire(r) PROVE IInv'
    <2> USE <1>2 DEF Acquire, Finish
    <2>1. claim' \in Claims
        OBVIOUS
    <2>2. req' \in [Requests -> States]
        OBVIOUS
    <2>3. ClaimTellsTheTruth' /\ ResponseIsDone'
        OBVIOUS
    <2>4. AnswersAreTrue'
        OBVIOUS
    <2> QED
        BY <2>1, <2>2, <2>3, <2>4
<1>3. ASSUME NEW r \in Requests, Replay(r) PROVE IInv'
    <2> USE <1>3 DEF Replay, Completed
    <2>1. claim.response \in Requests \cup {NoRequest}
        OBVIOUS
    <2>2. \A q \in Requests : q # r => req'[q] = req[q]
        OBVIOUS
    <2>3. req'[r].at = "replayed" /\ req'[r].answer = claim.response
        OBVIOUS
    <2>4. claim.response \in done /\ r \notin done
        OBVIOUS
    <2>5. AnswersAreTrue'
        BY <2>2, <2>3, <2>4
    <2>6. req'[r] \in States
        <3> DEFINE told == [req[r] EXCEPT !.at = "replayed"]
        <3>1. req[r] \in States /\ req'[r] = [told EXCEPT !.answer = claim.response]
            OBVIOUS
        <3>2. told \in States
            BY <3>1
        <3> HIDE DEF told
        <3> QED
            BY <2>1, <3>1, <3>2
    <2>7. req' \in [Requests -> States]
        BY <2>2, <2>6
    <2> QED
        BY <2>5, <2>7
<1>4. ASSUME NEW r \in Requests, Refuse(r) PROVE IInv'
    BY <1>4 DEF Refuse, Finish
<1>5. ASSUME NEW r \in Requests, Finalize(r) PROVE IInv'
    <2> USE <1>5 DEF Finalize, Finish, StillProcessing
    <2>1. claim' = [state |-> "completed", hash |-> claim.hash, response |-> r]
        OBVIOUS
    <2>2. TypeOK'
        BY <2>1
    <2>3. ClaimTellsTheTruth' /\ ResponseIsDone'
        BY <2>1
    <2>4. AnswersAreTrue'
        OBVIOUS
    <2> QED
        BY <2>2, <2>3, <2>4
<1>6. ASSUME NEW r \in Requests, Rollback(r) PROVE IInv'
    BY <1>6 DEF Rollback, Finish
<1>7. ASSUME NEW r \in Requests, FailOperation(r) PROVE IInv'
    BY <1>7 DEF FailOperation, Finish, MarkFailed, StillProcessing
<1>8. CASE Crash
    BY <1>8 DEF Crash
<1>9. CASE Expire
    BY <1>9 DEF Expire
<1>10. CASE UNCHANGED vars
    BY <1>10 DEF vars
<1> QED
    BY <1>1, <1>2, <1>3, <1>4, <1>5, <1>6, <1>7, <1>8, <1>9, <1>10 DEF Next, RequestStep

LEMMA Invariance == Spec => []IInv
<1>1. IInv /\ [Next]_vars => IInv'
    BY StepInv
<1> QED
    BY InitInv, <1>1, PTL DEF Spec

\* The claim, its answer and the requests have their types.
THEOREM TypeCorrect == Spec => []TypeOK
<1>1. IInv => TypeOK
    BY DEF IInv
<1> QED
    BY Invariance, <1>1, PTL

\* A claim tells what was committed under it, once and only once, however many
\* requests share the key and though a late one may complete another's claim;
\* and whoever was told of success was told of committed work.
THEOREM ClaimsAreTrue == Spec => []TruthIsTold
<1>1. IInv => TruthIsTold
    BY DEF IInv, TruthIsTold
<1> QED
    BY Invariance, <1>1, PTL

\* The outcome of a claim that has not expired is not changed by any request.
THEOREM Outcomes == Spec => OutcomeStands
<1>1. IInv /\ [Next]_vars => [claim.state \in {"completed", "failed"} /\ ~expired => claim' = claim]_vars
    <2> SUFFICES ASSUME IInv, Next, claim.state \in {"completed", "failed"}, ~expired
                 PROVE claim' = claim
        OBVIOUS
    <2> QED
        BY DEF Next, RequestStep, Send, Acquire, Free, Replay, Refuse, Finalize, StillProcessing,
               Rollback, FailOperation, MarkFailed, Crash, Expire
<1> QED
    BY Invariance, <1>1, PTL DEF Spec, OutcomeStands

-----------------------------------------------------------------------------
(* Replays answer the question that was asked.                             *)

AtWork == {r \in Requests : req[r].at \in {"working", "failing"}}

\* While no work has outlasted its claim, one request at most is at work, under
\* a live claim for what it asked; a completed claim answers what it names.
OneAtWork ==
    ~outlasted =>
        /\ \A r \in AtWork : claim.state = "processing" /\ ~expired /\ claim.hash = req[r].hash
        /\ \A r, q \in AtWork : r = q
        /\ claim.state = "completed" => req[claim.response].hash = claim.hash

ReplayInv == OneAtWork /\ ReplaysAreTheSame

LEMMA ReplayStep == IInv /\ ReplayInv /\ [Next]_vars => ReplayInv'
<1> SUFFICES ASSUME IInv, ReplayInv, [Next]_vars, ~outlasted' PROVE ReplayInv'
    BY DEF ReplayInv, OneAtWork, ReplaysAreTheSame
<1> USE DEF IInv, TypeOK, AnswersAreTrue, ResponseIsDone, States, Claims, ReplayInv, OneAtWork,
            ReplaysAreTheSame, AtWork
<1>1. ASSUME NEW r \in Requests, Send(r) PROVE ReplayInv'
    BY <1>1 DEF Send, Unsent, Sent
<1>2. ASSUME NEW r \in Requests, Acquire(r) PROVE ReplayInv'
    BY <1>2 DEF Acquire, Finish, Free
<1>3. ASSUME NEW r \in Requests, Replay(r) PROVE ReplayInv'
    BY <1>3 DEF Replay, Completed, SamePayload
<1>4. ASSUME NEW r \in Requests, Refuse(r) PROVE ReplayInv'
    BY <1>4 DEF Refuse, Finish
<1>5. ASSUME NEW r \in Requests, Finalize(r) PROVE ReplayInv'
    BY <1>5 DEF Finalize, Finish, StillProcessing
<1>6. ASSUME NEW r \in Requests, Rollback(r) PROVE ReplayInv'
    BY <1>6 DEF Rollback, Finish
<1>7. ASSUME NEW r \in Requests, FailOperation(r) PROVE ReplayInv'
    BY <1>7 DEF FailOperation, Finish, MarkFailed, StillProcessing
<1>8. CASE Crash
    BY <1>8 DEF Crash
<1>9. CASE Expire
    <2>1. ~outlasted /\ AtWork = {}
        BY <1>9 DEF Expire
    <2>2. claim' = claim /\ req' = req /\ AtWork' = {}
        BY <1>9, <2>1 DEF Expire
    <2> QED
        BY <2>1, <2>2
<1>10. CASE UNCHANGED vars
    BY <1>10 DEF vars
<1> QED
    BY <1>1, <1>2, <1>3, <1>4, <1>5, <1>6, <1>7, <1>8, <1>9, <1>10 DEF Next, RequestStep

\* A replayed answer is an answer to the same request, until work outlasts its
\* claim: the payload's hash tells requests with one key apart.
THEOREM Replays == Spec => []ReplaysAreTheSame
<1>1. Init => ReplayInv
    BY DEF Init, ReplayInv, OneAtWork, ReplaysAreTheSame, AtWork, NoClaim, Unsent
<1>2. ReplayInv => ReplaysAreTheSame
    BY DEF ReplayInv
<1> QED
    BY Invariance, ReplayStep, <1>1, <1>2, PTL DEF Spec
=============================================================================
