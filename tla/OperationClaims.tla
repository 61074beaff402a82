--------------------------- MODULE OperationClaims ---------------------------
(***************************************************************************)
(* The claims that make an operation with a client's key happen once.      *)
(*                                                                         *)
(* All requests here have one identity (actor, operation, scope and key).  *)
(* A request claims it in a transaction of its own, does its work, and     *)
(* commits the work together with the claim's completion; if the work      *)
(* fails it is rolled back and the claim is marked failed. A claim expires *)
(* and is then replaced by the next request.                               *)
(***************************************************************************)
EXTENDS FiniteSets

CONSTANTS
    Requests,   \* requests, each sent once
    NoRequest,  \* a claim without a response
    Payloads    \* what requests ask for, by its hash

ASSUME ConstantsAssumption == NoRequest \notin Requests

VARIABLES
    claim,    \* the row of operation_claims
    expired,  \* whether its expires_at has passed
    req,      \* the requests
    done,     \* requests whose work is committed
    latest,   \* those among them that committed since the claim was inserted
    outlasted \* history: work has outlasted its claim (an hour in the code)

vars == <<claim, expired, req, done, latest, outlasted>>

NoClaim == [state |-> "none", hash |-> "none", response |-> NoRequest]
Sent(h) == [at |-> "sent", hash |-> h, answer |-> NoRequest]
Unsent  == [at |-> "unsent", hash |-> "none", answer |-> NoRequest]

Hashes == Payloads \cup {"none"}
Claims == [state : {"none", "processing", "completed", "failed"}, hash : Hashes,
           response : Requests \cup {NoRequest}]
States == [at : {"unsent", "sent", "working", "failing", "created", "replayed", "refused", "dead"},
           hash : Hashes, answer : Requests \cup {NoRequest}]

TypeOK ==
    /\ claim \in Claims
    /\ expired \in BOOLEAN
    /\ req \in [Requests -> States]
    /\ latest \subseteq done /\ done \subseteq Requests
    /\ outlasted \in BOOLEAN

Init ==
    /\ claim = NoClaim
    /\ expired = FALSE
    /\ req = [r \in Requests |-> Unsent]
    /\ done = {}
    /\ latest = {}
    /\ outlasted = FALSE

Finish(r, how) == req' = [req EXCEPT ![r].at = how]

-----------------------------------------------------------------------------

Send(r) ==
    /\ req[r] = Unsent
    /\ \E h \in Payloads : req' = [req EXCEPT ![r] = Sent(h)]
    /\ UNCHANGED <<claim, expired, done, latest, outlasted>>

\* BEGIN IMMEDIATE: an expired claim is deleted, a missing one inserted.
FreeUnlessDone == claim.state # "completed" \/ expired \* mutant
Free == claim.state = "none" \/ expired

Acquire(r) ==
    /\ req[r].at = "sent" /\ Free
    /\ claim' = [state |-> "processing", hash |-> req[r].hash, response |-> NoRequest]
    /\ expired' = FALSE
    /\ latest' = {}
    /\ Finish(r, "working")
    /\ UNCHANGED <<done, outlasted>>

\* The identity is taken. Another payload is a conflict, even if it is failed.
SameForAll(r) == TRUE \* mutant
SamePayload(r) == claim.hash = req[r].hash

CompletedOrBusy == claim.state # "failed" \* mutant
Completed == claim.state = "completed"

Replay(r) ==
    /\ req[r].at = "sent" /\ ~Free
    /\ SamePayload(r) /\ Completed
    /\ req' = [req EXCEPT ![r].at = "replayed", ![r].answer = claim.response]
    /\ UNCHANGED <<claim, expired, done, latest, outlasted>>

Refuse(r) ==
    /\ req[r].at = "sent" /\ ~Free
    /\ ~SamePayload(r) \/ ~Completed
    /\ Finish(r, "refused")
    /\ UNCHANGED <<claim, expired, done, latest, outlasted>>

\* The claim is completed if it is still being processed, by whomever.
AlwaysOwned == TRUE \* mutant
StillProcessing == claim.state = "processing"

Finalize(r) ==
    /\ req[r].at = "working" /\ StillProcessing
    /\ claim' = [claim EXCEPT !.state = "completed", !.response = r]
    /\ done' = done \cup {r}
    /\ latest' = latest \cup {r}
    /\ Finish(r, "created")
    /\ UNCHANGED <<expired, outlasted>>

\* The work fails, or the claim is not processed any more: roll back ...
Rollback(r) ==
    /\ req[r].at = "working"
    /\ Finish(r, "failing")
    /\ UNCHANGED <<claim, expired, done, latest, outlasted>>

\* ... and say so, in another transaction.
MarkUnknown == claim' = [claim EXCEPT !.state = "unknown"] \* mutant
MarkFailed ==
    claim' = IF StillProcessing THEN [claim EXCEPT !.state = "failed"] ELSE claim

FailOperation(r) ==
    /\ req[r].at = "failing"
    /\ MarkFailed
    /\ Finish(r, "refused")
    /\ UNCHANGED <<expired, done, latest, outlasted>>

Crash ==
    /\ req' = [r \in Requests |->
                  IF req[r].at \in {"sent", "working", "failing"} THEN [req[r] EXCEPT !.at = "dead"] ELSE req[r]]
    /\ UNCHANGED <<claim, expired, done, latest, outlasted>>

Expire ==
    /\ claim.state # "none"
    /\ expired' = TRUE
    /\ outlasted' = (outlasted \/ \E r \in Requests : req[r].at \in {"working", "failing"})
    /\ UNCHANGED <<claim, req, done, latest>>

-----------------------------------------------------------------------------

RequestStep(r) ==
    \/ Acquire(r) \/ Replay(r) \/ Refuse(r)
    \/ Finalize(r) \/ Rollback(r) \/ FailOperation(r)

Next ==
    \/ \E r \in Requests : Send(r) \/ RequestStep(r)
    \/ Crash \/ Expire

Spec == Init /\ [][Next]_vars

-----------------------------------------------------------------------------
(* Properties.                                                             *)

\* "processing never starts a second side effect; a failed attempt requires a
\* new key": what was committed under the present claim is what the claim
\* says, at most once, even if work outlasts its claim.
ClaimTellsTheTruth ==
    /\ claim.state = "completed" => latest = {claim.response}
    /\ claim.state # "completed" => latest = {}

\* A request that was told of success, its own or another's, was told of work
\* that is committed; and no committed work was answered with a refusal.
AnswersAreTrue ==
    \A r \in Requests :
        /\ req[r].at = "replayed" => req[r].answer \in done
        /\ req[r].at = "created" <=> r \in done

\* What a claim says and what requests are told is what was committed.
TruthIsTold == ClaimTellsTheTruth /\ AnswersAreTrue

\* "Same key with a different hash is 409": an answer is replayed only to
\* requests for the same thing, unless work has outlasted its claim.
ReplaysAreTheSame ==
    ~outlasted => \A r, q \in Requests : req[r].at = "replayed" /\ req[r].answer = q => req[r].hash = req[q].hash

\* While a claim lives, its outcome stands: it is not taken by another.
OutcomeStands ==
    [][claim.state \in {"completed", "failed"} /\ ~expired => claim' = claim]_vars
=============================================================================
