----------------------------- MODULE Orchestrator -----------------------------
(***************************************************************************)
(* One model run of the GYO orchestrator: candidates tried in turn, tokens *)
(* passed on, cancellation, one closing event.                             *)
(*                                                                         *)
(* A turn's stream is a generator: it stops at every await (the registry,  *)
(* the provider) and at every event its consumer takes, and there other    *)
(* turns, cancel() and stop() run, or the consumer goes away. The section  *)
(* under the lock never waits inside, so it is one step with the code      *)
(* around it. Which models are candidates is ModelRegistry's matter; here  *)
(* a stream gets a number of them.                                         *)
(***************************************************************************)
EXTENDS Naturals

CONSTANTS
    Turns,      \* assistant turns
    MaxModels   \* bound: candidates a selection returns

VARIABLES
    streams,    \* generators, one per turn
    fallbackOn, \* auto_fallback_enabled
    active,     \* turns in _active_cancellations
    cancelling, \* turns whose cancel_event is set
    routing,    \* turns in _active_routing
    answered,   \* history: turns a cancel was answered "cancelled" for
    stopped     \* stop() has run

orchestratorVars == <<streams, fallbackOn, active, cancelling, routing, answered, stopped>>

Statuses == {"completed", "failed", "cancelled"}

\* "shown" and "from" are history: text the consumer got, attempts it came from.
Stream == [pc : {"new", "selecting", "registered", "between", "streaming", "attempt over",
                 "failing", "unready", "silent", "done", "gone"},
           models : 0..MaxModels, limit : {1, 3}, attempt : 0..3,
           saw : BOOLEAN, text : BOOLEAN, note : BOOLEAN, error : {"none", "retryable", "terminal"},
           status : Statuses, errors : 0..3, from : SUBSET (1..3)]
NewStream == [pc |-> "new", models |-> 0, limit |-> 1, attempt |-> 0,
              saw |-> FALSE, text |-> FALSE, note |-> FALSE, error |-> "none",
              status |-> "completed", errors |-> 0, from |-> {}]

OrchestratorTypeOK ==
    /\ streams \in [Turns -> Stream]
    /\ fallbackOn \in BOOLEAN /\ stopped \in BOOLEAN
    /\ \A turns \in {active, cancelling, routing, answered} : turns \subseteq Turns

OrchestratorInit ==
    /\ streams = [t \in Turns |-> NewStream]
    /\ fallbackOn \in BOOLEAN
    /\ active = {} /\ cancelling = {} /\ routing = {} /\ answered = {}
    /\ stopped = FALSE

Go(t, row) == streams' = [streams EXCEPT ![t] = row]
Cancelled(t) == t \in cancelling
KeepShared == UNCHANGED <<fallbackOn, active, cancelling, routing, answered, stopped>>

-----------------------------------------------------------------------------

StartStream(t) ==
    /\ streams[t].pc = "new" /\ ~stopped
    /\ Go(t, [streams[t] EXCEPT !.pc = "selecting"])
    /\ KeepShared

\* No candidate: an error and the closing event, never registered.
NoCandidate(t) ==
    /\ streams[t].pc = "selecting"
    /\ Go(t, [streams[t] EXCEPT !.pc = "done", !.status = "failed", !.errors = @ + 1])
    /\ KeepShared

Register(t) ==
    /\ streams[t].pc = "selecting"
    /\ \E n \in 1..MaxModels : Go(t, [streams[t] EXCEPT !.pc = "registered", !.models = n])
    /\ active' = active \cup {t}
    /\ UNCHANGED <<fallbackOn, cancelling, routing, answered, stopped>>

ReadPolicy(t) ==
    /\ streams[t].pc = "registered"
    /\ Go(t, [streams[t] EXCEPT !.pc = "between", !.limit = IF fallbackOn THEN 3 ELSE 1])
    /\ KeepShared

BeginAttempt(t) ==
    /\ streams[t].pc = "between"
    /\ routing' = routing \cup {t}
    /\ LET next == [streams[t] EXCEPT !.attempt = @ + 1, !.saw = FALSE,
                                      !.error = "none"]
       IN  \/ Go(t, [next EXCEPT !.pc = "streaming"])
           \* no adapter or no key any more: an error and out of the loop
           \/ Go(t, [next EXCEPT !.pc = "unready", !.errors = @ + 1])
    /\ UNCHANGED <<fallbackOn, active, cancelling, answered, stopped>>

\* A token may be empty text.
Token(t) ==
    /\ streams[t].pc = "streaming" /\ ~Cancelled(t)
    /\ \E text \in BOOLEAN :
          Go(t, [streams[t] EXCEPT !.saw = TRUE, !.text = @ \/ text,
                                   !.from = IF text THEN @ \cup {streams[t].attempt} ELSE @])
    /\ KeepShared

LastAttempt(t) == streams[t].attempt >= streams[t].limit \/ streams[t].attempt >= streams[t].models

TerminalUnlessRetryable(t, retryable) == ~retryable \/ LastAttempt(t) \* mutant
\* An error is the run's end, and shown, when text was shown before it, when it is
\* no passing failure, or when nothing is left to try.
Terminal(t, retryable) == streams[t].saw \/ ~retryable \/ LastAttempt(t)

ProviderError(t) ==
    /\ streams[t].pc = "streaming" /\ ~Cancelled(t)
    /\ \E retryable \in BOOLEAN :
          Go(t, IF Terminal(t, retryable)
                THEN [streams[t] EXCEPT !.pc = "attempt over", !.error = "terminal", !.errors = @ + 1]
                ELSE [streams[t] EXCEPT !.pc = "attempt over", !.error = "retryable"])
    /\ KeepShared

\* The provider has no more, or saw the cancel event at its next line.
EndOfStream(t) ==
    /\ streams[t].pc = "streaming"
    /\ Go(t, [streams[t] EXCEPT !.pc = "attempt over"])
    /\ KeepShared

Unregister(t) == active' = active \ {t} /\ routing' = routing \ {t}

\* A completed run without anything to show ends with an error.
Close(t, status) ==
    LET s == streams[t]
    IN  /\ Unregister(t)
        /\ Go(t, IF status = "completed" /\ ~s.text /\ ~s.note
                 THEN [s EXCEPT !.pc = "silent", !.status = "failed", !.errors = @ + 1]
                 ELSE [s EXCEPT !.pc = "done", !.status = status])
        /\ UNCHANGED <<fallbackOn, cancelling, answered, stopped>>

NothingIsCancelled(t) == FALSE \* mutant
WasCancelled(t) == Cancelled(t)

\* What follows the attempt.
Decide(t) ==
    LET s == streams[t]
        again == s.error = "retryable" /\ ~LastAttempt(t)
    IN  /\ s.pc = "attempt over"
        /\ IF ~WasCancelled(t) /\ ~s.saw /\ again
           THEN Go(t, [s EXCEPT !.pc = "between", !.note = TRUE]) /\ KeepShared
           ELSE Close(t, IF WasCancelled(t) THEN "cancelled"
                         ELSE IF s.saw /\ s.error # "terminal" THEN "completed" ELSE "failed")

\* The consumer has taken the error that no adapter or key was there.
CloseUnready(t) ==
    /\ streams[t].pc = "unready"
    /\ Close(t, IF WasCancelled(t) THEN "cancelled" ELSE "failed")

\* An adapter that raises: failed, with an error the consumer takes first.
Raise(t) ==
    /\ streams[t].pc \in {"registered", "between", "streaming"}
    /\ Go(t, [streams[t] EXCEPT !.pc = "failing", !.errors = @ + 1])
    /\ KeepShared

\* A cancel while the consumer takes that error comes too late.
CloseFailed(t) == streams[t].pc = "failing" /\ Close(t, "failed")

\* The consumer has taken the error and asks for the closing event.
CloseSilent(t) ==
    /\ streams[t].pc = "silent"
    /\ Go(t, [streams[t] EXCEPT !.pc = "done"])
    /\ KeepShared

\* The consumer goes away at an event: the generator is closed on the spot.
Abandon(t) ==
    /\ streams[t].pc \in {"streaming", "attempt over", "unready", "failing", "silent"}
    /\ Go(t, [streams[t] EXCEPT !.pc = "gone"])
    /\ Unregister(t)
    /\ UNCHANGED <<fallbackOn, cancelling, answered, stopped>>

-----------------------------------------------------------------------------

\* Not active, nothing is done; else the answer is "cancelled".
Cancel(t) ==
    /\ t \in active
    /\ cancelling' = cancelling \cup {t}
    /\ answered' = answered \cup {t}
    /\ UNCHANGED <<streams, fallbackOn, active, routing, stopped>>

StopAll ==
    /\ ~stopped /\ stopped' = TRUE
    /\ cancelling' = cancelling \cup active
    /\ active' = {} /\ routing' = {}
    /\ UNCHANGED <<streams, fallbackOn, answered>>

\* A settings request switches fallbacks on or off.
ChangePolicy ==
    /\ \E t \in Turns : streams[t].pc \in {"new", "selecting", "registered"}
    /\ fallbackOn' = ~fallbackOn
    /\ UNCHANGED <<streams, active, cancelling, routing, answered, stopped>>

StreamStep(t) ==
    \/ NoCandidate(t) \/ Register(t) \/ ReadPolicy(t) \/ BeginAttempt(t) \/ Token(t)
    \/ ProviderError(t) \/ EndOfStream(t) \/ Decide(t) \/ Raise(t)
    \/ CloseUnready(t) \/ CloseFailed(t) \/ CloseSilent(t)

OrchestratorNext ==
    \/ StopAll \/ ChangePolicy
    \/ \E t \in Turns : StartStream(t) \/ StreamStep(t) \/ Abandon(t) \/ Cancel(t)

\* The event loop runs a stream that can run, and a provider answers or times
\* out (60 s): every stream goes on.
OrchestratorSpec ==
    /\ OrchestratorInit /\ [][OrchestratorNext]_orchestratorVars
    /\ \A t \in Turns : WF_orchestratorVars(StreamStep(t))

-----------------------------------------------------------------------------

(* What the closing event says agrees with what was shown and what was       *)
(* answered, whenever cancel, stop, errors and fallbacks come (stream): all   *)
(* the text of a run is of one attempt; at most one error is shown; a run     *)
(* reported completed had no error in its last attempt and nobody was told it *)
(* is cancelled; a cancelled run was cancelled or stopped. Only a stream that *)
(* is not over is registered.                                                *)
ClosingIsHonest ==
    \A t \in Turns :
        LET s == streams[t]
        IN  /\ \A a, b \in s.from : a = b
            /\ s.errors <= 1
            /\ s.pc = "done" =>
                  /\ s.status = "completed" =>
                        /\ s.errors = 0 /\ s.error = "none"
                        /\ t \notin answered /\ (s.text \/ s.note)
                  /\ s.status = "cancelled" => t \in answered \/ stopped
            /\ t \in active =>
                  s.pc \in {"registered", "between", "streaming", "attempt over",
                            "unready", "failing"}
            /\ s.attempt <= s.limit /\ routing \subseteq active \cup
                  {u \in Turns : stopped}

(* Every stream that started gives its closing event or is left by its        *)
(* consumer, and takes its registration with it.                              *)
EveryStreamCloses ==
    \A t \in Turns :
        streams[t].pc = "selecting" ~> streams[t].pc \in {"done", "gone"} /\ t \notin active
=============================================================================
