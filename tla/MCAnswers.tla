----------------------------- MODULE MCAnswers -----------------------------
(* What becomes of an answer, for the model checker: the model's stream, the *)
(* page that shows what it brought, and what the learning worker makes of    *)
(* the completed turn. They meet only in rows that one writes and the next   *)
(* reads later, so each behaviour is one part's, chosen at the start, and    *)
(* the others keep still.                                                    *)
EXTENDS LiveUpdates

CONSTANTS c1, c2, c3

CONSTANTS
    Streams, MaxModels,                              \* Orchestrator
    LearnTurns, Candidates, PassLimit, LearnFaults   \* LearningWorker

ASSUME StreamsAssumption == MaxModels \in Nat

\* "bad" stands for a candidate that is refused.
ASSUME LearningAssumption ==
    /\ LearnTurns \in Nat /\ LearnFaults \in Nat
    /\ PassLimit \in Nat \ {0}
    /\ "bad" \in Candidates

VARIABLES
    part,                                                                    \* what moves
    streams, fallbackOn, active, cancelling, routing, answered, stopped,     \* Orchestrator
    turns, job, made, strays, today, allowed, worker, faults                 \* LearningWorker

streamVars == <<streams, fallbackOn, active, cancelling, routing, answered, stopped>>
learnVars == <<turns, job, made, strays, today, allowed, worker, faults>>
allVars == <<part, vars, streamVars, learnVars>>

Models == INSTANCE Orchestrator WITH Turns <- Streams

Learning == INSTANCE LearningWorker WITH
    NumTurns <- LearnTurns, Payloads <- Candidates, Limit <- PassLimit, MaxFaults <- LearnFaults

\* A part that keeps still has one initial state.
AnswersInit ==
    /\ part \in {"page", "stream", "learning"}
    /\ Models!OrchestratorInit /\ (part = "stream" \/ ~fallbackOn)
    /\ Init /\ Learning!LearningInit

AnswersNext ==
    /\ UNCHANGED part
    /\ \/ part = "page" /\ Next /\ UNCHANGED <<streamVars, learnVars>>
       \/ part = "stream" /\ Models!OrchestratorNext /\ UNCHANGED <<vars, learnVars>>
       \/ part = "learning" /\ Learning!LearningNext /\ UNCHANGED <<vars, streamVars>>

\* The fairness of the three modules, for the part that moves.
AnswersFairness ==
    /\ \A t \in Turns : WF_vars(part = "page" /\ RunStep(t))
    /\ WF_vars(part = "page" /\ Sent) /\ WF_vars(part = "page" /\ ServeLoad)
    /\ WF_vars(part = "page" /\ ShowLoad)
    /\ \A c \in Conns : WF_vars(part = "page" /\ StreamStep(c))
    /\ \A t \in Streams : WF_streamVars(part = "stream" /\ Models!StreamStep(t))
    /\ WF_learnVars(part = "learning" /\ Learning!WorkerStep)

AnswersSpec == AnswersInit /\ [][AnswersNext]_allVars /\ AnswersFairness
-----------------------------------------------------------------------------
(* The closing event of a stream agrees with what was shown and with what    *)
(* was answered to a cancel (services/gyo_orchestrator.py).                  *)
ClosingIsHonest == Models!OrchestratorTypeOK /\ Models!ClosingIsHonest

(* A stored candidate belongs to a job marked created, or was counted as     *)
(* lost, and one a day and kind is learned                                   *)
(* (services/gyo_learning_worker.py).                                        *)
LearningIsBounded == Learning!LearningTypeOK /\ Learning!LearningIsBounded

(* Every answer reaches the page, but for the four ways of losing it that    *)
(* EveryAnswerIsShown names; every stream gives its closing event or is left *)
(* by its consumer; and every learning job ends (event_bus.py,               *)
(* AssistantChatSidebar.tsx, gyo_orchestrator.py, gyo_learning_worker.py).   *)
AnswersComeThrough ==
    EveryAnswerIsShown /\ Models!EveryStreamCloses /\ Learning!EveryJobEnds
=============================================================================
