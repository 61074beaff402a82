---------------------------- MODULE LiveUpdates ----------------------------
(***************************************************************************)
(* How a page of the assistant learns that an answer is there.             *)
(*                                                                         *)
(* The backend publishes tokens and a final event on the thread's channel  *)
(* of the in-process event bus; one SSE stream at a time may read it.  The *)
(* page opens a stream whenever its list of turns changes and shows one as *)
(* running, and loads the turns again when the stream ends.  The database  *)
(* is authoritative, but the page only looks at it when told to.           *)
(*                                                                         *)
(* The final events 'done' and 'error' are alike here: both end a stream.  *)
(***************************************************************************)
EXTENDS Naturals, Sequences, FiniteSets

CONSTANTS
    NumTurns,    \* questions asked in the thread, one after the other
    Conns,       \* SSE connections that exist at a time
    NoConn,      \* a page without a stream
    QueueMax,    \* capacity of a channel's queue (100 in the code)
    MaxTokens,   \* bound: tokens published
    MaxRepeats,  \* bound: final events published once more for a turn
    MaxReloads,  \* bound: reloads the page does for other reasons
    MaxFailures  \* bound: loads that fail

Turns == 1 .. NumTurns

ASSUME ConstantsAssumption ==
    /\ NumTurns \in Nat /\ QueueMax \in Nat \ {0}
    /\ MaxTokens \in Nat /\ MaxRepeats \in Nat /\ MaxReloads \in Nat /\ MaxFailures \in Nat
    /\ NoConn \notin Conns

VARIABLES
    turn,        \* assistant_turns.status: "none", "running" or "settled"
    unannounced, \* settled turns whose final event is still to be published
    queue,       \* the channel's entry of _queues, empty when it has none
    subscriber,  \* whether the channel is in _subscribers
    conn,        \* the connections, as the server sees them
    source,      \* the page's EventSource
    view,        \* the turns the page shows
    load,        \* the page's request for the turns, or its answer
    post,        \* the turn whose creation the page has not heard of yet, or 0
    missed,      \* history: turns whose end something has kept from the page
    used         \* how often each bounded action has happened

pageVars == <<source, view, load, post>>
busVars  == <<queue, subscriber>>
vars     == <<turn, unannounced, busVars, conn, pageVars, missed, used>>

Events   == {"token", "final"}
Views    == [Turns -> {"none", "running", "settled"}]
NoLoad   == [at |-> "none", turns |-> [t \in Turns |-> "none"]]
Asked    == [NoLoad EXCEPT !.at = "asked"]
Counters == [token : 0 .. MaxTokens, repeat : 0 .. MaxRepeats, reload : 0 .. MaxReloads, failure : 0 .. MaxFailures]

TypeOK ==
    /\ turn \in Views
    /\ unannounced \subseteq Turns
    /\ queue \in Seq(Events) /\ Len(queue) <= QueueMax
    /\ subscriber \in BOOLEAN
    /\ conn \in [Conns -> {"free", "opening", "accepted", "subscribed"}]
    /\ source \in Conns \cup {NoConn}
    /\ view \in Views
    /\ load \in [at : {"none", "asked", "answered"}, turns : Views]
    /\ post \in {0} \cup Turns /\ missed \subseteq Turns
    /\ used \in Counters

Init ==
    /\ turn = [t \in Turns |-> "none"]
    /\ unannounced = {}
    /\ queue = <<>>
    /\ subscriber = FALSE
    /\ conn = [c \in Conns |-> "free"]
    /\ source = NoConn
    /\ view = [t \in Turns |-> "none"]
    /\ load = NoLoad
    /\ post = 0 /\ missed = {}
    /\ used = [token |-> 0, repeat |-> 0, reload |-> 0, failure |-> 0]

Count(what) == used' = [used EXCEPT ![what] = @ + 1]

Settled == {t \in Turns : turn[t] = "settled"}
FinalQueued == \E i \in DOMAIN queue : queue[i] = "final"
Miss(set) == missed' = missed \cup set

-----------------------------------------------------------------------------
(* The backend's runs and the bus.                                         *)

\* A channel without a queue gets one; a full queue drops the event.
PublishIfExists(e) == \* mutant: as the docstring has it
    queue' = IF subscriber /\ Len(queue) < QueueMax THEN Append(queue, e) ELSE queue
PublishUnbounded(e) == queue' = Append(queue, e) \* mutant
Publish(e) ==
    queue' = IF Len(queue) < QueueMax THEN Append(queue, e) ELSE queue

Token ==
    /\ \E t \in Turns : turn[t] = "running"
    /\ used.token < MaxTokens
    /\ Publish("token")
    /\ Count("token")
    /\ UNCHANGED <<turn, unannounced, subscriber, conn, pageVars, missed>>

Settle(t) ==
    /\ turn[t] = "running"
    /\ turn' = [turn EXCEPT ![t] = "settled"]
    /\ unannounced' = unannounced \cup {t}
    /\ UNCHANGED <<busVars, conn, pageVars, missed, used>>

\* Missed: a final event that finds the queue full, and no other final in it.
Announce(t) ==
    /\ t \in unannounced
    /\ unannounced' = unannounced \ {t}
    /\ Publish("final")
    /\ Miss(IF Len(queue) < QueueMax \/ FinalQueued THEN {} ELSE {t})
    /\ UNCHANGED <<turn, subscriber, conn, pageVars, used>>

\* A turn cancelled while a worker finishes it is announced by both.
Repeat(t) ==
    /\ turn[t] = "settled" /\ t \notin unannounced
    /\ used.repeat < MaxRepeats
    /\ Publish("final")
    /\ Count("repeat")
    /\ UNCHANGED <<turn, unannounced, subscriber, conn, pageVars, missed>>

-----------------------------------------------------------------------------
(* The page.                                                               *)

\* The effect that runs when the list of turns has changed: it closes the
\* stream and opens another if a turn is running. One free connection is as good
\* as another.
Free == {c \in Conns : conn[c] = "free"}
NewConn == CHOOSE c \in Free : TRUE
Effect ==
    IF \E t \in Turns : view'[t] = "running"
    THEN /\ Free # {}
         /\ source' = NewConn
         /\ conn' = [conn EXCEPT ![NewConn] = "opening"]
    ELSE source' = NoConn /\ UNCHANGED conn

\* POST .../runs: refused while a turn is running; the answer comes later.
Send ==
    /\ post = 0
    /\ \A t \in Turns : turn[t] # "running"
    /\ \E t \in Turns :
          /\ turn[t] = "none" /\ \A u \in Turns : turn[u] = "none" => t <= u
          /\ turn' = [turn EXCEPT ![t] = "running"]
          /\ post' = t
    /\ UNCHANGED <<unannounced, busVars, conn, source, view, load, missed, used>>

\* Missed: a turn that a load has shown settled, and the answer shows running.
Sent ==
    /\ post # 0
    /\ view' = [view EXCEPT ![post] = "running"]
    /\ post' = 0
    /\ Effect
    /\ Miss(IF view[post] = "settled" THEN {post} ELSE {})
    /\ UNCHANGED <<turn, unannounced, busVars, load, used>>

\* GET .../turns; only the answer to the latest request counts.
ServeLoad ==
    /\ load.at = "asked"
    /\ load' = [at |-> "answered", turns |-> turn]
    /\ UNCHANGED <<turn, unannounced, busVars, conn, source, view, post, missed, used>>

\* Missed: a turn on the page that the load is too old to know.
ShowLoad ==
    /\ load.at = "answered"
    /\ view' = load.turns
    /\ load' = NoLoad
    /\ Effect
    /\ Miss({t \in Turns : view[t] # "none" /\ load.turns[t] = "none"})
    /\ UNCHANGED <<turn, unannounced, busVars, post, used>>

\* A failed load is not tried again. Missed: the turns it would have shown settled,
\* and without a stream the turns that stay running on the page.
LoadFails ==
    /\ load.at # "none" /\ used.failure < MaxFailures
    /\ load' = NoLoad
    /\ Count("failure")
    /\ Miss(Settled \cup {t \in Turns : source = NoConn /\ view[t] = "running"})
    /\ UNCHANGED <<turn, unannounced, busVars, conn, source, view, post>>

\* The list of threads is loaded again, and the thread with it.
Reload ==
    /\ used.reload < MaxReloads
    /\ load' = Asked
    /\ Count("reload")
    /\ UNCHANGED <<turn, unannounced, busVars, conn, source, view, post, missed>>

\* The page's stream ends, with a final event or an error of its own.
StreamEnds(c) ==
    IF source = c
    THEN source' = NoConn /\ load' = Asked /\ UNCHANGED <<view, post>>
    ELSE UNCHANGED pageVars

-----------------------------------------------------------------------------
(* The streams.                                                            *)

\* The route looks for a subscriber, 409 if there is one ...
Arrive(c) ==
    /\ conn[c] = "opening"
    /\ IF subscriber
       THEN conn' = [conn EXCEPT ![c] = "free"] /\ StreamEnds(c)
       ELSE conn' = [conn EXCEPT ![c] = "accepted"] /\ UNCHANGED pageVars
    /\ UNCHANGED <<turn, unannounced, busVars, missed, used>>

\* ... and the generator, which starts later, looks again.
MaySubscribeAnyway == TRUE \* mutant
MaySubscribe == ~subscriber

Subscribe(c) ==
    /\ conn[c] = "accepted" /\ MaySubscribe
    /\ conn' = [conn EXCEPT ![c] = "subscribed"]
    /\ subscriber' = TRUE
    /\ UNCHANGED <<turn, unannounced, queue, pageVars, missed, used>>

SubscribeFails(c) ==
    /\ conn[c] = "accepted" /\ ~MaySubscribe
    /\ conn' = [conn EXCEPT ![c] = "free"]
    /\ StreamEnds(c)
    /\ UNCHANGED <<turn, unannounced, busVars, missed, used>>

\* The generator's cleanup takes whatever is left in the queue with it. Missed: a
\* final event there, if the page has left the stream.
Cleanup(c) ==
    /\ subscriber' = FALSE /\ queue' = <<>>
    /\ Miss(IF source # c /\ FinalQueued THEN Settled ELSE {})

\* An event reaches the page, if its stream is still the one it listens to.
Deliver(c) ==
    /\ conn[c] = "subscribed" /\ queue # <<>>
    /\ IF Head(queue) = "final"
       THEN /\ conn' = [conn EXCEPT ![c] = "free"]
            /\ Cleanup(c)
            /\ StreamEnds(c)
       ELSE /\ queue' = Tail(queue)
            /\ UNCHANGED <<subscriber, conn, pageVars, missed>>
    /\ UNCHANGED <<turn, unannounced, used>>

\* The server notices that the page has closed a stream.
Disconnect(c) ==
    /\ conn[c] # "free" /\ source # c
    /\ conn' = [conn EXCEPT ![c] = "free"]
    /\ IF conn[c] = "subscribed" THEN Cleanup(c) ELSE UNCHANGED <<busVars, missed>>
    /\ UNCHANGED <<turn, unannounced, pageVars, used>>

-----------------------------------------------------------------------------

RunStep(t)    == Settle(t) \/ Announce(t)
PageStep      == Sent \/ ServeLoad \/ ShowLoad
StreamStep(c) == Arrive(c) \/ Subscribe(c) \/ SubscribeFails(c) \/ Deliver(c) \/ Disconnect(c)

Next ==
    \/ Token \/ Send \/ PageStep \/ LoadFails \/ Reload
    \/ \E t \in Turns : RunStep(t) \/ Repeat(t)
    \/ \E c \in Conns : StreamStep(c)

Spec == Init /\ [][Next]_vars

\* Runs settle (see AssistantRuns), requests are answered, streams move on.
Fairness ==
    /\ \A t \in Turns : WF_vars(RunStep(t))
    /\ WF_vars(Sent) /\ WF_vars(ServeLoad) /\ WF_vars(ShowLoad)
    /\ \A c \in Conns : WF_vars(StreamStep(c))

FairSpec == Spec /\ Fairness

-----------------------------------------------------------------------------
(* Properties.                                                             *)

\* However pages open and close streams, one generator at most reads the
\* channel, and the channel is locked exactly as long as it does
\* (test_sse_multiple_subscribers_conflict, SessionEventBus).
SingleSubscriber ==
    /\ \A c, d \in Conns : conn[c] = "subscribed" /\ conn[d] = "subscribed" => c = d
    /\ subscriber <=> \E c \in Conns : conn[c] = "subscribed"

\* A question that was accepted ends up shown as answered, and stays so, on the page
\* that sent it, through every other question, reload and stream, unless one of four
\* things happens: its final event finds the queue full, or is taken by a stream the
\* page has left; a load fails; or a load and the answer to the question overtake each
\* other. What was kept from the page before a question does not keep its answer from it.
EveryAnswerIsShown ==
    \A t \in Turns : turn[t] = "running" ~> [](view[t] = "settled" \/ t \in missed)
=============================================================================
