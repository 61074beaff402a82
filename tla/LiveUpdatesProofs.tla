-------------------------- MODULE LiveUpdatesProofs --------------------------
(***************************************************************************)
(* What becomes of an answer (module MCAnswers).  The event bus and the    *)
(* page's streams, for any number of turns and connections and any         *)
(* capacity of the queue; the model's stream, for any number of turns and  *)
(* candidates; the learning worker, for any number of turns and faults.    *)
(***************************************************************************)
EXTENDS MCAnswers, FiniteNumbers, TLAPS, FiniteSetTheorems

Inv == TypeOK /\ SingleSubscriber

LEMMA EmptyQueue == <<>> \in Seq(Events) /\ Len(<<>>) <= QueueMax
<1>1. Len(<<>>) = 0 /\ <<>> \in Seq(Events)
  OBVIOUS
<1>2. QED
  BY <1>1, ConstantsAssumption

\* Where the page's effect leaves its stream and the connections.
LEMMA EffectOpens ==
    ASSUME TypeOK, Effect
    PROVE  /\ conn' \in [Conns -> {"free", "opening", "accepted", "subscribed"}]
           /\ source' \in Conns \cup {NoConn}
           /\ \A c \in Conns : conn'[c] = "subscribed" <=> conn[c] = "subscribed"
<1>1. CASE \E t \in Turns : view'[t] = "running"
  <2>1. Free # {} /\ conn' = [conn EXCEPT ![NewConn] = "opening"] /\ source' = NewConn
    BY <1>1 DEF Effect
  <2>2. NewConn \in Conns /\ conn[NewConn] = "free"
    BY <2>1 DEF NewConn, Free
  <2>3. QED
    BY <2>1, <2>2 DEF TypeOK
<1>2. CASE ~\E t \in Turns : view'[t] = "running"
  BY <1>2 DEF Effect, TypeOK
<1>3. QED
  BY <1>1, <1>2

\* Publishing never exceeds the queue's capacity.
LEMMA PublishBounded ==
    ASSUME TypeOK, NEW e \in Events, Publish(e)
    PROVE  queue' \in Seq(Events) /\ Len(queue') <= QueueMax
  BY ConstantsAssumption DEF TypeOK, Publish

LEMMA CountBounded ==
    ASSUME TypeOK, NEW what \in {"token", "repeat", "reload", "failure"}, Count(what),
           \/ what = "token" /\ used.token < MaxTokens
           \/ what = "repeat" /\ used.repeat < MaxRepeats
           \/ what = "reload" /\ used.reload < MaxReloads
           \/ what = "failure" /\ used.failure < MaxFailures
    PROVE  used' \in Counters
<1>1. used \in Counters
  BY DEF TypeOK
<1>2. QED
  BY <1>1, ConstantsAssumption DEF Count, Counters

\* What becomes of the page when a stream ends.
LEMMA StreamEndsTyped ==
    ASSUME TypeOK, NEW c \in Conns, StreamEnds(c)
    PROVE  /\ source' \in Conns \cup {NoConn} /\ view' \in Views /\ post' \in {0} \cup Turns
           /\ load' \in [at : {"none", "asked", "answered"}, turns : Views]
  BY DEF StreamEnds, TypeOK, Asked, NoLoad, Views, pageVars

\* What a step adds to the turns kept from the page are turns.
LEMMA MissTyped ==
    ASSUME TypeOK, \/ UNCHANGED missed
                   \/ \E set \in SUBSET Turns : Miss(set)
    PROVE  missed' \subseteq Turns
  BY DEF TypeOK, Miss

LEMMA CleanupTyped ==
    ASSUME TypeOK, NEW c \in Conns, Cleanup(c)
    PROVE  missed' \subseteq Turns
<1>1. \E set \in SUBSET Turns : Miss(set)
  BY DEF Cleanup, Settled
<1>2. QED
  BY <1>1, MissTyped

LEMMA TypeInductive == TypeOK /\ [Next]_vars => TypeOK'
<1> SUFFICES ASSUME TypeOK, [Next]_vars PROVE TypeOK'
  OBVIOUS
<1> USE ConstantsAssumption
<1>0. Turns \subseteq Nat \ {0} /\ "token" \in Events /\ "final" \in Events
  BY DEF Turns, Events
<1>1. CASE Token
  <2>1. queue' \in Seq(Events) /\ Len(queue') <= QueueMax
    BY <1>0, <1>1, PublishBounded DEF Token
  <2>2. used' \in Counters
    BY <1>1, CountBounded DEF Token
  <2>3. QED
    BY <1>1, <2>1, <2>2 DEF Token, TypeOK, pageVars
<1>2. CASE Send
  BY <1>2 DEF Send, TypeOK, Views, busVars
<1>3. CASE Sent
  <2>1. view' \in Views /\ post' = 0
    BY <1>3 DEF Sent, TypeOK, Views
  <2>2. missed' \subseteq Turns
    <3>1. \E set \in SUBSET Turns : Miss(set)
      BY <1>3 DEF Sent, TypeOK
    <3>2. QED
      BY <3>1, MissTyped
  <2>3. QED
    BY <1>3, <2>1, <2>2, EffectOpens DEF Sent, TypeOK, busVars
<1>4. CASE ServeLoad
  BY <1>4 DEF ServeLoad, TypeOK, busVars
<1>5. CASE ShowLoad
  <2>1. view' \in Views /\ load' \in [at : {"none", "asked", "answered"}, turns : Views]
    BY <1>5 DEF ShowLoad, TypeOK, NoLoad, Views
  <2>2. missed' \subseteq Turns
    BY <1>5, MissTyped DEF ShowLoad
  <2>3. QED
    BY <1>5, <2>1, <2>2, EffectOpens DEF ShowLoad, TypeOK, busVars
<1>6. CASE LoadFails \/ Reload
  <2>1. used' \in Counters
    BY <1>6, CountBounded DEF LoadFails, Reload
  <2>2. load' \in [at : {"none", "asked", "answered"}, turns : Views]
    BY <1>6 DEF LoadFails, Reload, NoLoad, Asked, Views
  <2>3. missed' \subseteq Turns
    BY <1>6, MissTyped DEF LoadFails, Reload, Settled
  <2>4. QED
    BY <1>6, <2>1, <2>2, <2>3 DEF LoadFails, Reload, TypeOK, busVars
<1>7. ASSUME NEW t \in Turns, RunStep(t) PROVE TypeOK'
  <2>1. CASE Settle(t)
    BY <2>1 DEF Settle, TypeOK, Views, busVars, pageVars
  <2>2. CASE Announce(t)
    <3>1. missed' \subseteq Turns
      BY <2>2, MissTyped DEF Announce
    <3>2. QED
      BY <1>0, <2>2, <3>1, PublishBounded DEF Announce, TypeOK, pageVars
  <2>3. QED
    BY <1>7, <2>1, <2>2 DEF RunStep
<1>8. ASSUME NEW t \in Turns, Repeat(t) PROVE TypeOK'
  <2>1. queue' \in Seq(Events) /\ Len(queue') <= QueueMax
    BY <1>0, <1>8, PublishBounded DEF Repeat
  <2>2. used' \in Counters
    BY <1>8, CountBounded DEF Repeat
  <2>3. QED
    BY <1>8, <2>1, <2>2 DEF Repeat, TypeOK, pageVars
<1>9. ASSUME NEW c \in Conns, StreamStep(c) PROVE TypeOK'
  <2>1. CASE Arrive(c)
    <3>1. CASE subscriber
      BY <2>1, <3>1, StreamEndsTyped DEF Arrive, TypeOK, busVars
    <3>2. CASE ~subscriber
      BY <2>1, <3>2 DEF Arrive, TypeOK, busVars, pageVars
    <3>3. QED
      BY <3>1, <3>2
  <2>2. CASE Subscribe(c)
    BY <2>2 DEF Subscribe, TypeOK, pageVars
  <2>3. CASE SubscribeFails(c)
    BY <2>3, StreamEndsTyped DEF SubscribeFails, TypeOK, busVars
  <2>4. CASE Deliver(c)
    <3>1. CASE Head(queue) = "final"
      <4>1. /\ conn' = [conn EXCEPT ![c] = "free"] /\ StreamEnds(c)
            /\ subscriber' = FALSE /\ queue' = <<>> /\ missed' \subseteq Turns
        BY <2>4, <3>1, CleanupTyped DEF Deliver, Cleanup
      <4>2. queue' \in Seq(Events) /\ Len(queue') <= QueueMax
        BY <4>1, EmptyQueue
      <4>3. UNCHANGED <<turn, unannounced, used>>
        BY <2>4 DEF Deliver
      <4>4. QED
        BY <4>1, <4>2, <4>3, StreamEndsTyped DEF TypeOK
    <3>2. CASE Head(queue) # "final"
      <4>1. queue' = Tail(queue) /\ queue # <<>> /\ UNCHANGED <<subscriber, conn, pageVars, missed>>
        BY <2>4, <3>2 DEF Deliver
      <4>2. queue' \in Seq(Events) /\ Len(queue') <= QueueMax
        BY <4>1 DEF TypeOK
      <4>3. QED
        BY <2>4, <4>1, <4>2 DEF Deliver, TypeOK, pageVars
    <3>3. QED
      BY <3>1, <3>2
  <2>5. CASE Disconnect(c)
    <3>1. queue' \in Seq(Events) /\ Len(queue') <= QueueMax /\ subscriber' \in BOOLEAN
      <4>1. (subscriber' = FALSE /\ queue' = <<>>) \/ (subscriber' = subscriber /\ queue' = queue)
        BY <2>5 DEF Disconnect, Cleanup, busVars
      <4>2. QED
        BY <4>1, EmptyQueue DEF TypeOK
    <3>2. missed' \subseteq Turns
      BY <2>5, CleanupTyped, MissTyped DEF Disconnect
    <3>3. QED
      BY <2>5, <3>1, <3>2 DEF Disconnect, TypeOK, pageVars
  <2>6. QED
    BY <1>9, <2>1, <2>2, <2>3, <2>4, <2>5 DEF StreamStep
<1>10. CASE UNCHANGED vars
  BY <1>10 DEF vars, TypeOK, busVars, pageVars
<1>11. QED
  BY <1>1, <1>2, <1>3, <1>4, <1>5, <1>6, <1>7, <1>8, <1>9, <1>10 DEF Next, PageStep

\* The lock says who reads, so it only moves together with a reader.
LEMMA SubscriberInductive == TypeOK /\ SingleSubscriber /\ [Next]_vars => SingleSubscriber'
<1> SUFFICES ASSUME TypeOK, SingleSubscriber, [Next]_vars PROVE SingleSubscriber'
  OBVIOUS
<1>1. ASSUME subscriber' = subscriber,
             \A c \in Conns : conn'[c] = "subscribed" <=> conn[c] = "subscribed"
      PROVE  SingleSubscriber'
  BY <1>1, Zenon DEF SingleSubscriber
<1>2. ASSUME NEW c \in Conns, Subscribe(c) PROVE SingleSubscriber'
  <2>1. \A d \in Conns : conn[d] # "subscribed"
    BY <1>2 DEF Subscribe, MaySubscribe, SingleSubscriber
  <2>2. subscriber' = TRUE /\ \A d \in Conns : conn'[d] = "subscribed" <=> d = c
    BY <1>2, <2>1 DEF Subscribe, TypeOK
  <2>3. QED
    BY <2>2 DEF SingleSubscriber
<1>3. ASSUME NEW c \in Conns, conn[c] = "subscribed", conn' = [conn EXCEPT ![c] = "free"], Cleanup(c)
      PROVE  SingleSubscriber'
  <2>1. \A d \in Conns : conn'[d] # "subscribed"
    BY <1>3 DEF SingleSubscriber, TypeOK
  <2>2. QED
    BY <1>3, <2>1 DEF SingleSubscriber, Cleanup
<1>4. ASSUME NEW c \in Conns, conn[c] # "subscribed", subscriber' = subscriber,
             \E at \in {"free", "accepted"} : conn' = [conn EXCEPT ![c] = at]
      PROVE  SingleSubscriber'
  <2>1. \A d \in Conns : conn'[d] = "subscribed" <=> conn[d] = "subscribed"
    BY <1>4 DEF TypeOK
  <2>2. QED
    BY <1>1, <1>4, <2>1
<1>5. ASSUME NEW c \in Conns, StreamStep(c) PROVE SingleSubscriber'
  <2>1. CASE Arrive(c)
    BY <1>4, <2>1 DEF Arrive, busVars
  <2>2. CASE SubscribeFails(c)
    BY <1>4, <2>2 DEF SubscribeFails, busVars
  <2>3. CASE Deliver(c)
    BY <1>1, <1>3, <2>3 DEF Deliver
  <2>4. CASE Disconnect(c)
    BY <1>3, <1>4, <2>4 DEF Disconnect, busVars
  <2>5. QED
    BY <1>2, <1>5, <2>1, <2>2, <2>3, <2>4 DEF StreamStep
<1>6. CASE PageStep
  <2>1. subscriber' = subscriber
    BY <1>6 DEF PageStep, Sent, ServeLoad, ShowLoad, busVars
  <2>2. \A c \in Conns : conn'[c] = "subscribed" <=> conn[c] = "subscribed"
    BY <1>6, EffectOpens DEF PageStep, Sent, ServeLoad, ShowLoad
  <2>3. QED
    BY <1>1, <2>1, <2>2
<1>7. CASE UNCHANGED <<subscriber, conn>>
  BY <1>1, <1>7
<1>8. QED
  BY <1>5, <1>6, <1>7 DEF Next, Token, Send, LoadFails, Reload, RunStep, Settle, Announce, Repeat, busVars,
     vars

LEMMA Invariant == Spec => []Inv
<1>1. Init => Inv
  <2> SUFFICES ASSUME Init PROVE Inv
    OBVIOUS
  <2>1. queue \in Seq(Events) /\ Len(queue) <= QueueMax
    BY EmptyQueue DEF Init
  <2>2. used \in Counters
    BY ConstantsAssumption DEF Init, Counters
  <2>3. TypeOK
    BY <2>1, <2>2 DEF Init, TypeOK, Views, NoLoad
  <2>4. SingleSubscriber
    BY DEF Init, SingleSubscriber
  <2>5. QED
    BY <2>3, <2>4 DEF Inv
<1>2. Inv /\ [Next]_vars => Inv'
  BY TypeInductive, SubscriberInductive DEF Inv
<1>3. QED
  BY <1>1, <1>2, PTL DEF Spec

\* Every variable keeps its type, whatever the page and the streams do: the
\* queue of a channel in particular never outgrows its capacity
\* (SessionEventBus.publish).
THEOREM TypeCorrect == Spec => []TypeOK
<1>1. Inv => TypeOK
  BY DEF Inv
<1>2. QED
  BY <1>1, Invariant, PTL

\* One generator at most reads a channel, and the channel is locked exactly as
\* long as it does (SessionEventBus.subscribe, thread_stream).
THEOREM OneReader == Spec => []SingleSubscriber
<1>1. Inv => SingleSubscriber
  BY DEF Inv
<1>2. QED
  BY <1>1, Invariant, PTL

-----------------------------------------------------------------------------
(* The model's stream (module Orchestrator).                                 *)

Busy == {"registered", "between", "streaming", "attempt over", "unready", "failing"}

\* Text comes from the attempt under way and is marked; an error that may be
\* retried came before any; the one error shown is the last thing to happen.
RowFits(s) ==
    /\ s.from \subseteq {s.attempt} /\ (s.from # {} => s.saw)
    /\ s.error = "retryable" => ~s.saw
    /\ s.attempt <= s.limit /\ s.errors \in {0, 1}
    /\ s.pc \in {"new", "selecting", "registered"} => s.attempt = 0 /\ ~s.saw
    /\ s.pc = "between" => s.attempt < s.limit /\ ~s.saw
    /\ s.pc \in {"new", "selecting", "registered", "between", "streaming"} => s.errors = 0
    /\ s.pc = "streaming" => s.error = "none" /\ s.attempt \in 1..3
    /\ s.pc = "attempt over" /\ s.error # "terminal" => s.errors = 0
    /\ s.pc = "silent" => s.status = "failed"
    /\ s.pc = "done" /\ s.status = "completed" =>
          s.errors = 0 /\ s.error = "none" /\ (s.text \/ s.note)

\* Who is registered, and of whom a cancel was answered, fits the row.
SharedFits(t) ==
    LET s == streams[t] IN
    /\ s.pc = "done" /\ s.status = "completed" => t \notin answered
    /\ s.pc = "done" /\ s.status = "cancelled" => t \in answered \/ stopped
    /\ t \in active => s.pc \in Busy
    /\ s.pc \in Busy => t \in active \/ stopped
    /\ t \in routing => t \in active \/ stopped
    /\ t \in answered => t \in cancelling
    /\ t \in cancelling => t \in answered \/ stopped

StreamsInv ==
    /\ Models!OrchestratorTypeOK
    /\ \A t \in Streams : RowFits(streams[t]) /\ SharedFits(t)

LEMMA StreamsStart == Models!OrchestratorInit => StreamsInv
<1> SUFFICES ASSUME Models!OrchestratorInit PROVE StreamsInv
  OBVIOUS
<1>1. Models!NewStream \in Models!Stream
  BY StreamsAssumption DEF Models!NewStream, Models!Stream, Models!Statuses
<1>2. Models!OrchestratorTypeOK
  BY <1>1 DEF Models!OrchestratorInit, Models!OrchestratorTypeOK
<1>3. RowFits(Models!NewStream)
  BY DEF RowFits, Models!NewStream
<1>4. \A t \in Streams : SharedFits(t)
  BY DEF Models!OrchestratorInit, SharedFits, Models!NewStream, Busy
<1>5. QED
  BY <1>2, <1>3, <1>4 DEF StreamsInv, Models!OrchestratorInit

\* A stream moves on and nobody's registration changes.
LEMMA RowMoves ==
    ASSUME StreamsInv, NEW t \in Streams, NEW new \in Models!Stream, RowFits(new),
           Models!Go(t, new), Models!KeepShared,
           new.pc \in Busy <=> streams[t].pc \in Busy, new.pc = "done" => new.status = "failed"
    PROVE  StreamsInv'
<1>1. streams \in [Streams -> Models!Stream] /\ streams' = [streams EXCEPT ![t] = new]
  BY DEF StreamsInv, Models!OrchestratorTypeOK, Models!Go
<1>2. streams' \in [Streams -> Models!Stream] /\ streams'[t] = new
      /\ \A u \in Streams \ {t} : streams'[u] = streams[u]
  BY <1>1
<1>3. Models!OrchestratorTypeOK'
  BY <1>2 DEF StreamsInv, Models!OrchestratorTypeOK, Models!KeepShared
<1>4. ASSUME NEW u \in Streams \ {t} PROVE RowFits(streams[u])' /\ SharedFits(u)'
  <2>1. RowFits(streams'[u])
    BY <1>2 DEF StreamsInv
  <2>2. RowFits(streams[u])'
    BY <2>1 DEF RowFits
  <2>3. SharedFits(u)'
    BY <1>2 DEF StreamsInv, SharedFits, Models!KeepShared
  <2>4. QED
    BY <2>2, <2>3
<1>5. RowFits(streams[t])' /\ SharedFits(t)'
  <2>1. RowFits(streams'[t])
    BY <1>2
  <2>2. SharedFits(t)'
    BY <1>2 DEF StreamsInv, SharedFits, Models!KeepShared
  <2>3. QED
    BY <2>1, <2>2 DEF RowFits
<1>6. QED
  BY <1>3, <1>4, <1>5 DEF StreamsInv

\* A stream is over and takes its registration with it.
LEMMA RowCloses ==
    ASSUME StreamsInv, NEW t \in Streams, NEW new \in Models!Stream, RowFits(new),
           Models!Go(t, new), Models!Unregister(t),
           UNCHANGED <<fallbackOn, cancelling, answered, stopped>>,
           new.pc \in {"done", "silent", "gone"},
           new.pc = "done" /\ new.status = "completed" => t \notin cancelling,
           new.pc = "done" /\ new.status = "cancelled" => t \in cancelling
    PROVE  StreamsInv'
<1>1. streams \in [Streams -> Models!Stream] /\ streams' = [streams EXCEPT ![t] = new]
  BY DEF StreamsInv, Models!OrchestratorTypeOK, Models!Go
<1>2. streams' \in [Streams -> Models!Stream] /\ streams'[t] = new
      /\ \A u \in Streams \ {t} : streams'[u] = streams[u]
  BY <1>1
<1>3. Models!OrchestratorTypeOK'
  BY <1>2 DEF StreamsInv, Models!OrchestratorTypeOK, Models!Unregister
<1>4. ASSUME NEW u \in Streams \ {t} PROVE RowFits(streams[u])' /\ SharedFits(u)'
  <2>1. RowFits(streams'[u])
    BY <1>2 DEF StreamsInv
  <2>2. RowFits(streams[u])'
    BY <2>1 DEF RowFits
  <2>3. active' \cap {u} = active \cap {u} /\ routing' \cap {u} = routing \cap {u}
    BY DEF Models!Unregister
  <2>4. SharedFits(u)'
    BY <1>2, <2>3 DEF StreamsInv, SharedFits
  <2>5. QED
    BY <2>2, <2>4
<1>5. RowFits(streams[t])' /\ SharedFits(t)'
  <2>1. RowFits(streams'[t])
    BY <1>2
  <2>2. SharedFits(t)'
    BY <1>2 DEF StreamsInv, SharedFits, Models!Unregister, Busy
  <2>3. QED
    BY <2>1, <2>2 DEF RowFits
<1>6. QED
  BY <1>3, <1>4, <1>5 DEF StreamsInv

LEMMA Closes ==
    ASSUME StreamsInv, NEW t \in Streams, NEW status \in Models!Statuses, Models!Close(t, status),
           streams[t].pc \in Busy,
           status = "completed" => t \notin cancelling /\ streams[t].errors = 0 /\ streams[t].error = "none",
           status = "cancelled" => t \in cancelling
    PROVE  StreamsInv'
<1>1. PICK s \in Models!Stream : s = streams[t]
  BY DEF StreamsInv, Models!OrchestratorTypeOK
<1>2. RowFits(s)
  BY <1>1 DEF StreamsInv
<1>3. CASE status = "completed" /\ ~s.text /\ ~s.note
  <2> DEFINE new == [s EXCEPT !.pc = "silent", !.status = "failed", !.errors = 1]
  <2>1. s.errors = 0 /\ s.errors + 1 = 1 /\ 1 \in 0..3
    BY <1>1, <1>3
  <2>2. new \in Models!Stream /\ new.pc = "silent"
    BY <2>1 DEF Models!Stream, Models!Statuses
  <2>3. /\ new.limit = s.limit /\ new.attempt = s.attempt /\ (new.saw <=> s.saw) /\ new.from = s.from
        /\ new.error = s.error /\ new.status = "failed" /\ new.errors = 1
    BY DEF Models!Stream
  <2>4. Models!Go(t, new)
    BY <1>1, <1>3, <2>1 DEF Models!Close, Models!Go
  <2> HIDE DEF new
  <2>5. RowFits(new)
    BY <1>2, <2>2, <2>3 DEF RowFits
  <2>6. QED
    BY <2>2, <2>4, <2>5, RowCloses DEF Models!Close
<1>4. CASE ~(status = "completed" /\ ~s.text /\ ~s.note)
  <2> DEFINE new == [s EXCEPT !.pc = "done", !.status = status]
  <2>1. new \in Models!Stream /\ new.pc = "done" /\ new.status = status
    BY DEF Models!Stream
  <2>2. RowFits(new)
    BY <1>1, <1>2, <1>4 DEF RowFits, Models!Stream
  <2>3. Models!Go(t, new)
    BY <1>1, <1>4 DEF Models!Close, Models!Go
  <2> HIDE DEF new
  <2>4. QED
    BY <2>1, <2>2, <2>3, RowCloses DEF Models!Close
<1>5. QED
  BY <1>3, <1>4

\* The steps of one stream that leave the registrations alone.
LEMMA StreamMoves ==
    ASSUME StreamsInv, NEW t \in Streams,
           \/ Models!StartStream(t) \/ Models!NoCandidate(t) \/ Models!ReadPolicy(t) \/ Models!Token(t)
           \/ Models!ProviderError(t) \/ Models!EndOfStream(t) \/ Models!Raise(t) \/ Models!CloseSilent(t)
    PROVE  StreamsInv'
<1>1. PICK s \in Models!Stream : s = streams[t]
  BY DEF StreamsInv, Models!OrchestratorTypeOK
<1>2. RowFits(s) /\ fallbackOn \in BOOLEAN
  BY <1>1 DEF StreamsInv, Models!OrchestratorTypeOK
<1>3. Models!KeepShared
  BY DEF Models!StartStream, Models!NoCandidate, Models!ReadPolicy, Models!Token, Models!ProviderError,
         Models!EndOfStream, Models!Raise, Models!CloseSilent
<1>4. /\ s.pc \in {"new", "selecting", "registered", "between", "streaming"} => s.errors = 0
      /\ s.pc = "streaming" => s.attempt \in 1..3
  BY <1>2 DEF RowFits
<1>5. (s.errors = 0 => s.errors + 1 = 1) /\ 1 \in 0..3
  OBVIOUS
<1>6. CASE Models!StartStream(t)
  <2> DEFINE new == [s EXCEPT !.pc = "selecting"]
  <2>1. s.pc = "new" /\ Models!Go(t, new)
    BY <1>1, <1>6 DEF Models!StartStream
  <2>2. new \in Models!Stream
    BY <1>4, <1>5, <2>1 DEF Models!Stream, Models!Statuses
  <2>3. /\ RowFits(new) /\ (new.pc \in Busy <=> s.pc \in Busy)
        /\ new.pc = "done" => new.status = "failed"
    BY <1>2, <1>4, <2>1 DEF Models!Stream, RowFits, Busy
  <2> HIDE DEF new
  <2>4. QED
    BY <1>1, <1>3, <2>1, <2>2, <2>3, RowMoves
<1>7. CASE Models!NoCandidate(t)
  <2> DEFINE new == [s EXCEPT !.pc = "done", !.status = "failed", !.errors = 1]
  <2>1. s.pc = "selecting" /\ Models!Go(t, new)
    BY <1>1, <1>7, <1>4, <1>5 DEF Models!NoCandidate
  <2>2. new \in Models!Stream
    BY <1>4, <1>5, <2>1 DEF Models!Stream, Models!Statuses
  <2>3. /\ new.pc = "done" /\ new.limit = s.limit /\ new.attempt = s.attempt /\ (new.saw <=> s.saw)
        /\ (new.text <=> s.text) /\ (new.note <=> s.note) /\ new.error = s.error /\ new.status = "failed"
        /\ new.errors = 1 /\ new.from = s.from
    BY DEF Models!Stream
  <2> HIDE DEF new
  <2>4. /\ RowFits(new) /\ (new.pc \in Busy <=> s.pc \in Busy)
        /\ new.pc = "done" => new.status = "failed"
    BY <1>2, <1>4, <2>1, <2>3 DEF RowFits, Busy
  <2>5. QED
    BY <1>1, <1>3, <2>1, <2>2, <2>4, RowMoves
<1>8. CASE Models!ReadPolicy(t)
  <2> DEFINE new == [s EXCEPT !.pc = "between", !.limit = IF fallbackOn THEN 3 ELSE 1]
  <2>1. s.pc = "registered" /\ Models!Go(t, new)
    BY <1>1, <1>8 DEF Models!ReadPolicy
  <2>2. new \in Models!Stream
    BY <1>4, <1>5, <2>1 DEF Models!Stream, Models!Statuses
  <2>3. /\ new.pc = "between" /\ new.limit = (IF fallbackOn THEN 3 ELSE 1) /\ new.attempt = s.attempt /\ (new.saw <=> s.saw)
        /\ (new.text <=> s.text) /\ (new.note <=> s.note) /\ new.error = s.error /\ new.status = s.status
        /\ new.errors = s.errors /\ new.from = s.from
    BY DEF Models!Stream
  <2> HIDE DEF new
  <2>4. /\ RowFits(new) /\ (new.pc \in Busy <=> s.pc \in Busy)
        /\ new.pc = "done" => new.status = "failed"
    BY <1>2, <1>4, <2>1, <2>3 DEF RowFits, Busy
  <2>5. QED
    BY <1>1, <1>3, <2>1, <2>2, <2>4, RowMoves
<1>9. CASE Models!Token(t)
  <2>1. PICK text \in BOOLEAN : Models!Go(t, [s EXCEPT !.saw = TRUE, !.text = @ \/ text,
                                   !.from = IF text THEN @ \cup {s.attempt} ELSE @])
    BY <1>1, <1>9 DEF Models!Token
  <2> DEFINE new == [s EXCEPT !.saw = TRUE, !.text = @ \/ text,
                              !.from = IF text THEN @ \cup {s.attempt} ELSE @]
  <2>2. s.pc = "streaming"
    BY <1>1, <1>9 DEF Models!Token
  <2>3. new \in Models!Stream
    BY <1>4, <1>5, <2>1, <2>2 DEF Models!Stream, Models!Statuses
  <2>4. /\ RowFits(new) /\ (new.pc \in Busy <=> s.pc \in Busy)
        /\ new.pc = "done" => new.status = "failed"
    BY <1>2, <1>4, <2>1, <2>2 DEF Models!Stream, RowFits, Busy
  <2>5. Models!Go(t, new)
    BY <2>1
  <2> HIDE DEF new
  <2>6. QED
    BY <1>1, <1>3, <2>3, <2>4, <2>5, RowMoves
<1>10. CASE Models!ProviderError(t)
  <2>1. s.pc = "streaming"
    BY <1>1, <1>10 DEF Models!ProviderError
  <2>2. CASE Models!Go(t, [s EXCEPT !.pc = "attempt over", !.error = "terminal", !.errors = 1])
    <3> DEFINE new == [s EXCEPT !.pc = "attempt over", !.error = "terminal", !.errors = 1]
    <3>1. new \in Models!Stream
      BY <1>4, <1>5, <2>1, <2>2 DEF Models!Stream, Models!Statuses
    <3>2. Models!Go(t, new)
      BY <2>2
    <3>3. /\ new.pc = "attempt over" /\ new.limit = s.limit /\ new.attempt = s.attempt /\ (new.saw <=> s.saw)
          /\ (new.text <=> s.text) /\ (new.note <=> s.note) /\ new.error = "terminal" /\ new.status = s.status
          /\ new.errors = 1 /\ new.from = s.from
      BY DEF Models!Stream
    <3> HIDE DEF new
    <3>4. /\ RowFits(new) /\ (new.pc \in Busy <=> s.pc \in Busy)
          /\ new.pc = "done" => new.status = "failed"
      BY <1>2, <1>4, <2>1, <3>3 DEF RowFits, Busy
    <3>5. QED
      BY <1>1, <1>3, <3>2, <3>1, <3>4, RowMoves
  <2>3. CASE ~s.saw /\ Models!Go(t, [s EXCEPT !.pc = "attempt over", !.error = "retryable"])
    <3> DEFINE new == [s EXCEPT !.pc = "attempt over", !.error = "retryable"]
    <3>1. new \in Models!Stream
      BY <1>4, <1>5, <2>1, <2>3 DEF Models!Stream, Models!Statuses
    <3>2. /\ RowFits(new) /\ (new.pc \in Busy <=> s.pc \in Busy)
          /\ new.pc = "done" => new.status = "failed"
      BY <1>2, <1>4, <2>1, <2>3 DEF Models!Stream, RowFits, Busy
    <3>3. Models!Go(t, new)
      BY <2>3
    <3> HIDE DEF new
    <3>4. QED
      BY <1>1, <1>3, <3>1, <3>2, <3>3, RowMoves
  <2>4. PICK retryable \in BOOLEAN :
           Models!Go(t, IF Models!Terminal(t, retryable)
                        THEN [streams[t] EXCEPT !.pc = "attempt over", !.error = "terminal", !.errors = @ + 1]
                        ELSE [streams[t] EXCEPT !.pc = "attempt over", !.error = "retryable"])
    BY <1>10 DEF Models!ProviderError
  <2>5. CASE Models!Terminal(t, retryable)
    BY <1>1, <1>4, <1>5, <2>1, <2>2, <2>4, <2>5
  <2>6. CASE ~Models!Terminal(t, retryable)
    <3>1. ~s.saw
      BY <1>1, <2>6 DEF Models!Terminal
    <3>2. QED
      BY <1>1, <2>3, <2>4, <2>6, <3>1
  <2>7. QED
    BY <2>5, <2>6
<1>11. CASE Models!EndOfStream(t)
  <2> DEFINE new == [s EXCEPT !.pc = "attempt over"]
  <2>1. s.pc = "streaming" /\ Models!Go(t, new)
    BY <1>1, <1>11 DEF Models!EndOfStream
  <2>2. new \in Models!Stream
    BY <1>4, <1>5, <2>1 DEF Models!Stream, Models!Statuses
  <2>3. /\ RowFits(new) /\ (new.pc \in Busy <=> s.pc \in Busy)
        /\ new.pc = "done" => new.status = "failed"
    BY <1>2, <1>4, <2>1 DEF Models!Stream, RowFits, Busy
  <2> HIDE DEF new
  <2>4. QED
    BY <1>1, <1>3, <2>1, <2>2, <2>3, RowMoves
<1>12. CASE Models!Raise(t)
  <2> DEFINE new == [s EXCEPT !.pc = "failing", !.errors = 1]
  <2>1. s.pc \in {"registered", "between", "streaming"} /\ Models!Go(t, new)
    BY <1>1, <1>12, <1>4, <1>5 DEF Models!Raise
  <2>2. new \in Models!Stream
    BY <1>4, <1>5, <2>1 DEF Models!Stream, Models!Statuses
  <2>3. /\ new.pc = "failing" /\ new.limit = s.limit /\ new.attempt = s.attempt /\ (new.saw <=> s.saw)
        /\ (new.text <=> s.text) /\ (new.note <=> s.note) /\ new.error = s.error /\ new.status = s.status
        /\ new.errors = 1 /\ new.from = s.from
    BY DEF Models!Stream
  <2> HIDE DEF new
  <2>4. /\ RowFits(new) /\ (new.pc \in Busy <=> s.pc \in Busy)
        /\ new.pc = "done" => new.status = "failed"
    BY <1>2, <1>4, <2>1, <2>3 DEF RowFits, Busy
  <2>5. QED
    BY <1>1, <1>3, <2>1, <2>2, <2>4, RowMoves
<1>13. CASE Models!CloseSilent(t)
  <2> DEFINE new == [s EXCEPT !.pc = "done"]
  <2>1. s.pc = "silent" /\ Models!Go(t, new)
    BY <1>1, <1>13 DEF Models!CloseSilent
  <2>2. new \in Models!Stream
    BY <1>4, <1>5, <2>1 DEF Models!Stream, Models!Statuses
  <2>3. /\ RowFits(new) /\ (new.pc \in Busy <=> s.pc \in Busy)
        /\ new.pc = "done" => new.status = "failed"
    BY <1>2, <1>4, <2>1 DEF Models!Stream, RowFits, Busy
  <2> HIDE DEF new
  <2>4. QED
    BY <1>1, <1>3, <2>1, <2>2, <2>3, RowMoves
<1>14. QED
  BY <1>6, <1>7, <1>8, <1>9, <1>10, <1>11, <1>12, <1>13

\* An attempt is over: the next one begins or the stream closes.
LEMMA StreamDecides ==
    ASSUME StreamsInv, NEW t \in Streams,
           Models!Decide(t) \/ Models!CloseUnready(t) \/ Models!CloseFailed(t)
    PROVE  StreamsInv'
<1>1. PICK s \in Models!Stream : s = streams[t]
  BY DEF StreamsInv, Models!OrchestratorTypeOK
<1>2. RowFits(s)
  BY <1>1 DEF StreamsInv
<1>3. {"completed", "failed", "cancelled"} = Models!Statuses
  BY DEF Models!Statuses
<1>4. CASE Models!CloseFailed(t)
  BY <1>3, <1>4, Closes DEF Models!CloseFailed, Busy
<1>5. CASE Models!CloseUnready(t)
  <2>1. PICK status \in {"cancelled", "failed"} :
            Models!Close(t, status) /\ (status = "cancelled" => t \in cancelling)
    BY <1>5 DEF Models!CloseUnready, Models!WasCancelled, Models!Cancelled
  <2>2. streams[t].pc \in Busy
    BY <1>5 DEF Models!CloseUnready, Busy
  <2>3. QED
    BY <1>3, <2>1, <2>2, Closes
<1>6. CASE Models!Decide(t)
  <2>1. s.pc = "attempt over"
    BY <1>1, <1>6 DEF Models!Decide
  <2>2. CASE /\ ~s.saw /\ s.error = "retryable" /\ ~Models!LastAttempt(t) /\ Models!KeepShared
             /\ Models!Go(t, [s EXCEPT !.pc = "between", !.note = TRUE])
    <3> DEFINE new == [s EXCEPT !.pc = "between", !.note = TRUE]
    <3>1. new \in Models!Stream
      BY DEF Models!Stream
    <3>2. /\ new.pc = "between" /\ new.limit = s.limit /\ new.attempt = s.attempt /\ (new.saw <=> s.saw)
          /\ new.error = s.error /\ new.errors = s.errors /\ new.from = s.from
      BY DEF Models!Stream
    <3>3. Models!Go(t, new)
      BY <2>2
    <3>4. s.attempt < s.limit /\ s.errors = 0
      <4>1. s.attempt \in 0..3 /\ s.limit \in {1, 3} /\ ~(s.attempt >= s.limit)
        BY <1>1, <2>2 DEF Models!LastAttempt, Models!Stream
      <4>2. s.errors = 0
        BY <1>2, <2>1, <2>2 DEF RowFits
      <4>3. QED
        BY <4>1, <4>2
    <3> HIDE DEF new
    <3>5. RowFits(new)
      BY <1>2, <2>2, <3>2, <3>4 DEF RowFits
    <3>6. new.pc \in Busy /\ s.pc \in Busy /\ new.pc # "done"
      BY <2>1, <3>2 DEF Busy
    <3>7. QED
      BY <1>1, <2>2, <3>1, <3>3, <3>5, <3>6, RowMoves
  <2>3. CASE \E status \in Models!Statuses :
               /\ Models!Close(t, status)
               /\ status = "cancelled" => t \in cancelling
               /\ status = "completed" => t \notin cancelling /\ s.saw /\ s.error # "terminal"
    <3>1. PICK status \in Models!Statuses :
               /\ Models!Close(t, status)
               /\ status = "cancelled" => t \in cancelling
               /\ status = "completed" => t \notin cancelling /\ s.saw /\ s.error # "terminal"
      BY <2>3
    <3>2. s.error \in {"none", "retryable", "terminal"}
      BY DEF Models!Stream
    <3>3. status = "completed" => s.errors = 0 /\ s.error = "none"
      BY <1>2, <2>1, <3>1, <3>2 DEF RowFits
    <3>4. s.pc \in Busy
      BY <2>1 DEF Busy
    <3>5. QED
      BY <1>1, <3>1, <3>3, <3>4, Closes
  <2>4. QED
    BY <1>1, <1>3, <1>6, <2>2, <2>3
       DEF Models!Decide, Models!WasCancelled, Models!Cancelled
<1>7. QED
  BY <1>4, <1>5, <1>6

\* A stream registers, begins an attempt or is left.
LEMMA StreamRegisters ==
    ASSUME StreamsInv, NEW t \in Streams,
           Models!Register(t) \/ Models!BeginAttempt(t) \/ Models!Abandon(t)
    PROVE  StreamsInv'
<1>1. PICK s \in Models!Stream : s = streams[t]
  BY DEF StreamsInv, Models!OrchestratorTypeOK
<1>2. RowFits(s)
  BY <1>1 DEF StreamsInv
<1>3. CASE Models!Abandon(t)
  <2> DEFINE new == [s EXCEPT !.pc = "gone"]
  <2>1. new \in Models!Stream
    BY DEF Models!Stream
  <2>2. RowFits(new) /\ new.pc = "gone"
    BY <1>2 DEF RowFits, Models!Stream
  <2>3. Models!Go(t, new)
    BY <1>1, <1>3 DEF Models!Abandon
  <2> HIDE DEF new
  <2>4. QED
    BY <1>3, <2>1, <2>2, <2>3, RowCloses DEF Models!Abandon
<1>4. CASE Models!Register(t) \/ Models!BeginAttempt(t)
  <2>1. PICK new \in Models!Stream :
            /\ RowFits(new) /\ Models!Go(t, new) /\ new.pc \in Busy
            /\ Models!Register(t) \/ s.pc = "between"
    <3>1. CASE Models!Register(t)
      <4>1. PICK n \in 1..MaxModels : Models!Go(t, [s EXCEPT !.pc = "registered", !.models = n])
        BY <1>1, <3>1 DEF Models!Register
      <4> DEFINE new == [s EXCEPT !.pc = "registered", !.models = n]
      <4>2. s.pc = "selecting"
        BY <1>1, <3>1 DEF Models!Register
      <4>3. n \in 0..MaxModels
        BY StreamsAssumption
      <4>4. new \in Models!Stream
        BY <4>3 DEF Models!Stream
      <4>5. RowFits(new) /\ new.pc \in Busy
        BY <1>2, <4>2 DEF RowFits, Models!Stream, Busy
      <4>6. QED
        BY <3>1, <4>1, <4>4, <4>5
    <3>2. CASE Models!BeginAttempt(t)
      <4>1. s.pc = "between"
        BY <1>1, <3>2 DEF Models!BeginAttempt
      <4>2. s.attempt < s.limit /\ s.attempt \in 0..3 /\ s.limit \in {1, 3} /\ s.errors = 0 /\ s.from = {}
        BY <1>2, <4>1 DEF RowFits, Models!Stream
      <4>3. /\ s.attempt + 1 \in 1..3 /\ s.attempt + 1 \in 0..3 /\ s.attempt + 1 <= s.limit
            /\ s.errors + 1 = 1 /\ 1 \in 0..3
        BY <4>2
      <4> DEFINE quiet == [s EXCEPT !.attempt = s.attempt + 1, !.saw = FALSE, !.error = "none", !.pc = "streaming"]
                 ready == [s EXCEPT !.attempt = s.attempt + 1, !.saw = FALSE, !.error = "none", !.pc = "unready",
                                    !.errors = 1]
      <4>4. quiet \in Models!Stream /\ ready \in Models!Stream
        BY <4>3 DEF Models!Stream
      <4>5. Models!Go(t, quiet) \/ Models!Go(t, ready)
        BY <1>1, <3>2, <4>3 DEF Models!BeginAttempt, Models!Stream
      <4>6. /\ quiet.attempt = s.attempt + 1 /\ ~quiet.saw /\ quiet.error = "none" /\ quiet.pc = "streaming"
            /\ quiet.from = {} /\ quiet.errors = 0 /\ quiet.limit = s.limit
        BY <4>2 DEF Models!Stream
      <4>7. /\ ready.attempt = s.attempt + 1 /\ ~ready.saw /\ ready.error = "none" /\ ready.pc = "unready"
            /\ ready.from = {} /\ ready.errors = 1 /\ ready.limit = s.limit
        BY <4>2 DEF Models!Stream
      <4> HIDE DEF quiet, ready
      <4>8. RowFits(quiet) /\ quiet.pc \in Busy
        BY <4>3, <4>6 DEF RowFits, Busy
      <4>9. RowFits(ready) /\ ready.pc \in Busy
        BY <4>3, <4>7 DEF RowFits, Busy
      <4>10. QED
        BY <4>1, <4>4, <4>5, <4>8, <4>9
    <3>3. QED
      BY <1>4, <3>1, <3>2
  <2>2. streams \in [Streams -> Models!Stream] /\ streams' = [streams EXCEPT ![t] = new]
    BY <2>1 DEF StreamsInv, Models!OrchestratorTypeOK, Models!Go
  <2>3. /\ streams' \in [Streams -> Models!Stream] /\ streams'[t] = new
        /\ \A u \in Streams \ {t} : streams'[u] = streams[u]
    BY <2>2
  <2>4. /\ active \subseteq active' /\ active' \subseteq active \cup {t}
        /\ routing \subseteq routing' /\ routing' \subseteq routing \cup {t}
        /\ UNCHANGED <<fallbackOn, cancelling, answered, stopped>>
        /\ t \in active' \/ stopped
    <3>1. SharedFits(t)
      BY DEF StreamsInv
    <3>2. QED
      BY <1>1, <1>4, <2>1, <3>1 DEF Models!Register, Models!BeginAttempt, SharedFits, Busy
  <2>5. Models!OrchestratorTypeOK'
    BY <2>3, <2>4 DEF StreamsInv, Models!OrchestratorTypeOK
  <2>6. ASSUME NEW u \in Streams \ {t} PROVE RowFits(streams[u])' /\ SharedFits(u)'
    <3>1. RowFits(streams'[u])
      BY <2>3 DEF StreamsInv
    <3>2. RowFits(streams[u])'
      BY <3>1 DEF RowFits
    <3>3. SharedFits(u)'
      BY <2>3, <2>4 DEF StreamsInv, SharedFits
    <3>4. QED
      BY <3>2, <3>3
  <2>7. RowFits(streams[t])' /\ SharedFits(t)'
    <3>1. RowFits(streams'[t])
      BY <2>1, <2>3
    <3>2. RowFits(streams[t])'
      BY <3>1 DEF RowFits
    <3>3. SharedFits(t)'
      BY <2>1, <2>3, <2>4 DEF StreamsInv, SharedFits, Busy
    <3>4. QED
      BY <3>2, <3>3
  <2>8. QED
    BY <2>5, <2>6, <2>7 DEF StreamsInv
<1>5. QED
  BY <1>3, <1>4

\* A cancel, the stop of the application, and a change of the policy.
LEMMA OthersMove ==
    ASSUME StreamsInv, Models!StopAll \/ Models!ChangePolicy \/ \E t \in Streams : Models!Cancel(t)
    PROVE  StreamsInv'
<1>1. UNCHANGED streams
  BY DEF Models!StopAll, Models!ChangePolicy, Models!Cancel
<1>2. Models!OrchestratorTypeOK'
  BY <1>1 DEF StreamsInv, Models!OrchestratorTypeOK, Models!StopAll, Models!ChangePolicy, Models!Cancel
<1>3. ASSUME NEW u \in Streams PROVE RowFits(streams[u])' /\ SharedFits(u)'
  <2>1. RowFits(streams'[u])
    BY <1>1 DEF StreamsInv
  <2>2. RowFits(streams[u])'
    BY <2>1 DEF RowFits
  <2>3. SharedFits(u)
    BY DEF StreamsInv
  <2>4. SharedFits(u)'
    <3>1. CASE Models!StopAll
      BY <1>1, <2>3, <3>1 DEF SharedFits, Models!StopAll, Busy
    <3>2. CASE Models!ChangePolicy
      BY <1>1, <2>3, <3>2 DEF SharedFits, Models!ChangePolicy
    <3>3. CASE \E t \in Streams : Models!Cancel(t)
      <4>1. PICK t \in Streams : Models!Cancel(t)
        BY <3>3
      <4>2. t \in active /\ streams[t].pc # "done"
        BY <4>1 DEF StreamsInv, SharedFits, Models!Cancel, Busy
      <4>3. /\ cancelling' = cancelling \cup {t} /\ answered' = answered \cup {t}
            /\ UNCHANGED <<streams, active, routing, stopped>>
        BY <4>1 DEF Models!Cancel
      <4>4. QED
        BY <2>3, <4>2, <4>3 DEF SharedFits
    <3>4. QED
      BY <3>1, <3>2, <3>3
  <2>5. QED
    BY <2>2, <2>4
<1>4. QED
  BY <1>2, <1>3 DEF StreamsInv

LEMMA StreamsHold == StreamsInv => ClosingIsHonest
<1> SUFFICES ASSUME StreamsInv PROVE ClosingIsHonest
  OBVIOUS
<1>1. ASSUME NEW t \in Streams
      PROVE  LET s == streams[t]
             IN  /\ \A a, b \in s.from : a = b
                 /\ s.errors <= 1
                 /\ s.pc = "done" =>
                       /\ s.status = "completed" =>
                             /\ s.errors = 0 /\ s.error = "none"
                             /\ t \notin answered /\ (s.text \/ s.note)
                       /\ s.status = "cancelled" => t \in answered \/ stopped
                 /\ t \in active =>
                       s.pc \in {"registered", "between", "streaming", "attempt over",
                                 "unready", "failing"}
                 /\ s.attempt <= s.limit
  <2>1. RowFits(streams[t]) /\ SharedFits(t)
    BY DEF StreamsInv
  <2>2. streams[t].errors <= 1
    <3>1. streams[t].errors \in {0, 1}
      BY <2>1 DEF RowFits
    <3>2. QED
      BY <3>1
  <2>3. \A a, b \in streams[t].from : a = b
    BY <2>1 DEF RowFits
  <2>4. streams[t].attempt <= streams[t].limit
    BY <2>1 DEF RowFits
  <2>5. streams[t].pc = "done" /\ streams[t].status = "completed" =>
           /\ streams[t].errors = 0 /\ streams[t].error = "none"
           /\ streams[t].text \/ streams[t].note
    BY <2>1 DEF RowFits
  <2>6. QED
    BY <2>1, <2>2, <2>3, <2>4, <2>5 DEF SharedFits, Busy
<1>2. routing \subseteq active \cup {u \in Streams : stopped}
  BY DEF StreamsInv, SharedFits, Models!OrchestratorTypeOK
<1>3. QED
  BY <1>1, <1>2 DEF ClosingIsHonest, Models!ClosingIsHonest, StreamsInv

(* However cancel, stop, errors, fallbacks and departing consumers meet, for *)
(* any number of streams: the text of a run is of one attempt, at most one   *)
(* error is shown, and its closing event agrees with what was shown and with *)
(* what was answered to a cancel (GyoOrchestrator.stream).                   *)
THEOREM HonestClosing == Models!OrchestratorSpec => []ClosingIsHonest
<1>1. StreamsInv /\ [Models!OrchestratorNext]_Models!orchestratorVars => StreamsInv'
  <2> SUFFICES ASSUME StreamsInv, [Models!OrchestratorNext]_Models!orchestratorVars PROVE StreamsInv'
    OBVIOUS
  <2>1. CASE UNCHANGED Models!orchestratorVars
    BY <2>1 DEF Models!orchestratorVars, StreamsInv, Models!OrchestratorTypeOK, RowFits, SharedFits
  <2>2. CASE Models!OrchestratorNext
    BY <2>2, StreamMoves, StreamDecides, StreamRegisters, OthersMove
       DEF Models!OrchestratorNext, Models!StreamStep
  <2>3. QED
    BY <2>1, <2>2
<1>2. QED
  BY <1>1, StreamsStart, StreamsHold, PTL DEF Models!OrchestratorSpec

-----------------------------------------------------------------------------
(* The learning worker (module LearningWorker).                              *)

\* Turns still to come left no job; a candidate is lost by a fault only.
TurnsFit ==
    \A t \in Learning!Turns : /\ t > turns => job[t].status = "none"
                              /\ strays[t] <= faults

\* The pass has jobs to go through, all pending but the one it stored.
PassFits ==
    /\ worker.pc = "rest" <=> worker.todo = {}
    /\ \A t \in worker.todo :
          job[t].status = IF worker.pc = "stored" /\ t = Learning!Current
                          THEN "processing" ELSE "pending"

\* What was stored may be settled: no other candidate of its day and kind is.
StoredFits ==
    worker.pc = "stored" =>
        \A u \in today \ {Learning!Current} :
            job[u].kind = job[Learning!Current].kind => job[u].status # "created"

JobsInv ==
    /\ Learning!LearningTypeOK /\ TurnsFit /\ PassFits /\ StoredFits
    /\ Learning!CandidatesAreAccountedFor /\ Learning!OneADay

\* While a pass is under way, its current job is the oldest it has left.
LEMMA CurrentIsOne ==
    ASSUME Learning!LearningTypeOK, PassFits, worker.pc # "rest"
    PROVE  Learning!Current \in worker.todo /\ Learning!Current \in Learning!Turns
<1>1. worker.todo # {} /\ worker.todo \subseteq Learning!Turns
  BY DEF PassFits, Learning!LearningTypeOK
<1>2. worker.todo \subseteq Nat
  BY <1>1, LearningAssumption DEF Learning!Turns
<1>3. \E i \in worker.todo : \A j \in worker.todo : i <= j
  BY <1>1, <1>2, Least
<1>4. Learning!Current \in worker.todo
  BY <1>3 DEF Learning!Current, Learning!Min
<1>5. QED
  BY <1>1, <1>4

\* A mark changes one job's status and nothing else of any job.
LEMMA JobIsMarked ==
    ASSUME Learning!LearningTypeOK, NEW t \in Learning!Turns,
           NEW status \in {"processing", "created", "skipped", "failed"},
           job' = [job EXCEPT ![t].status = status]
    PROVE  /\ job' \in [Learning!Turns -> Learning!Job]
           /\ job'[t].status = status /\ job'[t].kind = job[t].kind
           /\ \A u \in Learning!Turns \ {t} : job'[u] = job[u]
<1>1. PICK row \in Learning!Job : row = job[t]
  BY DEF Learning!LearningTypeOK
<1> DEFINE new == [row EXCEPT !.status = status]
<1>2. new \in Learning!Job /\ new.status = status /\ new.kind = row.kind
  BY DEF Learning!Job
<1>3. job' = [job EXCEPT ![t] = new]
  BY <1>1
<1> HIDE DEF new
<1>4. QED
  BY <1>1, <1>2, <1>3 DEF Learning!LearningTypeOK

\* A job is left behind and the pass goes on to the next, or ends.
LEMMA PassGoesOn ==
    ASSUME Learning!LearningTypeOK, PassFits, worker.pc # "rest", Learning!NextJob
    PROVE  /\ worker' \in [pc : {"rest", "pass", "stored"}, todo : SUBSET Learning!Turns]
           /\ worker'.todo = worker.todo \ {Learning!Current}
           /\ worker'.pc \in {"rest", "pass"}
           /\ worker'.pc = "rest" <=> worker'.todo = {}
<1> DEFINE left == worker.todo \ {Learning!Current}
<1>1. worker' = IF left = {} THEN [pc |-> "rest", todo |-> {}] ELSE [pc |-> "pass", todo |-> left]
  BY DEF Learning!NextJob, Learning!Resting
<1>2. left \subseteq Learning!Turns
  BY DEF Learning!LearningTypeOK
<1>3. QED
  BY <1>1, <1>2

\* A job ends with its outcome: the pass is at none of the jobs before it.
LEMMA JobEnds ==
    ASSUME JobsInv, worker.pc # "rest", NEW c, c = Learning!Current,
           NEW status \in {"created", "skipped", "failed"}, Learning!SetJob(status),
           Learning!NextJob, UNCHANGED <<turns, made, today, allowed>>,
           faults' \in 0..LearnFaults, faults' >= faults,
           strays' \in [Learning!Turns -> 0..LearnFaults],
           \A u \in Learning!Turns : strays'[u] <= faults',
           \A u \in Learning!Turns \ {c} : strays'[u] = strays[u],
           made[c] = strays'[c] + (IF status = "created" THEN 1 ELSE 0),
           status = "created" => worker.pc = "stored"
    PROVE  JobsInv'
<1>1. c \in worker.todo /\ c \in Learning!Turns
  BY CurrentIsOne DEF JobsInv
<1>2. /\ job' \in [Learning!Turns -> Learning!Job]
      /\ job'[c].status = status /\ job'[c].kind = job[c].kind
      /\ \A u \in Learning!Turns \ {c} : job'[u] = job[u]
  <2>1. job' = [job EXCEPT ![c].status = status]
    BY DEF Learning!SetJob
  <2>2. QED
    BY <1>1, <2>1, JobIsMarked DEF JobsInv
<1>3. /\ worker' \in [pc : {"rest", "pass", "stored"}, todo : SUBSET Learning!Turns]
      /\ worker'.todo = worker.todo \ {c}
      /\ worker'.pc \in {"rest", "pass"}
      /\ worker'.pc = "rest" <=> worker'.todo = {}
  BY PassGoesOn DEF JobsInv
<1>4. Learning!LearningTypeOK'
  BY <1>2, <1>3 DEF JobsInv, Learning!LearningTypeOK
<1>5. TurnsFit'
  <2>1. job[c].status # "none"
    BY <1>1 DEF JobsInv, PassFits
  <2>2. ~(c > turns)
    BY <1>1, <2>1 DEF JobsInv, TurnsFit
  <2>3. QED
    BY <1>2, <2>2 DEF JobsInv, TurnsFit
<1>6. PassFits'
  <2>1. \A u \in worker'.todo : job'[u].status = "pending"
    <3>1. worker.todo \subseteq Learning!Turns
      BY DEF JobsInv, Learning!LearningTypeOK
    <3>2. \A u \in worker'.todo : u \in Learning!Turns \ {c} /\ job[u].status = "pending"
      BY <1>3, <3>1 DEF JobsInv, PassFits
    <3>3. QED
      BY <1>2, <3>2
  <2>2. QED
    BY <1>3, <2>1 DEF PassFits
<1>7. StoredFits'
  BY <1>3 DEF StoredFits
<1>8. Learning!CandidatesAreAccountedFor'
  <2> SUFFICES ASSUME NEW u \in Learning!Turns
               PROVE  made[u] = strays'[u] + (IF job'[u].status = "created" THEN 1 ELSE 0)
    BY <1>3 DEF Learning!CandidatesAreAccountedFor
  <2>1. CASE u = c
    BY <1>2, <2>1
  <2>2. CASE u # c
    <3>1. made[u] = strays[u] + (IF job[u].status = "created" THEN 1 ELSE 0)
      BY <2>2 DEF JobsInv, Learning!CandidatesAreAccountedFor
    <3>2. QED
      BY <1>2, <2>2, <3>1
  <2>3. QED
    BY <2>1, <2>2
<1>9. Learning!OneADay'
  <2> SUFFICES ASSUME NEW u \in today, NEW v \in today,
                      job'[u].status = "created", job'[v].status = "created",
                      job'[u].kind = job'[v].kind
               PROVE  u = v
    BY DEF Learning!OneADay
  <2>1. u \in Learning!Turns /\ v \in Learning!Turns
    BY DEF JobsInv, Learning!LearningTypeOK
  <2>2. CASE u # c /\ v # c
    BY <1>2, <2>1, <2>2 DEF JobsInv, Learning!OneADay
  <2>3. CASE u = c /\ v # c
    <3>1. worker.pc = "stored" /\ job[v].status = "created" /\ job[v].kind = job[c].kind
      BY <1>2, <2>1, <2>3
    <3>2. QED
      BY <2>3, <3>1 DEF JobsInv, StoredFits
  <2>4. CASE v = c /\ u # c
    <3>1. worker.pc = "stored" /\ job[u].status = "created" /\ job[u].kind = job[c].kind
      BY <1>2, <2>1, <2>4
    <3>2. QED
      BY <2>4, <3>1 DEF JobsInv, StoredFits
  <2>5. QED
    BY <2>2, <2>3, <2>4
<1>10. QED
  BY <1>4, <1>5, <1>6, <1>7, <1>8, <1>9 DEF JobsInv

LEMMA JobsStart == Learning!LearningInit => JobsInv
<1> SUFFICES ASSUME Learning!LearningInit PROVE JobsInv
  OBVIOUS
<1>1. Learning!NoJob \in Learning!Job
  BY LearningAssumption DEF Learning!NoJob, Learning!Job
<1>2. Learning!LearningTypeOK
  <2>1. 0 \in 0..LearnTurns /\ 0 \in 0..LearnFaults
    BY LearningAssumption
  <2>2. QED
    BY <1>1, <2>1 DEF Learning!LearningInit, Learning!LearningTypeOK, Learning!Resting
<1>3. TurnsFit /\ PassFits /\ StoredFits
  BY <1>2 DEF Learning!LearningInit, TurnsFit, PassFits, StoredFits, Learning!Resting,
              Learning!NoJob, Learning!LearningTypeOK
<1>4. Learning!CandidatesAreAccountedFor /\ Learning!OneADay
  BY DEF Learning!LearningInit, Learning!CandidatesAreAccountedFor, Learning!OneADay,
         Learning!Resting, Learning!NoJob
<1>5. QED
  BY <1>2, <1>3, <1>4 DEF JobsInv

\* A completed turn takes a number no job has, so it disturbs none.
LEMMA TurnCompletes == JobsInv /\ Learning!CompleteTurn => JobsInv'
<1> SUFFICES ASSUME JobsInv, Learning!CompleteTurn PROVE JobsInv'
  OBVIOUS
<1> DEFINE t == turns + 1
<1>1. turns \in 0..LearnTurns /\ turns' = t /\ turns < LearnTurns
      /\ UNCHANGED <<made, strays, allowed, worker, faults>>
  BY DEF JobsInv, Learning!LearningTypeOK, Learning!CompleteTurn
<1>2. t \in Learning!Turns /\ turns' \in 0..LearnTurns
      /\ \A u \in Learning!Turns : u > turns' => u > turns /\ u # t
  BY <1>1, LearningAssumption DEF Learning!Turns
<1>3. job[t].status = "none" /\ t \notin worker.todo
  <2>1. t > turns
    BY <1>1
  <2>2. job[t].status = "none"
    BY <1>2, <2>1 DEF JobsInv, TurnsFit
  <2>3. QED
    BY <2>2 DEF JobsInv, PassFits
<1>4. /\ job' \in [Learning!Turns -> Learning!Job]
      /\ \A u \in Learning!Turns \ {t} : job'[u] = job[u]
      /\ job'[t].status \in {"none", "pending"}
      /\ today' \subseteq today \cup {t}
  <2>1. CASE UNCHANGED <<job, today>>
    BY <1>3, <2>1 DEF JobsInv, Learning!LearningTypeOK
  <2>2. CASE /\ \E kind \in {"memory", "skill"}, p \in Candidates :
                   job' = [job EXCEPT ![turns'] = [status |-> "pending", kind |-> kind, payload |-> p]]
             /\ today' = today \cup {turns'}
    <3>1. PICK kind \in {"memory", "skill"}, p \in Candidates :
             job' = [job EXCEPT ![t] = [status |-> "pending", kind |-> kind, payload |-> p]]
      BY <2>2, <1>1
    <3>2. [status |-> "pending", kind |-> kind, payload |-> p] \in Learning!Job
      BY DEF Learning!Job
    <3>3. QED
      BY <1>1, <1>2, <2>2, <3>1, <3>2 DEF JobsInv, Learning!LearningTypeOK
  <2>3. QED
    BY <2>1, <2>2 DEF Learning!CompleteTurn
<1> HIDE DEF t
<1>5. Learning!Current' = Learning!Current
  BY <1>1 DEF Learning!Current
<1>6. Learning!LearningTypeOK'
  BY <1>1, <1>2, <1>4 DEF JobsInv, Learning!LearningTypeOK
<1>7. TurnsFit'
  BY <1>1, <1>2, <1>4 DEF JobsInv, TurnsFit
<1>8. PassFits'
  <2>1. worker.todo \subseteq Learning!Turns \ {t}
    BY <1>3 DEF JobsInv, Learning!LearningTypeOK
  <2>2. QED
    BY <1>1, <1>4, <1>5, <2>1 DEF JobsInv, PassFits
<1>9. StoredFits'
  <2> SUFFICES ASSUME worker.pc = "stored", NEW u \in today' \ {Learning!Current},
                      job'[u].kind = job'[Learning!Current].kind
               PROVE  job'[u].status # "created"
    BY <1>1, <1>5 DEF StoredFits
  <2>1. Learning!Current \in Learning!Turns \ {t}
    BY <1>3, CurrentIsOne DEF JobsInv
  <2>2. CASE u = t
    BY <1>4, <2>2
  <2>3. CASE u # t
    <3>1. u \in today /\ u \in Learning!Turns
      BY <1>4, <2>3 DEF JobsInv, Learning!LearningTypeOK
    <3>2. QED
      BY <1>4, <2>1, <2>3, <3>1 DEF JobsInv, StoredFits
  <2>4. QED
    BY <2>2, <2>3
<1>10. Learning!CandidatesAreAccountedFor'
  <2> SUFFICES ASSUME NEW u \in Learning!Turns
               PROVE  made[u] = strays[u] + (IF \/ job'[u].status = "created"
                                                \/ worker.pc = "stored" /\ Learning!Current = u
                                             THEN 1 ELSE 0)
    BY <1>1, <1>5 DEF Learning!CandidatesAreAccountedFor
  <2>1. job'[u].status = "created" <=> job[u].status = "created"
    BY <1>3, <1>4
  <2>2. QED
    BY <2>1 DEF JobsInv, Learning!CandidatesAreAccountedFor
<1>11. Learning!OneADay'
  <2> SUFFICES ASSUME NEW u \in today', NEW v \in today',
                      job'[u].status = "created", job'[v].status = "created",
                      job'[u].kind = job'[v].kind
               PROVE  u = v
    BY DEF Learning!OneADay
  <2>1. u # t /\ v # t
    BY <1>4
  <2>2. u \in today /\ v \in today /\ u \in Learning!Turns /\ v \in Learning!Turns
    BY <1>4, <2>1 DEF JobsInv, Learning!LearningTypeOK
  <2>3. QED
    BY <1>4, <2>1, <2>2 DEF JobsInv, Learning!OneADay
<1>12. QED
  BY <1>6, <1>7, <1>8, <1>9, <1>10, <1>11 DEF JobsInv

\* A pass begins: what an earlier one left in processing is pending again.
LEMMA PassStarts == JobsInv /\ Learning!StartPass => JobsInv'
<1> SUFFICES ASSUME JobsInv, Learning!StartPass PROVE JobsInv'
  OBVIOUS
<1> DEFINE pending == {t \in Learning!Turns : Learning!Requeued[t].status = "pending"}
<1>1. /\ worker.pc = "rest" /\ pending # {} /\ job' = Learning!Requeued
      /\ worker' = [pc |-> "pass", todo |-> Learning!Oldest(pending)]
      /\ UNCHANGED <<turns, made, strays, today, allowed, faults>>
  BY DEF Learning!StartPass
<1>2. ASSUME NEW t \in Learning!Turns
      PROVE  /\ Learning!Requeued[t] \in Learning!Job /\ Learning!Requeued[t].kind = job[t].kind
             /\ Learning!Requeued[t].status = "created" <=> job[t].status = "created"
             /\ Learning!Requeued[t].status = "none" <=> job[t].status = "none"
  <2>1. PICK row \in Learning!Job : row = job[t]
    BY DEF JobsInv, Learning!LearningTypeOK
  <2>2. Learning!Requeued[t] = IF row.status = "processing" THEN [row EXCEPT !.status = "pending"]
                               ELSE row
    BY <2>1 DEF Learning!Requeued
  <2>3. QED
    BY <2>1, <2>2 DEF Learning!Job
<1>3. job' \in [Learning!Turns -> Learning!Job]
  <2>1. \A t \in Learning!Turns : Learning!Requeued[t] \in Learning!Job
    BY <1>2
  <2>2. Learning!Requeued \in [Learning!Turns -> Learning!Job]
    BY <2>1 DEF Learning!Requeued
  <2>3. QED
    BY <1>1, <2>2
<1>4. Learning!Oldest(pending) \subseteq pending /\ pending \subseteq Learning!Turns
      /\ Learning!Oldest(pending) # {}
  <2>1. pending \subseteq Nat
    BY LearningAssumption DEF Learning!Turns
  <2>2. PICK t \in pending : \A u \in pending : t <= u
    <3> HIDE DEF pending
    <3>1. QED
      BY <1>1, <2>1, Least
  <2>3. {u \in pending : u < t} = {}
    <3> HIDE DEF pending
    <3>1. \A u \in pending : ~(u < t)
      BY <2>1, <2>2
    <3>2. QED
      BY <3>1
  <2>4. Learning!Cardinality({}) = 0
    BY FS_EmptySet DEF Cardinality, Learning!Cardinality
  <2>5. t \in Learning!Oldest(pending)
    <3> HIDE DEF pending
    <3>1. Learning!Cardinality({u \in pending : u < t}) < PassLimit
      BY <2>3, <2>4, LearningAssumption
    <3>2. QED
      BY <3>1 DEF Learning!Oldest
  <2>6. QED
    BY <2>5 DEF Learning!Oldest
<1>5. worker'.pc = "pass" /\ worker'.todo = Learning!Oldest(pending)
      /\ worker' \in [pc : {"rest", "pass", "stored"}, todo : SUBSET Learning!Turns]
  BY <1>1, <1>4
<1>6. Learning!LearningTypeOK'
  BY <1>1, <1>3, <1>5 DEF JobsInv, Learning!LearningTypeOK
<1>7. TurnsFit'
  <2> SUFFICES ASSUME NEW t \in Learning!Turns
               PROVE  (t > turns => job'[t].status = "none") /\ strays[t] <= faults
    BY <1>1 DEF TurnsFit
  <2>1. QED
    BY <1>1, <1>2 DEF JobsInv, TurnsFit
<1>8. PassFits'
  <2>1. \A t \in worker'.todo : job'[t].status = "pending"
    BY <1>1, <1>4, <1>5
  <2>2. QED
    BY <1>4, <1>5, <2>1 DEF PassFits
<1>9. StoredFits'
  BY <1>5 DEF StoredFits
<1>10. Learning!CandidatesAreAccountedFor'
  <2> SUFFICES ASSUME NEW u \in Learning!Turns
               PROVE  made[u] = strays[u] + (IF job'[u].status = "created" THEN 1 ELSE 0)
    BY <1>1, <1>5 DEF Learning!CandidatesAreAccountedFor
  <2>1. job'[u].status = "created" <=> job[u].status = "created"
    BY <1>1, <1>2
  <2>2. QED
    BY <1>1, <2>1 DEF JobsInv, Learning!CandidatesAreAccountedFor
<1>11. Learning!OneADay'
  <2> SUFFICES ASSUME NEW u \in today, NEW v \in today,
                      job'[u].status = "created", job'[v].status = "created",
                      job'[u].kind = job'[v].kind
               PROVE  u = v
    BY <1>1 DEF Learning!OneADay
  <2>1. u \in Learning!Turns /\ v \in Learning!Turns
    BY DEF JobsInv, Learning!LearningTypeOK
  <2>2. job[u].status = "created" /\ job[v].status = "created" /\ job[u].kind = job[v].kind
    BY <1>1, <1>2, <2>1
  <2>3. QED
    BY <2>2 DEF JobsInv, Learning!OneADay
<1>12. QED
  BY <1>6, <1>7, <1>8, <1>9, <1>10, <1>11 DEF JobsInv

\* The candidate is stored: no other job of the day and kind has become one.
LEMMA CandidateIsStored == JobsInv /\ Learning!Store => JobsInv'
<1> SUFFICES ASSUME JobsInv, Learning!Store PROVE JobsInv'
  OBVIOUS
<1> DEFINE c == Learning!Current
<1>1. /\ worker.pc = "pass" /\ Learning!Eligible(c)
      /\ job' = [job EXCEPT ![c].status = "processing"]
      /\ made' = [made EXCEPT ![c] = made[c] + 1]
      /\ worker' = [worker EXCEPT !.pc = "stored"]
      /\ UNCHANGED <<turns, strays, today, allowed, faults>>
  BY DEF Learning!Store, Learning!SetJob
<1>2. c \in worker.todo /\ c \in Learning!Turns
  BY <1>1, CurrentIsOne DEF JobsInv
<1>3. worker' \in [pc : {"rest", "pass", "stored"}, todo : SUBSET Learning!Turns]
      /\ worker'.pc = "stored" /\ worker'.todo = worker.todo
  BY <1>1 DEF JobsInv, Learning!LearningTypeOK
<1>4. Learning!Current' = c
  BY <1>3 DEF Learning!Current
<1>5. job[c].status = "pending"
  BY <1>1, <1>2 DEF JobsInv, PassFits
<1> HIDE DEF c
<1>6. /\ job' \in [Learning!Turns -> Learning!Job]
      /\ job'[c].status = "processing" /\ job'[c].kind = job[c].kind
      /\ \A u \in Learning!Turns \ {c} : job'[u] = job[u]
  BY <1>1, <1>2, JobIsMarked DEF JobsInv
<1>7. made' \in [Learning!Turns -> Nat] /\ made'[c] = made[c] + 1
      /\ \A u \in Learning!Turns \ {c} : made'[u] = made[u]
  BY <1>1, <1>2 DEF JobsInv, Learning!LearningTypeOK
<1>8. Learning!LearningTypeOK'
  BY <1>1, <1>3, <1>6, <1>7 DEF JobsInv, Learning!LearningTypeOK
<1>9. TurnsFit'
  <2>1. ~(c > turns)
    BY <1>2, <1>5 DEF JobsInv, TurnsFit
  <2>2. QED
    BY <1>1, <1>6, <2>1 DEF JobsInv, TurnsFit
<1>10. PassFits'
  <2>1. worker.todo # {} /\ worker.todo \subseteq Learning!Turns
    BY <1>2 DEF JobsInv, Learning!LearningTypeOK
  <2>2. \A u \in worker.todo \ {c} : job'[u].status = "pending"
    BY <1>1, <1>6, <2>1 DEF JobsInv, PassFits
  <2>3. QED
    BY <1>3, <1>4, <1>6, <2>1, <2>2 DEF PassFits
<1>11. StoredFits'
  <2> SUFFICES ASSUME NEW u \in today \ {c}, job'[u].kind = job'[c].kind
               PROVE  job'[u].status # "created"
    BY <1>1, <1>4 DEF StoredFits
  <2>1. u \in Learning!Turns \ {c} /\ job'[u] = job[u]
    BY <1>6 DEF JobsInv, Learning!LearningTypeOK
  <2>2. u \in Learning!Others(c) \cap today
    BY <1>6, <2>1 DEF Learning!Others
  <2>3. QED
    BY <1>1, <2>1, <2>2 DEF Learning!Eligible, Learning!RateLimited
<1>12. Learning!CandidatesAreAccountedFor'
  <2> SUFFICES ASSUME NEW u \in Learning!Turns
               PROVE  made'[u] = strays[u] + (IF job'[u].status = "created" \/ c = u THEN 1 ELSE 0)
    BY <1>1, <1>3, <1>4 DEF Learning!CandidatesAreAccountedFor
  <2>1. made[u] = strays[u] + (IF job[u].status = "created" THEN 1 ELSE 0)
    BY <1>1 DEF JobsInv, Learning!CandidatesAreAccountedFor
  <2>2. strays[u] \in Nat
    BY LearningAssumption DEF JobsInv, Learning!LearningTypeOK
  <2>3. CASE u = c
    BY <1>5, <1>7, <2>1, <2>2, <2>3
  <2>4. CASE u # c
    BY <1>6, <1>7, <2>1, <2>4
  <2>5. QED
    BY <2>3, <2>4
<1>13. Learning!OneADay'
  <2> SUFFICES ASSUME NEW u \in today, NEW v \in today,
                      job'[u].status = "created", job'[v].status = "created",
                      job'[u].kind = job'[v].kind
               PROVE  u = v
    BY <1>1 DEF Learning!OneADay
  <2>1. u \in Learning!Turns \ {c} /\ v \in Learning!Turns \ {c}
    BY <1>6 DEF JobsInv, Learning!LearningTypeOK
  <2>2. QED
    BY <1>6, <2>1 DEF JobsInv, Learning!OneADay
<1>14. QED
  BY <1>8, <1>9, <1>10, <1>11, <1>12, <1>13 DEF JobsInv

\* A job ends in a pass, stored before or not.
LEMMA OutcomesHold ==
    JobsInv /\ (Learning!Skip \/ Learning!Refuse \/ Learning!Settle \/ Learning!Overtaken) => JobsInv'
<1> SUFFICES ASSUME JobsInv,
                    Learning!Skip \/ Learning!Refuse \/ Learning!Settle \/ Learning!Overtaken
             PROVE  JobsInv'
  OBVIOUS
<1> DEFINE c == Learning!Current
<1>1. worker.pc \in {"pass", "stored"}
  BY DEF Learning!Skip, Learning!Refuse, Learning!Settle, Learning!Overtaken
<1>2. c \in worker.todo /\ c \in Learning!Turns
  BY <1>1, CurrentIsOne DEF JobsInv
<1>3. job[c].status # "created"
      /\ made[c] = strays[c] + (IF worker.pc = "stored" THEN 1 ELSE 0)
  BY <1>1, <1>2 DEF JobsInv, PassFits, Learning!CandidatesAreAccountedFor
<1>4. /\ strays \in [Learning!Turns -> 0..LearnFaults] /\ faults \in 0..LearnFaults
      /\ \A u \in Learning!Turns : strays[u] <= faults
  BY DEF JobsInv, Learning!LearningTypeOK, TurnsFit
<1>5. LearnFaults \in Nat /\ \A u \in Learning!Turns : strays[u] \in Nat
  BY <1>4, LearningAssumption
<1>6. CASE Learning!Skip \/ Learning!Refuse
  <2>1. PICK status \in {"skipped", "failed"} :
           /\ worker.pc = "pass" /\ Learning!SetJob(status) /\ Learning!NextJob
           /\ UNCHANGED <<turns, made, strays, today, allowed, faults>>
    BY <1>6 DEF Learning!Skip, Learning!Refuse
  <2>2. made[c] = strays[c] + (IF status = "created" THEN 1 ELSE 0)
    BY <1>3, <2>1
  <2> HIDE DEF c
  <2>3. QED
    BY <1>4, <1>5, <2>1, <2>2, JobEnds DEF c
<1>7. CASE Learning!Settle
  <2>1. /\ worker.pc = "stored" /\ Learning!SetJob("created") /\ Learning!NextJob
        /\ UNCHANGED <<turns, made, strays, today, allowed, faults>>
    BY <1>7 DEF Learning!Settle
  <2>2. QED
    BY <1>3, <1>4, <1>5, <2>1, JobEnds
<1>8. CASE Learning!Overtaken
  <2>1. /\ worker.pc = "stored" /\ faults < LearnFaults /\ faults' = faults + 1
        /\ Learning!SetJob("failed") /\ Learning!NextJob
        /\ strays' = [strays EXCEPT ![c] = strays[c] + 1]
        /\ UNCHANGED <<turns, made, today, allowed>>
    BY <1>8 DEF Learning!Overtaken
  <2> HIDE DEF c
  <2>2. strays[c] + 1 \in 0..LearnFaults /\ faults' \in 0..LearnFaults /\ faults' >= faults
    BY <1>2, <1>4, <1>5, <2>1
  <2>3. /\ strays' \in [Learning!Turns -> 0..LearnFaults] /\ strays'[c] = strays[c] + 1
        /\ \A u \in Learning!Turns \ {c} : strays'[u] = strays[u]
    BY <1>2, <1>4, <2>1, <2>2
  <2>4. \A u \in Learning!Turns : strays'[u] <= faults'
    BY <1>2, <1>4, <1>5, <2>1, <2>3
  <2>5. made[c] = strays'[c] + (IF "failed" = "created" THEN 1 ELSE 0)
    BY <1>3, <1>5, <1>2, <2>1, <2>3
  <2>6. QED
    BY <2>1, <2>2, <2>3, <2>4, <2>5, JobEnds DEF c
<1>9. QED
  BY <1>6, <1>7, <1>8

\* A pass is cut short: what was stored in it is counted as lost.
LEMMA PassIsCut == JobsInv /\ Learning!Interrupt => JobsInv'
<1> SUFFICES ASSUME JobsInv, Learning!Interrupt PROVE JobsInv'
  OBVIOUS
<1> DEFINE c == Learning!Current
<1>1. /\ worker.pc # "rest" /\ faults < LearnFaults /\ faults' = faults + 1
      /\ worker' = [pc |-> "rest", todo |-> {}]
      /\ strays' = IF worker.pc = "stored" THEN [strays EXCEPT ![c] = strays[c] + 1] ELSE strays
      /\ UNCHANGED <<turns, job, made, today, allowed>>
  BY DEF Learning!Interrupt, Learning!Resting
<1>2. c \in worker.todo /\ c \in Learning!Turns
  BY <1>1, CurrentIsOne DEF JobsInv
<1>3. /\ strays \in [Learning!Turns -> 0..LearnFaults] /\ faults \in 0..LearnFaults
      /\ \A u \in Learning!Turns : strays[u] <= faults
  BY DEF JobsInv, Learning!LearningTypeOK, TurnsFit
<1>4. LearnFaults \in Nat /\ \A u \in Learning!Turns : strays[u] \in Nat
  BY <1>3, LearningAssumption
<1>5. worker.pc = "stored" => job[c].status = "processing"
  BY <1>2 DEF JobsInv, PassFits
<1>6. \A u \in Learning!Turns :
         made[u] = strays[u] + (IF job[u].status = "created" \/ (worker.pc = "stored" /\ c = u)
                                THEN 1 ELSE 0)
  BY DEF JobsInv, Learning!CandidatesAreAccountedFor
<1> HIDE DEF c
<1>7. strays[c] + 1 \in 0..LearnFaults /\ faults' \in 0..LearnFaults
  BY <1>1, <1>2, <1>3, <1>4
<1>8. /\ strays' \in [Learning!Turns -> 0..LearnFaults]
      /\ \A u \in Learning!Turns :
            strays'[u] = strays[u] + (IF worker.pc = "stored" /\ c = u THEN 1 ELSE 0)
  BY <1>1, <1>2, <1>3, <1>4, <1>7
<1>9. Learning!LearningTypeOK'
  BY <1>1, <1>7, <1>8 DEF JobsInv, Learning!LearningTypeOK
<1>10. TurnsFit'
  BY <1>1, <1>3, <1>4, <1>8 DEF JobsInv, TurnsFit
<1>11. PassFits' /\ StoredFits'
  BY <1>1 DEF PassFits, StoredFits
<1>12. Learning!CandidatesAreAccountedFor'
  <2> SUFFICES ASSUME NEW u \in Learning!Turns
               PROVE  made[u] = strays'[u] + (IF job[u].status = "created" THEN 1 ELSE 0)
    BY <1>1 DEF Learning!CandidatesAreAccountedFor
  <2>1. strays[u] \in Nat
    BY <1>4
  <2>2. QED
    BY <1>5, <1>6, <1>8, <2>1
<1>13. Learning!OneADay'
  BY <1>1 DEF JobsInv, Learning!OneADay
<1>14. QED
  BY <1>9, <1>10, <1>11, <1>12, <1>13 DEF JobsInv

LEMMA JobsHold == JobsInv /\ [Learning!LearningNext]_(Learning!learnVars) => JobsInv'
<1> SUFFICES ASSUME JobsInv, [Learning!LearningNext]_(Learning!learnVars) PROVE JobsInv'
  OBVIOUS
<1>1. CASE Learning!ChangeScope
  <2>1. /\ allowed' \in BOOLEAN
        /\ UNCHANGED <<turns, job, made, strays, today, worker, faults>>
    BY <1>1 DEF Learning!ChangeScope
  <2>2. QED
    BY <2>1 DEF JobsInv, Learning!LearningTypeOK, TurnsFit, PassFits, StoredFits, Learning!Current,
                Learning!CandidatesAreAccountedFor, Learning!OneADay
<1>2. CASE Learning!DayPasses
  <2>1. today' = {} /\ UNCHANGED <<turns, job, made, strays, allowed, worker, faults>>
    BY <1>2 DEF Learning!DayPasses
  <2>2. QED
    BY <2>1 DEF JobsInv, Learning!LearningTypeOK, TurnsFit, PassFits, StoredFits, Learning!Current,
                Learning!CandidatesAreAccountedFor, Learning!OneADay
<1>3. CASE UNCHANGED Learning!learnVars
  BY <1>3 DEF Learning!learnVars, JobsInv, Learning!LearningTypeOK, TurnsFit, PassFits, StoredFits,
              Learning!Current, Learning!CandidatesAreAccountedFor, Learning!OneADay
<1>4. QED
  BY <1>1, <1>2, <1>3, TurnCompletes, PassStarts, CandidateIsStored, OutcomesHold, PassIsCut
  DEF Learning!LearningNext, Learning!WorkerStep

\* Every candidate the worker stored belongs to a job marked created, or to an
\* outcome that was lost and counted, and of the jobs of a day at most one of a
\* kind becomes a candidate, whatever passes are cut short
\* (process_pending_learning_jobs).
THEOREM LearningBounded == Learning!LearningSpec => []LearningIsBounded
<1>1. JobsInv => LearningIsBounded
  BY DEF JobsInv, LearningIsBounded, Learning!LearningIsBounded
<1>2. QED
  BY <1>1, JobsStart, JobsHold, PTL DEF Learning!LearningSpec
=============================================================================
