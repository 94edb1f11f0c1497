------------------------------- MODULE Hub -------------------------------
(***************************************************************************)
(* gateway/hub/hub.go: one upstream feed fanned out to many sinks.          *)
(*                                                                          *)
(* A topic object is opened by the first subscriber of a key.  Each object  *)
(* has a goroutine (run) that calls the source, and at most one linger      *)
(* timer.  hub.mu makes every body below atomic; a timer whose callback     *)
(* has started but still waits for hub.mu is "fired": Stop() comes too late *)
(* for it.                                                                  *)
(*                                                                          *)
(* Objects and timers are allocated from constant sets and go back to them  *)
(* when nothing refers to them, so behaviours are infinite and states are   *)
(* not.                                                                     *)
(***************************************************************************)
EXTENDS Naturals, Sequences, SequencesExt

CONSTANTS
    Keys,              \* topic keys
    Sinks,             \* subscribers (WebSocket connections)
    Channels,          \* message channels of a topic
    SourceChannels,    \* the channels its source emits on
    RetainedChannels,  \* those of them it emits with retain = true
    StatusChannel,     \* key.Channel + ".status", the hub's own channel
    Payloads,          \* encoded messages of a source
    Down,              \* the payload {"connected": false}
    NoPayload,
    Objects,           \* topic objects
    NoTopic,
    Timers,            \* linger timers
    NoTimer,
    MaxBackoff         \* 30 (seconds) in the code

ASSUME HubAssumption ==
    /\ RetainedChannels \subseteq SourceChannels
    /\ SourceChannels \subseteq Channels
    /\ StatusChannel \in Channels
    /\ Down \notin Payloads
    /\ NoPayload \notin Payloads \cup {Down}
    /\ NoTopic \notin Objects
    /\ NoTimer \notin Timers
    /\ MaxBackoff \in Nat \ {0}

VARIABLES
    topics,  \* hub.topics: the open topic object of each key
    closed,  \* hub.closed
    topic,   \* the topic objects
    run,     \* the goroutine of each object: where it is, its backoff
    timer,   \* the timers, and the object each will close
    view,    \* the last payload each sink got per key and channel
    missed   \* the <<key, channel>> pairs whose last payload a sink refused

vars == <<topics, closed, topic, run, timer, view, missed>>

Payload == Payloads \cup {Down}

Topic ==
    [key       : Keys,
     sinks     : SUBSET Sinks,
     retained  : [Channels -> Payload \cup {NoPayload}],
     order     : Seq(Channels),
     cancelled : BOOLEAN,
     linger    : Timers \cup {NoTimer}]

NewTopic(k) ==
    [key       |-> k,
     sinks     |-> {},
     retained  |-> [ch \in Channels |-> NoPayload],
     order     |-> <<>>,
     cancelled |-> FALSE,
     linger    |-> NoTimer]

\* "none": no goroutine; "loop": testing ctx.Err(); "source": inside the
\* source; "failed": the source returned; "backoff": waiting to retry.
Run ==
    [at      : {"none", "loop", "source", "failed", "backoff"},
     backoff : 1 .. 2 * MaxBackoff]

Timer == [state : {"free", "armed", "fired"}, of : Objects \cup {NoTopic}]

Live(g) == run[g].at # "none" /\ ~topic[g].cancelled

\* An object nothing refers to any more: its goroutine is gone and no timer
\* callback holds it.
Fresh(g) ==
    /\ run[g].at = "none"
    /\ \A t \in Timers : timer[t].of # g

Init ==
    /\ topics = [k \in Keys |-> NoTopic]
    /\ closed = FALSE
    /\ \E k \in Keys : topic = [g \in Objects |-> NewTopic(k)]
    /\ run = [g \in Objects |-> [at |-> "none", backoff |-> 1]]
    /\ timer = [t \in Timers |-> [state |-> "free", of |-> NoTopic]]
    /\ view = [s \in Sinks |-> [k \in Keys |-> [ch \in Channels |-> NoPayload]]]
    /\ missed = [s \in Sinks |-> {}]

-----------------------------------------------------------------------------
\* Timers.

FreeTimer == [state |-> "free", of |-> NoTopic]

\* time.Timer.Stop: a callback that has started is not stopped.
Stop(tm, t) ==
    IF t # NoTimer /\ tm[t].state = "armed"
    THEN [tm EXCEPT ![t] = FreeTimer]
    ELSE tm

\* The linger period of t ends: its callback starts and asks for hub.mu.
TimerExpires(t) ==
    /\ timer[t].state = "armed"
    /\ timer' = [timer EXCEPT ![t].state = "fired"]
    /\ UNCHANGED <<topics, closed, topic, run, view, missed>>

-----------------------------------------------------------------------------
\* Subscribe, Unsubscribe, the linger callback and Close.

\* Faulty variant: current.linger = nil is forgotten.
AttachKeepsTimer(o, s) == [o EXCEPT !.sinks = @ \cup {s}]

Attach(o, s) == [o EXCEPT !.linger = NoTimer, !.sinks = @ \cup {s}]

\* Faulty variant: a late joiner is not sent the retained payloads.
ReplayNothing(k, o, s, lost) == UNCHANGED <<view, missed>>

\* Sink s of topic object o is sent the retained payloads of the channels in
\* order; Send refuses those in `lost`.
Replay(k, o, s, lost) ==
    LET sent == ToSet(o.order) IN
    /\ view' = [view EXCEPT ![s][k] =
                    [ch \in Channels |-> IF ch \in sent \ lost THEN o.retained[ch] ELSE @[ch]]]
    /\ missed' = [missed EXCEPT ![s] =
                    (@ \ {<<k, ch>> : ch \in sent}) \cup {<<k, ch>> : ch \in sent \cap lost}]

SubscribeOpen(k, s, lost) ==
    /\ ~closed
    /\ topics[k] # NoTopic
    /\ LET g == topics[k] IN
       /\ lost \subseteq ToSet(topic[g].order)
       /\ timer' = Stop(timer, topic[g].linger)
       /\ topic' = [topic EXCEPT ![g] = Attach(@, s)]
       /\ Replay(k, topic[g], s, lost)
    /\ UNCHANGED <<topics, closed, run>>

SubscribeNew(k, s, g) ==
    /\ ~closed
    /\ topics[k] = NoTopic
    /\ Fresh(g)
    /\ topics' = [topics EXCEPT ![k] = g]
    /\ topic' = [topic EXCEPT ![g] = Attach(NewTopic(k), s)]
    /\ run' = [run EXCEPT ![g] = [at |-> "loop", backoff |-> 1]]
    /\ UNCHANGED <<closed, timer, view, missed>>

Detach(o, s) == [o EXCEPT !.sinks = @ \ {s}]

\* The last sink leaves: time.AfterFunc arms a timer for the object.
Linger(o, t) == [o EXCEPT !.sinks = {}, !.linger = t]

ArmLinger(g, t) ==
    /\ timer[t].state = "free"
    /\ timer' = [timer EXCEPT ![t] = [state |-> "armed", of |-> g]]
    /\ topic' = [topic EXCEPT ![g] = Linger(@, t)]

Cancel(o) == [o EXCEPT !.cancelled = TRUE]

Unsubscribe(k, s) ==
    /\ topics[k] # NoTopic
    /\ LET g == topics[k] IN
       \/ /\ topic[g].sinks \ {s} # {} \/ topic[g].linger # NoTimer
          /\ topic' = [topic EXCEPT ![g] = Detach(@, s)]
          /\ UNCHANGED timer
       \/ /\ topic[g].sinks \ {s} = {}
          /\ topic[g].linger = NoTimer
          /\ \E t \in Timers : ArmLinger(g, t)
    /\ UNCHANGED <<topics, closed, run, view, missed>>

\* Faulty variants: the callback forgets one half of its test.
LingerClosesAnyObject(g) == topic[g].sinks = {}
LingerClosesInUse(g) == topics[topic[g].key] = g

\* The callback's test: the object is still the open topic, without sinks.
LingerCloses(g) ==
    /\ topics[topic[g].key] = g
    /\ topic[g].sinks = {}

LingerCallback(t) ==
    /\ timer[t].state = "fired"
    /\ timer' = [timer EXCEPT ![t] = FreeTimer]
    /\ LET g == timer[t].of IN
       IF LingerCloses(g)
       THEN /\ topic' = [topic EXCEPT ![g] = Cancel(@)]
            /\ topics' = [topics EXCEPT ![topic[g].key] = NoTopic]
       ELSE UNCHANGED <<topic, topics>>
    /\ UNCHANGED <<closed, run, view, missed>>

Close ==
    /\ closed' = TRUE
    /\ LET open == {topics[k] : k \in Keys} \ {NoTopic}
           lingering == {topic[g].linger : g \in open} IN
       /\ topic' = [g \in Objects |->
                        IF g \in open THEN Cancel(topic[g]) ELSE topic[g]]
       /\ timer' = [t \in Timers |->
                        IF t \in lingering /\ timer[t].state = "armed" THEN FreeTimer ELSE timer[t]]
    /\ topics' = [k \in Keys |-> NoTopic]
    /\ UNCHANGED <<run, view, missed>>

-----------------------------------------------------------------------------
\* emit, and the goroutine of a topic.

\* Payload p goes to every sink of object g; Send refuses it for those in
\* `lost`.
Fanout(g, ch, p, lost) ==
    LET k == topic[g].key
        got == topic[g].sinks \ lost
    IN
    /\ view' = [s \in Sinks |-> IF s \in got THEN [view[s] EXCEPT ![k][ch] = p] ELSE view[s]]
    /\ missed' = [s \in Sinks |->
                    IF s \in got THEN missed[s] \ {<<k, ch>>}
                    ELSE IF s \in topic[g].sinks THEN missed[s] \cup {<<k, ch>>}
                    ELSE missed[s]]

Retain(o, ch, p) ==
    [o EXCEPT !.retained[ch] = p,
              !.order = IF o.retained[ch] = NoPayload THEN Append(@, ch) ELSE @]

\* Faulty variant: emit does not look at its context.
NeverMuted(g) == FALSE

\* if ctx.Err() != nil { return } of emit, under hub.mu.
Muted(g) == topic[g].cancelled

\* emit(message, retain), called by the source or by a goroutine it left
\* behind.  A cancelled context makes it return at once.
Emit(g, ch, p, lost) ==
    /\ run[g].at \in {"source", "failed", "backoff"}
    /\ ~Muted(g)
    /\ lost \subseteq topic[g].sinks
    /\ topic' = IF ch \in RetainedChannels
                THEN [topic EXCEPT ![g] = Retain(@, ch, p)]
                ELSE topic
    /\ Fanout(g, ch, p, lost)
    /\ UNCHANGED <<topics, closed, run, timer>>

NoRun == [at |-> "none", backoff |-> 1]

\* for ctx.Err() == nil { err := hub.source(...)
EnterSource(g) ==
    /\ run[g].at = "loop"
    /\ run' = [run EXCEPT ![g] = IF topic[g].cancelled THEN NoRun ELSE [@ EXCEPT !.at = "source"]]
    /\ UNCHANGED <<topics, closed, topic, timer, view, missed>>

\* The source returns.  It had run for more than a minute, or it had not.
SourceReturns(g) ==
    /\ run[g].at = "source"
    /\ \E b \in {1, run[g].backoff} :
          run' = [run EXCEPT ![g] = IF topic[g].cancelled
                                    THEN NoRun
                                    ELSE [at |-> "failed", backoff |-> b]]
    /\ UNCHANGED <<topics, closed, topic, timer, view, missed>>

\* The hub tells the sinks that the feed is down, and does not retain it.
EmitDown(g, lost) ==
    /\ run[g].at = "failed"
    /\ run' = [run EXCEPT ![g].at = "backoff"]
    /\ IF Muted(g)
       THEN lost = {} /\ UNCHANGED <<view, missed>>
       ELSE lost \subseteq topic[g].sinks /\ Fanout(g, StatusChannel, Down, lost)
    /\ UNCHANGED <<topics, closed, topic, timer>>

NextBackoff(b) == IF b < MaxBackoff THEN 2 * b ELSE b

\* Faulty variant: the goroutine ends after a failure.
AfterBackoffStops(r) == NoRun

AfterBackoff(r) == [at |-> "loop", backoff |-> NextBackoff(r.backoff)]

\* select { <-ctx.Done(): return; <-time.After(...) }: with both ready, either.
Retry(g) ==
    /\ run[g].at = "backoff"
    /\ \/ /\ topic[g].cancelled
          /\ run' = [run EXCEPT ![g] = NoRun]
       \/ run' = [run EXCEPT ![g] = AfterBackoff(@)]
    /\ UNCHANGED <<topics, closed, topic, timer, view, missed>>

-----------------------------------------------------------------------------
RunStep(g) ==
    \/ EnterSource(g)
    \/ SourceReturns(g)
    \/ \E lost \in SUBSET Sinks : EmitDown(g, lost)
    \/ Retry(g)

Next ==
    \/ \E k \in Keys, s \in Sinks :
          \/ \E lost \in SUBSET Channels : SubscribeOpen(k, s, lost)
          \/ \E g \in Objects : SubscribeNew(k, s, g)
          \/ Unsubscribe(k, s)
    \/ \E t \in Timers : TimerExpires(t) \/ LingerCallback(t)
    \/ Close
    \/ \E g \in Objects :
          \/ RunStep(g)
          \/ \E ch \in SourceChannels, p \in Payloads, lost \in SUBSET Sinks : Emit(g, ch, p, lost)

Spec == Init /\ [][Next]_vars

\* A timer ends and its callback gets the lock; a source returns once its
\* context has ended (the contract of type Source) and the goroutine goes on.
Fairness ==
    /\ \A t \in Timers : WF_vars(TimerExpires(t)) /\ WF_vars(LingerCallback(t))
    /\ \A g \in Objects :
          /\ WF_vars(EnterSource(g))
          /\ WF_vars(topic[g].cancelled /\ SourceReturns(g))
          /\ WF_vars(\E lost \in SUBSET Sinks : EmitDown(g, lost))
          /\ WF_vars(Retry(g))

FairSpec == Spec /\ Fairness

-----------------------------------------------------------------------------
\* Properties.

\* Every variable has its type; the retry delay never passes twice its cap.
TypeOK ==
    /\ topics \in [Keys -> Objects \cup {NoTopic}]
    /\ closed \in BOOLEAN
    /\ topic \in [Objects -> Topic]
    /\ run \in [Objects -> Run]
    /\ timer \in [Timers -> Timer]
    /\ view \in [Sinks -> [Keys -> [Channels -> Payload \cup {NoPayload}]]]
    /\ missed \in [Sinks -> SUBSET (Keys \X Channels)]

\* A goroutine whose context is alive belongs to the open topic of its key:
\* a key never has two upstream feeds at work, and none is left behind
\* without an entry in hub.topics through which it could be cancelled.
OneUpstream ==
    \A g \in Objects : Live(g) => topics[topic[g].key] = g

\* hub.topics holds only objects of that key whose context is alive and whose
\* goroutine runs: a subscriber never joins a topic that nobody feeds.
OpenTopicIsFed ==
    \A k \in Keys : topics[k] # NoTopic => Live(topics[k]) /\ topic[topics[k]].key = k

\* An open topic without sinks has a timer on its way to close it, and one
\* with sinks has none in its linger field, so the next last Unsubscribe
\* arms one.
IdleTopicHasTimer ==
    \A k \in Keys :
        LET g == topics[k] IN
        g # NoTopic =>
            IF topic[g].sinks = {}
            THEN topic[g].linger # NoTimer /\ timer[topic[g].linger].of = g
            ELSE topic[g].linger = NoTimer

\* The replay order lists every retained channel exactly once.
OrderIsRetained ==
    \A k \in Keys :
        LET o == topic[topics[k]] IN
        topics[k] # NoTopic =>
            /\ ToSet(o.order) = {ch \in Channels : o.retained[ch] # NoPayload}
            /\ IsInjective(o.order)

\* A subscriber, early or late, has for every retained channel the payload
\* kept for replay, unless its own queue refused it: the package comment's
\* "latest value per channel".
SubscribersInSync ==
    \A k \in Keys : topics[k] # NoTopic =>
        LET o == topic[topics[k]] IN
        \A s \in o.sinks, ch \in ToSet(o.order) :
            <<k, ch>> \in missed[s] \/ view[s][k][ch] = o.retained[ch]


\* A topic that has subscribers disappears only in Close: no late timer
\* callback, of this topic or of an earlier one, takes it away.
SubscribersKeepTopic ==
    [][\A k \in Keys :
          topics[k] # NoTopic /\ topic[topics[k]].sinks # {} /\ ~closed'
              => topics'[k] = topics[k]]_vars

\* After Close nothing is sent to any sink, whatever the sources still emit.
ClosedHubIsSilent == [][closed => UNCHANGED <<view, missed>>]_vars

\* A topic that stays without subscribers is closed.
IdleTopicCloses ==
    \A k \in Keys, g \in Objects :
        (topics[k] = g /\ topic[g].sinks = {}) ~> (topics[k] # g \/ topic[g].sinks # {})

\* A feed whose source failed is started again unless it was cancelled.
FailedFeedRestarts ==
    \A g \in Objects :
        (run[g].at = "failed") ~> (run[g].at = "source" \/ topic[g].cancelled)

=============================================================================
