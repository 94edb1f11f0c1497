----------------------------- MODULE VenueTopic -----------------------------
(***************************************************************************)
(* exchange/internal/factoryclient/public_websocket.go: the subscriptions   *)
(* to one key (instrument and kind) of a venue's WebSocket facet share one  *)
(* native topic.  The first Watch starts it, later ones wait until it is    *)
(* ready, the last subscription to close stops it, and closing the facet    *)
(* closes all of them.  private_websocket.go and perp_websocket.go follow   *)
(* the same steps.                                                          *)
(*                                                                          *)
(* The native topic is that of OKX: sdk/okx/ws_client.go keeps one handler  *)
(* per channel and instrument, and Unsubscribe removes whichever is there.  *)
(*                                                                          *)
(* A Watch call, the subscription it makes and the topic object it makes    *)
(* when it is the first are all named by the call.  A context may end at    *)
(* any time, so that its end is no state of its own.                        *)
(***************************************************************************)
CONSTANTS
    Watches,  \* calls of Watch for this key
    None

ASSUME TopicAssumption == None \notin Watches

VARIABLES
    closed,    \* socket.closed
    current,   \* topics[topicKey]
    topic,     \* the topic object each call made, if it was the first
    watch,     \* the calls of watchWebSocketTopic
    closer,    \* the Close of each subscription
    shutdown,  \* the Close of the facet: what it has still to close
    handler    \* Subs[args] of the SDK client: whose callbacks it calls

vars == <<closed, current, topic, watch, closer, shutdown, handler>>

Topic == [subs : SUBSET Watches, starting : BOOLEAN, err : BOOLEAN, leaked : BOOLEAN]

newWebSocketTopic == [subs |-> {}, starting |-> TRUE, err |-> FALSE, leaked |-> FALSE]

\* "starting" is the call of the backend's start; "startok" and "startfail"
\* its return; "finish" the check of startErr and closed before the return.
Watch ==
    [at : {"idle", "starting", "startok", "startfail", "stopping", "waiting",
           "givingup", "finish", "open", "failed"},
     of : Watches \cup {None}]

\* "begun": closed is set; "stop": the topic's stop is called; "stopped":
\* closeFn has returned.
Closer == [at : {"none", "begun", "stop", "stopped", "done"}, of : Watches \cup {None}]

Shutdown == [at : {"none", "subs", "done"}, todo : SUBSET Watches, now : Watches \cup {None}]

Init ==
    /\ closed = FALSE
    /\ current = None
    /\ topic = [w \in Watches |-> newWebSocketTopic]
    /\ watch = [w \in Watches |-> [at |-> "idle", of |-> None]]
    /\ closer = [w \in Watches |-> [at |-> "none", of |-> None]]
    /\ shutdown = [at |-> "none", todo |-> {}, now |-> None]
    /\ handler = None

Goto(w, step) == watch' = [watch EXCEPT ![w] = [@ EXCEPT !.at = step]]
CloserAt(w, step) == closer' = [closer EXCEPT ![w] = [at |-> step, of |-> None]]

-----------------------------------------------------------------------------
\* Watch, up to the end of the first section under socket.mu.
WatchRefused(w) ==
    /\ watch[w].at = "idle"
    /\ closed
    /\ Goto(w, "failed")
    /\ UNCHANGED <<closed, current, topic, closer, shutdown, handler>>

Add(t, w) == [topic EXCEPT ![t] = [@ EXCEPT !.subs = topic[t].subs \cup {w}]]

Enter(w) == current' = w

WatchFirst(w) ==
    /\ watch[w].at = "idle"
    /\ ~closed
    /\ current = None
    /\ Enter(w)
    /\ topic' = Add(w, w)
    /\ watch' = [watch EXCEPT ![w] = [at |-> "starting", of |-> w]]
    /\ UNCHANGED <<closed, closer, shutdown, handler>>

WatchJoins(w) ==
    /\ watch[w].at = "idle"
    /\ ~closed
    /\ current # None
    /\ topic' = Add(current, w)
    /\ watch' = [watch EXCEPT ![w] = [at |-> "waiting", of |-> current]]
    /\ UNCHANGED <<closed, current, closer, shutdown, handler>>

-----------------------------------------------------------------------------
\* The first call starts the native topic.

\* SDK Subscribe: the acknowledged handler replaces the one that is there.
Subscribe(w) == handler' = w

StartSucceeds(w) ==
    /\ watch[w].at = "starting"
    /\ shutdown.at # "done"
    /\ Subscribe(w)
    /\ Goto(w, "startok")
    /\ UNCHANGED <<closed, current, topic, closer, shutdown>>

\* Not acknowledged, timed out, or the context or the facet ended.
StartFails(w) ==
    /\ watch[w].at = "starting"
    /\ Goto(w, "startfail")
    /\ UNCHANGED <<closed, current, topic, closer, shutdown, handler>>

startErr(w) == closed \/ watch[w].at = "startfail"

AfterStartNotReady(w) ==
    /\ current' = IF current = w /\ startErr(w) THEN None ELSE current
    /\ Goto(w, "finish")
    /\ topic' = [topic EXCEPT ![w] = [@ EXCEPT !.err = startErr(w)]]

\* A failed topic is forgotten, and a topic nobody waits for any more is
\* stopped again.
AfterStart(w) ==
    LET unused == topic[w].subs = {} IN
    /\ topic' = [topic EXCEPT ![w] =
                    [@ EXCEPT !.starting = FALSE, !.err = startErr(w)]]
    /\ current' = IF current = w /\ (startErr(w) \/ unused) THEN None ELSE current
    /\ Goto(w, IF unused /\ watch[w].at = "startok" THEN "stopping" ELSE "finish")

StartReturns(w) ==
    /\ watch[w].at \in {"startok", "startfail"}
    /\ AfterStart(w)
    /\ UNCHANGED <<closed, closer, shutdown, handler>>

\* SDK Unsubscribe: by channel and instrument, whoever's handler it is.
Unsubscribe == handler' = None

StopAfterStart(w) ==
    /\ watch[w].at = "stopping"
    /\ Goto(w, "finish")
    /\ UNCHANGED <<closed, current, closer, shutdown>>
    /\ \/ Unsubscribe /\ UNCHANGED topic
       \/ UNCHANGED handler /\ topic' = [topic EXCEPT ![w] = [@ EXCEPT !.leaked = TRUE]]

-----------------------------------------------------------------------------
\* The others wait for it.
Ready(w) ==
    /\ watch[w].at = "waiting"
    /\ ~topic[watch[w].of].starting
    /\ Goto(w, "finish")
    /\ UNCHANGED <<closed, current, topic, closer, shutdown, handler>>

\* The context ended or the facet was closed: the subscription is closed.
GiveUp(w) ==
    /\ watch[w].at = "waiting"
    /\ Goto(w, "givingup")
    /\ IF closer[w].at = "none" THEN CloserAt(w, "begun") ELSE UNCHANGED closer
    /\ UNCHANGED <<closed, current, topic, shutdown, handler>>

GaveUp(w) ==
    /\ watch[w].at = "givingup"
    /\ closer[w].at = "done"
    /\ Goto(w, "failed")
    /\ UNCHANGED <<closed, current, topic, closer, shutdown, handler>>

Outcome(w) ==
    IF topic[watch[w].of].err \/ closed \/ closer[w].at # "none" THEN "failed" ELSE "open"

Finish(w) ==
    /\ watch[w].at = "finish"
    /\ Goto(w, Outcome(w))
    /\ UNCHANGED <<closed, current, topic, closer, shutdown, handler>>

-----------------------------------------------------------------------------
\* typedSubscription.Close, by the consumer or because the context ended.
CloseSubscription(w) ==
    /\ watch[w].at = "open"
    /\ closer[w].at = "none"
    /\ CloserAt(w, "begun")
    /\ UNCHANGED <<closed, current, topic, watch, shutdown, handler>>

\* removeWebSocketTopicSubscription looks the topic up by its key, so that it
\* may find a later one than the subscription's own.
Remaining(t, w) == topic[t].subs \ {w}

NeverLast(t, w) == FALSE
LastOneOfOthers(t, w) == ~topic[t].starting

LastOne(t, w) == Remaining(t, w) = {} /\ ~topic[t].starting

Remove(w) ==
    /\ closer[w].at = "begun"
    /\ UNCHANGED <<closed, watch, shutdown, handler>>
    /\ \/ /\ current = None
          /\ CloserAt(w, "stopped")
          /\ UNCHANGED <<current, topic>>
       \/ /\ current # None
          /\ topic' = [topic EXCEPT ![current] = [@ EXCEPT !.subs = Remaining(current, w)]]
          /\ IF LastOne(current, w)
             THEN /\ current' = None
                  /\ closer' = [closer EXCEPT ![w] = [at |-> "stop", of |-> current]]
             ELSE CloserAt(w, "stopped") /\ UNCHANGED current

\* Outside socket.mu; an error of Unsubscribe leaves the handler there.
Stop(w) ==
    /\ closer[w].at = "stop"
    /\ CloserAt(w, "stopped")
    /\ UNCHANGED <<closed, current, watch, shutdown>>
    /\ \/ Unsubscribe /\ UNCHANGED topic
       \/ /\ UNCHANGED handler
          /\ topic' = [topic EXCEPT ![closer[w].of] = [@ EXCEPT !.leaked = TRUE]]

CloseStreams(w) ==
    /\ closer[w].at = "stopped"
    /\ CloserAt(w, "done")
    /\ UNCHANGED <<closed, current, topic, watch, shutdown, handler>>

-----------------------------------------------------------------------------
\* publicWebSocket.Close
subscriptionsForgotten == {}

subscriptionsLocked == IF current = None THEN {} ELSE topic[current].subs

CloseSocket ==
    /\ shutdown.at = "none"
    /\ closed' = TRUE
    /\ shutdown' = [at |-> "subs", now |-> None, todo |-> subscriptionsLocked]
    /\ UNCHANGED <<current, topic, watch, closer, handler>>

CloseNext(w) ==
    /\ shutdown.at = "subs"
    /\ shutdown.now = None
    /\ w \in shutdown.todo
    /\ shutdown' = [shutdown EXCEPT !.now = w]
    /\ IF closer[w].at = "none" THEN CloserAt(w, "begun") ELSE UNCHANGED closer
    /\ UNCHANGED <<closed, current, topic, watch, handler>>

ClosedOne(w) ==
    /\ shutdown.now = w
    /\ closer[w].at = "done"
    /\ shutdown' = [shutdown EXCEPT !.now = None, !.todo = shutdown.todo \ {w}]
    /\ UNCHANGED <<closed, current, topic, watch, closer, handler>>

CloseBackend ==
    /\ shutdown.at = "subs"
    /\ shutdown.todo = {}
    /\ shutdown' = [shutdown EXCEPT !.at = "done"]
    /\ handler' = None
    /\ UNCHANGED <<closed, current, topic, watch, closer>>

-----------------------------------------------------------------------------
WatchStep(w) ==
    \/ WatchRefused(w)
    \/ WatchFirst(w)
    \/ WatchJoins(w)
    \/ StartSucceeds(w)
    \/ StartFails(w)
    \/ StartReturns(w)
    \/ StopAfterStart(w)
    \/ Ready(w)
    \/ GiveUp(w)
    \/ GaveUp(w)
    \/ Finish(w)

CloseStep(w) ==
    \/ CloseSubscription(w)
    \/ Remove(w)
    \/ Stop(w)
    \/ CloseStreams(w)
    \/ CloseNext(w)
    \/ ClosedOne(w)

Next ==
    \/ CloseSocket
    \/ CloseBackend
    \/ \E w \in Watches : WatchStep(w) \/ CloseStep(w)

Spec == Init /\ [][Next]_vars

\* The start has a timeout of 15 s and Unsubscribe one of its own; the other
\* steps wait for nothing but locks that are held for a moment.
Fairness ==
    /\ WF_vars(CloseBackend)
    /\ \A w \in Watches :
          /\ WF_vars(StartSucceeds(w) \/ StartFails(w))
          /\ WF_vars(StartReturns(w))
          /\ WF_vars(StopAfterStart(w))
          /\ WF_vars(Ready(w))
          /\ WF_vars(GaveUp(w))
          /\ WF_vars(Finish(w))
          /\ WF_vars(Remove(w))
          /\ WF_vars(Stop(w))
          /\ WF_vars(CloseStreams(w))
          /\ WF_vars(CloseNext(w))
          /\ WF_vars(ClosedOne(w))

FairSpec == Spec /\ Fairness

-----------------------------------------------------------------------------
\* The state of the facet and its calls has its types.
TypeOK ==
    /\ closed \in BOOLEAN
    /\ current \in Watches \cup {None}
    /\ topic \in [Watches -> Topic]
    /\ watch \in [Watches -> Watch]
    /\ closer \in [Watches -> Closer]
    /\ shutdown \in Shutdown
    /\ handler \in Watches \cup {None}

\* A subscription handed to its consumer and not closed is one of the topic
\* that the facet knows, whatever other calls failed, gave up or closed.
OpenIsAttached ==
    \A w \in Watches :
        watch[w].at = "open" /\ closer[w].at = "none"
            => current = watch[w].of /\ w \in topic[current].subs

\* The facet starts a native topic only while no other start for the same
\* key is under way: calls share one start.
OneStart ==
    \A w, v \in Watches :
        /\ watch[w].at \in {"starting", "startok"}
        /\ watch[v].at \in {"starting", "startok"}
        => w = v

\* A native topic is running only for a topic that has subscribers or is about
\* to be stopped; else its stop failed or the facet is being closed.
FeedHasOwner ==
    handler # None =>
        \/ current = handler /\ (topic[handler].starting \/ topic[handler].subs # {})
        \/ \E w \in Watches : closer[w].at = "stop" \/ watch[w].at = "stopping"
        \/ topic[handler].leaked
        \/ closed

\* Every call of Watch returns.
WatchReturns ==
    \A w \in Watches : watch[w].at # "idle" ~> watch[w].at \in {"open", "failed"}

\* "Closing the WebSocket facet closes every subscription owned by that facet":
\* each open subscription is closed and the native topic ends for good.
CloseEndsAll ==
    closed ~> [](/\ handler = None
                 /\ \A w \in Watches : watch[w].at = "open" => closer[w].at = "done")

\* "Startup completed and the subscription can receive events": the native
\* topic calls the callbacks of every open subscription's topic.
ActiveMeansFed ==
    \A w \in Watches :
        watch[w].at = "open" /\ closer[w].at = "none" /\ ~closed => handler = watch[w].of
=============================================================================
