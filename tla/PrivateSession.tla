--------------------------- MODULE PrivateSession ---------------------------
(***************************************************************************)
(* The private WebSocket client of the Bitget SDK (sdk/bitget/             *)
(* private_ws.go): one authenticated connection shared by the account      *)
(* topics, the recovery that replaces it when it is lost, the dispatcher   *)
(* that runs the data handlers, and the queue that runs the reconnect      *)
(* hooks.  The callers are the adapter's topic hubs, one per topic, each   *)
(* of which holds its own mutex across Subscribe and Unsubscribe.          *)
(*                                                                         *)
(* A step is what the code does under one mutex.  In particular the loss   *)
(* of a connection (under mu) and the queueing of its "started" hook       *)
(* (after mu is released) are two steps, a reader's check of the current   *)
(* connection and its enqueue are two steps, and the "recovered" callback  *)
(* is five.                                                                *)
(***************************************************************************)
EXTENDS Naturals, Sequences, FiniteSets

CONSTANTS
  Keys,          \* the private topics
  Limit,         \* bitgetPrivateWSHandlerQueueLimit
  MaxConns,      \* connections that may exist at once, current or abandoned
  MaxFaults,     \* bound on what the network and the venue may refuse or lose
  MaxMessages    \* bound on the pushes the venue sends

ASSUME SessionAssumption ==
  /\ Limit \in Nat \ {0}
  /\ MaxConns \in Nat \ {0}
  /\ MaxFaults \in Nat
  /\ MaxMessages \in Nat
  /\ "reconnect" \notin Keys
  /\ "none" \notin Keys

VARIABLES
  conn, auth,        \* the current connection (0: nil) and whether it logged in
  reconnecting, closed, generation,
  subs,              \* topics with a handler
  connectMu, attempt, login,     \* Connect: its holder, its connection, its loginCh
  lifecycleMu, waiter,           \* the holder and the subscription it waits for
  caller,            \* what the hub of each topic is doing
  loop, rconn, todo, \* reconnect(): where it is, its connection, topics to replay
  launch,            \* a launchReconnect not yet run: generation (0: none) and drain
  fed,               \* topics the venue feeds on the current connection
  reader,            \* per connection: the push its readLoop holds
  queue, buffer, busy, blocked, gap, drain,     \* the data dispatcher
  hooks, running, gapOpen,       \* the lifecycle queue
  reported,          \* the last hook called was "started"
  faults, messages   \* bounds

session == <<conn, auth, reconnecting, closed, generation>>
calls == <<subs, lifecycleMu, waiter, caller>>
connecting == <<connectMu, attempt, login>>
recovery == <<loop, rconn, todo>>
dispatcher == <<queue, buffer, busy, blocked, gap, drain>>
lifecycle == <<hooks, running, gapOpen, reported>>
bounds == <<faults, messages>>
vars == <<session, calls, connecting, recovery, launch, fed, reader, dispatcher,
          lifecycle, bounds>>

-----------------------------------------------------------------------------
Conns == 1 .. MaxConns
Owners == Keys \cup {"reconnect"}
NoKey == "none"
Nobody == "none"
Idle == [key |-> NoKey, conn |-> 0, res |-> "wait"]
NoLaunch == [gen |-> 0, drain |-> 0]
Hook(kind, g, d) == [kind |-> kind, gen |-> g, drain |-> d]
NoHook == [kind |-> "none", gen |-> 0, drain |-> 0, at |-> "idle"]

Init ==
  /\ conn = 0 /\ auth = FALSE /\ reconnecting = FALSE /\ closed = FALSE
  /\ generation = 0
  /\ subs = {} /\ lifecycleMu = Nobody /\ waiter = Idle
  /\ caller = [k \in Keys |-> "idle"]
  /\ connectMu = Nobody /\ attempt = 0 /\ login = "none"
  /\ loop = "none" /\ rconn = 0 /\ todo = {}
  /\ launch = NoLaunch
  /\ fed = {}
  /\ reader = [c \in Conns |-> [key |-> NoKey, full |-> FALSE]]
  /\ queue = <<>> /\ buffer = <<>> /\ busy = FALSE
  /\ blocked = FALSE /\ gap = 0 /\ drain = 0
  /\ hooks = <<>> /\ running = NoHook /\ gapOpen = FALSE /\ reported = FALSE
  /\ faults = 0 /\ messages = 0

-----------------------------------------------------------------------------
(* The data dispatcher.                                                    *)

\* closeDrainLocked, in a step that leaves q queued and b in flight.
closeDrainLocked(q, b) == IF b \/ q # <<>> THEN drain ELSE 0

\* The channel beginGap returns: closed at once (0) when nothing is queued or in
\* flight, otherwise the open drain, named after the generation that made it.
drainOf(g) ==
  CASE ~busy /\ queue = <<>> -> 0
    [] drain # 0 -> drain
    [] OTHER -> g

\* Mutant: the gap keeps the generation of the one before.
beginGapUnnumbered(g) ==
  /\ blocked' = TRUE /\ buffer' = <<>>
  /\ drain' = IF ~busy /\ queue = <<>> THEN drain ELSE drainOf(g)
  /\ UNCHANGED <<queue, busy, gap>>

beginGap(g) ==
  /\ blocked' = TRUE /\ gap' = g /\ buffer' = <<>>
  /\ drain' = IF ~busy /\ queue = <<>> THEN drain ELSE drainOf(g)
  /\ UNCHANGED <<queue, busy>>

resetGapBuffer(g) ==
  /\ buffer' = IF blocked /\ gap = g THEN <<>> ELSE buffer
  /\ UNCHANGED <<queue, busy, blocked, gap, drain>>

finishGap(g) ==
  /\ IF closed \/ ~blocked \/ gap # g
     THEN UNCHANGED <<blocked, queue, buffer>>
     ELSE /\ blocked' = FALSE
          /\ queue' = queue \o buffer
          /\ buffer' = <<>>
  /\ UNCHANGED <<busy, gap, drain>>

\* filterBitgetPrivateWSDispatches: the entries of the other topics, in their order.  The
\* n-th of them is the one with n - 1 of them before it.
Without(entries, k) ==
  LET kept == {i \in 1 .. Len(entries) : entries[i] # k}
      nth(n) == CHOOSE i \in kept : Cardinality({j \in kept : j <= i}) = n
  IN  [n \in 1 .. Cardinality(kept) |-> entries[nth(n)]]

dropKey(k) ==
  /\ queue' = Without(queue, k)
  /\ buffer' = Without(buffer, k)
  /\ drain' = closeDrainLocked(queue', busy)
  /\ UNCHANGED <<busy, blocked, gap>>

\* run: a handler is taken off the queue and called, and returns.
HandlerStarts ==
  /\ ~closed /\ ~busy /\ queue # <<>>
  /\ busy' = TRUE
  /\ queue' = Tail(queue)
  /\ UNCHANGED <<session, calls, connecting, recovery, launch, fed, reader,
                 buffer, blocked, gap, drain, lifecycle, bounds>>

HandlerReturns ==
  /\ busy
  /\ busy' = FALSE
  /\ drain' = closeDrainLocked(queue, FALSE)
  /\ UNCHANGED <<session, calls, connecting, recovery, launch, fed, reader,
                 queue, buffer, blocked, gap, lifecycle, bounds>>

-----------------------------------------------------------------------------
(* Losing a connection.                                                    *)

failSubscriptionWaiters(c, w) ==
  IF w.conn = c /\ w.res = "wait" THEN [w EXCEPT !.res = "err"] ELSE w

\* Connection c is given up by its readLoop, by an overflow or by a failed
\* Subscribe.  If it is still the current one, and `recover` holds, recovery starts
\* unless one is running, whose buffered data is then reset if `reset` holds.  The
\* caller runs launchReconnect later.
LoseConnection(c, recover, reset) ==
  IF conn # c
  THEN UNCHANGED <<session, launch, dispatcher>>
  ELSE /\ conn' = 0 /\ auth' = FALSE
       /\ IF recover /\ ~closed /\ ~reconnecting
          THEN /\ reconnecting' = TRUE
               /\ generation' = generation + 1
               /\ beginGap(generation + 1)
               /\ launch' = [gen |-> generation + 1, drain |-> drainOf(generation + 1)]
          ELSE /\ UNCHANGED <<reconnecting, generation, launch>>
               /\ IF reset /\ reconnecting THEN resetGapBuffer(generation)
                                           ELSE UNCHANGED dispatcher
       /\ UNCHANGED closed

\* clearConnection, apart from the waiters and the socket.
ClearConnection(c) ==
  /\ IF c # 0 /\ conn = c
     THEN /\ conn' = 0 /\ auth' = FALSE
          /\ IF reconnecting THEN resetGapBuffer(generation) ELSE UNCHANGED dispatcher
     ELSE UNCHANGED <<conn, auth, dispatcher>>
  /\ UNCHANGED <<reconnecting, closed, generation>>

-----------------------------------------------------------------------------
(* readLoop.                                                               *)

Fault == /\ faults < MaxFaults
         /\ faults' = faults + 1
         /\ UNCHANGED messages

HoldsNothing(c) == reader[c].key = NoKey

\* Only the readLoop of the current connection changes anything: another drops what
\* it reads, and its failure finds nothing left to give up.
Reads(c) == conn = c /\ HoldsNothing(c)

ReadFails(c) ==
  /\ Reads(c) /\ Fault
  /\ LoseConnection(c, auth, TRUE)
  /\ waiter' = failSubscriptionWaiters(c, waiter)
  /\ login' = IF attempt = c /\ login = "none" THEN "err" ELSE login
  /\ UNCHANGED <<subs, lifecycleMu, caller, connectMu, attempt, recovery, fed, reader,
                 lifecycle>>

\* The answer to the login.
ReadLogin(c) ==
  /\ Reads(c) /\ attempt = c /\ login = "none"
  /\ \/ /\ auth' = TRUE /\ login' = "ok"
        /\ UNCHANGED bounds
     \/ /\ Fault                                           \* the venue refuses it
        /\ login' = "err"
        /\ UNCHANGED auth
  /\ UNCHANGED <<conn, reconnecting, closed, generation, calls, connectMu, attempt,
                 recovery, launch, fed, reader, dispatcher, lifecycle>>

\* resolveSubscriptionWaiter: the venue's answer to the subscription waited for.
ReadSubscribed(c) ==
  /\ Reads(c) /\ waiter.conn = c /\ waiter.res = "wait"
  /\ \/ /\ waiter' = [waiter EXCEPT !.res = "ok"]
        /\ fed' = fed \cup {waiter.key}
        /\ UNCHANGED bounds
     \/ /\ Fault                                           \* the venue refuses it
        /\ waiter' = [waiter EXCEPT !.res = "err"]
        /\ UNCHANGED fed
  /\ UNCHANGED <<session, subs, lifecycleMu, caller, connecting, recovery, launch,
                 reader, dispatcher, lifecycle>>

\* dispatchPrivateMessage up to the release of mu: a push for a topic with a
\* handler, on the current connection.  Any other push is dropped.
ReadPush(c, k) ==
  /\ Reads(c) /\ auth /\ k \in fed \cap subs
  /\ messages < MaxMessages /\ messages' = messages + 1
  /\ reader' = [reader EXCEPT ![c].key = k]
  /\ UNCHANGED <<session, calls, connecting, recovery, launch, fed, dispatcher,
                 lifecycle, faults>>

\* Mutant: the buffer of a gap has no limit.
EnqueuePushUnlimited(c) ==
  /\ ~HoldsNothing(c) /\ ~closed
  /\ IF blocked
     THEN buffer' = Append(buffer, reader[c].key) /\ UNCHANGED queue
     ELSE Len(queue) < Limit /\ queue' = Append(queue, reader[c].key) /\ UNCHANGED buffer
  /\ reader' = [reader EXCEPT ![c].key = NoKey]
  /\ UNCHANGED <<session, calls, connecting, recovery, launch, fed, busy, blocked, gap,
                 drain, lifecycle, bounds>>

\* ... and its enqueue, on the dispatcher as it is by then.
EnqueuePush(c) ==
  LET k == reader[c].key
      done == reader' = [reader EXCEPT ![c].key = NoKey]
  IN  /\ ~HoldsNothing(c) /\ ~reader[c].full
      /\ \/ /\ closed
            /\ done /\ UNCHANGED <<buffer, queue>>
         \/ /\ ~closed /\ blocked /\ Len(buffer) < Limit
            /\ buffer' = Append(buffer, k)
            /\ done /\ UNCHANGED queue
         \/ /\ ~closed /\ ~blocked /\ Len(queue) < Limit
            /\ queue' = Append(queue, k)
            /\ done /\ UNCHANGED buffer
         \/ /\ ~closed /\ Len(IF blocked THEN buffer ELSE queue) >= Limit
            /\ reader' = [reader EXCEPT ![c].full = TRUE]
            /\ UNCHANGED <<buffer, queue>>
      /\ UNCHANGED <<session, calls, connecting, recovery, launch, fed, busy,
                     blocked, gap, drain, lifecycle, bounds>>

\* handlePrivateDispatchOverflow: a full queue costs the connection.
handlePrivateDispatchOverflow(c) ==
  /\ reader[c].full
  /\ reader' = [reader EXCEPT ![c] = [key |-> NoKey, full |-> FALSE]]
  /\ IF ~closed /\ conn = c /\ auth
     THEN /\ LoseConnection(c, TRUE, TRUE)
          /\ waiter' = failSubscriptionWaiters(c, waiter)
     ELSE UNCHANGED <<session, launch, dispatcher, waiter>>
  /\ UNCHANGED <<subs, lifecycleMu, caller, connecting, recovery, fed, lifecycle,
                 bounds>>

-----------------------------------------------------------------------------
(* Connect, called by reconnect() and by a topic's Subscribe.              *)

\* Where the caller of Connect goes on, by its result.
Resume(o, ok) ==
  IF o = "reconnect"
  THEN /\ loop' = IF ok THEN "connected" ELSE "sleep"
       /\ UNCHANGED <<caller, lifecycleMu>>
  ELSE /\ caller' = [caller EXCEPT ![o] = IF ok THEN "connected" ELSE "idle"]
       /\ lifecycleMu' = IF ok THEN lifecycleMu ELSE Nobody
       /\ UNCHANGED loop

AtConnect(o) == IF o = "reconnect" THEN loop = "connect" ELSE caller[o] = "connect"

\* The current connection is up, or the client is closed.
ConnectAtOnce(o) ==
  /\ AtConnect(o) /\ connectMu = Nobody
  /\ closed \/ (conn # 0 /\ auth)
  /\ Resume(o, ~closed)
  /\ UNCHANGED <<session, subs, waiter, connecting, rconn, todo, launch, fed,
                 reader, dispatcher, lifecycle, bounds>>

\* The name of a connection is used again once nothing refers to it.
Unused(c) == c \notin {conn, attempt, rconn, waiter.conn} /\ HoldsNothing(c)

\* A new connection is dialled.  One that never logged in was cleared by the Connect
\* that made it, before it released connectMu.
Dial(o) ==
  /\ AtConnect(o) /\ connectMu = Nobody /\ ~closed /\ conn = 0
  /\ \/ \E c \in Conns :
          /\ Unused(c) /\ \A d \in 1 .. c - 1 : ~Unused(d)
          /\ conn' = c /\ attempt' = c
          /\ fed' = {}
          /\ auth' = FALSE /\ login' = "none" /\ connectMu' = o
          /\ UNCHANGED <<caller, lifecycleMu, loop, bounds>>
     \/ /\ Fault
        /\ Resume(o, FALSE)
        /\ UNCHANGED <<conn, auth, attempt, login, connectMu, fed>>
  /\ UNCHANGED <<reconnecting, closed, generation, subs, waiter,
                 rconn, todo, launch, reader, dispatcher, lifecycle>>

\* The wait for the login ends: by loginCh, into which the readLoop of a connection
\* closed meanwhile also puts its failure, or by the timer or the context.
ConnectReturns(o) ==
  /\ connectMu = o
  /\ \/ (login # "none" \/ conn # attempt) /\ UNCHANGED bounds
     \/ login = "none" /\ Fault
  /\ connectMu' = Nobody /\ attempt' = 0 /\ login' = "none"
  /\ LET ready == login = "ok" /\ conn = attempt /\ auth /\ ~closed
     IN  /\ Resume(o, ready)
         /\ IF ready
            THEN UNCHANGED <<session, dispatcher, waiter>>
            ELSE /\ ClearConnection(attempt)
                 /\ waiter' = failSubscriptionWaiters(attempt, waiter)
  /\ UNCHANGED <<subs, rconn, todo, launch, fed, reader, lifecycle>>

-----------------------------------------------------------------------------
(* Subscribe, Unsubscribe and Close, called by the topic hubs.             *)

\* bitgetPrivateTopicHub.start for the first callback of a topic.
Subscribe(k) ==
  /\ caller[k] = "idle" /\ k \notin subs /\ ~closed
  /\ caller' = [caller EXCEPT ![k] = "waiting"]
  /\ UNCHANGED <<session, subs, lifecycleMu, waiter, connecting, recovery, launch,
                 fed, reader, dispatcher, lifecycle, bounds>>

\* lockSubscriptionLifecycle: past any recovery, with lifecycleMu held.  A caller
\* that locks it while recovery runs only unlocks it again.
lockSubscriptionLifecycle(k) ==
  /\ caller[k] = "waiting"
  /\ \/ /\ closed
        /\ caller' = [caller EXCEPT ![k] = "idle"]
        /\ UNCHANGED lifecycleMu
     \/ /\ ~closed /\ ~reconnecting /\ lifecycleMu = Nobody
        /\ caller' = [caller EXCEPT ![k] = "connect"]
        /\ lifecycleMu' = k
  /\ UNCHANGED <<session, subs, waiter, connecting, recovery, launch, fed, reader,
                 dispatcher, lifecycle, bounds>>

\* Mutant: a caller that finds a recovery running waits for it with lifecycleMu held.
SubscribeConnectedLocked(k) ==
  /\ caller[k] = "connected"
  /\ caller' = [caller EXCEPT ![k] = CASE closed -> "idle" [] reconnecting -> "connected"
                                       [] OTHER -> "register"]
  /\ lifecycleMu' = IF closed THEN Nobody ELSE k
  /\ UNCHANGED <<session, subs, waiter, connecting, recovery, launch, fed, reader,
                 dispatcher, lifecycle, bounds>>

\* ... and its second look, after Connect.
SubscribeConnected(k) ==
  /\ caller[k] = "connected"
  /\ LET next == CASE closed -> "idle" [] reconnecting -> "waiting" [] OTHER -> "register"
     IN  /\ caller' = [caller EXCEPT ![k] = next]
         /\ lifecycleMu' = IF next = "register" THEN k ELSE Nobody
  /\ UNCHANGED <<session, subs, waiter, connecting, recovery, launch, fed, reader,
                 dispatcher, lifecycle, bounds>>

\* The handler is stored and the request written, unless the connection is gone.
SubscribeRegister(k) ==
  /\ caller[k] = "register"
  /\ IF conn = 0
     THEN /\ caller' = [caller EXCEPT ![k] = "idle"]
          /\ lifecycleMu' = Nobody
          /\ UNCHANGED <<subs, waiter>>
     ELSE /\ caller' = [caller EXCEPT ![k] = "subscribing"]
          /\ subs' = subs \cup {k}
          /\ waiter' = [key |-> k, conn |-> conn, res |-> "wait"]
          /\ UNCHANGED lifecycleMu
  /\ UNCHANGED <<session, connecting, recovery, launch, fed, reader, dispatcher,
                 lifecycle, bounds>>

\* The wait of subscribeOnConn ends without an answer: the request was written to a
\* connection that is gone, the client closed, or the venue did not answer in time.
Unanswered ==
  /\ waiter.res = "wait"
  /\ \/ (closed \/ conn # waiter.conn) /\ UNCHANGED bounds
     \/ Fault

\* Subscribe returns.  A failure forgets the handler and gives the connection up, and
\* the topics that remain are recovered on another one.
SubscribeReturns(k) ==
  /\ caller[k] = "subscribing"
  /\ caller' = [caller EXCEPT ![k] = "idle"]
  /\ lifecycleMu' = Nobody
  /\ waiter' = Idle
  /\ \/ /\ waiter.res = "ok"
        /\ UNCHANGED <<subs, session, launch, dispatcher, bounds>>
     \/ /\ (waiter.res = "err" /\ UNCHANGED bounds) \/ Unanswered
        /\ subs' = subs \ {k}
        /\ LoseConnection(waiter.conn, subs' # {}, FALSE)
  /\ UNCHANGED <<connecting, recovery, fed, reader, lifecycle>>

\* bitgetPrivateTopicHub.remove of a topic's last callback.
Unsubscribe(k) ==
  /\ caller[k] = "idle" /\ k \in subs /\ lifecycleMu = Nobody
  /\ subs' = subs \ {k}
  /\ dropKey(k)
  /\ fed' = fed \ {k}
  /\ UNCHANGED <<session, lifecycleMu, waiter, caller, connecting, recovery, launch,
                 reader, lifecycle, bounds>>

\* bitgetPrivateWSBackend.Close.
Close ==
  /\ ~closed
  /\ closed' = TRUE /\ reconnecting' = FALSE /\ conn' = 0 /\ auth' = FALSE
  /\ queue' = <<>> /\ buffer' = <<>>
  /\ hooks' = <<>> /\ gapOpen' = FALSE
  /\ UNCHANGED <<generation, calls, connecting, recovery, launch,
                 fed, reader, busy, blocked, gap, drain, running, reported, bounds>>

-----------------------------------------------------------------------------
(* Recovery.                                                               *)

Pending(kind) == \E i \in 1 .. Len(hooks) : hooks[i].kind = kind

\* enqueueStarted: a recovered hook not yet run is withdrawn, so that the gap it would
\* have ended goes on; otherwise a started hook is queued unless the gap is open.  The
\* queue holds at most one entry of each kind, started first (HookOrder): what is left
\* without the recovered one is the started one.
enqueueStarted(g, d) ==
  LET kept == IF Pending("started") THEN <<Head(hooks)>> ELSE <<>>
      needsStarted == ~gapOpen \/ (running.kind = "recovered" /\ ~Pending("started"))
      queued == ~Pending("recovered") /\ needsStarted
  IN  IF closed
      THEN UNCHANGED <<hooks, gapOpen>>
      ELSE /\ hooks' = IF queued THEN Append(kept, Hook("started", g, d)) ELSE kept
           /\ gapOpen' = (gapOpen \/ queued)

launchReconnect ==
  /\ launch # NoLaunch
  /\ enqueueStarted(launch.gen, launch.drain)
  /\ launch' = NoLaunch
  /\ loop' = "sleep"
  /\ UNCHANGED <<session, calls, connecting, rconn, todo, fed, reader, dispatcher,
                 running, reported, bounds>>

\* The second's pause of reconnect() ends, or the client is closed.
ReconnectWakes ==
  /\ loop = "sleep"
  /\ loop' = IF closed THEN "none" ELSE "connect"
  /\ UNCHANGED <<session, calls, connecting, rconn, todo, launch, fed, reader,
                 dispatcher, lifecycle, bounds>>

\* The connection to replay the subscriptions on.
ReconnectConnected ==
  /\ loop = "connected"
  /\ IF conn # 0 /\ auth
     THEN loop' = "replay" /\ rconn' = conn
     ELSE loop' = "sleep" /\ UNCHANGED rconn
  /\ UNCHANGED <<session, calls, connecting, todo, launch, fed, reader, dispatcher,
                 lifecycle, bounds>>

\* resubscribeAll: the saved topics are subscribed again one after the other.
ReplayBegins ==
  /\ loop = "replay" /\ lifecycleMu = Nobody
  /\ lifecycleMu' = "reconnect"
  /\ todo' = subs
  /\ loop' = "replaying"
  /\ UNCHANGED <<session, subs, waiter, caller, connecting, rconn, launch, fed,
                 reader, dispatcher, lifecycle, bounds>>

ReplayRequest ==
  /\ loop = "replaying" /\ waiter = Idle
  /\ \E k \in todo : waiter' = [key |-> k, conn |-> rconn, res |-> "wait"]
  /\ UNCHANGED <<session, subs, lifecycleMu, caller, connecting, recovery, launch,
                 fed, reader, dispatcher, lifecycle, bounds>>

\* Mutant: a replay that fails keeps lifecycleMu.
ReplayAnsweredLocked ==
  /\ loop = "replaying" /\ waiter # Idle
  /\ waiter' = Idle
  /\ \/ /\ waiter.res = "ok"
        /\ todo' = todo \ {waiter.key}
        /\ UNCHANGED <<session, loop, rconn, dispatcher, bounds>>
     \/ /\ (waiter.res = "err" /\ UNCHANGED bounds) \/ Unanswered
        /\ ClearConnection(rconn)
        /\ loop' = "sleep" /\ rconn' = 0 /\ todo' = {}
  /\ UNCHANGED <<lifecycleMu, subs, caller, connecting, launch, fed, reader, lifecycle>>

ReplayAnswered ==
  /\ loop = "replaying" /\ waiter # Idle
  /\ waiter' = Idle
  /\ \/ /\ waiter.res = "ok"
        /\ todo' = todo \ {waiter.key}
        /\ UNCHANGED <<session, lifecycleMu, loop, rconn, dispatcher, bounds>>
     \/ /\ (waiter.res = "err" /\ UNCHANGED bounds) \/ Unanswered
        /\ ClearConnection(rconn)
        /\ lifecycleMu' = Nobody
        /\ loop' = "sleep" /\ rconn' = 0 /\ todo' = {}
  /\ UNCHANGED <<subs, caller, connecting, launch, fed, reader, lifecycle>>

ReplayEnds ==
  /\ loop = "replaying" /\ waiter = Idle /\ todo = {}
  /\ lifecycleMu' = Nobody
  /\ loop' = "commit"
  /\ UNCHANGED <<session, subs, waiter, caller, connecting, rconn, todo, launch,
                 fed, reader, dispatcher, lifecycle, bounds>>

\* Mutant: the connection is not looked at again after the replay.
ReconnectCommitsBlindly ==
  /\ loop = "commit"
  /\ rconn' = 0 /\ loop' = "none"
  /\ hooks' = Append(hooks, Hook("recovered", generation, 0))
  /\ reconnecting' = FALSE
  /\ UNCHANGED <<conn, auth, closed, generation, calls, connecting, todo, launch, fed,
                 reader, dispatcher, running, gapOpen, reported, bounds>>

\* Recovery is over if the connection is still the current one.
ReconnectCommits ==
  /\ loop = "commit"
  /\ rconn' = 0
  /\ IF closed \/ conn # rconn \/ ~auth
     THEN /\ loop' = "sleep"
          /\ UNCHANGED <<hooks, reconnecting>>
     ELSE /\ loop' = "none"
          /\ hooks' = Append(hooks, Hook("recovered", generation, 0))
          /\ reconnecting' = FALSE
  /\ UNCHANGED <<conn, auth, closed, generation, calls, connecting, todo,
                 launch, fed, reader, dispatcher, running, gapOpen, reported, bounds>>

-----------------------------------------------------------------------------
(* The lifecycle queue calls the hooks, one at a time.                     *)

\* Mutant: enqueueRecovered does not wake the queue.
HookTakenOnStarted ==
  /\ ~closed /\ running = NoHook /\ Pending("started")
  /\ running' = [kind |-> Head(hooks).kind, gen |-> Head(hooks).gen,
                 drain |-> Head(hooks).drain, at |-> "called"]
  /\ hooks' = Tail(hooks)
  /\ UNCHANGED <<session, calls, connecting, recovery, launch, fed, reader, dispatcher,
                 gapOpen, reported, bounds>>

HookTaken ==
  /\ ~closed /\ running = NoHook /\ hooks # <<>>
  /\ running' = [kind |-> Head(hooks).kind, gen |-> Head(hooks).gen,
                 drain |-> Head(hooks).drain, at |-> "called"]
  /\ hooks' = Tail(hooks)
  /\ UNCHANGED <<session, calls, connecting, recovery, launch, fed, reader,
                 dispatcher, gapOpen, reported, bounds>>

\* Mutant: the started hook does not wait for the data handlers.
StartedRunsAtOnce ==
  /\ running.kind = "started"
  /\ reported' = TRUE
  /\ running' = NoHook
  /\ UNCHANGED <<session, calls, connecting, recovery, launch, fed, reader, dispatcher,
                 hooks, gapOpen, bounds>>

\* The callback of launchReconnect: the started hook, once the drain is closed; none
\* if the client closes first.
StartedRuns ==
  /\ running.kind = "started"
  /\ \/ /\ running.drain = 0 \/ running.drain # drain
        /\ reported' = TRUE
     \/ /\ closed
        /\ UNCHANGED reported
  /\ running' = NoHook
  /\ UNCHANGED <<session, calls, connecting, recovery, launch, fed, reader,
                 dispatcher, hooks, gapOpen, bounds>>

\* The callback of reconnect(): is the recovery still current?  Then the recovered
\* hook; then, if it still is, the data kept back is released.
IsCurrent(g) == ~closed /\ ~reconnecting /\ generation = g

RecoveredChecks ==
  /\ running.kind = "recovered" /\ running.at \in {"called", "reported"}
  /\ running' = [running EXCEPT !.at =
       CASE ~IsCurrent(running.gen) -> "stale"
         [] running.at = "called" -> "current"
         [] OTHER -> "finish"]
  /\ UNCHANGED <<session, calls, connecting, recovery, launch, fed, reader,
                 dispatcher, hooks, gapOpen, reported, bounds>>

RecoveredRuns ==
  /\ running.at = "current"
  /\ reported' = FALSE
  /\ running' = [running EXCEPT !.at = "reported"]
  /\ UNCHANGED <<session, calls, connecting, recovery, launch, fed, reader,
                 dispatcher, hooks, gapOpen, bounds>>

RecoveredReleases ==
  /\ running.at = "finish"
  /\ finishGap(running.gen)
  /\ running' = [running EXCEPT !.at = "applied"]
  /\ UNCHANGED <<session, calls, connecting, recovery, launch, fed, reader, hooks,
                 gapOpen, reported, bounds>>

\* The queue looks at the result: an applied recovery closes the gap, unless another
\* loss has queued its started hook meanwhile.
RecoveredReturns ==
  /\ running.at \in {"stale", "applied"}
  /\ running' = NoHook
  /\ gapOpen' = (gapOpen /\ (running.at = "stale" \/ Pending("started")))
  /\ UNCHANGED <<session, calls, connecting, recovery, launch, fed, reader,
                 dispatcher, hooks, reported, bounds>>

-----------------------------------------------------------------------------
BeginConnect(o) == ConnectAtOnce(o) \/ Dial(o)
Reading(c) == ReadLogin(c) \/ ReadSubscribed(c) \/ EnqueuePush(c)
                \/ handlePrivateDispatchOverflow(c)
Subscribing(k) == SubscribeConnected(k) \/ SubscribeRegister(k) \/ SubscribeReturns(k)
Recovering == launchReconnect \/ ReconnectWakes \/ ReconnectConnected \/ ReplayRequest
                \/ ReplayAnswered \/ ReplayEnds \/ ReconnectCommits
Dispatching == HandlerStarts \/ HandlerReturns
Hooking == HookTaken \/ StartedRuns \/ RecoveredChecks \/ RecoveredRuns
             \/ RecoveredReleases \/ RecoveredReturns

Next ==
  \/ \E o \in Owners : BeginConnect(o) \/ ConnectReturns(o)
  \/ \E c \in Conns : Reading(c) \/ ReadFails(c) \/ \E k \in Keys : ReadPush(c, k)
  \/ \E k \in Keys : Subscribe(k) \/ lockSubscriptionLifecycle(k) \/ Subscribing(k)
                        \/ Unsubscribe(k)
  \/ Close
  \/ ReplayBegins \/ Recovering \/ Dispatching \/ Hooking

Spec == Init /\ [][Next]_vars

\* Every goroutine runs, handlers and hooks return, timers expire, and the venue
\* answers all but the bounded number of requests that Fault counts.  A Subscribe that
\* waits for lifecycleMu gets it in the end: Go's mutexes do not starve a waiter.
FairSpec ==
  /\ Spec
  /\ \A o \in Owners : WF_vars(BeginConnect(o)) /\ WF_vars(ConnectReturns(o))
  /\ \A c \in Conns : WF_vars(Reading(c))
  /\ \A k \in Keys : SF_vars(lockSubscriptionLifecycle(k)) /\ WF_vars(Subscribing(k))
  /\ WF_vars(ReplayBegins) /\ WF_vars(Recovering)
  /\ WF_vars(Dispatching) /\ WF_vars(Hooking)

-----------------------------------------------------------------------------
\* The lifecycle queue never holds more than a started and a recovered hook, in that
\* order.
HookOrder ==
  /\ Len(hooks) <= 2
  /\ \A i \in 1 .. Len(hooks) :
       hooks[i].kind = (IF i = 1 /\ Pending("started") THEN "started" ELSE "recovered")
  /\ Len(hooks) = 2 => Pending("started")

TypeOK ==
  /\ conn \in 0 .. MaxConns /\ rconn \in 0 .. MaxConns /\ attempt \in 0 .. MaxConns
  /\ auth \in BOOLEAN /\ reconnecting \in BOOLEAN /\ closed \in BOOLEAN
  /\ busy \in BOOLEAN /\ blocked \in BOOLEAN
  /\ gapOpen \in BOOLEAN /\ reported \in BOOLEAN
  /\ generation \in Nat /\ gap \in 0 .. generation /\ drain \in 0 .. generation
  /\ subs \subseteq Keys /\ todo \subseteq Keys
  /\ lifecycleMu \in Owners \cup {Nobody} /\ connectMu \in Owners \cup {Nobody}
  /\ login \in {"none", "ok", "err"}
  /\ waiter \in [key : Keys \cup {NoKey}, conn : 0 .. MaxConns, res : {"wait", "ok", "err"}]
  /\ caller \in [Keys -> {"idle", "waiting", "connect", "connected", "register",
                          "subscribing"}]
  /\ loop \in {"none", "sleep", "connect", "connected", "replay", "replaying",
               "commit"}
  /\ fed \subseteq Keys
  /\ reader \in [Conns -> [key : Keys \cup {NoKey}, full : BOOLEAN]]
  /\ Len(queue) <= Limit /\ Len(buffer) <= Limit
  /\ HookOrder
  /\ faults \in 0 .. MaxFaults /\ messages \in 0 .. MaxMessages

\* Between the started hook and the recovered hook no data handler runs and none is
\* waiting to: what the old connection delivered was handled before started, and what
\* the new one delivers is kept back until recovered (beginGap's drain, finishGap).
QuietGap == reported /\ ~closed => queue = <<>> /\ ~busy

\* Whenever no call is changing the subscriptions and no recovery is running, every
\* topic with a handler is fed by the current, authenticated connection.
SubscriptionsAreFed ==
  ~closed /\ ~reconnecting /\ lifecycleMu = Nobody /\ subs # {} =>
    conn # 0 /\ auth /\ subs \subseteq fed

\* Once recovery is over and the hooks have run, data flows and the gap is closed in
\* every place that keeps it: dispatcher, lifecycle queue and hook user.
SettledFlows ==
  ~closed /\ ~reconnecting /\ hooks = <<>> /\ running = NoHook =>
    ~blocked /\ ~gapOpen /\ ~reported

\* "SetReconnectHooks reports unexpected authenticated-session loss": while a lost
\* connection is being replaced, the hook user has been told or is about to be.
LossIsReported ==
  reconnecting =>
    reported \/ launch # NoLaunch \/ Pending("started") \/ running.kind = "started"

\* A recovery, once started, ends.
RecoveryEnds == reconnecting ~> ~reconnecting

\* A gap reported to the hook user is reported as recovered, unless the client closes.
GapEnds == reported ~> (~reported \/ closed)

\* Every Subscribe returns: connectMu, lifecycleMu and the wait for a running
\* recovery never lock each other out.
SubscribeEnds == \A k \in Keys : caller[k] # "idle" ~> caller[k] = "idle"
=============================================================================
