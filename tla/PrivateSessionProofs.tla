------------------------ MODULE PrivateSessionProofs ------------------------
(***************************************************************************)
(* Proofs about PrivateSession, for any topics, limits and numbers of       *)
(* losses.                                                                  *)
(***************************************************************************)
EXTENDS PrivateSession, FiniteSetTheorems, TLAPS

Entry == [kind : {"started", "recovered"}, gen : Nat, drain : Nat]

\* The types the argument needs; a gap is always that of the last generation.
Shape ==
  /\ generation \in Nat /\ drain \in Nat /\ gap = generation
  /\ launch \in [gen : Nat, drain : Nat]
  /\ hooks \in Seq(Entry)
  /\ running \in [kind : {"none", "started", "recovered"}, gen : Nat, drain : Nat,
                  at : {"idle", "called", "current", "reported", "finish", "applied", "stale"}]
  /\ running.at \notin {"idle", "called"} => running.kind = "recovered"

\* reconnect() runs, or is about to, only while the session is reconnecting.
LoopInv ==
  /\ loop # "none" => reconnecting /\ launch = NoLaunch
  /\ launch # NoLaunch => reconnecting
  /\ connectMu = "reconnect" => loop = "connect"

\* A started hook is at the head of the queue, and the queue's gap is then open.
OrderInv ==
  /\ \A i \in 1 .. Len(hooks) : hooks[i].kind = "started" => i = 1
  /\ Pending("started") => gapOpen

\* A recovered hook is of the last generation only while no newer loss is known.
GenInv ==
  /\ \A i \in 1 .. Len(hooks) : hooks[i].kind = "recovered" =>
       hooks[i].gen <= generation /\ (reconnecting => hooks[i].gen < generation)
  /\ running.kind = "recovered" =>
       running.gen <= generation /\ (reconnecting \/ Pending("started") => running.gen < generation)

Quiet == queue = <<>> /\ ~busy

\* A started hook that waits for drain d runs after the last handler, if at all.
Waits(d) == blocked /\ (Quiet \/ (d # 0 /\ d = drain))

DrainInv ==
  /\ launch # NoLaunch => Waits(launch.drain)
  /\ \A i \in 1 .. Len(hooks) : hooks[i].kind = "started" => Waits(hooks[i].drain)
  /\ running.kind = "started" => Waits(running.drain)
  /\ reported => blocked /\ Quiet
  /\ running.at \in {"reported", "finish"} => ~reported

\* The recovered hook of the last generation is queued.
Queued == \E i \in 1 .. Len(hooks) : hooks[i].kind = "recovered" /\ hooks[i].gen = generation

\* ... or it is running, at one of these stages.
Ahead(stages) ==
  Queued \/ (running.kind = "recovered" /\ running.gen = generation /\ running.at \in stages)

\* After a recovery, what it has yet to end will be ended by its hook.
SettleInv ==
  ~reconnecting =>
    /\ blocked => Ahead({"called", "current", "reported", "finish"})
    /\ reported => Ahead({"called", "current"})
    /\ gapOpen => Ahead({"called", "current", "reported", "finish", "applied"})
    /\ Pending("started") \/ running.kind = "started" => Queued

IInv == Shape /\ (closed \/ (LoopInv /\ OrderInv /\ GenInv /\ DrainInv /\ SettleInv))

\* What the invariant is about, apart from reconnect() and Connect.
core == <<closed, reconnecting, generation, launch, queue, busy, blocked, gap, drain,
          hooks, running, gapOpen, reported>>

-----------------------------------------------------------------------------
LEMMA InitIInv == Init => IInv
  <1> SUFFICES ASSUME Init PROVE IInv
    OBVIOUS
  <1> USE DEF Init
  <1>1. Shape
    BY DEF Shape, NoLaunch, NoHook
  <1>2. LoopInv /\ OrderInv
    BY DEF LoopInv, OrderInv, Nobody, Pending
  <1>3. GenInv /\ DrainInv /\ SettleInv
    BY DEF GenInv, DrainInv, SettleInv, NoHook, Pending
  <1>4. QED
    BY <1>1, <1>2, <1>3 DEF IInv

LEMMA EntryTypes ==
    ASSUME Shape
    PROVE  \A i \in 1 .. Len(hooks) : /\ hooks[i] \in Entry /\ hooks[i].gen \in Nat
                                      /\ hooks[i].drain \in Nat
                                      /\ hooks[i].kind \in {"started", "recovered"}
  <1>1. \A i \in 1 .. Len(hooks) : hooks[i] \in Entry
    BY DEF Shape
  <1>2. QED
    BY <1>1 DEF Entry

\* Forgetting a topic lengthens no queue.
IsSeq(s) == \E S : s \in Seq(S)

LEMMA WithoutNothing == ASSUME NEW k PROVE Without(<<>>, k) = <<>>
  <1> DEFINE kept == {i \in 1 .. Len(<<>>) : <<>>[i] # k}
  <1>1. kept = {} /\ Cardinality({}) = 0
    BY FS_EmptySet
  <1>2. QED
    BY <1>1 DEF Without

LEMMA WithoutIsShorter ==
    ASSUME NEW s, IsSeq(s), NEW k
    PROVE  IsSeq(Without(s, k)) /\ Len(Without(s, k)) <= Len(s)
  <1> DEFINE kept == {i \in 1 .. Len(s) : s[i] # k}
             nth(n) == CHOOSE i \in kept : Cardinality({j \in kept : j <= i}) = n
             m == Cardinality(kept)
             S == {s[nth(n)] : n \in 1 .. m}
             w == [n \in 1 .. m |-> s[nth(n)]]
  <1>1. Len(s) \in Nat
    BY DEF IsSeq
  <1>2. IsFiniteSet(1 .. Len(s)) /\ Cardinality(1 .. Len(s)) = Len(s)
    <2>1. ASSUME NEW n \in Nat PROVE IsFiniteSet(1 .. n) /\ Cardinality(1 .. n) = n
      <3>1. IsFiniteSet(1 .. n) /\ Cardinality(1 .. n) = IF 1 > n THEN 0 ELSE n - 1 + 1
        BY ONLY FS_Interval, n \in Int, 1 \in Int
      <3>2. QED
        BY <3>1
    <2>2. QED
      BY <1>1, <2>1
  <1>3. m <= Len(s) /\ m \in Nat
    BY <1>2, FS_Subset, FS_CardinalityType
  <1>4. w = Without(s, k)
    BY DEF Without
  <1> HIDE DEF kept, nth
  <1>5. w \in [1 .. m -> S]
    OBVIOUS
  <1> HIDE DEF w, S, m
  <1>6. w \in Seq(S) /\ Len(w) = m
    BY <1>3, <1>5
  <1>7. QED
    BY <1>3, <1>4, <1>6 DEF IsSeq

\* reconnect() and Connect go on.
LEMMA LoopMoves ==
    ASSUME IInv, UNCHANGED core,
           closed \/ /\ loop' # "none" => loop # "none"
                     /\ connectMu' = "reconnect" => loop' = "connect"
    PROVE  IInv'
  <1>1. UNCHANGED <<closed, reconnecting, generation, launch, queue, busy, blocked, gap, drain,
                    hooks, running, gapOpen, reported>>
    BY DEF core
  <1>2. Shape'
    BY <1>1 DEF IInv, Shape
  <1>3. CASE closed
    BY <1>1, <1>2, <1>3 DEF IInv
  <1>4. CASE ~closed
    <2>1. LoopInv /\ OrderInv /\ GenInv /\ DrainInv /\ SettleInv
      BY <1>4 DEF IInv
    <2>2. LoopInv'
      BY <1>1, <1>4, <2>1 DEF LoopInv
    <2>3. OrderInv' /\ GenInv'
      BY <1>1, <2>1 DEF OrderInv, GenInv, Pending
    <2>4. DrainInv'
      BY <1>1, <2>1 DEF DrainInv, Waits, Quiet
    <2>5. SettleInv'
      BY <1>1, <2>1 DEF SettleInv, Ahead, Queued, Pending
    <2>6. QED
      BY <1>2, <2>2, <2>3, <2>4, <2>5 DEF IInv
  <1>5. QED
    BY <1>3, <1>4

\* A step of the dispatcher that neither begins nor ends a gap: while data is kept back
\* nothing is added to the queue, and the drain stays open until the last handler is done.
LEMMA DispatchMoves ==
    ASSUME IInv,
           UNCHANGED <<closed, reconnecting, generation, launch, loop, connectMu, blocked, gap,
                       hooks, running, gapOpen, reported>>,
           drain' \in Nat,
           blocked => (Quiet => Quiet') /\ (Quiet' \/ drain' = drain)
    PROVE  IInv'
  <1>1. Shape'
    BY DEF IInv, Shape
  <1>2. CASE closed
    BY <1>1, <1>2 DEF IInv
  <1>3. CASE ~closed
    <2>1. LoopInv /\ OrderInv /\ GenInv /\ DrainInv /\ SettleInv
      BY <1>3 DEF IInv
    <2>2. LoopInv' /\ OrderInv' /\ GenInv'
      BY <2>1 DEF LoopInv, OrderInv, GenInv, Pending
    <2>3. \A d \in Nat : Waits(d) => Waits(d)'
      BY DEF Waits
    <2>4. DrainInv'
      <3>1. launch.drain \in Nat /\ running.drain \in Nat
        BY DEF IInv, Shape
      <3>2. \A i \in 1 .. Len(hooks) : hooks[i].drain \in Nat
        BY EntryTypes DEF IInv
      <3>3. reported => blocked /\ Quiet'
        BY <2>1 DEF DrainInv
      <3>4. launch # NoLaunch => Waits(launch.drain)'
        BY <2>1, <2>3, <3>1 DEF DrainInv
      <3>5. \A i \in 1 .. Len(hooks) : hooks[i].kind = "started" => Waits(hooks[i].drain)'
        BY <2>1, <2>3, <3>2 DEF DrainInv
      <3>6. running.kind = "started" => Waits(running.drain)'
        BY <2>1, <2>3, <3>1 DEF DrainInv
      <3>7. QED
        BY <2>1, <3>3, <3>4, <3>5, <3>6 DEF DrainInv
    <2>5. SettleInv'
      BY <2>1 DEF SettleInv, Ahead, Queued, Pending
    <2>6. QED
      BY <1>1, <2>2, <2>4, <2>5 DEF IInv
  <1>4. QED
    BY <1>2, <1>3

LEMMA HandlerKeeps ==
    ASSUME IInv, HandlerStarts \/ HandlerReturns
    PROVE  IInv'
  <1>1. UNCHANGED <<closed, reconnecting, generation, launch, loop, connectMu, blocked, gap,
                    hooks, running, gapOpen, reported>>
    BY Zenon DEF HandlerStarts, HandlerReturns, session, connecting, recovery, lifecycle
  <1>2. drain \in Nat
    BY DEF IInv, Shape
  <1>3. CASE HandlerStarts
    BY <1>1, <1>2, <1>3, DispatchMoves DEF HandlerStarts, Quiet
  <1>4. CASE HandlerReturns
    BY <1>1, <1>2, <1>4, DispatchMoves DEF HandlerReturns, Quiet, closeDrainLocked
  <1>5. QED
    BY <1>3, <1>4

LEMMA EnqueuePushKeeps ==
    ASSUME IInv, NEW c \in Conns, EnqueuePush(c)
    PROVE  IInv'
  <1>1. UNCHANGED <<closed, reconnecting, generation, launch, loop, connectMu, blocked, gap,
                    hooks, running, gapOpen, reported, busy, drain>>
    BY DEF EnqueuePush, session, connecting, recovery, lifecycle
  <1>2. blocked => UNCHANGED queue
    BY DEF EnqueuePush
  <1>3. drain \in Nat
    BY DEF IInv, Shape
  <1>4. QED
    BY <1>1, <1>2, <1>3, DispatchMoves DEF Quiet

LEMMA UnsubscribeKeeps ==
    ASSUME IInv, NEW k \in Keys, Unsubscribe(k)
    PROVE  IInv'
  <1>1. UNCHANGED <<closed, reconnecting, generation, launch, loop, connectMu, blocked, gap,
                    hooks, running, gapOpen, reported, busy>>
    BY DEF Unsubscribe, dropKey, session, connecting, recovery, lifecycle
  <1>2. queue' = Without(queue, k) /\ drain' = IF busy \/ queue' # <<>> THEN drain ELSE 0
    BY DEF Unsubscribe, dropKey, closeDrainLocked
  <1>3. queue = <<>> => queue' = <<>>
    BY <1>2, WithoutNothing
  <1>4. drain \in Nat
    BY DEF IInv, Shape
  <1>5. QED
    BY <1>1, <1>2, <1>3, <1>4, DispatchMoves DEF Quiet

-----------------------------------------------------------------------------
\* The loss of a connection.

LEMMA LoseKeeps ==
    ASSUME IInv, NEW c, NEW recover, NEW reset, LoseConnection(c, recover, reset),
           UNCHANGED <<loop, connectMu, hooks, running, gapOpen, reported>>
    PROVE  IInv'
  <1> DEFINE g == generation + 1
             loses == conn = c /\ recover /\ ~closed /\ ~reconnecting
  <1>1. CASE ~loses
    <2>1. UNCHANGED <<closed, reconnecting, generation, launch, queue, busy, blocked, gap, drain>>
      BY <1>1 DEF LoseConnection, resetGapBuffer, session, dispatcher
    <2>2. closed \/ (connectMu = "reconnect" => loop = "connect")
      BY DEF IInv, LoopInv
    <2>3. QED
      BY <2>1, <2>2, LoopMoves DEF core
  <1>2. CASE loses
    <2>1. /\ reconnecting' = TRUE /\ generation' = g /\ UNCHANGED <<closed, queue, busy>>
          /\ blocked' = TRUE /\ gap' = g
          /\ drain' = IF ~busy /\ queue = <<>> THEN drain ELSE drainOf(g)
          /\ launch' = [gen |-> g, drain |-> drainOf(g)]
      BY <1>2 DEF LoseConnection, beginGap
    <2>2. ~closed /\ ~reconnecting /\ LoopInv /\ OrderInv /\ GenInv /\ DrainInv /\ SettleInv
      BY <1>2 DEF IInv
    <2>3. Shape /\ generation \in Nat /\ g \in Nat /\ g # 0 /\ drain \in Nat
      BY DEF IInv, Shape
    <2>4. drainOf(g) \in Nat /\ (Quiet \/ (drainOf(g) # 0 /\ drain' = drainOf(g)))
          /\ (Quiet => drain' = drain) /\ (drain # 0 => drain' = drain)
      BY <2>1, <2>3 DEF drainOf, Quiet
    <2>5. Shape'
      BY <2>1, <2>3, <2>4 DEF Shape
    <2>6. launch = NoLaunch /\ loop = "none"
      BY <2>2 DEF LoopInv
    <2>7. LoopInv'
      BY <2>1, <2>2, <2>6 DEF LoopInv
    <2>8. OrderInv'
      BY <2>2 DEF OrderInv, Pending
    <2>9. GenInv'
      <3>1. ASSUME NEW n \in Nat, n <= generation PROVE n <= g /\ n < g
        BY <2>3, <3>1
      <3>2. running.gen \in Nat
        BY <2>3 DEF Shape
      <3>3. \A i \in 1 .. Len(hooks) : hooks[i].kind = "recovered" => hooks[i].gen <= g /\ hooks[i].gen < g
        BY <2>2, <2>3, <3>1, EntryTypes DEF GenInv
      <3>4. running.kind = "recovered" => running.gen <= g /\ running.gen < g
        BY <2>2, <3>1, <3>2 DEF GenInv
      <3>5. QED
        BY <2>1, <3>3, <3>4 DEF GenInv
    <2>10. Quiet' <=> Quiet
      BY <2>1 DEF Quiet
    <2>11. \A d : Waits(d) => Waits(d)'
      BY <2>1, <2>4, <2>10 DEF Waits
    <2>12. DrainInv'
      <3>1. Waits(launch.drain)'
        BY <2>1, <2>4, <2>10 DEF Waits
      <3>2. \A i \in 1 .. Len(hooks) : hooks[i].kind = "started" => Waits(hooks[i].drain)'
        BY <2>2, <2>11 DEF DrainInv
      <3>3. running.kind = "started" => Waits(running.drain)'
        BY <2>2, <2>11 DEF DrainInv
      <3>4. QED
        BY <2>1, <2>2, <2>10, <3>1, <3>2, <3>3 DEF DrainInv
    <2>13. SettleInv'
      BY <2>1 DEF SettleInv
    <2>14. QED
      BY <2>5, <2>7, <2>8, <2>9, <2>12, <2>13 DEF IInv
  <1>3. QED
    BY <1>1, <1>2

LEMMA LossKeeps ==
    ASSUME IInv, NEW c \in Conns, ReadFails(c) \/ handlePrivateDispatchOverflow(c)
    PROVE  IInv'
  <1>1. UNCHANGED <<loop, connectMu, hooks, running, gapOpen, reported>>
    BY Zenon DEF ReadFails, handlePrivateDispatchOverflow, connecting, recovery, lifecycle
  <1>2. CASE LoseConnection(c, auth, TRUE)
    BY <1>1, <1>2, LoseKeeps, Zenon
  <1>3. CASE LoseConnection(c, TRUE, TRUE)
    BY <1>1, <1>3, LoseKeeps, Zenon
  <1>4. CASE UNCHANGED <<session, launch, dispatcher>>
    <2>1. closed \/ (connectMu = "reconnect" => loop = "connect")
      BY DEF IInv, LoopInv
    <2>2. QED
      BY <1>1, <1>4, <2>1, LoopMoves DEF core, session, dispatcher
  <1>5. QED
    BY <1>2, <1>3, <1>4, Zenon DEF ReadFails, handlePrivateDispatchOverflow

LEMMA SubscribeReturnsKeeps ==
    ASSUME IInv, NEW k \in Keys, SubscribeReturns(k)
    PROVE  IInv'
  <1>1. UNCHANGED <<loop, connectMu, hooks, running, gapOpen, reported>>
    BY DEF SubscribeReturns, connecting, recovery, lifecycle
  <1>2. CASE LoseConnection(waiter.conn, subs' # {}, FALSE)
    BY <1>1, <1>2, LoseKeeps, Zenon
  <1>3. CASE UNCHANGED <<session, launch, dispatcher>>
    <2>1. closed \/ (connectMu = "reconnect" => loop = "connect")
      BY DEF IInv, LoopInv
    <2>2. QED
      BY <1>1, <1>3, <2>1, LoopMoves DEF core, session, dispatcher
  <1>4. QED
    BY <1>2, <1>3, Zenon DEF SubscribeReturns

-----------------------------------------------------------------------------
\* Connect, reconnect() and the calls of the topic hubs.

LEMMA ConnectKeeps ==
    ASSUME IInv, NEW o \in Owners, BeginConnect(o) \/ ConnectReturns(o)
    PROVE  IInv'
  <1>1. UNCHANGED core
    BY Zenon DEF BeginConnect, ConnectAtOnce, Dial, ConnectReturns, ClearConnection,
       resetGapBuffer, core, session, dispatcher, lifecycle
  <1>2. "reconnect" # Nobody
    BY DEF Nobody
  <1>3. ASSUME ~closed
        PROVE  (loop' # "none" => loop # "none") /\ (connectMu' = "reconnect" => loop' = "connect")
    <2>1. connectMu = "reconnect" => loop = "connect"
      BY <1>3 DEF IInv, LoopInv
    <2>2. CASE ConnectAtOnce(o)
      BY <1>2, <2>1, <2>2 DEF ConnectAtOnce, Resume, AtConnect, connecting
    <2>3. CASE Dial(o)
      BY <1>2, <2>1, <2>3 DEF Dial, Resume, AtConnect
    <2>4. CASE ConnectReturns(o)
      BY <1>2, <2>1, <2>4 DEF ConnectReturns, Resume
    <2>5. QED
      BY <2>2, <2>3, <2>4 DEF BeginConnect
  <1>4. QED
    BY <1>1, <1>3, LoopMoves

\* The steps that neither begin nor end a gap nor touch the queues.
LEMMA OtherKeeps ==
    ASSUME IInv, UNCHANGED <<core, connectMu>>, UNCHANGED loop
    PROVE  IInv'
  <1>1. closed \/ (connectMu = "reconnect" => loop = "connect")
    BY DEF IInv, LoopInv
  <1>2. QED
    BY <1>1, LoopMoves

LEMMA ReconnectKeeps ==
    ASSUME IInv, ReconnectWakes \/ ReconnectConnected \/ ReplayBegins \/ ReplayAnswered \/ ReplayEnds
    PROVE  IInv'
  <1>1. UNCHANGED <<core, connectMu>>
    BY DEF ReconnectWakes, ReconnectConnected, ReplayBegins, ReplayAnswered, ReplayEnds,
           ClearConnection, resetGapBuffer, core, session, dispatcher, lifecycle, connecting
  <1>2. loop # "none" /\ loop # "connect"
    BY DEF ReconnectWakes, ReconnectConnected, ReplayBegins, ReplayAnswered, ReplayEnds
  <1>3. closed \/ connectMu # "reconnect"
    BY <1>2 DEF IInv, LoopInv
  <1>4. QED
    BY <1>1, <1>2, <1>3, LoopMoves

LEMMA CloseKeeps == ASSUME IInv, Close PROVE IInv'
  <1>1. Shape'
    BY DEF IInv, Shape, Close
  <1>2. QED
    BY <1>1 DEF IInv, Close

\* launchReconnect leaves at most one hook, a started one: the one already queued, or its
\* own, unless it withdrew a recovered hook or the gap was open.
LEMMA LaunchHooks ==
    ASSUME IInv, ~closed, launchReconnect
    PROVE  \/ /\ hooks' = <<>> /\ ~Pending("started")
              /\ Pending("recovered") \/ (gapOpen /\ running.kind # "recovered")
           \/ /\ hooks' = <<hooks[1]>> /\ hooks # <<>> /\ hooks[1].kind = "started"
              /\ gapOpen' /\ Pending("started")
           \/ hooks' = <<Hook("started", launch.gen, launch.drain)>> /\ gapOpen'
  <1> DEFINE e == Hook("started", launch.gen, launch.drain)
             kept == IF Pending("started") THEN <<Head(hooks)>> ELSE <<>>
             queued == ~Pending("recovered")
                         /\ (~gapOpen \/ (running.kind = "recovered" /\ ~Pending("started")))
  <1>1. hooks' = (IF queued THEN Append(kept, e) ELSE kept) /\ gapOpen' = (gapOpen \/ queued)
    BY DEF launchReconnect, enqueueStarted
  <1> HIDE DEF e
  <1>2. hooks \in Seq(Entry) /\ OrderInv
    BY DEF IInv, Shape
  <1>3. CASE Pending("started")
    <2>1. gapOpen /\ hooks # <<>> /\ Head(hooks) = hooks[1] /\ hooks[1].kind = "started"
      BY <1>2, <1>3 DEF OrderInv, Pending
    <2>2. ~queued /\ kept = <<hooks[1]>>
      BY <1>3, <2>1
    <2>3. QED
      BY <1>1, <1>3, <2>1, <2>2, Zenon
  <1>4. CASE ~Pending("started")
    <2>1. kept = <<>> /\ Append(<<>>, e) = <<e>>
      BY <1>4
    <2>2. CASE queued
      <3>1. hooks' = <<e>> /\ gapOpen'
        BY <1>1, <2>1, <2>2, Zenon
      <3>2. QED
        BY <3>1 DEF e
    <2>3. CASE ~queued
      BY <1>1, <1>4, <2>1, <2>3
    <2>4. QED
      BY <2>2, <2>3
  <1>5. QED
    BY <1>3, <1>4

\* The started hook waits for the drain the loss left; a recovered hook not yet run goes.
LEMMA LaunchKeeps ==
    ASSUME IInv, launchReconnect
    PROVE  IInv'
  <1> DEFINE e == Hook("started", launch.gen, launch.drain)
  <1>1. /\ launch # NoLaunch /\ launch' = NoLaunch /\ loop' = "sleep"
        /\ enqueueStarted(launch.gen, launch.drain)
        /\ UNCHANGED <<closed, reconnecting, generation, connectMu, queue, busy, blocked, gap, drain,
                       running, reported>>
    BY DEF launchReconnect, session, connecting, dispatcher
  <1>2. Shape /\ NoLaunch \in [gen : Nat, drain : Nat]
    BY DEF IInv, NoLaunch
  <1>3. CASE closed
    <2>1. UNCHANGED <<hooks, gapOpen>>
      BY <1>1, <1>3 DEF enqueueStarted
    <2>2. QED
      BY <1>1, <1>2, <1>3, <2>1 DEF IInv, Shape
  <1>4. CASE ~closed
    <2>1. LoopInv /\ OrderInv /\ GenInv /\ DrainInv /\ SettleInv
      BY <1>4 DEF IInv
    <2>2. e \in Entry /\ e.kind = "started" /\ e.drain = launch.drain
      BY <1>2 DEF Shape, Entry, Hook
    <2> HIDE DEF e
    <2>3. hooks \in Seq(Entry) /\ Len(hooks) \in Nat
      BY <1>2 DEF Shape
    <2>4. \/ hooks' = <<>>
          \/ hooks' = <<hooks[1]>> /\ hooks # <<>> /\ hooks[1].kind = "started" /\ gapOpen' /\ Pending("started")
          \/ hooks' = <<e>> /\ gapOpen'
      BY <1>4, LaunchHooks DEF e
    <2>5. hooks' \in Seq(Entry) /\ \A i \in 1 .. Len(hooks') :
              i = 1 /\ hooks'[i].kind = "started" /\ (hooks'[i] = e \/ (hooks # <<>> /\ hooks'[i] = hooks[1]))
      <3>1. CASE hooks' = <<>>
        BY <3>1
      <3>2. CASE hooks' = <<hooks[1]>> /\ hooks # <<>> /\ hooks[1].kind = "started"
        <4>1. hooks[1] \in Entry
          BY <2>3, <3>2
        <4>2. QED
          BY <3>2, <4>1
      <3>3. CASE hooks' = <<e>>
        BY <2>2, <3>3
      <3>4. QED
        BY <2>4, <3>1, <3>2, <3>3
    <2>6. Shape'
      BY <1>1, <1>2, <2>5 DEF Shape
    <2>7. LoopInv'
      BY <1>1, <2>1 DEF LoopInv
    <2>8. OrderInv'
      <3>1. Pending("started")' => gapOpen'
        BY <2>4 DEF Pending
      <3>2. QED
        BY <2>5, <3>1 DEF OrderInv
    <2>9. GenInv'
      <3>1. reconnecting
        BY <1>1, <2>1 DEF LoopInv
      <3>2. QED
        BY <1>1, <2>1, <2>5, <3>1 DEF GenInv
    <2>10. DrainInv'
      <3>1. \A d : Waits(d)' <=> Waits(d)
        BY <1>1 DEF Waits, Quiet
      <3>2. ASSUME NEW i \in 1 .. Len(hooks') PROVE Waits(hooks'[i].drain)
        <4>1. CASE hooks'[i] = e
          BY <1>1, <2>1, <2>2, <4>1 DEF DrainInv
        <4>2. CASE hooks # <<>> /\ hooks'[i] = hooks[1]
          <5>1. 1 \in 1 .. Len(hooks) /\ hooks[1].kind = "started"
            BY <2>3, <2>5, <4>2
          <5>2. QED
            BY <2>1, <4>2, <5>1 DEF DrainInv
        <4>3. QED
          BY <2>5, <4>1, <4>2
      <3>3. (Quiet)' <=> Quiet
        BY <1>1 DEF Quiet
      <3>4. \A i \in 1 .. Len(hooks') : Waits(hooks[i].drain)'
        BY <1>1, <3>2 DEF Waits, Quiet
      <3>5. running.kind = "started" => Waits(running.drain)'
        BY <1>1, <2>1, <3>1 DEF DrainInv
      <3>6. QED
        BY <1>1, <2>1, <3>3, <3>4, <3>5 DEF DrainInv
    <2>11. SettleInv'
      BY <1>1, <2>1 DEF LoopInv, SettleInv
    <2>12. QED
      BY <2>6, <2>7, <2>8, <2>9, <2>10, <2>11 DEF IInv
  <1>5. QED
    BY <1>3, <1>4

\* A recovery that is over queues its hook behind a started one.
LEMMA CommitKeeps ==
    ASSUME IInv, ReconnectCommits
    PROVE  IInv'
  <1> DEFINE e == Hook("recovered", generation, 0)
  <1>1. UNCHANGED <<closed, generation, connectMu, launch, queue, busy, blocked, gap, drain,
                    running, gapOpen, reported>> /\ loop = "commit"
    BY DEF ReconnectCommits, connecting, dispatcher
  <1>2. CASE closed \/ conn # rconn \/ ~auth
    <2>1. closed \/ connectMu # "reconnect"
      BY <1>1 DEF IInv, LoopInv
    <2>2. UNCHANGED core
      BY <1>1, <1>2 DEF ReconnectCommits, core
    <2>3. QED
      BY <1>1, <2>1, <2>2, LoopMoves
  <1>3. CASE ~(closed \/ conn # rconn \/ ~auth)
    <2>1. loop' = "none" /\ hooks' = Append(hooks, e) /\ reconnecting' = FALSE
      BY <1>3 DEF ReconnectCommits
    <2>2. Shape /\ LoopInv /\ OrderInv /\ GenInv /\ DrainInv /\ SettleInv
      BY <1>3 DEF IInv
    <2>3. reconnecting /\ launch = NoLaunch /\ connectMu # "reconnect"
      BY <1>1, <2>2 DEF LoopInv
    <2>4. e \in Entry /\ e.kind = "recovered" /\ e.gen = generation
      BY <2>2 DEF Shape, Entry, Hook
    <2>5. hooks \in Seq(Entry) /\ generation \in Nat /\ running.gen \in Nat
      BY <2>2 DEF Shape
    <2> HIDE DEF e
    <2>6. /\ Len(hooks') = Len(hooks) + 1 /\ Len(hooks) \in Nat /\ hooks'[Len(hooks')] = e
          /\ \A i \in 1 .. Len(hooks) : hooks'[i] = hooks[i]
          /\ \A i \in 1 .. Len(hooks') : i \in 1 .. Len(hooks) \/ i = Len(hooks')
      BY <2>1, <2>5
    <2>7. Pending("started")' <=> Pending("started")
      BY <2>4, <2>6 DEF Pending
    <2>8. Queued'
      BY <1>1, <2>4, <2>6 DEF Queued
    <2>9. Shape'
      BY <1>1, <2>1, <2>2, <2>4, <2>5 DEF Shape
    <2>10. LoopInv'
      BY <1>1, <2>1, <2>3 DEF LoopInv
    <2>11. OrderInv'
      BY <1>1, <2>2, <2>4, <2>6, <2>7 DEF OrderInv
    <2>12. GenInv'
      <3>1. \A i \in 1 .. Len(hooks') : hooks'[i].kind = "recovered" => hooks'[i].gen <= generation
        BY <2>2, <2>4, <2>5, <2>6 DEF GenInv
      <3>2. running.kind = "recovered" => running.gen <= generation /\ running.gen < generation
        BY <2>2, <2>3 DEF GenInv
      <3>3. QED
        BY <1>1, <2>1, <3>1, <3>2 DEF GenInv
    <2>13. DrainInv'
      <3>1. \A i \in 1 .. Len(hooks') : hooks'[i].kind = "started" => Waits(hooks[i].drain)'
        BY <1>1, <2>2, <2>4, <2>6 DEF DrainInv, Waits, Quiet
      <3>2. running.kind = "started" => Waits(running.drain)'
        BY <1>1, <2>2 DEF DrainInv, Waits, Quiet
      <3>3. QED
        BY <1>1, <2>2, <2>3, <3>1, <3>2 DEF DrainInv, Quiet
    <2>14. SettleInv'
      BY <2>8 DEF SettleInv, Ahead
    <2>15. QED
      BY <2>9, <2>10, <2>11, <2>12, <2>13, <2>14 DEF IInv
  <1>4. QED
    BY <1>2, <1>3

-----------------------------------------------------------------------------
\* The lifecycle queue.

LEMMA HookTakenKeeps ==
    ASSUME IInv, HookTaken
    PROVE  IInv'
  <1> DEFINE h == Head(hooks)
  <1>1. /\ ~closed /\ running = NoHook /\ hooks # <<>> /\ hooks' = Tail(hooks)
        /\ running' = [kind |-> h.kind, gen |-> h.gen, drain |-> h.drain, at |-> "called"]
        /\ UNCHANGED <<closed, reconnecting, generation, loop, connectMu, launch, queue, busy, blocked,
                       gap, drain, gapOpen, reported>>
    BY DEF HookTaken, session, connecting, recovery, dispatcher
  <1>2. Shape /\ LoopInv /\ OrderInv /\ GenInv /\ DrainInv /\ SettleInv
    BY <1>1 DEF IInv
  <1>3. hooks \in Seq(Entry) /\ Len(hooks) \in Nat \ {0} /\ h = hooks[1] /\ 1 \in 1 .. Len(hooks)
    BY <1>1, <1>2 DEF Shape
  <1>4. h \in Entry /\ h.kind \in {"started", "recovered"} /\ h.gen \in Nat /\ h.drain \in Nat
    BY <1>2, <1>3, EntryTypes
  <1> HIDE DEF h
  <1>5. running'.kind = h.kind /\ running'.gen = h.gen /\ running'.drain = h.drain /\ running'.at = "called"
    BY <1>1
  <1>6. /\ hooks' \in Seq(Entry) /\ Len(hooks') = Len(hooks) - 1
        /\ \A i \in 1 .. Len(hooks') : hooks'[i] = hooks[i + 1] /\ i + 1 \in 1 .. Len(hooks) /\ i + 1 # 1
        /\ \A i \in 1 .. Len(hooks) : i = 1 \/ (i - 1 \in 1 .. Len(hooks') /\ hooks'[i - 1] = hooks[i])
    BY <1>1, <1>3
  <1>7. \A i \in 1 .. Len(hooks') : hooks'[i].kind # "started"
    BY <1>2, <1>6 DEF OrderInv
  <1>8. ~Pending("started")'
    BY <1>7 DEF Pending
  <1>9. Shape'
    BY <1>1, <1>2, <1>4, <1>6 DEF Shape
  <1>10. LoopInv'
    BY <1>1, <1>2 DEF LoopInv
  <1>11. OrderInv'
    BY <1>7, <1>8 DEF OrderInv
  <1>12. GenInv'
    <2>1. \A i \in 1 .. Len(hooks') : hooks'[i].kind = "recovered" =>
              hooks'[i].gen <= generation /\ (reconnecting => hooks'[i].gen < generation)
      BY <1>2, <1>6 DEF GenInv
    <2>2. h.kind = "recovered" => h.gen <= generation /\ (reconnecting => h.gen < generation)
      BY <1>2, <1>3, ZenonT(30) DEF GenInv
    <2>3. QED
      BY <1>1, <1>5, <1>8, <2>1, <2>2, ZenonT(30) DEF GenInv
  <1>13. DrainInv'
    <2>1. h.kind = "started" => Waits(running.drain)'
      BY <1>1, <1>2, <1>3, <1>5 DEF DrainInv, Waits, Quiet
    <2>2. launch # NoLaunch => Waits(launch.drain)'
      BY <1>1, <1>2 DEF DrainInv, Waits, Quiet
    <2>3. QED
      BY <1>1, <1>2, <1>5, <1>7, <2>1, <2>2 DEF DrainInv, Quiet
  <1>14. ASSUME Queued PROVE Queued' \/ (h.kind = "recovered" /\ h.gen = generation)
    BY <1>1, <1>3, <1>6, <1>14 DEF Queued
  <1>15. SettleInv'
    <2> SUFFICES ASSUME ~reconnecting
                 PROVE  /\ blocked \/ reported \/ gapOpen =>
                              Queued' \/ (h.kind = "recovered" /\ h.gen = generation)
                        /\ h.kind = "started" => Queued'
      BY <1>1, <1>5, <1>8 DEF SettleInv, Ahead
    <2>1. blocked \/ reported \/ gapOpen => Queued
      BY <1>1, <1>2 DEF SettleInv, Ahead, NoHook
    <2>2. h.kind = "started" => Queued
      BY <1>2, <1>3 DEF SettleInv, Pending
    <2>3. QED
      BY <1>14, <2>1, <2>2
  <1>16. QED
    BY <1>9, <1>10, <1>11, <1>12, <1>13, <1>15 DEF IInv

\* The started hook runs when the drain it waited for is closed: nothing is queued or
\* running, and nothing will be before the gap ends.
LEMMA StartedRunsKeeps ==
    ASSUME IInv, StartedRuns
    PROVE  IInv'
  <1>1. /\ running.kind = "started" /\ running' = NoHook
        /\ UNCHANGED <<closed, reconnecting, generation, loop, connectMu, launch, queue, busy, blocked,
                       gap, drain, hooks, gapOpen>>
    BY DEF StartedRuns, session, connecting, recovery, dispatcher
  <1>2. NoHook.kind = "none" /\ NoHook.at = "idle"
    BY DEF NoHook
  <1>3. Shape'
    BY <1>1 DEF IInv, Shape, NoHook
  <1>4. CASE closed
    BY <1>1, <1>3, <1>4 DEF IInv
  <1>5. CASE ~closed
    <2>1. LoopInv /\ OrderInv /\ GenInv /\ DrainInv /\ SettleInv
      BY <1>5 DEF IInv
    <2>2. running.drain = 0 \/ running.drain # drain
      BY <1>5 DEF StartedRuns
    <2>3. blocked /\ Quiet
      BY <1>1, <2>1, <2>2 DEF DrainInv, Waits
    <2>4. LoopInv' /\ OrderInv'
      BY <1>1, <2>1 DEF LoopInv, OrderInv, Pending
    <2>5. GenInv'
      BY <1>1, <1>2, <2>1 DEF GenInv
    <2>6. DrainInv'
      <3>1. Quiet' /\ blocked'
        BY <1>1, <2>3 DEF Quiet
      <3>2. \A d : Waits(d)'
        BY <3>1, ZenonT(30) DEF Waits
      <3>3. QED
        BY <1>1, <1>2, <3>1, <3>2 DEF DrainInv
    <2>7. SettleInv'
      BY <1>1, <1>2, <2>1 DEF SettleInv, Ahead, Queued, Pending
    <2>8. QED
      BY <1>3, <2>4, <2>5, <2>6, <2>7 DEF IInv
  <1>6. QED
    BY <1>4, <1>5

\* The recovered hook looks twice whether it is still the last word.
LEMMA RecoveredChecksKeeps ==
    ASSUME IInv, RecoveredChecks
    PROVE  IInv'
  <1> DEFINE x == CASE ~IsCurrent(running.gen) -> "stale"
                    [] running.at = "called" -> "current"
                    [] OTHER -> "finish"
  <1>1. /\ running.kind = "recovered" /\ running.at \in {"called", "reported"}
        /\ running' = [running EXCEPT !.at = x]
        /\ UNCHANGED <<closed, reconnecting, generation, loop, connectMu, launch, queue, busy, blocked,
                       gap, drain, hooks, gapOpen, reported>>
    BY DEF RecoveredChecks, session, connecting, recovery, dispatcher
  <1>2. /\ x \in {"stale", "current", "finish"}
        /\ x = "finish" => running.at = "reported"
        /\ x = "stale" => closed \/ reconnecting \/ generation # running.gen
        /\ running.at = "called" => x # "finish"
        /\ running.at = "reported" => x # "current"
    BY <1>1 DEF IsCurrent
  <1> HIDE DEF x
  <1>3. /\ running'.kind = "recovered" /\ running'.gen = running.gen /\ running'.at = x
        /\ running' \in [kind : {"none", "started", "recovered"}, gen : Nat, drain : Nat,
             at : {"idle", "called", "current", "reported", "finish", "applied", "stale"}]
    BY <1>1, <1>2 DEF IInv, Shape
  <1>4. Shape'
    BY <1>1, <1>3 DEF IInv, Shape
  <1>5. CASE closed
    BY <1>1, <1>4, <1>5 DEF IInv
  <1>6. CASE ~closed
    <2>1. LoopInv /\ OrderInv /\ GenInv /\ DrainInv /\ SettleInv
      BY <1>6 DEF IInv
    <2>2. LoopInv' /\ OrderInv'
      BY <1>1, <2>1 DEF LoopInv, OrderInv, Pending
    <2>3. GenInv'
      BY <1>1, <1>3, <2>1 DEF GenInv, Pending
    <2>4. DrainInv'
      BY <1>1, <1>2, <1>3, <2>1 DEF DrainInv, Waits, Quiet
    <2>5. SettleInv'
      BY <1>1, <1>2, <1>3, <1>6, <2>1 DEF SettleInv, Ahead, Queued, Pending
    <2>6. QED
      BY <1>4, <2>2, <2>3, <2>4, <2>5 DEF IInv
  <1>7. QED
    BY <1>5, <1>6

LEMMA RecoveredRunsKeeps ==
    ASSUME IInv, RecoveredRuns
    PROVE  IInv'
  <1>1. /\ running.at = "current" /\ reported' = FALSE /\ running' = [running EXCEPT !.at = "reported"]
        /\ UNCHANGED <<closed, reconnecting, generation, loop, connectMu, launch, queue, busy, blocked,
                       gap, drain, hooks, gapOpen>>
    BY DEF RecoveredRuns, session, connecting, recovery, dispatcher
  <1>2. /\ running.kind = "recovered" /\ running'.kind = "recovered" /\ running'.gen = running.gen
        /\ running'.at = "reported"
        /\ running' \in [kind : {"none", "started", "recovered"}, gen : Nat, drain : Nat,
             at : {"idle", "called", "current", "reported", "finish", "applied", "stale"}]
    BY <1>1 DEF IInv, Shape
  <1>3. Shape'
    BY <1>1, <1>2 DEF IInv, Shape
  <1>4. CASE closed
    BY <1>1, <1>3, <1>4 DEF IInv
  <1>5. CASE ~closed
    <2>1. LoopInv /\ OrderInv /\ GenInv /\ DrainInv /\ SettleInv
      BY <1>5 DEF IInv
    <2>2. LoopInv' /\ OrderInv'
      BY <1>1, <2>1 DEF LoopInv, OrderInv, Pending
    <2>3. GenInv'
      BY <1>1, <1>2, <2>1 DEF GenInv, Pending
    <2>4. DrainInv'
      BY <1>1, <1>2, <2>1 DEF DrainInv, Waits, Quiet
    <2>5. SettleInv'
      BY <1>1, <1>2, <2>1 DEF SettleInv, Ahead, Queued, Pending
    <2>6. QED
      BY <1>3, <2>2, <2>3, <2>4, <2>5 DEF IInv
  <1>6. QED
    BY <1>4, <1>5

\* The data kept back is released only by the last recovery: then no loss is being
\* reported and no started hook is on its way.
LEMMA RecoveredReleasesKeeps ==
    ASSUME IInv, RecoveredReleases
    PROVE  IInv'
  <1>1. /\ running.at = "finish" /\ running' = [running EXCEPT !.at = "applied"]
        /\ finishGap(running.gen)
        /\ UNCHANGED <<closed, reconnecting, generation, loop, connectMu, launch, hooks, gapOpen, reported>>
    BY DEF RecoveredReleases, session, connecting, recovery
  <1>2. /\ running.kind = "recovered" /\ running'.kind = "recovered" /\ running'.gen = running.gen
        /\ running'.at = "applied"
        /\ running' \in [kind : {"none", "started", "recovered"}, gen : Nat, drain : Nat,
             at : {"idle", "called", "current", "reported", "finish", "applied", "stale"}]
    BY <1>1 DEF IInv, Shape
  <1>3. UNCHANGED <<busy, gap, drain>>
    BY <1>1 DEF finishGap
  <1>4. Shape'
    BY <1>1, <1>2, <1>3 DEF IInv, Shape
  <1>5. CASE closed
    BY <1>1, <1>4, <1>5 DEF IInv
  <1>6. CASE ~closed
    <2>1. Shape /\ LoopInv /\ OrderInv /\ GenInv /\ DrainInv /\ SettleInv
      BY <1>6 DEF IInv
    <2>2. LoopInv' /\ OrderInv'
      BY <1>1, <2>1 DEF LoopInv, OrderInv, Pending
    <2>3. GenInv'
      BY <1>1, <1>2, <2>1 DEF GenInv, Pending
    <2>4. ~reported
      BY <1>1, <2>1 DEF DrainInv
    <2>5. CASE blocked /\ gap = running.gen
      <3>1. ~blocked' /\ running.gen = generation /\ generation \in Nat
        BY <1>1, <1>6, <2>1, <2>5 DEF finishGap, Shape
      <3>2. ~reconnecting /\ ~Pending("started")
        BY <1>2, <2>1, <3>1 DEF GenInv
      <3>3. launch = NoLaunch /\ \A i \in 1 .. Len(hooks) : hooks[i].kind # "started"
        BY <2>1, <3>2 DEF LoopInv, Pending
      <3>4. DrainInv'
        BY <1>1, <1>2, <2>4, <3>3 DEF DrainInv
      <3>5. SettleInv'
        BY <1>1, <1>2, <2>1, <2>4, <3>1 DEF SettleInv, Ahead, Queued, Pending
      <3>6. QED
        BY <1>4, <2>2, <2>3, <3>4, <3>5 DEF IInv
    <2>6. CASE ~(blocked /\ gap = running.gen)
      <3>1. UNCHANGED <<blocked, queue>>
        BY <1>1, <2>6 DEF finishGap
      <3>2. DrainInv'
        BY <1>1, <1>2, <1>3, <2>1, <2>4, <3>1 DEF DrainInv, Waits, Quiet
      <3>3. gap = generation
        BY <2>1 DEF Shape
      <3>4. SettleInv'
        BY <1>1, <1>2, <2>1, <2>4, <2>6, <3>1, <3>3 DEF SettleInv, Ahead, Queued, Pending
      <3>5. QED
        BY <1>4, <2>2, <2>3, <3>2, <3>4 DEF IInv
    <2>7. QED
      BY <2>5, <2>6
  <1>7. QED
    BY <1>5, <1>6

LEMMA RecoveredReturnsKeeps ==
    ASSUME IInv, RecoveredReturns
    PROVE  IInv'
  <1>1. /\ running.at \in {"stale", "applied"} /\ running' = NoHook
        /\ gapOpen' = (gapOpen /\ (running.at = "stale" \/ Pending("started")))
        /\ UNCHANGED <<closed, reconnecting, generation, loop, connectMu, launch, queue, busy, blocked,
                       gap, drain, hooks, reported>>
    BY DEF RecoveredReturns, session, connecting, recovery, dispatcher
  <1>2. NoHook.kind = "none" /\ NoHook.at = "idle"
    BY DEF NoHook
  <1>3. Shape'
    BY <1>1 DEF IInv, Shape, NoHook
  <1>4. CASE closed
    BY <1>1, <1>3, <1>4 DEF IInv
  <1>5. CASE ~closed
    <2>1. LoopInv /\ OrderInv /\ GenInv /\ DrainInv /\ SettleInv
      BY <1>5 DEF IInv
    <2>2. LoopInv'
      BY <1>1, <2>1 DEF LoopInv
    <2>3. OrderInv'
      BY <1>1, <2>1, Zenon DEF OrderInv, Pending
    <2>4. GenInv'
      BY <1>1, <1>2, <2>1 DEF GenInv
    <2>5. DrainInv'
      BY <1>1, <1>2, <2>1 DEF DrainInv, Waits, Quiet
    <2>6. SettleInv'
      BY <1>1, <1>2, <2>1, Zenon DEF SettleInv, Ahead, Queued, Pending
    <2>7. QED
      BY <1>3, <2>2, <2>3, <2>4, <2>5, <2>6 DEF IInv
  <1>6. QED
    BY <1>4, <1>5

-----------------------------------------------------------------------------
LEMMA NextIInv == IInv /\ [Next]_vars => IInv'
  <1> SUFFICES ASSUME IInv, [Next]_vars PROVE IInv'
    OBVIOUS
  <1>1. ASSUME NEW c \in Conns, Reading(c) \/ ReadFails(c) \/ \E k \in Keys : ReadPush(c, k)
        PROVE  IInv'
    <2>1. CASE ReadLogin(c) \/ ReadSubscribed(c) \/ \E k \in Keys : ReadPush(c, k)
      <3>1. UNCHANGED <<core, connectMu>> /\ UNCHANGED loop
        BY <2>1 DEF ReadLogin, ReadSubscribed, ReadPush, core, session, connecting, recovery,
                    dispatcher, lifecycle
      <3>2. QED
        BY <3>1, OtherKeeps
    <2>2. QED
      BY <1>1, <2>1, EnqueuePushKeeps, LossKeeps DEF Reading
  <1>2. ASSUME NEW k \in Keys,
               Subscribe(k) \/ lockSubscriptionLifecycle(k) \/ Subscribing(k) \/ Unsubscribe(k)
        PROVE  IInv'
    <2>1. CASE Subscribe(k) \/ lockSubscriptionLifecycle(k) \/ SubscribeConnected(k) \/ SubscribeRegister(k)
      <3>1. UNCHANGED <<core, connectMu>> /\ UNCHANGED loop
        BY <2>1 DEF Subscribe, lockSubscriptionLifecycle, SubscribeConnected, SubscribeRegister, core,
                    session, connecting, recovery, dispatcher, lifecycle
      <3>2. QED
        BY <3>1, OtherKeeps
    <2>2. QED
      BY <1>2, <2>1, SubscribeReturnsKeeps, UnsubscribeKeeps DEF Subscribing
  <1>3. CASE Recovering
    <2>1. CASE ReplayRequest
      <3>1. UNCHANGED <<core, connectMu>> /\ UNCHANGED loop
        BY <2>1 DEF ReplayRequest, core, session, connecting, recovery, dispatcher, lifecycle
      <3>2. QED
        BY <3>1, OtherKeeps
    <2>2. QED
      BY <1>3, <2>1, LaunchKeeps, ReconnectKeeps, CommitKeeps DEF Recovering
  <1>4. CASE Hooking
    BY <1>4, HookTakenKeeps, StartedRunsKeeps, RecoveredChecksKeeps, RecoveredRunsKeeps,
       RecoveredReleasesKeeps, RecoveredReturnsKeeps DEF Hooking
  <1>5. CASE UNCHANGED vars
    <2>1. UNCHANGED <<core, connectMu>> /\ UNCHANGED loop
      BY <1>5 DEF vars, core, session, connecting, recovery, dispatcher, lifecycle
    <2>2. QED
      BY <2>1, OtherKeeps
  <1>6. CASE Dispatching
    BY <1>6, HandlerKeeps DEF Dispatching
  <1>7. QED
    BY <1>1, <1>2, <1>3, <1>4, <1>5, <1>6, ConnectKeeps, CloseKeeps, ReconnectKeeps DEF Next

\* The inductive invariant holds in every reachable state.
THEOREM Invariance == Spec => []IInv
  BY InitIInv, NextIInv, PTL DEF Spec

\* However many connections are lost, whether before, during or after a recovery, and
\* however the hooks, the handlers and the readers interleave: between the started and the
\* recovered hook no data handler runs and none waits to.
THEOREM GapIsAlwaysQuiet == Spec => []QuietGap
  <1>1. IInv => QuietGap
    BY DEF IInv, DrainInv, QuietGap, Quiet
  <1>2. QED
    BY Invariance, <1>1, PTL

\* When recovery and the hooks are done, the dispatcher, the lifecycle queue and the hook
\* user agree that the gap is over.
THEOREM AlwaysSettles == Spec => []SettledFlows
  <1>1. ASSUME IInv PROVE SettledFlows
    <2> SUFFICES ASSUME ~closed, ~reconnecting, hooks = <<>>, running = NoHook
                 PROVE  ~blocked /\ ~gapOpen /\ ~reported
      BY DEF SettledFlows
    <2>1. SettleInv /\ ~Queued /\ running.kind = "none"
      BY <1>1 DEF IInv, Queued, NoHook
    <2>2. QED
      BY <2>1 DEF SettleInv, Ahead
  <1>2. QED
    BY Invariance, <1>1, PTL

-----------------------------------------------------------------------------
\* The types, in five parts: a leaf of a proof is about numbers, flags or words.
Waiter == [key : Keys \cup {NoKey}, conn : 0 .. MaxConns, res : {"wait", "ok", "err"}]

Numbers ==
  /\ conn \in 0 .. MaxConns /\ rconn \in 0 .. MaxConns /\ attempt \in 0 .. MaxConns
  /\ faults \in 0 .. MaxFaults /\ messages \in 0 .. MaxMessages

Flags ==
  /\ auth \in BOOLEAN /\ reconnecting \in BOOLEAN /\ closed \in BOOLEAN
  /\ busy \in BOOLEAN /\ blocked \in BOOLEAN
  /\ gapOpen \in BOOLEAN /\ reported \in BOOLEAN

Words ==
  /\ subs \subseteq Keys /\ todo \subseteq Keys /\ fed \subseteq Keys
  /\ lifecycleMu \in Owners \cup {Nobody} /\ connectMu \in Owners \cup {Nobody}
  /\ login \in {"none", "ok", "err"}
  /\ caller \in [Keys -> {"idle", "waiting", "connect", "connected", "register",
                          "subscribing"}]
  /\ loop \in {"none", "sleep", "connect", "connected", "replay", "replaying",
               "commit"}

\* ... only a subscription that was requested waits for a connection.
Awaits == waiter \in Waiter /\ (waiter.key = NoKey => waiter.conn = 0)

Held == reader \in [Conns -> [key : Keys \cup {NoKey}, full : BOOLEAN]]

Types == Numbers /\ Flags /\ Words /\ Awaits /\ Held

LEMMA NumbersStep == Types /\ [Next]_vars => Numbers'
  <1> SUFFICES ASSUME Types, [Next]_vars PROVE Numbers'
    OBVIOUS
  <1> USE SessionAssumption
  <1>1. ASSUME NEW o \in Owners, BeginConnect(o) \/ ConnectReturns(o)
        PROVE  Numbers'
    BY <1>1 DEF Types, Numbers, Conns, BeginConnect, ConnectAtOnce, Resume, Dial, Fault,
       ConnectReturns, ClearConnection, resetGapBuffer, failSubscriptionWaiters, session, calls,
       connecting, recovery, dispatcher, lifecycle, bounds
  <1>2. ASSUME NEW c \in Conns, Reading(c) \/ ReadFails(c)
        PROVE  Numbers'
    BY <1>2 DEF Types, Numbers, Conns, Reading, ReadLogin, Reads, Fault, ReadSubscribed,
       EnqueuePush, handlePrivateDispatchOverflow, LoseConnection, beginGap, resetGapBuffer,
       failSubscriptionWaiters, ReadFails, session, calls, connecting, recovery, dispatcher,
       lifecycle, bounds
  <1>3. ASSUME NEW c \in Conns, NEW k \in Keys, ReadPush(c, k)
        PROVE  Numbers'
    BY <1>3 DEF Types, Numbers, Conns, ReadPush, session, calls, connecting, recovery,
       dispatcher, lifecycle, bounds
  <1>4. ASSUME NEW k \in Keys, Subscribe(k) \/ lockSubscriptionLifecycle(k) \/ Subscribing(k) \/ Unsubscribe(k)
        PROVE  Numbers'
    BY <1>4, SMTT(30) DEF Types, Numbers, Conns, Subscribing, Subscribe,
       lockSubscriptionLifecycle, SubscribeConnected, SubscribeRegister, SubscribeReturns,
       LoseConnection, beginGap, resetGapBuffer, Unanswered, Fault, Unsubscribe, dropKey, session,
       calls, connecting, recovery, dispatcher, lifecycle, bounds
  <1>5. ASSUME Close \/ ReplayBegins \/ Recovering
        PROVE  Numbers'
    <2>1. CASE Close
      BY <2>1 DEF Types, Numbers, Conns, Close, session, calls, connecting, recovery,
         dispatcher, lifecycle, bounds
    <2>2. CASE launchReconnect
      BY <2>2 DEF Types, Numbers, Conns, launchReconnect, enqueueStarted, session, calls,
         connecting, recovery, dispatcher, lifecycle, bounds
    <2>3. CASE ReconnectWakes \/ ReconnectConnected \/ ReplayBegins
      BY <2>3 DEF Types, Numbers, Conns, ReconnectWakes, ReconnectConnected, ReplayBegins,
         session, calls, connecting, recovery, dispatcher, lifecycle, bounds
    <2>4. CASE ReplayRequest \/ ReplayEnds
      BY <2>4 DEF Types, Numbers, Conns, ReplayRequest, Fault, Unanswered, ReplayEnds, session,
         calls, connecting, recovery, dispatcher, lifecycle, bounds
    <2>5. CASE ReplayAnswered
      BY <2>5 DEF Types, Numbers, Conns, ReplayAnswered, ClearConnection, resetGapBuffer,
         Unanswered, Fault, session, calls, connecting, recovery, dispatcher, lifecycle, bounds
    <2>6. CASE ReconnectCommits
      BY <2>6 DEF Types, Numbers, Conns, ReconnectCommits, session, calls, connecting, recovery,
         dispatcher, lifecycle, bounds
    <2>7. QED
      BY <1>5, <2>1, <2>2, <2>3, <2>4, <2>5, <2>6 DEF Recovering
  <1>6. ASSUME Dispatching \/ Hooking
        PROVE  Numbers'
    BY <1>6, Zenon DEF Types, Numbers, Conns, Dispatching, Hooking, HandlerStarts,
       HandlerReturns, HookTaken, StartedRuns, RecoveredChecks, RecoveredRuns, RecoveredReleases,
       finishGap, RecoveredReturns, session, calls, connecting, recovery, dispatcher, lifecycle,
       bounds
  <1>7. ASSUME UNCHANGED vars
        PROVE  Numbers'
    BY <1>7 DEF Types, Numbers, Conns, vars, session, calls, connecting, recovery, dispatcher,
       lifecycle, bounds
  <1>8. QED
    BY <1>1, <1>2, <1>3, <1>4, <1>5, <1>6, <1>7 DEF Next

LEMMA FlagsStep == Types /\ [Next]_vars => Flags'
  <1> SUFFICES ASSUME Types, [Next]_vars PROVE Flags'
    OBVIOUS
  <1>1. ASSUME NEW o \in Owners, BeginConnect(o) \/ ConnectReturns(o)
        PROVE  Flags'
    BY <1>1, Zenon DEF Types, Flags, BeginConnect, ConnectAtOnce, Resume, Dial, Fault,
       ConnectReturns, ClearConnection, resetGapBuffer, failSubscriptionWaiters, session, calls,
       connecting, recovery, dispatcher, lifecycle, bounds
  <1>2. ASSUME NEW c \in Conns, Reading(c) \/ ReadFails(c)
        PROVE  Flags'
    BY <1>2, ZenonT(30) DEF Types, Flags, Reading, ReadLogin, Reads, Fault, ReadSubscribed,
       EnqueuePush, handlePrivateDispatchOverflow, LoseConnection, beginGap, resetGapBuffer,
       failSubscriptionWaiters, ReadFails, session, calls, connecting, recovery, dispatcher,
       lifecycle, bounds
  <1>3. ASSUME NEW c \in Conns, NEW k \in Keys, ReadPush(c, k)
        PROVE  Flags'
    BY <1>3 DEF Types, Flags, ReadPush, session, calls, connecting, recovery, dispatcher,
       lifecycle, bounds
  <1>4. ASSUME NEW k \in Keys, Subscribe(k) \/ lockSubscriptionLifecycle(k) \/ Subscribing(k) \/ Unsubscribe(k)
        PROVE  Flags'
    BY <1>4, ZenonT(30) DEF Types, Flags, Subscribing, Subscribe, lockSubscriptionLifecycle,
       SubscribeConnected, SubscribeRegister, SubscribeReturns, LoseConnection, beginGap,
       resetGapBuffer, Unanswered, Fault, Unsubscribe, dropKey, session, calls, connecting,
       recovery, dispatcher, lifecycle, bounds
  <1>5. ASSUME Close \/ ReplayBegins \/ Recovering
        PROVE  Flags'
    BY <1>5, ZenonT(30) DEF Types, Flags, Recovering, Close, launchReconnect, enqueueStarted,
       ReconnectWakes, ReconnectConnected, ReplayBegins, ReplayRequest, ReplayAnswered,
       ClearConnection, resetGapBuffer, Unanswered, Fault, ReplayEnds, ReconnectCommits, session,
       calls, connecting, recovery, dispatcher, lifecycle, bounds
  <1>6. ASSUME Dispatching \/ Hooking
        PROVE  Flags'
    BY <1>6, ZenonT(30) DEF Types, Flags, Dispatching, Hooking, HandlerStarts, HandlerReturns,
       HookTaken, StartedRuns, RecoveredChecks, RecoveredRuns, RecoveredReleases, finishGap,
       RecoveredReturns, session, calls, connecting, recovery, dispatcher, lifecycle, bounds
  <1>7. ASSUME UNCHANGED vars
        PROVE  Flags'
    BY <1>7 DEF Types, Flags, vars, session, calls, connecting, recovery, dispatcher, lifecycle,
       bounds
  <1>8. QED
    BY <1>1, <1>2, <1>3, <1>4, <1>5, <1>6, <1>7 DEF Next

LEMMA WordsStep == Types /\ [Next]_vars => Words'
  <1> SUFFICES ASSUME Types, [Next]_vars PROVE Words'
    OBVIOUS
  <1> USE SessionAssumption
  <1>1. ASSUME NEW o \in Owners, BeginConnect(o) \/ ConnectReturns(o)
        PROVE  Words'
    BY <1>1 DEF Types, Words, Owners, Awaits, Waiter, NoKey, Conns, BeginConnect, ConnectAtOnce,
       Resume, Dial, Fault, ConnectReturns, ClearConnection, resetGapBuffer,
       failSubscriptionWaiters, session, calls, connecting, recovery, dispatcher, lifecycle,
       bounds
  <1>2. ASSUME NEW c \in Conns, Reading(c) \/ ReadFails(c)
        PROVE  Words'
    BY <1>2 DEF Types, Words, Owners, Awaits, Waiter, NoKey, Conns, Reading, ReadLogin, Reads,
       Fault, ReadSubscribed, EnqueuePush, handlePrivateDispatchOverflow, LoseConnection,
       beginGap, resetGapBuffer, failSubscriptionWaiters, ReadFails, session, calls, connecting,
       recovery, dispatcher, lifecycle, bounds
  <1>3. ASSUME NEW c \in Conns, NEW k \in Keys, ReadPush(c, k)
        PROVE  Words'
    BY <1>3 DEF Types, Words, Owners, Awaits, Waiter, NoKey, Conns, ReadPush, session, calls,
       connecting, recovery, dispatcher, lifecycle, bounds
  <1>4. ASSUME NEW k \in Keys, Subscribe(k) \/ lockSubscriptionLifecycle(k) \/ Subscribing(k) \/ Unsubscribe(k)
        PROVE  Words'
    BY <1>4, ZenonT(30) DEF Types, Words, Owners, Awaits, Waiter, NoKey, Conns, Subscribing,
       Subscribe, lockSubscriptionLifecycle, SubscribeConnected, SubscribeRegister,
       SubscribeReturns, LoseConnection, beginGap, resetGapBuffer, Unanswered, Fault, Unsubscribe,
       dropKey, session, calls, connecting, recovery, dispatcher, lifecycle, bounds
  <1>5. ASSUME Close \/ ReplayBegins \/ Recovering
        PROVE  Words'
    <2>1. CASE Close
      BY <2>1 DEF Types, Words, Owners, Awaits, Waiter, NoKey, Conns, Close, session, calls,
         connecting, recovery, dispatcher, lifecycle, bounds
    <2>2. CASE launchReconnect
      BY <2>2, ZenonT(30) DEF Types, Words, Owners, Awaits, Waiter, NoKey, Conns,
      launchReconnect, enqueueStarted, session, calls, connecting, recovery, dispatcher, lifecycle, bounds
    <2>3. CASE ReconnectWakes \/ ReconnectConnected \/ ReplayBegins
      BY <2>3 DEF Types, Words, Owners, Awaits, Waiter, NoKey, Conns, ReconnectWakes,
         ReconnectConnected, ReplayBegins, session, calls, connecting, recovery, dispatcher,
         lifecycle, bounds
    <2>4. CASE ReplayRequest \/ ReplayEnds
      BY <2>4 DEF Types, Words, Owners, Awaits, Waiter, NoKey, Conns, ReplayRequest, Fault,
         Unanswered, ReplayEnds, session, calls, connecting, recovery, dispatcher, lifecycle,
         bounds
    <2>5. CASE ReplayAnswered
      BY <2>5 DEF Types, Words, Owners, Awaits, Waiter, NoKey, Conns, ReplayAnswered,
         ClearConnection, resetGapBuffer, Unanswered, Fault, session, calls, connecting, recovery,
         dispatcher, lifecycle, bounds
    <2>6. CASE ReconnectCommits
      BY <2>6 DEF Types, Words, Owners, Awaits, Waiter, NoKey, Conns, ReconnectCommits, session,
         calls, connecting, recovery, dispatcher, lifecycle, bounds
    <2>7. QED
      BY <1>5, <2>1, <2>2, <2>3, <2>4, <2>5, <2>6 DEF Recovering
  <1>6. ASSUME Dispatching \/ Hooking
        PROVE  Words'
    <2>1. UNCHANGED <<subs, todo, fed, lifecycleMu, connectMu, login, caller, loop>>
      BY <1>6, Zenon DEF Dispatching, Hooking, HandlerStarts, HandlerReturns, HookTaken,
         StartedRuns, RecoveredChecks, RecoveredRuns, RecoveredReleases, finishGap,
         RecoveredReturns, session, calls, connecting, recovery, dispatcher, lifecycle, bounds
    <2>2. QED
      BY <2>1 DEF Types, Words, Owners, Awaits, Waiter, NoKey, Conns
  <1>7. ASSUME UNCHANGED vars
        PROVE  Words'
    BY <1>7 DEF Types, Words, Owners, Awaits, Waiter, NoKey, Conns, vars, session, calls,
       connecting, recovery, dispatcher, lifecycle, bounds
  <1>8. QED
    BY <1>1, <1>2, <1>3, <1>4, <1>5, <1>6, <1>7 DEF Next

LEMMA AwaitsStep == Types /\ [Next]_vars => Awaits'
  <1> SUFFICES ASSUME Types, [Next]_vars PROVE Awaits'
    OBVIOUS
  <1> USE SessionAssumption
  <1>1. ASSUME NEW o \in Owners, BeginConnect(o) \/ ConnectReturns(o)
        PROVE  Awaits'
    BY <1>1 DEF Types, Numbers, Words, Awaits, Waiter, Conns, Idle, NoKey, BeginConnect,
       ConnectAtOnce, Resume, Dial, Fault, ConnectReturns, ClearConnection, resetGapBuffer,
       failSubscriptionWaiters, session, calls, connecting, recovery, dispatcher, lifecycle,
       bounds
  <1>2. ASSUME NEW c \in Conns, Reading(c) \/ ReadFails(c)
        PROVE  Awaits'
    BY <1>2 DEF Types, Numbers, Words, Awaits, Waiter, Conns, Idle, NoKey, Reading, ReadLogin,
       Reads, Fault, ReadSubscribed, EnqueuePush, handlePrivateDispatchOverflow, LoseConnection,
       beginGap, resetGapBuffer, failSubscriptionWaiters, ReadFails, session, calls, connecting,
       recovery, dispatcher, lifecycle, bounds
  <1>3. ASSUME NEW c \in Conns, NEW k \in Keys, ReadPush(c, k)
        PROVE  Awaits'
    BY <1>3 DEF Types, Numbers, Words, Awaits, Waiter, Conns, Idle, NoKey, ReadPush, session,
       calls, connecting, recovery, dispatcher, lifecycle, bounds
  <1>4. ASSUME NEW k \in Keys, Subscribe(k) \/ lockSubscriptionLifecycle(k) \/ Subscribing(k) \/ Unsubscribe(k)
        PROVE  Awaits'
    BY <1>4, SMTT(30) DEF Types, Numbers, Words, Awaits, Waiter, Conns, Idle, NoKey,
       Subscribing, Subscribe, lockSubscriptionLifecycle, SubscribeConnected, SubscribeRegister,
       SubscribeReturns, LoseConnection, beginGap, resetGapBuffer, Unanswered, Fault, Unsubscribe,
       dropKey, session, calls, connecting, recovery, dispatcher, lifecycle, bounds
  <1>5. ASSUME Close \/ ReplayBegins \/ Recovering
        PROVE  Awaits'
    <2>1. CASE Close
      BY <2>1 DEF Types, Numbers, Words, Awaits, Waiter, Conns, Idle, NoKey, Close, session,
         calls, connecting, recovery, dispatcher, lifecycle, bounds
    <2>2. CASE launchReconnect
      BY <2>2, ZenonT(30) DEF Types, Numbers, Words, Awaits, Waiter, Conns, Idle, NoKey,
         launchReconnect, enqueueStarted, session, calls, connecting, recovery, dispatcher,
         lifecycle, bounds
    <2>3. CASE ReconnectWakes \/ ReconnectConnected \/ ReplayBegins
      BY <2>3 DEF Types, Numbers, Words, Awaits, Waiter, Conns, Idle, NoKey, ReconnectWakes,
         ReconnectConnected, ReplayBegins, session, calls, connecting, recovery, dispatcher,
         lifecycle, bounds
    <2>4. CASE ReplayRequest \/ ReplayEnds
      BY <2>4, SMTT(30) DEF Types, Numbers, Words, Awaits, Waiter, Conns, Idle, NoKey,
         ReplayRequest, Fault, Unanswered, ReplayEnds, session, calls, connecting, recovery,
         dispatcher, lifecycle, bounds
    <2>5. CASE ReplayAnswered
      BY <2>5 DEF Types, Numbers, Words, Awaits, Waiter, Conns, Idle, NoKey, ReplayAnswered,
         ClearConnection, resetGapBuffer, Unanswered, Fault, session, calls, connecting, recovery,
         dispatcher, lifecycle, bounds
    <2>6. CASE ReconnectCommits
      BY <2>6 DEF Types, Numbers, Words, Awaits, Waiter, Conns, Idle, NoKey, ReconnectCommits,
         session, calls, connecting, recovery, dispatcher, lifecycle, bounds
    <2>7. QED
      BY <1>5, <2>1, <2>2, <2>3, <2>4, <2>5, <2>6 DEF Recovering
  <1>6. ASSUME Dispatching \/ Hooking
        PROVE  Awaits'
    <2>1. UNCHANGED <<waiter>>
      BY <1>6, Zenon DEF Dispatching, Hooking, HandlerStarts, HandlerReturns, HookTaken,
         StartedRuns, RecoveredChecks, RecoveredRuns, RecoveredReleases, finishGap,
         RecoveredReturns, session, calls, connecting, recovery, dispatcher, lifecycle, bounds
    <2>2. QED
      BY <2>1 DEF Types, Numbers, Words, Awaits, Waiter, Conns, Idle, NoKey
  <1>7. ASSUME UNCHANGED vars
        PROVE  Awaits'
    BY <1>7 DEF Types, Numbers, Words, Awaits, Waiter, Conns, Idle, NoKey, vars, session, calls,
       connecting, recovery, dispatcher, lifecycle, bounds
  <1>8. QED
    BY <1>1, <1>2, <1>3, <1>4, <1>5, <1>6, <1>7 DEF Next

LEMMA HeldStep == Types /\ [Next]_vars => Held'
  <1> SUFFICES ASSUME Types, [Next]_vars PROVE Held'
    OBVIOUS
  <1> USE SessionAssumption
  <1>1. ASSUME NEW o \in Owners, BeginConnect(o) \/ ConnectReturns(o)
        PROVE  Held'
    BY <1>1 DEF Types, Held, BeginConnect, ConnectAtOnce, Resume, Dial, Fault, ConnectReturns,
       ClearConnection, resetGapBuffer, failSubscriptionWaiters, session, calls, connecting,
       recovery, dispatcher, lifecycle, bounds
  <1>2. ASSUME NEW c \in Conns, Reading(c) \/ ReadFails(c)
        PROVE  Held'
    <2>1. CASE UNCHANGED reader
      BY <2>1 DEF Types, Held
    <2>2. CASE EnqueuePush(c)
      <3>1. reader' = [reader EXCEPT ![c].key = NoKey] \/ reader' = [reader EXCEPT ![c].full = TRUE]
        BY <2>2 DEF EnqueuePush
      <3>2. QED
        BY <3>1, Zenon DEF Types, Held
    <2>3. CASE handlePrivateDispatchOverflow(c)
      BY <2>3 DEF Types, Held, handlePrivateDispatchOverflow
    <2>4. QED
      BY <1>2, <2>1, <2>2, <2>3, Zenon DEF Reading, ReadLogin, ReadSubscribed, ReadFails
  <1>3. ASSUME NEW c \in Conns, NEW k \in Keys, ReadPush(c, k)
        PROVE  Held'
    BY <1>3 DEF Types, Held, ReadPush, session, calls, connecting, recovery, dispatcher,
       lifecycle, bounds
  <1>4. ASSUME NEW k \in Keys, Subscribe(k) \/ lockSubscriptionLifecycle(k) \/ Subscribing(k) \/ Unsubscribe(k)
        PROVE  Held'
    BY <1>4, SMTT(30) DEF Types, Held, Subscribing, Subscribe, lockSubscriptionLifecycle,
       SubscribeConnected, SubscribeRegister, SubscribeReturns, LoseConnection, beginGap,
       resetGapBuffer, Unanswered, Fault, Unsubscribe, dropKey, session, calls, connecting,
       recovery, dispatcher, lifecycle, bounds
  <1>5. ASSUME Close \/ ReplayBegins \/ Recovering
        PROVE  Held'
    BY <1>5, Zenon DEF Types, Held, Recovering, Close, launchReconnect, enqueueStarted,
       ReconnectWakes, ReconnectConnected, ReplayBegins, ReplayRequest, ReplayAnswered,
       ClearConnection, resetGapBuffer, Unanswered, Fault, ReplayEnds, ReconnectCommits, session,
       calls, connecting, recovery, dispatcher, lifecycle, bounds
  <1>6. ASSUME Dispatching \/ Hooking
        PROVE  Held'
    <2>1. UNCHANGED <<reader>>
      BY <1>6, Zenon DEF Dispatching, Hooking, HandlerStarts, HandlerReturns, HookTaken,
         StartedRuns, RecoveredChecks, RecoveredRuns, RecoveredReleases, finishGap,
         RecoveredReturns, session, calls, connecting, recovery, dispatcher, lifecycle, bounds
    <2>2. QED
      BY <2>1 DEF Types, Held
  <1>7. ASSUME UNCHANGED vars
        PROVE  Held'
    BY <1>7 DEF Types, Held, vars, session, calls, connecting, recovery, dispatcher, lifecycle,
       bounds
  <1>8. QED
    BY <1>1, <1>2, <1>3, <1>4, <1>5, <1>6, <1>7 DEF Next

-----------------------------------------------------------------------------
(* The subscriptions.                                                      *)

\* A Subscribe with lifecycleMu held.
Holding == {"connect", "connected", "register", "subscribing"}

\* Who holds the two mutexes.  No Subscribe holds lifecycleMu at the commit: it would have
\* taken it during the recovery.
MuInv ==
  /\ \A k \in Keys : caller[k] \in Holding => lifecycleMu = k
  /\ loop = "replaying" => lifecycleMu = "reconnect"
  /\ loop = "commit" => lifecycleMu = Nobody
  /\ \A k \in Keys : connectMu = k => caller[k] = "connect"

\* A connection that has not logged in is the one Connect is waiting for.
LoginInv ==
  /\ connectMu # Nobody <=> attempt # 0
  /\ conn # 0 /\ ~auth => attempt = conn
  /\ conn # 0 /\ attempt = conn /\ auth => login = "ok"

\* The subscription waited for is that of the holder of lifecycleMu; an answer on the current
\* connection means that the venue feeds the topic there.
WaitInv ==
  /\ waiter # Idle => loop = "replaying" \/ \E k \in Keys : caller[k] = "subscribing"
  /\ \A k \in Keys : caller[k] = "subscribing" => waiter.key = k /\ waiter.conn # 0
  /\ loop = "replaying" /\ waiter # Idle => waiter.key \in todo /\ waiter.conn = rconn
  /\ waiter.res = "ok" /\ conn = waiter.conn => waiter.key \in fed

\* The replay goes through the topics with a handler; what it has not requested yet is in todo.
ReplayInv ==
  /\ loop \in {"replay", "replaying", "commit"} => rconn # 0
  /\ loop = "replaying" /\ conn = rconn => subs \subseteq fed \cup todo
  /\ loop = "commit" /\ conn = rconn => subs \subseteq fed

\* SubscriptionsAreFed, topic by topic and also while a Subscribe of another topic runs.
FeedInv ==
  /\ ~reconnecting =>
     \A k \in subs : caller[k] = "subscribing" \/ (conn # 0 /\ auth /\ k \in fed)
  /\ ~reconnecting /\ waiter.res = "ok" => conn = waiter.conn /\ auth

Fed == MuInv /\ LoginInv /\ WaitInv /\ ReplayInv /\ FeedInv

\* A lost connection fails the wait without changing what is waited for.
LEMMA WaiterFails ==
    ASSUME Awaits, NEW c, c # 0, waiter' = failSubscriptionWaiters(c, waiter)
    PROVE  /\ waiter'.key = waiter.key /\ waiter'.conn = waiter.conn
           /\ waiter'.res = "ok" <=> waiter.res = "ok"
           /\ waiter' = Idle <=> waiter = Idle
  BY DEF Awaits, Waiter, failSubscriptionWaiters, Idle, NoKey

LEMMA MuStep ==
    ASSUME Types, LoopInv, Fed, ~closed, ~closed', [Next]_vars
    PROVE  MuInv'
  <1> USE SessionAssumption
  <1>1. ASSUME NEW o \in Owners, BeginConnect(o) \/ ConnectReturns(o)
        PROVE  MuInv'
    BY <1>1, SMTT(30) DEF Types, Numbers, Flags, Words, Awaits, Waiter, Owners, Nobody, NoKey,
       Fed, MuInv, Holding, LoopInv, AtConnect, BeginConnect, ConnectAtOnce, Resume, Dial, Fault,
       ConnectReturns, ClearConnection, resetGapBuffer, failSubscriptionWaiters, session, calls,
       connecting, recovery, dispatcher, lifecycle, bounds
  <1>2. ASSUME NEW c \in Conns, Reading(c) \/ ReadFails(c) \/ \E k \in Keys : ReadPush(c, k)
        PROVE  MuInv'
    BY <1>2, ZenonT(30) DEF Types, Numbers, Flags, Words, Awaits, Waiter, Owners, Nobody, NoKey,
       Fed, MuInv, Holding, LoopInv, AtConnect, Reading, ReadLogin, Reads, Fault, ReadSubscribed,
       EnqueuePush, handlePrivateDispatchOverflow, LoseConnection, beginGap, resetGapBuffer,
       failSubscriptionWaiters, ReadFails, ReadPush, session, calls, connecting, recovery,
       dispatcher, lifecycle, bounds
  <1>3. ASSUME NEW k \in Keys, Subscribe(k) \/ lockSubscriptionLifecycle(k) \/ Subscribing(k) \/ Unsubscribe(k)
        PROVE  MuInv'
    BY <1>3 DEF Types, Numbers, Flags, Words, Awaits, Waiter, Owners, Nobody, NoKey, Fed, MuInv,
       Holding, LoopInv, AtConnect, Subscribing, Subscribe, lockSubscriptionLifecycle,
       SubscribeConnected, SubscribeRegister, SubscribeReturns, LoseConnection, beginGap,
       resetGapBuffer, Unanswered, Fault, Unsubscribe, dropKey, session, calls, connecting,
       recovery, dispatcher, lifecycle, bounds
  <1>4. ASSUME ReplayBegins \/ Recovering
        PROVE  MuInv'
    <2>1. CASE ReplayAnswered
      <3>1. loop = "replaying" /\ UNCHANGED <<caller, connectMu>> /\ lifecycleMu = "reconnect"
        BY <2>1 DEF ReplayAnswered, connecting, Fed, MuInv
      <3>2. UNCHANGED <<lifecycleMu, loop>> \/ (lifecycleMu' = Nobody /\ loop' = "sleep")
        BY <2>1, SMTT(30) DEF ReplayAnswered
      <3>3. QED
        BY <3>1, <3>2 DEF Fed, MuInv
    <2>2. CASE launchReconnect \/ ReconnectWakes \/ ReconnectConnected \/ ReconnectCommits
      <3>1. UNCHANGED <<caller, lifecycleMu, connectMu>> /\ loop' \notin {"replaying", "commit"}
        BY <2>2 DEF launchReconnect, ReconnectWakes, ReconnectConnected, ReconnectCommits,
           calls, connecting
      <3>2. QED
        BY <3>1 DEF Fed, MuInv
    <2>3. CASE ReplayRequest
      <3>1. UNCHANGED <<caller, lifecycleMu, connectMu, loop>>
        BY <2>3 DEF ReplayRequest, connecting, recovery
      <3>2. QED
        BY <3>1 DEF Fed, MuInv
    <2>4. CASE ReplayBegins \/ ReplayEnds
      <3>1. /\ UNCHANGED <<caller, connectMu>> /\ lifecycleMu \in {Nobody, "reconnect"}
            /\ \/ loop' = "replaying" /\ lifecycleMu' = "reconnect"
               \/ loop' = "commit" /\ lifecycleMu' = Nobody
        BY <2>4 DEF ReplayBegins, ReplayEnds, connecting, Fed, MuInv
      <3>2. \A k \in Keys : caller[k] \notin Holding
        BY <3>1 DEF Fed, MuInv, Nobody
      <3>3. QED
        BY <3>1, <3>2 DEF Fed, MuInv
    <2>5. QED
      BY <1>4, <2>1, <2>2, <2>3, <2>4 DEF Recovering
  <1>5. ASSUME Dispatching \/ Hooking
        PROVE  MuInv'
    <2>1. UNCHANGED <<conn, auth, reconnecting, attempt, rconn, subs, todo, fed, lifecycleMu,
                      connectMu, login, caller, loop, waiter>>
      BY <1>5, Zenon DEF Dispatching, Hooking, HandlerStarts, HandlerReturns, HookTaken,
         StartedRuns, RecoveredChecks, RecoveredRuns, RecoveredReleases, finishGap,
         RecoveredReturns, session, calls, connecting, recovery, dispatcher, lifecycle, bounds
    <2>2. QED
      BY <2>1 DEF Fed, MuInv, Holding
  <1>6. CASE UNCHANGED vars
    BY <1>6 DEF Fed, MuInv, Holding, vars, session, calls, connecting, recovery, dispatcher,
       lifecycle, bounds
  <1>7. QED
    BY <1>1, <1>2, <1>3, <1>4, <1>5, <1>6 DEF Next, Close

LEMMA LoginStep ==
    ASSUME Types, LoopInv, Fed, ~closed, ~closed', [Next]_vars
    PROVE  LoginInv'
  <1> USE SessionAssumption
  <1>1. ASSUME NEW o \in Owners, BeginConnect(o) \/ ConnectReturns(o)
        PROVE  LoginInv'
    BY <1>1, SMTT(30) DEF Types, Numbers, Flags, Words, Awaits, Waiter, Owners, Nobody, NoKey,
       Fed, LoginInv, MuInv, Conns, Holding, AtConnect, BeginConnect, ConnectAtOnce, Resume, Dial,
       Fault, ConnectReturns, ClearConnection, resetGapBuffer, failSubscriptionWaiters, session,
       calls, connecting, recovery, dispatcher, lifecycle, bounds
  <1>2. ASSUME NEW c \in Conns, Reading(c) \/ ReadFails(c) \/ \E k \in Keys : ReadPush(c, k)
        PROVE  LoginInv'
    BY <1>2 DEF Types, Numbers, Flags, Words, Awaits, Waiter, Owners, Nobody, NoKey, Fed,
       LoginInv, MuInv, Conns, Holding, AtConnect, Reading, ReadLogin, Reads, Fault,
       ReadSubscribed, EnqueuePush, handlePrivateDispatchOverflow, LoseConnection, beginGap,
       resetGapBuffer, failSubscriptionWaiters, ReadFails, ReadPush, session, calls, connecting,
       recovery, dispatcher, lifecycle, bounds
  <1>3. ASSUME NEW k \in Keys, Subscribe(k) \/ lockSubscriptionLifecycle(k) \/ Subscribing(k) \/ Unsubscribe(k)
        PROVE  LoginInv'
    BY <1>3, SMTT(30) DEF Types, Numbers, Flags, Words, Awaits, Waiter, Owners, Nobody, NoKey,
       Fed, LoginInv, MuInv, Conns, Holding, AtConnect, Subscribing, Subscribe,
       lockSubscriptionLifecycle, SubscribeConnected, SubscribeRegister, SubscribeReturns,
       LoseConnection, beginGap, resetGapBuffer, Unanswered, Fault, Unsubscribe, dropKey, session,
       calls, connecting, recovery, dispatcher, lifecycle, bounds
  <1>4. ASSUME ReplayBegins \/ Recovering
        PROVE  LoginInv'
    <2>1. CASE ReplayAnswered
      <3>1. UNCHANGED <<connectMu, attempt, login>>
        BY <2>1 DEF ReplayAnswered, connecting
      <3>2. UNCHANGED <<conn, auth>> \/ conn' = 0
        BY <2>1 DEF ReplayAnswered, ClearConnection, session
      <3>3. QED
        BY <3>1, <3>2 DEF Fed, LoginInv
    <2>2. CASE launchReconnect \/ ReconnectWakes \/ ReconnectConnected \/ ReplayBegins
                 \/ ReplayRequest \/ ReplayEnds \/ ReconnectCommits
      <3>1. UNCHANGED <<conn, auth, connectMu, attempt, login>>
        BY <2>2 DEF launchReconnect, ReconnectWakes, ReconnectConnected, ReplayBegins,
           ReplayRequest, ReplayEnds, ReconnectCommits, session, connecting
      <3>2. QED
        BY <3>1, ZenonT(30) DEF Fed, LoginInv
    <2>3. QED
      BY <1>4, <2>1, <2>2 DEF Recovering
  <1>5. ASSUME Dispatching \/ Hooking
        PROVE  LoginInv'
    <2>1. UNCHANGED <<conn, auth, reconnecting, attempt, rconn, subs, todo, fed, lifecycleMu,
                      connectMu, login, caller, loop, waiter>>
      BY <1>5, Zenon DEF Dispatching, Hooking, HandlerStarts, HandlerReturns, HookTaken,
         StartedRuns, RecoveredChecks, RecoveredRuns, RecoveredReleases, finishGap,
         RecoveredReturns, session, calls, connecting, recovery, dispatcher, lifecycle, bounds
    <2>2. QED
      BY <2>1 DEF Fed, LoginInv
  <1>6. CASE UNCHANGED vars
    BY <1>6 DEF Fed, LoginInv, Holding, vars, session, calls, connecting, recovery, dispatcher,
       lifecycle, bounds
  <1>7. QED
    BY <1>1, <1>2, <1>3, <1>4, <1>5, <1>6 DEF Next, Close

LEMMA WaitStep ==
    ASSUME Types, LoopInv, Fed, ~closed, ~closed', [Next]_vars
    PROVE  WaitInv'
  <1> USE SessionAssumption
  <1>1. ASSUME NEW o \in Owners, BeginConnect(o) \/ ConnectReturns(o)
        PROVE  WaitInv'
    <2>1. CASE ConnectReturns(o)
      <3>1. connectMu = o /\ attempt # 0
        BY <2>1, SMTT(30) DEF ConnectReturns, Fed, LoginInv, Owners, Nobody
      <3>2. conn' \in {0, conn} /\ UNCHANGED <<fed, rconn, todo>>
        BY <2>1, Zenon DEF ConnectReturns, ClearConnection, session
      <3>3. /\ waiter'.key = waiter.key /\ waiter'.conn = waiter.conn
            /\ waiter'.res = "ok" <=> waiter.res = "ok"
            /\ waiter' = Idle <=> waiter = Idle
        BY <2>1, <3>1, WaiterFails, ZenonT(30) DEF ConnectReturns, Types
      <3>4. (loop' = "replaying" <=> loop = "replaying")
            /\ \A k \in Keys : caller'[k] = "subscribing" <=> caller[k] = "subscribing"
        BY <2>1, <3>1 DEF ConnectReturns, Resume, Fed, MuInv, LoopInv, Types, Words, Owners
      <3>5. waiter.conn = 0 => waiter = Idle
        BY SMTT(30) DEF Fed, WaitInv, ReplayInv
      <3>6. QED
        BY <3>2, <3>3, <3>4, <3>5 DEF Fed, WaitInv, Idle
    <2>2. CASE ConnectAtOnce(o) \/ Dial(o)
      <3>1. /\ UNCHANGED <<waiter, rconn, todo>>
            /\ UNCHANGED <<conn, fed>> \/ conn' # waiter.conn
        BY <2>2, Zenon DEF ConnectAtOnce, Dial, Unused, session
      <3>2. AtConnect(o)
        BY <2>2, Zenon DEF ConnectAtOnce, Dial
      <3>3. UNCHANGED <<caller, loop>> \/ \E ok \in BOOLEAN : Resume(o, ok)
        BY <2>2, ZenonT(30) DEF ConnectAtOnce, Dial
      <3>4. (loop' = "replaying" <=> loop = "replaying")
            /\ \A k \in Keys : caller'[k] = "subscribing" <=> caller[k] = "subscribing"
        BY <3>2, <3>3 DEF Resume, AtConnect, Types, Words, Owners
      <3>5. QED
        BY <3>1, <3>4 DEF Fed, WaitInv
    <2>3. QED
      BY <1>1, <2>1, <2>2, SMTT(30) DEF BeginConnect
  <1>2. ASSUME NEW c \in Conns, Reading(c) \/ ReadFails(c) \/ \E k \in Keys : ReadPush(c, k)
        PROVE  WaitInv'
    <2>1. CASE handlePrivateDispatchOverflow(c)
      <3>1. conn' \in {0, conn} /\ UNCHANGED <<fed, rconn, todo, loop, caller>>
        BY <2>1 DEF handlePrivateDispatchOverflow, LoseConnection, session, recovery
      <3>2. c # 0
        BY DEF Conns
      <3>3. /\ waiter'.key = waiter.key /\ waiter'.conn = waiter.conn
            /\ waiter'.res = "ok" <=> waiter.res = "ok"
            /\ waiter' = Idle <=> waiter = Idle
        BY <2>1, <3>2, WaiterFails, Zenon DEF handlePrivateDispatchOverflow, Types
      <3>4. waiter.conn = 0 => waiter = Idle
        BY SMTT(30) DEF Fed, WaitInv, ReplayInv
      <3>5. QED
        BY <3>1, <3>3, <3>4, SMTT(30) DEF Fed, WaitInv, Idle
    <2>2. CASE ReadFails(c)
      <3>1. conn' \in {0, conn} /\ UNCHANGED <<fed, rconn, todo, loop, caller>>
        BY <2>2 DEF ReadFails, LoseConnection, session, recovery
      <3>2. c # 0
        BY DEF Conns
      <3>3. /\ waiter'.key = waiter.key /\ waiter'.conn = waiter.conn
            /\ waiter'.res = "ok" <=> waiter.res = "ok"
            /\ waiter' = Idle <=> waiter = Idle
        BY <2>2, <3>2, WaiterFails DEF ReadFails, Types
      <3>4. waiter.conn = 0 => waiter = Idle
        BY SMTT(30) DEF Fed, WaitInv, ReplayInv
      <3>5. QED
        BY <3>1, <3>3, <3>4 DEF Fed, WaitInv, Idle
    <2>3. CASE ReadLogin(c) \/ ReadSubscribed(c) \/ EnqueuePush(c) \/ (\E k \in Keys : ReadPush(c, k))
      BY <2>3 DEF Types, Numbers, Flags, Words, Awaits, Waiter, Owners, Nobody, NoKey, Fed,
         WaitInv, MuInv, LoginInv, LoopInv, Holding, Idle, Conns, AtConnect, Unused, ReadLogin,
         Reads, Fault, ReadSubscribed, EnqueuePush, ReadPush, session, calls, connecting,
         recovery, dispatcher, lifecycle, bounds
    <2>4. QED
      BY <1>2, <2>1, <2>2, <2>3, ZenonT(30) DEF Reading
  <1>3. ASSUME NEW k \in Keys, Subscribe(k) \/ lockSubscriptionLifecycle(k) \/ Subscribing(k) \/ Unsubscribe(k)
        PROVE  WaitInv'
    BY <1>3, SMTT(30) DEF Types, Numbers, Flags, Words, Awaits, Waiter, Owners, Nobody, NoKey,
       Fed, WaitInv, MuInv, LoginInv, LoopInv, Holding, Idle, Conns, AtConnect, Unused,
       Subscribing, Subscribe, lockSubscriptionLifecycle, SubscribeConnected, SubscribeRegister,
       SubscribeReturns, LoseConnection, beginGap, resetGapBuffer, Unanswered, Fault, Unsubscribe,
       dropKey, session, calls, connecting, recovery, dispatcher, lifecycle, bounds
  <1>4. ASSUME ReplayBegins \/ Recovering
        PROVE  WaitInv'
    <2>1. CASE launchReconnect \/ ReconnectWakes \/ ReconnectConnected \/ ReconnectCommits
      <3>1. /\ UNCHANGED <<conn, waiter, caller, fed>>
            /\ loop # "replaying" /\ loop' # "replaying"
        <4>1. CASE launchReconnect
          <5>1. loop = "none"
            BY <4>1 DEF launchReconnect, LoopInv, Types, Words
          <5>2. QED
            BY <4>1, <5>1, Zenon DEF launchReconnect, session, calls
        <4>2. CASE ReconnectWakes
          BY <4>2, Zenon DEF ReconnectWakes, session, calls
        <4>3. CASE ReconnectConnected
          BY <4>3, Zenon DEF ReconnectConnected, session, calls
        <4>4. CASE ReconnectCommits
          BY <4>4, Zenon DEF ReconnectCommits, calls
        <4>5. QED
          BY <2>1, <4>1, <4>2, <4>3, <4>4
      <3>2. QED
        BY <3>1, Zenon DEF Fed, WaitInv
    <2>2. CASE ReplayBegins \/ ReplayEnds
      <3>1. UNCHANGED <<conn, waiter, caller, fed>>
        BY <2>2 DEF ReplayBegins, ReplayEnds, session
      <3>2. waiter = Idle
        <4>1. CASE ReplayEnds
          BY <4>1, Zenon DEF ReplayEnds
        <4>2. CASE ReplayBegins
          <5>1. loop = "replay" /\ lifecycleMu = Nobody
            BY <4>2, Zenon DEF ReplayBegins
          <5>2. \A k \in Keys : caller[k] # "subscribing"
            BY <5>1 DEF Fed, MuInv, Holding, Nobody
          <5>3. QED
            BY <5>1, <5>2 DEF Fed, WaitInv
        <4>3. QED
          BY <2>2, <4>1, <4>2
      <3>3. QED
        BY <3>1, <3>2, Zenon DEF Fed, WaitInv
    <2>3. CASE ReplayRequest
      <3>1. /\ UNCHANGED <<conn, caller, loop, rconn, todo>> /\ loop = "replaying"
            /\ \E k \in todo : waiter' = [key |-> k, conn |-> rconn, res |-> "wait"]
        BY <2>3 DEF ReplayRequest, session, recovery
      <3>2. waiter'.key \in todo /\ waiter'.conn = rconn /\ waiter'.res = "wait"
        BY <3>1
      <3>3. \A k \in Keys : caller[k] # "subscribing"
        BY <3>1 DEF Fed, MuInv, Holding
      <3>4. QED
        BY <3>1, <3>2, <3>3, Zenon DEF WaitInv
    <2>4. CASE ReplayAnswered
      <3>1. waiter' = Idle /\ UNCHANGED caller /\ loop = "replaying"
        BY <2>4, Zenon DEF ReplayAnswered
      <3>2. \A k \in Keys : caller[k] # "subscribing"
        BY <3>1 DEF Fed, MuInv, Holding
      <3>3. waiter'.res # "ok"
        BY <3>1 DEF Idle
      <3>4. QED
        BY <3>1, <3>2, <3>3, Zenon DEF WaitInv
    <2>5. QED
      BY <1>4, <2>1, <2>2, <2>3, <2>4 DEF Recovering
  <1>5. ASSUME Dispatching \/ Hooking
        PROVE  WaitInv'
    <2>1. UNCHANGED <<conn, auth, reconnecting, attempt, rconn, subs, todo, fed, lifecycleMu,
                      connectMu, login, caller, loop, waiter>>
      BY <1>5, Zenon DEF Dispatching, Hooking, HandlerStarts, HandlerReturns, HookTaken,
         StartedRuns, RecoveredChecks, RecoveredRuns, RecoveredReleases, finishGap,
         RecoveredReturns, session, calls, connecting, recovery, dispatcher, lifecycle, bounds
    <2>2. QED
      BY <2>1, ZenonT(30) DEF Fed, WaitInv
  <1>6. CASE UNCHANGED vars
    BY <1>6, ZenonT(30) DEF Fed, WaitInv, Holding, vars, session, calls, connecting, recovery,
       dispatcher, lifecycle, bounds
  <1>7. QED
    BY <1>1, <1>2, <1>3, <1>4, <1>5, <1>6 DEF Next, Close

LEMMA ReplayStep ==
    ASSUME Types, LoopInv, Fed, ~closed, ~closed', [Next]_vars
    PROVE  ReplayInv'
  <1> USE SessionAssumption
  <1>1. ASSUME NEW o \in Owners, BeginConnect(o) \/ ConnectReturns(o)
        PROVE  ReplayInv'
    BY <1>1, ZenonT(30) DEF Types, Numbers, Flags, Words, Awaits, Waiter, Owners, Nobody, NoKey,
       Fed, ReplayInv, MuInv, WaitInv, Holding, AtConnect, Unused, Conns, LoopInv, BeginConnect,
       ConnectAtOnce, Resume, Dial, Fault, ConnectReturns, ClearConnection, resetGapBuffer,
       failSubscriptionWaiters, session, calls, connecting, recovery, dispatcher, lifecycle, bounds
  <1>2. ASSUME NEW c \in Conns, Reading(c) \/ ReadFails(c) \/ \E k \in Keys : ReadPush(c, k)
        PROVE  ReplayInv'
    BY <1>2 DEF Types, Numbers, Flags, Words, Awaits, Waiter, Owners, Nobody, NoKey, Fed,
       ReplayInv, MuInv, WaitInv, Holding, AtConnect, Unused, Conns, LoopInv, Reading,
       ReadLogin, Reads, Fault, ReadSubscribed, EnqueuePush, handlePrivateDispatchOverflow,
       LoseConnection, beginGap, resetGapBuffer, failSubscriptionWaiters, ReadFails, ReadPush,
       session, calls, connecting, recovery, dispatcher, lifecycle, bounds
  <1>3. ASSUME NEW k \in Keys, Subscribe(k) \/ lockSubscriptionLifecycle(k) \/ Subscribing(k) \/ Unsubscribe(k)
        PROVE  ReplayInv'
    BY <1>3 DEF Types, Numbers, Flags, Words, Awaits, Waiter, Owners, Nobody, NoKey, Fed,
       ReplayInv, MuInv, WaitInv, Holding, AtConnect, Unused, Conns, LoopInv, Subscribing,
       Subscribe, lockSubscriptionLifecycle, SubscribeConnected, SubscribeRegister,
       SubscribeReturns, LoseConnection, beginGap, resetGapBuffer, Unanswered, Fault,
       Unsubscribe, dropKey, session, calls, connecting, recovery, dispatcher, lifecycle, bounds
  <1>4. ASSUME ReplayBegins \/ Recovering
        PROVE  ReplayInv'
    <2>1. CASE ReplayAnswered
      <3>1. loop = "replaying" /\ waiter # Idle /\ UNCHANGED <<subs, fed>>
        BY <2>1 DEF ReplayAnswered
      <3>2. CASE loop' = "sleep"
        BY <3>2 DEF ReplayInv
      <3>3. CASE waiter.res = "ok" /\ todo' = todo \ {waiter.key} /\ UNCHANGED <<session, loop, rconn>>
        <4>1. conn = rconn => waiter.key \in fed
          BY <3>1, <3>3 DEF Fed, WaitInv
        <4>2. rconn # 0 /\ (conn = rconn => subs \subseteq fed \cup todo)
          BY <3>1, SMTT(30) DEF Fed, ReplayInv
        <4>3. QED
          BY <3>1, <3>3, <4>1, <4>2 DEF ReplayInv, session
      <3>4. QED
        BY <2>1, <3>2, <3>3 DEF ReplayAnswered
    <2>2. CASE launchReconnect \/ ReconnectWakes \/ ReconnectConnected \/ ReplayBegins \/ ReplayRequest \/ ReplayEnds \/ ReconnectCommits
      BY <2>2, Zenon DEF Types, Numbers, Flags, Words, Awaits, Waiter, Owners, Nobody, NoKey,
         Fed, ReplayInv, MuInv, WaitInv, Holding, AtConnect, Unused, Conns, LoopInv,
         launchReconnect, enqueueStarted, ReconnectWakes, ReconnectConnected, ReplayBegins,
         ReplayRequest, ReplayEnds, ReconnectCommits, session, calls, connecting, recovery,
         dispatcher, lifecycle, bounds
    <2>3. QED
      BY <1>4, <2>1, <2>2 DEF Recovering
  <1>5. ASSUME Dispatching \/ Hooking
        PROVE  ReplayInv'
    <2>1. UNCHANGED <<conn, auth, reconnecting, attempt, rconn, subs, todo, fed, lifecycleMu,
                      connectMu, login, caller, loop, waiter>>
      BY <1>5, Zenon DEF Dispatching, Hooking, HandlerStarts, HandlerReturns, HookTaken,
         StartedRuns, RecoveredChecks, RecoveredRuns, RecoveredReleases, finishGap,
         RecoveredReturns, session, calls, connecting, recovery, dispatcher, lifecycle, bounds
    <2>2. QED
      BY <2>1, ZenonT(30) DEF Fed, ReplayInv
  <1>6. CASE UNCHANGED vars
    BY <1>6 DEF Fed, ReplayInv, Holding, vars, session, calls, connecting, recovery, dispatcher,
       lifecycle, bounds
  <1>7. QED
    BY <1>1, <1>2, <1>3, <1>4, <1>5, <1>6 DEF Next, Close

LEMMA FeedStep ==
    ASSUME Types, LoopInv, Fed, ~closed, ~closed', [Next]_vars
    PROVE  FeedInv'
  <1> USE SessionAssumption
  <1>1. ASSUME NEW o \in Owners, BeginConnect(o) \/ ConnectReturns(o)
        PROVE  FeedInv'
    <2>1. CASE Dial(o)
      <3>1. CASE reconnecting
        BY <2>1, <3>1 DEF Dial, FeedInv
      <3>2. CASE ~reconnecting
        <4>1. o \in Keys /\ caller[o] = "connect" /\ conn = 0 /\ loop # "replaying"
          BY <2>1, <3>2 DEF Dial, AtConnect, LoopInv, Owners
        <4>2. \A k \in Keys : caller[k] # "subscribing"
          BY <4>1 DEF Fed, MuInv, Holding
        <4>3. subs = {} /\ waiter = Idle
          BY <3>2, <4>1, <4>2 DEF Fed, FeedInv, WaitInv, Types, Words
        <4>4. UNCHANGED <<subs, waiter>>
          BY <2>1 DEF Dial
        <4>5. QED
          BY <4>3, <4>4 DEF FeedInv, Idle
      <3>3. QED
        BY <3>1, <3>2
    <2>2. CASE ConnectAtOnce(o) \/ ConnectReturns(o)
      BY <2>2 DEF Types, Numbers, Flags, Words, Awaits, Waiter, Owners, Nobody, NoKey, Fed,
         FeedInv, MuInv, LoginInv, WaitInv, ReplayInv, LoopInv, Holding, AtConnect, Unused,
         Conns, ConnectAtOnce, Resume, ConnectReturns, ClearConnection, resetGapBuffer, Fault,
         failSubscriptionWaiters, session, calls, connecting, recovery, dispatcher, lifecycle,
         bounds
    <2>3. QED
      BY <1>1, <2>1, <2>2 DEF BeginConnect
  <1>2. ASSUME NEW c \in Conns, Reading(c) \/ ReadFails(c) \/ \E k \in Keys : ReadPush(c, k)
        PROVE  FeedInv'
    <2>1. CASE ReadSubscribed(c)
      <3>1. /\ conn = c /\ waiter.conn = c /\ c # 0
            /\ UNCHANGED <<conn, auth, reconnecting, subs, caller>>
        BY <2>1 DEF ReadSubscribed, Reads, session, Conns
      <3>2. waiter'.conn = c /\ fed \subseteq fed'
        BY <2>1, <3>1 DEF ReadSubscribed, Types, Awaits, Waiter
      <3>3. ASSUME ~reconnecting PROVE auth
        <4>1. loop # "replaying" /\ waiter # Idle
          BY <3>1, <3>3 DEF LoopInv, Idle
        <4>2. PICK k \in Keys : caller[k] = "subscribing"
          BY <4>1 DEF Fed, WaitInv
        <4>3. connectMu = Nobody
          <5>1. connectMu # "reconnect"
            BY <3>3 DEF LoopInv
          <5>2. ASSUME NEW j \in Keys, connectMu = j PROVE FALSE
            BY <4>2, <5>2 DEF Fed, MuInv, Holding
          <5>3. QED
            BY <5>1, <5>2 DEF Types, Words, Owners
        <4>4. QED
          BY <3>1, <4>3 DEF Fed, LoginInv
      <3>4. QED
        BY <3>1, <3>2, <3>3 DEF Fed, FeedInv
    <2>2. CASE ReadLogin(c) \/ EnqueuePush(c) \/ handlePrivateDispatchOverflow(c) \/ ReadFails(c) \/ (\E k \in Keys : ReadPush(c, k))
      BY <2>2 DEF Types, Numbers, Flags, Words, Awaits, Waiter, Owners, Nobody, NoKey, Fed,
         FeedInv, MuInv, LoginInv, WaitInv, ReplayInv, LoopInv, Holding, AtConnect, Unused,
         Conns, ReadLogin, Reads, Fault, EnqueuePush, handlePrivateDispatchOverflow,
         LoseConnection, beginGap, resetGapBuffer, failSubscriptionWaiters, ReadFails, ReadPush,
         session, calls, connecting, recovery, dispatcher, lifecycle, bounds
    <2>3. QED
      BY <1>2, <2>1, <2>2 DEF Reading
  <1>3. ASSUME NEW k \in Keys, Subscribe(k) \/ lockSubscriptionLifecycle(k) \/ Subscribing(k) \/ Unsubscribe(k)
        PROVE  FeedInv'
    <2>1. CASE SubscribeReturns(k)
      <3>1. /\ caller[k] = "subscribing" /\ caller' = [caller EXCEPT ![k] = "idle"]
            /\ waiter' = Idle /\ UNCHANGED fed
        BY <2>1 DEF SubscribeReturns
      <3>2. waiter.key = k /\ waiter.conn # 0 /\ \A j \in Keys : caller[j] = "subscribing" => j = k
        BY <3>1 DEF Fed, MuInv, WaitInv, Holding
      <3>3. \A j \in Keys : caller'[j] = "subscribing" <=> caller[j] = "subscribing" /\ j # k
        BY <3>1, ZenonT(30) DEF Types, Words
      <3>4. CASE waiter.res = "ok" /\ UNCHANGED <<subs, session>>
        <4>1. ~reconnecting => conn = waiter.conn /\ auth /\ k \in fed
          BY <3>2, <3>4, ZenonT(30) DEF Fed, FeedInv, WaitInv
        <4>2. QED
          BY <3>1, <3>2, <3>3, <3>4, <4>1 DEF Fed, FeedInv, Idle, session, Types, Words
      <3>5. CASE subs' = subs \ {k} /\ LoseConnection(waiter.conn, subs' # {}, FALSE)
        <4>1. reconnecting' \/ subs' = {} \/ UNCHANGED <<conn, auth, reconnecting>>
          BY <3>5 DEF LoseConnection, session
        <4>2. reconnecting => reconnecting'
          BY <3>5, Zenon DEF LoseConnection, session
        <4>3. QED
          BY <3>1, <3>2, <3>3, <3>5, <4>1, <4>2, SMTT(30) DEF Fed, FeedInv, Idle, Types, Words
      <3>6. QED
        BY <2>1, <3>4, <3>5, ZenonT(30) DEF SubscribeReturns
    <2>2. CASE Subscribe(k) \/ lockSubscriptionLifecycle(k) \/ SubscribeConnected(k) \/ SubscribeRegister(k) \/ Unsubscribe(k)
      BY <2>2 DEF Types, Numbers, Flags, Words, Awaits, Waiter, Owners, Nobody, NoKey, Fed,
         FeedInv, MuInv, LoginInv, WaitInv, ReplayInv, LoopInv, Holding, AtConnect, Unused,
         Conns, Subscribe, lockSubscriptionLifecycle, SubscribeConnected, SubscribeRegister,
         Unsubscribe, dropKey, session, calls, connecting, recovery, dispatcher, lifecycle,
         bounds
    <2>3. QED
      BY <1>3, <2>1, <2>2 DEF Subscribing
  <1>4. ASSUME ReplayBegins \/ Recovering
        PROVE  FeedInv'
    <2>1. CASE ReplayAnswered
      <3>1. reconnecting /\ UNCHANGED reconnecting
        BY <2>1, Zenon DEF ReplayAnswered, LoopInv, ClearConnection, session
      <3>2. QED
        BY <3>1 DEF FeedInv
    <2>2. CASE ReconnectCommits
      <3>1. /\ loop = "commit" /\ reconnecting
            /\ UNCHANGED <<conn, auth, subs, lifecycleMu, waiter, caller, fed>>
        BY <2>2 DEF ReconnectCommits, LoopInv, calls
      <3>2. CASE reconnecting'
        BY <3>2 DEF FeedInv
      <3>3. CASE ~reconnecting'
        <4>1. conn = rconn /\ auth
          BY <2>2, <3>1, <3>3, Zenon DEF ReconnectCommits
        <4>2. subs \subseteq fed /\ conn # 0
          BY <3>1, <4>1 DEF Fed, ReplayInv
        <4>3. waiter = Idle
          BY <3>1 DEF Fed, MuInv, WaitInv, Holding, Nobody, SessionAssumption
        <4>4. QED
          BY <3>1, <4>1, <4>2, <4>3 DEF FeedInv, Idle
      <3>4. QED
        BY <3>2, <3>3
    <2>3. CASE launchReconnect \/ ReconnectWakes \/ ReconnectConnected \/ ReplayBegins \/ ReplayRequest \/ ReplayEnds
      BY <2>3, Zenon DEF Types, Numbers, Flags, Words, Awaits, Waiter, Owners, Nobody, NoKey,
         Fed, FeedInv, MuInv, LoginInv, WaitInv, ReplayInv, LoopInv, Holding, AtConnect, Unused,
         Conns, launchReconnect, enqueueStarted, ReconnectWakes, ReconnectConnected, ReplayBegins,
         ReplayRequest, ReplayEnds, session, calls, connecting, recovery, dispatcher, lifecycle,
         bounds
    <2>4. QED
      BY <1>4, <2>1, <2>2, <2>3 DEF Recovering
  <1>5. ASSUME Dispatching \/ Hooking
        PROVE  FeedInv'
    <2>1. UNCHANGED <<conn, auth, reconnecting, attempt, rconn, subs, todo, fed, lifecycleMu,
                      connectMu, login, caller, loop, waiter>>
      BY <1>5, Zenon DEF Dispatching, Hooking, HandlerStarts, HandlerReturns, HookTaken,
         StartedRuns, RecoveredChecks, RecoveredRuns, RecoveredReleases, finishGap,
         RecoveredReturns, session, calls, connecting, recovery, dispatcher, lifecycle, bounds
    <2>2. QED
      BY <2>1, ZenonT(30) DEF Fed, FeedInv
  <1>6. CASE UNCHANGED vars
    BY <1>6 DEF Fed, FeedInv, Holding, vars, session, calls, connecting, recovery, dispatcher,
       lifecycle, bounds
  <1>7. QED
    BY <1>1, <1>2, <1>3, <1>4, <1>5, <1>6 DEF Next, Close

-----------------------------------------------------------------------------
(* The queues.                                                             *)

\* The lifecycle queue holds one recovered hook, at its end, and none while reconnect() runs.
OneOfEach ==
  /\ \A i \in 1 .. Len(hooks) : hooks[i].kind = "recovered" => i = Len(hooks)
  /\ loop # "none" => ~Pending("recovered")

\* Data is kept back from the loss to the release by the last recovered hook.  Meanwhile the
\* queue is empty, or a started hook that waits for it is on its way.
KeptBack ==
  /\ reconnecting => blocked
  /\ Pending("recovered") /\ launch = NoLaunch =>
       blocked /\ (running.kind = "recovered" => running.gen < generation)
  /\ ~reconnecting /\ running.kind = "recovered" /\ running.gen = generation
       /\ running.at \in {"called", "current", "reported", "finish"} => blocked
  /\ blocked => \/ Quiet \/ Pending("started") \/ running.kind = "started"
                \/ (launch # NoLaunch /\ ~Pending("recovered") /\ (~gapOpen \/ running.at = "applied"))

Back == OneOfEach /\ KeptBack

\* A step that neither begins nor ends a gap.
LEMMA BackMoves ==
    ASSUME Back, UNCHANGED <<reconnecting, generation, launch, blocked, hooks, running, gapOpen>>,
           loop' # "none" => loop # "none", blocked /\ Quiet => Quiet'
    PROVE  Back'
  <1>1. \A kind : Pending(kind)' <=> Pending(kind)
    BY DEF Pending
  <1>2. OneOfEach'
    BY <1>1 DEF Back, OneOfEach
  <1>3. KeptBack'
    BY <1>1 DEF Back, KeptBack
  <1>4. QED
    BY <1>2, <1>3 DEF Back

\* What was not kept back when the connection was lost is behind a started hook that
\* launchReconnect will queue.
LEMMA LoseBack ==
    ASSUME IInv, ~closed, Back, NEW c, NEW recover, NEW reset, LoseConnection(c, recover, reset),
           UNCHANGED <<loop, hooks, running, gapOpen>>
    PROVE  Back'
  <1> DEFINE loses == conn = c /\ recover /\ ~closed /\ ~reconnecting
  <1>1. CASE ~loses
    <2>1. UNCHANGED <<reconnecting, generation, launch, queue, busy, blocked>>
      BY <1>1 DEF LoseConnection, resetGapBuffer, session, dispatcher
    <2>2. QED
      BY <2>1, BackMoves, SMTT(30) DEF Quiet
  <1>2. CASE loses
    <2>1. /\ reconnecting' = TRUE /\ UNCHANGED <<queue, busy>> /\ blocked' = TRUE
          /\ launch' = [gen |-> generation + 1, drain |-> drainOf(generation + 1)]
      BY <1>2, SMTT(30) DEF LoseConnection, beginGap
    <2>2. launch' # NoLaunch
      <3>1. generation + 1 # 0
        BY DEF IInv, Shape
      <3>2. QED
        BY <2>1, <3>1, Zenon DEF NoLaunch
    <2>3. launch = NoLaunch /\ SettleInv /\ ~reconnecting
      BY <1>2 DEF IInv, LoopInv
    <2>4. \A kind : Pending(kind)' <=> Pending(kind)
      BY DEF Pending
    <2>5. Quiet' <=> Quiet
      BY <2>1, SMTT(30) DEF Quiet
    <2>6. CASE blocked
      BY <2>1, <2>2, <2>3, <2>4, <2>5, <2>6, ZenonT(30) DEF Back, OneOfEach, KeptBack
    <2>7. CASE ~blocked
      <3>1. ~Pending("recovered")
        BY <2>3, <2>7 DEF Back, KeptBack
      <3>2. ~Queued
        BY <3>1 DEF Queued, Pending
      <3>3. gapOpen => running.at = "applied"
        BY <2>3, <2>7, <3>2 DEF SettleInv, Ahead, Back, KeptBack
      <3>4. QED
        BY <2>1, <2>2, <2>4, <3>1, <3>3, Zenon DEF Back, OneOfEach, KeptBack
    <2>8. QED
      BY <2>6, <2>7
  <1>3. QED
    BY <1>1, <1>2

LEMMA LaunchBack ==
    ASSUME IInv, ~closed, Back, launchReconnect
    PROVE  Back'
  <1>1. /\ launch # NoLaunch /\ launch' = NoLaunch /\ reconnecting
        /\ UNCHANGED <<reconnecting, generation, queue, busy, blocked, running>>
    BY DEF launchReconnect, session, dispatcher, IInv, LoopInv
  <1>2. /\ Len(hooks') <= 1 /\ \A i \in 1 .. Len(hooks') : hooks'[i].kind = "started"
        /\ Pending("started") => Pending("started")'
        /\ ~Pending("recovered") /\ (~gapOpen \/ running.kind = "recovered") => Pending("started")'
    <2> DEFINE e == Hook("started", launch.gen, launch.drain)
    <2>1. e.kind = "started"
      BY DEF Hook
    <2>2. \/ /\ hooks' = <<>> /\ ~Pending("started")
             /\ Pending("recovered") \/ (gapOpen /\ running.kind # "recovered")
          \/ \E h : h.kind = "started" /\ hooks' = <<h>>
      BY <2>1, LaunchHooks
    <2>3. ASSUME NEW h, h.kind = "started", hooks' = <<h>>
          PROVE  /\ Len(hooks') <= 1 /\ \A i \in 1 .. Len(hooks') : hooks'[i].kind = "started"
                 /\ Pending("started")'
      BY <2>3 DEF Pending
    <2>4. QED
      BY <2>2, <2>3
  <1>3. ~Pending("recovered")'
    BY <1>2 DEF Pending
  <1>4. running.at = "applied" => running.kind = "recovered"
    BY DEF IInv, Shape
  <1>5. Quiet' <=> Quiet
    BY <1>1 DEF Quiet
  <1>6. OneOfEach'
    BY <1>2, <1>3, ZenonT(30) DEF OneOfEach
  <1>7. KeptBack'
    BY <1>1, <1>2, <1>3, <1>4, <1>5 DEF Back, KeptBack
  <1>8. QED
    BY <1>6, <1>7 DEF Back

LEMMA CommitBack ==
    ASSUME IInv, ~closed, Back, ReconnectCommits
    PROVE  Back'
  <1> DEFINE e == Hook("recovered", generation, 0)
  <1>1. UNCHANGED <<generation, launch, queue, busy, blocked, running, gapOpen>> /\ loop = "commit"
    BY DEF ReconnectCommits, dispatcher
  <1>2. CASE UNCHANGED <<hooks, reconnecting>>
    BY <1>1, <1>2, BackMoves, ZenonT(30) DEF Quiet
  <1>3. CASE loop' = "none" /\ hooks' = Append(hooks, e) /\ reconnecting' = FALSE
    <2>1. hooks \in Seq(Entry) /\ reconnecting /\ launch = NoLaunch /\ ~Pending("recovered") /\ GenInv
      BY <1>1 DEF IInv, Shape, LoopInv, Back, OneOfEach
    <2>2. e.kind = "recovered"
      BY DEF Hook
    <2> HIDE DEF e
    <2>3. /\ Len(hooks') = Len(hooks) + 1 /\ Len(hooks) \in Nat /\ hooks'[Len(hooks')] = e
          /\ \A i \in 1 .. Len(hooks) : hooks'[i] = hooks[i] /\ i \in 1 .. Len(hooks')
          /\ \A i \in 1 .. Len(hooks') : i \in 1 .. Len(hooks) \/ i = Len(hooks')
      BY <1>3, <2>1
    <2>4. Pending("started") => Pending("started")'
      BY <2>3, ZenonT(30) DEF Pending
    <2>5. OneOfEach'
      BY <1>3, <2>1, <2>3 DEF OneOfEach, Pending
    <2>6. running.kind = "recovered" => running.gen < generation /\ running.gen # generation
      <3>1. running.gen \in Nat /\ generation \in Nat
        BY DEF IInv, Shape
      <3>2. QED
        BY <2>1, <3>1 DEF GenInv
    <2>7. blocked /\ (Quiet' <=> Quiet)
      BY <1>1, <2>1 DEF Back, KeptBack, Quiet
    <2>8. KeptBack'
      BY <1>1, <1>3, <2>1, <2>4, <2>6, <2>7 DEF Back, KeptBack
    <2>9. QED
      BY <2>5, <2>8 DEF Back
  <1>4. QED
    BY <1>2, <1>3, Zenon DEF ReconnectCommits

LEMMA HookTakenBack ==
    ASSUME IInv, Back, HookTaken
    PROVE  Back'
  <1> DEFINE h == Head(hooks)
  <1>1. /\ ~closed /\ running = NoHook /\ hooks # <<>> /\ hooks' = Tail(hooks)
        /\ running' = [kind |-> h.kind, gen |-> h.gen, drain |-> h.drain, at |-> "called"]
        /\ UNCHANGED <<reconnecting, generation, loop, launch, queue, busy, blocked, gapOpen>>
    BY Zenon DEF HookTaken, session, recovery, dispatcher
  <1>2. Shape /\ LoopInv /\ OrderInv
    BY <1>1, SMTT(30) DEF IInv
  <1>3. hooks \in Seq(Entry) /\ Len(hooks) \in Nat \ {0} /\ h = hooks[1] /\ 1 \in 1 .. Len(hooks)
    BY <1>1, <1>2 DEF Shape
  <1>4. h.kind \in {"started", "recovered"}
    BY <1>2, <1>3, EntryTypes
  <1> HIDE DEF h
  <1>5. running'.kind = h.kind /\ running'.gen = h.gen /\ running'.at = "called"
    BY <1>1
  <1>6. /\ Len(hooks') = Len(hooks) - 1
        /\ \A i \in 1 .. Len(hooks') : hooks'[i] = hooks[i + 1] /\ i + 1 \in 1 .. Len(hooks)
    BY <1>1, <1>3, SMTT(30)
  <1>7. Pending("recovered")' => Pending("recovered") /\ h.kind # "recovered"
    <2>1. h.kind = "recovered" => Len(hooks) = 1
      BY <1>3, Zenon DEF Back, OneOfEach
    <2> SUFFICES ASSUME NEW i \in 1 .. Len(hooks'), hooks'[i].kind = "recovered"
                 PROVE  Pending("recovered") /\ h.kind # "recovered"
      BY DEF Pending
    <2>2. hooks[i + 1].kind = "recovered" /\ i + 1 \in 1 .. Len(hooks)
      BY <1>6
    <2>3. Len(hooks) # 1
      BY <1>3, <1>6
    <2>4. QED
      BY <2>1, <2>2, <2>3 DEF Pending
  <1>8. h.kind = "recovered" => Pending("recovered")
    BY <1>3 DEF Pending
  <1>9. Pending("started") => h.kind = "started"
    BY <1>2, <1>3, ZenonT(30) DEF OrderInv, Pending
  <1>10. OneOfEach'
    <2>1. \A i \in 1 .. Len(hooks') : hooks'[i].kind = "recovered" => i = Len(hooks')
      <3> SUFFICES ASSUME NEW i \in 1 .. Len(hooks'), hooks'[i].kind = "recovered"
                   PROVE  i = Len(hooks')
        OBVIOUS
      <3>1. i + 1 = Len(hooks)
        BY <1>6, ZenonT(30) DEF Back, OneOfEach
      <3>2. QED
        BY <1>3, <1>6, <3>1
    <2>2. QED
      BY <1>1, <1>7, <2>1 DEF Back, OneOfEach
  <1>11. KeptBack'
    <2>1. Quiet' <=> Quiet
      BY <1>1 DEF Quiet
    <2>2. running.kind # "started" /\ running.at # "applied"
      BY <1>1 DEF NoHook
    <2>3. ~reconnecting => launch = NoLaunch
      BY <1>2 DEF LoopInv
    <2>4. QED
      BY <1>1, <1>4, <1>5, <1>7, <1>8, <1>9, <2>1, <2>2, <2>3, Zenon DEF Back, KeptBack
  <1>12. QED
    BY <1>10, <1>11, SMTT(30) DEF Back

LEMMA HookBack ==
    ASSUME IInv, ~closed, Back,
           StartedRuns \/ RecoveredChecks \/ RecoveredRuns \/ RecoveredReleases \/ RecoveredReturns
    PROVE  Back'
  <1>1. UNCHANGED <<reconnecting, generation, loop, launch, hooks, busy>>
    BY DEF StartedRuns, RecoveredChecks, RecoveredRuns, RecoveredReleases, RecoveredReturns, finishGap,
           session, recovery, dispatcher
  <1>2. \A kind : Pending(kind)' <=> Pending(kind)
    BY <1>1 DEF Pending
  <1>3. OneOfEach'
    BY <1>1, <1>2 DEF Back, OneOfEach
  <1>4. Shape /\ LoopInv /\ GenInv /\ DrainInv /\ KeptBack /\ NoHook.kind = "none" /\ NoHook.at = "idle"
    BY ZenonT(30) DEF IInv, Back, NoHook
  <1>5. CASE StartedRuns
    <2>1. running' = NoHook /\ UNCHANGED <<queue, blocked, gapOpen>>
      BY <1>5, SMTT(30) DEF StartedRuns, dispatcher
    <2>2. Quiet'
      BY <1>1, <1>4, <1>5, <2>1, Zenon DEF StartedRuns, DrainInv, Waits, Quiet
    <2>3. QED
      BY <1>1, <1>2, <1>3, <1>4, <2>1, <2>2, ZenonT(30) DEF Back, KeptBack
  <1>6. CASE RecoveredChecks
    <2> DEFINE x == CASE ~IsCurrent(running.gen) -> "stale"
                      [] running.at = "called" -> "current"
                      [] OTHER -> "finish"
    <2>1. /\ running.kind = "recovered" /\ running.at \in {"called", "reported"}
          /\ running' = [running EXCEPT !.at = x] /\ UNCHANGED <<queue, blocked, gapOpen>>
      BY <1>6 DEF RecoveredChecks, dispatcher
    <2> HIDE DEF x
    <2>2. running'.kind = "recovered" /\ running'.gen = running.gen
      BY <1>4, <2>1 DEF Shape
    <2>3. Quiet' <=> Quiet
      BY <1>1, <2>1 DEF Quiet
    <2>4. QED
      BY <1>1, <1>2, <1>3, <1>4, <2>1, <2>2, <2>3 DEF Back, KeptBack
  <1>7. CASE RecoveredRuns
    <2>1. /\ running.at = "current" /\ running' = [running EXCEPT !.at = "reported"]
          /\ UNCHANGED <<queue, blocked, gapOpen>>
      BY <1>7 DEF RecoveredRuns, dispatcher
    <2>2. running.kind = "recovered" /\ running'.kind = "recovered" /\ running'.gen = running.gen
      BY <1>4, <2>1 DEF Shape
    <2>3. Quiet' <=> Quiet
      BY <1>1, <2>1 DEF Quiet
    <2>4. QED
      BY <1>1, <1>2, <1>3, <1>4, <2>1, <2>2, <2>3 DEF Back, KeptBack
  <1>8. CASE RecoveredReleases
    <2>1. /\ running.at = "finish" /\ running' = [running EXCEPT !.at = "applied"]
          /\ finishGap(running.gen) /\ UNCHANGED gapOpen
      BY <1>8 DEF RecoveredReleases
    <2>2. /\ running.kind = "recovered" /\ running'.kind = "recovered" /\ running'.gen = running.gen
          /\ running'.at = "applied"
      BY <1>4, <2>1 DEF Shape
    <2>3. CASE UNCHANGED <<blocked, queue>>
      <3>1. Quiet' <=> Quiet
        BY <1>1, <2>3, ZenonT(30) DEF Quiet
      <3>2. QED
        BY <1>1, <1>2, <1>3, <1>4, <2>1, <2>2, <2>3, <3>1 DEF Back, KeptBack
    <2>4. CASE blocked' = FALSE /\ gap = running.gen
      <3>1. running.gen = generation /\ ~(running.gen < generation)
        BY <1>4, <2>4, SMTT(30) DEF Shape
      <3>2. ~reconnecting /\ (Pending("recovered") => launch # NoLaunch)
        BY <1>4, <2>2, <3>1, Zenon DEF GenInv, KeptBack
      <3>3. QED
        BY <1>1, <1>2, <1>3, <2>2, <2>4, <3>2 DEF Back, KeptBack
    <2>5. QED
      BY <2>1, <2>3, <2>4, Zenon DEF finishGap
  <1>9. CASE RecoveredReturns
    <2>1. /\ running' = NoHook /\ UNCHANGED <<queue, blocked>>
          /\ running.at \in {"stale", "applied"}
          /\ gapOpen' = (gapOpen /\ (running.at = "stale" \/ Pending("started")))
      BY <1>9 DEF RecoveredReturns, dispatcher
    <2>2. Quiet' <=> Quiet
      BY <1>1, <2>1 DEF Quiet
    <2>3. running.kind = "recovered"
      BY <1>4, <2>1, ZenonT(30) DEF Shape
    <2>4. QED
      BY <1>1, <1>2, <1>3, <1>4, <2>1, <2>2, <2>3, Zenon DEF Back, KeptBack
  <1>10. QED
    BY <1>5, <1>6, <1>7, <1>8, <1>9

LEMMA BackStep ==
    ASSUME IInv, ~closed, ~closed', Back, [Next]_vars
    PROVE  Back'
  <1>1. ASSUME NEW o \in Owners, BeginConnect(o) \/ ConnectReturns(o)
        PROVE  Back'
    <2>1. UNCHANGED core
      BY <1>1, ZenonT(30) DEF BeginConnect, ConnectAtOnce, Dial, ConnectReturns,
         ClearConnection, resetGapBuffer, core, session, dispatcher, lifecycle
    <2>2. loop' # "none" => loop # "none"
      BY <1>1, Zenon DEF IInv, LoopInv, BeginConnect, ConnectAtOnce, Dial, ConnectReturns,
         Resume, AtConnect
    <2>3. QED
      BY <2>1, <2>2, BackMoves, SMTT(30) DEF core, Quiet
  <1>2. ASSUME NEW c \in Conns, Reading(c) \/ ReadFails(c) \/ \E k \in Keys : ReadPush(c, k)
        PROVE  Back'
    <2>1. UNCHANGED <<loop, hooks, running, gapOpen>>
      BY <1>2, Zenon DEF Reading, ReadLogin, ReadSubscribed, EnqueuePush,
         handlePrivateDispatchOverflow, ReadFails, ReadPush, recovery, lifecycle
    <2>2. CASE ReadFails(c) \/ handlePrivateDispatchOverflow(c)
      <3>1. CASE UNCHANGED <<session, launch, dispatcher>>
        BY <2>1, <3>1, BackMoves, ZenonT(30) DEF session, dispatcher, Quiet
      <3>2. QED
        BY <2>1, <2>2, <3>1, LoseBack, Zenon DEF ReadFails, handlePrivateDispatchOverflow
    <2>3. CASE ReadLogin(c) \/ ReadSubscribed(c) \/ EnqueuePush(c) \/ \E k \in Keys : ReadPush(c, k)
      <3>1. /\ UNCHANGED <<reconnecting, generation, launch, blocked, busy>>
            /\ blocked => UNCHANGED queue
        BY <2>3 DEF ReadLogin, ReadSubscribed, EnqueuePush, ReadPush, session, dispatcher
      <3>2. QED
        BY <2>1, <3>1, BackMoves DEF Quiet
    <2>4. QED
      BY <1>2, <2>2, <2>3 DEF Reading
  <1>3. ASSUME NEW k \in Keys,
               Subscribe(k) \/ lockSubscriptionLifecycle(k) \/ Subscribing(k) \/ Unsubscribe(k)
        PROVE  Back'
    <2>1. UNCHANGED <<loop, hooks, running, gapOpen>>
      BY <1>3, Zenon DEF Subscribe, lockSubscriptionLifecycle, Subscribing, SubscribeConnected,
         SubscribeRegister, SubscribeReturns, Unsubscribe, recovery, lifecycle
    <2>2. CASE SubscribeReturns(k)
      <3>1. CASE UNCHANGED <<session, launch, dispatcher>>
        BY <2>1, <3>1, BackMoves, ZenonT(30) DEF session, dispatcher, Quiet
      <3>2. QED
        BY <2>1, <2>2, <3>1, LoseBack, Zenon DEF SubscribeReturns
    <2>3. CASE Unsubscribe(k)
      <3>1. UNCHANGED <<reconnecting, generation, launch, blocked, busy>> /\ queue' = Without(queue, k)
        BY <2>3 DEF Unsubscribe, dropKey, session
      <3>2. QED
        BY <2>1, <3>1, WithoutNothing, BackMoves, ZenonT(30) DEF Quiet
    <2>4. CASE Subscribe(k) \/ lockSubscriptionLifecycle(k) \/ SubscribeConnected(k) \/ SubscribeRegister(k)
      <3>1. UNCHANGED <<reconnecting, generation, launch, blocked, busy, queue>>
        BY <2>4 DEF Subscribe, lockSubscriptionLifecycle, SubscribeConnected, SubscribeRegister, session,
                    dispatcher
      <3>2. QED
        BY <2>1, <3>1, BackMoves DEF Quiet
    <2>5. QED
      BY <1>3, <2>2, <2>3, <2>4 DEF Subscribing
  <1>4. CASE ReplayBegins \/ ReconnectWakes \/ ReconnectConnected \/ ReplayRequest \/ ReplayAnswered \/ ReplayEnds
    <2>1. UNCHANGED core /\ loop # "none"
      BY <1>4, Zenon DEF ReplayBegins, ReconnectWakes, ReconnectConnected, ReplayRequest,
         ReplayAnswered, ReplayEnds, ClearConnection, resetGapBuffer, core, session, dispatcher,
         lifecycle
    <2>2. QED
      BY <2>1, BackMoves, SMTT(30) DEF core, Quiet
  <1>5. CASE Dispatching
    <2>1. UNCHANGED <<reconnecting, generation, launch, blocked, hooks, running, gapOpen, loop>>
      BY <1>5, Zenon DEF Dispatching, HandlerStarts, HandlerReturns, session, recovery,
         lifecycle
    <2>2. Quiet => Quiet'
      BY <1>5 DEF Dispatching, HandlerStarts, HandlerReturns, Quiet
    <2>3. QED
      BY <2>1, <2>2, BackMoves
  <1>6. CASE Hooking
    BY <1>6, HookTakenBack, HookBack, ZenonT(30) DEF Hooking
  <1>7. CASE UNCHANGED vars
    BY <1>7, BackMoves DEF vars, session, recovery, dispatcher, lifecycle, Quiet
  <1>8. CASE launchReconnect \/ ReconnectCommits
    BY <1>8, LaunchBack, CommitBack
  <1>9. QED
    BY <1>1, <1>2, <1>3, <1>4, <1>5, <1>6, <1>7, <1>8, ZenonT(30) DEF Next, Close, Recovering

-----------------------------------------------------------------------------
\* The queues keep their limits, and a closed client has no hooks left.
Queues ==
  /\ IsSeq(queue) /\ Len(queue) <= Limit
  /\ IsSeq(buffer) /\ Len(buffer) <= Limit
  /\ drain <= generation
  /\ closed => hooks = <<>>

LEMMA EmptyIsSeq == IsSeq(<<>>) /\ Len(<<>>) <= Limit
  <1>1. <<>> \in Seq({})
    OBVIOUS
  <1>2. QED
    BY <1>1, SessionAssumption DEF IsSeq

LEMMA QueueGrows ==
    ASSUME NEW q, IsSeq(q), Len(q) < Limit, NEW m
    PROVE  IsSeq(Append(q, m)) /\ Len(Append(q, m)) <= Limit
  <1>1. PICK S : q \in Seq(S)
    BY DEF IsSeq
  <1>2. q \in Seq(S \cup {m}) /\ m \in S \cup {m}
    BY <1>1
  <1>3. Append(q, m) \in Seq(S \cup {m}) /\ Len(Append(q, m)) = Len(q) + 1 /\ Len(q) \in Nat
    BY <1>2, SMTT(30)
  <1>4. QED
    BY <1>3, SessionAssumption DEF IsSeq

LEMMA QueuesMove ==
    ASSUME Queues, Shape,
           queue' = queue \/ queue' = <<>>,
           buffer' = buffer \/ buffer' = <<>>,
           drain' \in {0, drain, generation'},
           generation' \in {generation, generation + 1},
           closed' => hooks' = <<>>
    PROVE  Queues'
  <1>1. generation \in Nat /\ drain \in Nat
    BY DEF Shape
  <1>2. drain' <= generation'
    BY <1>1 DEF Queues
  <1>3. QED
    BY <1>2, EmptyIsSeq DEF Queues

LEMMA LoseQueues ==
    ASSUME Queues, Shape, NEW c, NEW recover, NEW reset, LoseConnection(c, recover, reset), UNCHANGED hooks
    PROVE  Queues'
  <1>1. UNCHANGED <<queue, closed>> /\ (buffer' = buffer \/ buffer' = <<>>)
    BY DEF LoseConnection, beginGap, resetGapBuffer, session, dispatcher
  <1>2. generation' \in {generation, generation + 1} /\ drain' \in {0, drain, generation'}
    BY ZenonT(30) DEF LoseConnection, beginGap, resetGapBuffer, session, dispatcher, drainOf
  <1>3. QED
    BY <1>1, <1>2, QueuesMove, ZenonT(30) DEF Queues

LEMMA QueuesStep ==
    ASSUME IInv, Queues, closed \/ Back, [Next]_vars
    PROVE  Queues'
  <1>1. Shape
    BY DEF IInv
  <1>2. ASSUME NEW o \in Owners, BeginConnect(o) \/ ConnectReturns(o)
        PROVE  Queues'
    <2>1. UNCHANGED <<closed, generation, queue, drain, hooks>> /\ (buffer' = buffer \/ buffer' = <<>>)
      BY <1>2, Zenon DEF BeginConnect, ConnectAtOnce, Dial, ConnectReturns, ClearConnection,
         resetGapBuffer, session, dispatcher, lifecycle
    <2>2. QED
      BY <1>1, <2>1, QueuesMove, SMTT(30) DEF Queues
  <1>3. ASSUME NEW c \in Conns, Reading(c) \/ ReadFails(c) \/ \E k \in Keys : ReadPush(c, k)
        PROVE  Queues'
    <2>1. UNCHANGED hooks
      BY <1>3, Zenon DEF Reading, ReadLogin, ReadSubscribed, EnqueuePush,
         handlePrivateDispatchOverflow, ReadFails, ReadPush, lifecycle
    <2>2. CASE UNCHANGED <<session, dispatcher>>
      BY <1>1, <2>1, <2>2, QueuesMove DEF Queues, session, dispatcher
    <2>3. CASE EnqueuePush(c)
      <3>1. UNCHANGED <<closed, generation, drain>>
        BY <2>3, ZenonT(30) DEF EnqueuePush, session
      <3>2. CASE UNCHANGED <<buffer, queue>>
        BY <1>1, <2>1, <3>1, <3>2, QueuesMove, ZenonT(30) DEF Queues
      <3>3. CASE Len(buffer) < Limit /\ buffer' = Append(buffer, reader[c].key) /\ UNCHANGED queue
        BY <2>1, <3>1, <3>3, QueueGrows, ZenonT(30) DEF Queues
      <3>4. CASE Len(queue) < Limit /\ queue' = Append(queue, reader[c].key) /\ UNCHANGED buffer
        BY <2>1, <3>1, <3>4, QueueGrows, ZenonT(30) DEF Queues
      <3>5. QED
        BY <2>3, <3>2, <3>3, <3>4 DEF EnqueuePush
    <2>4. CASE ReadLogin(c)
      BY <1>1, <2>1, <2>4, QueuesMove, SMTT(30) DEF Queues, ReadLogin, dispatcher
    <2>5. CASE ReadFails(c) \/ handlePrivateDispatchOverflow(c)
      BY <1>1, <2>1, <2>2, <2>5, LoseQueues, Zenon DEF ReadFails, handlePrivateDispatchOverflow
    <2>6. QED
      BY <1>3, <2>2, <2>3, <2>4, <2>5 DEF Reading, ReadSubscribed, ReadPush
  <1>4. ASSUME NEW k \in Keys,
               Subscribe(k) \/ lockSubscriptionLifecycle(k) \/ Subscribing(k) \/ Unsubscribe(k)
        PROVE  Queues'
    <2>1. UNCHANGED hooks
      BY <1>4, Zenon DEF Subscribe, lockSubscriptionLifecycle, Subscribing, SubscribeConnected,
         SubscribeRegister, SubscribeReturns, Unsubscribe, lifecycle
    <2>2. CASE UNCHANGED <<session, dispatcher>>
      BY <1>1, <2>1, <2>2, QueuesMove, ZenonT(30) DEF Queues, session, dispatcher
    <2>3. CASE Unsubscribe(k)
      <3>1. /\ UNCHANGED <<closed, generation>> /\ drain' \in {0, drain}
            /\ queue' = Without(queue, k) /\ buffer' = Without(buffer, k)
        BY <2>3, ZenonT(30) DEF Unsubscribe, dropKey, session, closeDrainLocked
      <3>2. Len(queue) \in Nat /\ Len(buffer) \in Nat /\ Len(queue') \in Nat /\ Len(buffer') \in Nat
        BY <3>1, WithoutIsShorter DEF Queues, IsSeq
      <3>3. IsSeq(queue') /\ Len(queue') <= Limit /\ IsSeq(buffer') /\ Len(buffer') <= Limit
        BY <3>1, <3>2, WithoutIsShorter, SessionAssumption DEF Queues
      <3>4. drain' <= generation'
        BY <1>1, <3>1, SMTT(30) DEF Queues, Shape
      <3>5. QED
        BY <2>1, <3>1, <3>3, <3>4, ZenonT(30) DEF Queues
    <2>4. QED
      BY <1>1, <1>4, <2>1, <2>2, <2>3, LoseQueues, Zenon DEF Subscribe,
         lockSubscriptionLifecycle, Subscribing, SubscribeConnected, SubscribeRegister,
         SubscribeReturns
  <1>5. CASE Close
    BY <1>1, <1>5, QueuesMove, ZenonT(30) DEF Close, Queues
  <1>6. CASE ReplayBegins \/ Recovering
    <2>1. UNCHANGED <<closed, generation, queue, drain>> /\ (buffer' = buffer \/ buffer' = <<>>)
      BY <1>6, ZenonT(30) DEF ReplayBegins, Recovering, launchReconnect, ReconnectWakes,
         ReconnectConnected, ReplayRequest, ReplayAnswered, ReplayEnds, ReconnectCommits,
         ClearConnection, resetGapBuffer, session, dispatcher
    <2>2. closed => UNCHANGED hooks
      BY <1>6, Zenon DEF ReplayBegins, Recovering, launchReconnect, enqueueStarted,
         ReconnectWakes, ReconnectConnected, ReplayRequest, ReplayAnswered, ReplayEnds,
         ReconnectCommits, lifecycle
    <2>3. QED
      BY <1>1, <2>1, <2>2, QueuesMove, SMTT(30) DEF Queues
  <1>7. CASE HandlerStarts
    <2>1. PICK S : queue \in Seq(S)
      BY DEF Queues, IsSeq
    <2>2. UNCHANGED <<closed, generation, hooks, buffer, drain>> /\ queue' = Tail(queue) /\ queue # <<>>
      BY <1>7 DEF HandlerStarts, session, lifecycle
    <2>3. queue' \in Seq(S) /\ Len(queue') <= Len(queue) /\ Len(queue') \in Nat /\ Len(queue) \in Nat
      BY <2>1, <2>2
    <2>4. IsSeq(queue') /\ Len(queue') <= Limit
      BY <2>3, SessionAssumption DEF Queues, IsSeq
    <2>5. QED
      BY <2>2, <2>4 DEF Queues
  <1>8. CASE HandlerReturns
    <2>1. UNCHANGED <<closed, generation, hooks, queue, buffer>> /\ drain' \in {0, drain}
      BY <1>8, ZenonT(30) DEF HandlerReturns, closeDrainLocked, session, lifecycle
    <2>2. QED
      BY <1>1, <2>1, QueuesMove, ZenonT(30) DEF Queues
  <1>9. CASE HookTaken \/ StartedRuns \/ RecoveredChecks \/ RecoveredRuns \/ RecoveredReturns
    <2>1. UNCHANGED <<closed, generation, queue, buffer, drain>> /\ (closed => UNCHANGED hooks)
      BY <1>9 DEF HookTaken, StartedRuns, RecoveredChecks, RecoveredRuns, RecoveredReturns, session, dispatcher
    <2>2. QED
      BY <1>1, <2>1, QueuesMove DEF Queues
  <1>10. CASE RecoveredReleases
    <2>1. UNCHANGED <<closed, generation, hooks, drain>> /\ running.at = "finish" /\ finishGap(running.gen)
      BY <1>10 DEF RecoveredReleases, finishGap, session
    <2>2. CASE UNCHANGED <<queue, buffer>>
      BY <1>1, <2>1, <2>2, QueuesMove DEF Queues
    <2>3. CASE /\ ~closed /\ blocked /\ gap = running.gen
               /\ queue' = queue \o buffer /\ buffer' = <<>>
      <3>1. running.kind = "recovered" /\ running.gen = generation /\ ~(running.gen < generation)
        BY <1>1, <2>1, <2>3 DEF Shape
      <3>2. GenInv /\ LoopInv /\ KeptBack
        BY <2>3 DEF IInv, Back
      <3>3. ~reconnecting /\ ~Pending("started")
        BY <3>1, <3>2 DEF GenInv
      <3>4. queue = <<>>
        BY <2>3, <3>1, <3>2, <3>3 DEF LoopInv, KeptBack, Quiet
      <3>5. PICK S : buffer \in Seq(S)
        BY DEF Queues, IsSeq
      <3>6. queue' = buffer
        BY <2>3, <3>4, <3>5, SMTT(30)
      <3>7. QED
        BY <2>1, <2>3, <3>6, EmptyIsSeq, ZenonT(30) DEF Queues
    <2>4. QED
      BY <2>1, <2>2, <2>3 DEF finishGap
  <1>11. CASE UNCHANGED vars
    BY <1>1, <1>11, QueuesMove, Zenon DEF vars, Queues, session, dispatcher, lifecycle
  <1>12. QED
    BY <1>2, <1>3, <1>4, <1>5, <1>6, <1>7, <1>8, <1>9, <1>10, <1>11, ZenonT(30) DEF Next, Dispatching, Hooking

-----------------------------------------------------------------------------
\* The whole invariant.
SessionInv == IInv /\ Types /\ Queues /\ (closed \/ (Fed /\ Back))

LEMMA InitSessionInv == Init => SessionInv
  <1> SUFFICES ASSUME Init PROVE SessionInv
    OBVIOUS
  <1>1. Numbers /\ Flags
    <2>1. Numbers
      BY SessionAssumption DEF Init, Numbers
    <2>2. Flags
      BY Zenon DEF Init, Flags
    <2>3. QED
      BY <2>1, <2>2
  <1>2. Words
    BY ZenonT(30) DEF Init, Words, Nobody, Owners
  <1>3. Awaits
    BY SessionAssumption, SMTT(30) DEF Init, Awaits, Waiter, Idle, NoKey
  <1>4. Held
    BY DEF Init, Held
  <1>5. Queues
    BY EmptyIsSeq, SMTT(30) DEF Init, Queues
  <1>6. MuInv /\ LoginInv
    BY SessionAssumption, SMTT(30) DEF Init, MuInv, LoginInv, Holding, Nobody
  <1>7. WaitInv /\ ReplayInv /\ FeedInv
    <2>1. waiter = Idle /\ caller = [k \in Keys |-> "idle"] /\ loop = "none" /\ subs = {}
      BY DEF Init
    <2>2. waiter.res = "wait"
      BY <2>1 DEF Idle
    <2>3. QED
      BY <2>1, <2>2, ZenonT(30) DEF WaitInv, ReplayInv, FeedInv
  <1>8. Back
    <2>1. /\ hooks = <<>> /\ running = NoHook /\ launch = NoLaunch /\ loop = "none"
          /\ ~blocked /\ ~reconnecting
      BY DEF Init
    <2>2. \A kind : ~Pending(kind)
      BY <2>1 DEF Pending
    <2>3. running.kind # "recovered"
      BY <2>1 DEF NoHook
    <2>4. Len(hooks) = 0
      BY <2>1
    <2>5. QED
      BY <2>1, <2>2, <2>3, <2>4, SMTT(30) DEF Back, OneOfEach, KeptBack
  <1>9. QED
    BY <1>1, <1>2, <1>3, <1>4, <1>5, <1>6, <1>7, <1>8, InitIInv DEF SessionInv, Types, Fed

LEMMA NextSessionInv == SessionInv /\ [Next]_vars => SessionInv'
  <1> SUFFICES ASSUME SessionInv, [Next]_vars PROVE SessionInv'
    OBVIOUS
  <1>1. IInv' /\ Types'
    BY NextIInv, NumbersStep, FlagsStep, WordsStep, AwaitsStep, HeldStep DEF SessionInv, Types
  <1>2. Queues'
    BY QueuesStep, ZenonT(30) DEF SessionInv
  <1>3. closed => closed'
    BY Zenon DEF Next, BeginConnect, ConnectAtOnce, Dial, ConnectReturns, ClearConnection,
       Reading, ReadLogin, ReadSubscribed, EnqueuePush, handlePrivateDispatchOverflow,
       LoseConnection, ReadFails, ReadPush, Subscribe, lockSubscriptionLifecycle, Subscribing,
       SubscribeConnected, SubscribeRegister, SubscribeReturns, Unsubscribe, Close, ReplayBegins,
       Recovering, launchReconnect, ReconnectWakes, ReconnectConnected, ReplayRequest,
       ReplayAnswered, ReplayEnds, ReconnectCommits, Dispatching, HandlerStarts, HandlerReturns,
       Hooking, HookTaken, StartedRuns, RecoveredChecks, RecoveredRuns, RecoveredReleases,
       RecoveredReturns, session, vars
  <1>4. ASSUME ~closed' PROVE Fed' /\ Back'
    <2>1. ~closed /\ LoopInv /\ Fed /\ Back /\ Types /\ IInv
      BY <1>3, <1>4 DEF SessionInv, IInv
    <2>2. Fed'
      BY <1>4, <2>1, MuStep, LoginStep, WaitStep, ReplayStep, FeedStep DEF Fed
    <2>3. Back'
      BY <1>4, <2>1, BackStep
    <2>4. QED
      BY <2>2, <2>3
  <1>5. QED
    BY <1>1, <1>2, <1>4 DEF SessionInv

\* The whole invariant holds in every reachable state.
THEOREM SessionInvariance == Spec => []SessionInv
  BY InitSessionInv, NextSessionInv, PTL DEF Spec

\* Types; the limits of the two dispatch queues, which hold at every interleaving of readers,
\* losses and recoveries because the data kept back is released only into an empty queue; and
\* the order of the lifecycle queue.
THEOREM TypeCorrect == Spec => []TypeOK
  <1>1. ASSUME SessionInv PROVE TypeOK
    <2>1. HookOrder
      <3>1. CASE closed
        <4>1. hooks = <<>>
          BY <1>1, <3>1, SMTT(30) DEF SessionInv, Queues
        <4>2. QED
          BY <4>1 DEF HookOrder
      <3>2. CASE ~closed
        <4>1. OrderInv /\ OneOfEach /\ Shape
          BY <1>1, <3>2 DEF SessionInv, IInv, Back
        <4>2. Len(hooks) \in Nat
          BY <4>1 DEF Shape
        <4>3. \A i \in 1 .. Len(hooks) : /\ hooks[i].kind \in {"started", "recovered"}
                                         /\ hooks[i].kind = "started" => i = 1
                                         /\ hooks[i].kind = "recovered" => i = Len(hooks)
          BY <4>1, EntryTypes DEF OrderInv, OneOfEach
        <4>4. Len(hooks) <= 2
          <5>1. \A i \in 1 .. Len(hooks) : i = 1 \/ i = Len(hooks)
            BY <4>3, Zenon
          <5>2. ASSUME NEW n \in Nat, \A i \in 1 .. n : i = 1 \/ i = n PROVE n <= 2
            <6>1. 2 \in 1 .. n => n = 2
              BY <5>2, SMTT(30)
            <6>2. QED
              BY <6>1
          <5>3. QED
            BY <4>2, <5>1, <5>2
        <4>5. ASSUME NEW i \in 1 .. Len(hooks)
              PROVE  hooks[i].kind = IF i = 1 /\ Pending("started") THEN "started" ELSE "recovered"
          <5>1. CASE hooks[i].kind = "started"
            BY <4>3, <5>1, ZenonT(30) DEF Pending
          <5>2. CASE hooks[i].kind = "recovered"
            BY <4>3, <5>2 DEF Pending
          <5>3. QED
            BY <4>3, <5>1, <5>2, ZenonT(30)
        <4>6. Len(hooks) = 2 => Pending("started")
          <5>1. SUFFICES ASSUME Len(hooks) = 2 PROVE Pending("started")
            OBVIOUS
          <5>2. 1 \in 1 .. Len(hooks) /\ 1 # Len(hooks)
            BY <5>1
          <5>3. hooks[1].kind = "started"
            BY <4>3, <5>2, Zenon
          <5>4. QED
            BY <5>2, <5>3 DEF Pending
        <4>7. QED
          BY <4>4, <4>5, <4>6, Zenon DEF HookOrder
      <3>3. QED
        BY <3>1, <3>2, SMTT(30)
    <2>2. generation \in Nat /\ gap \in 0 .. generation /\ drain \in 0 .. generation
      BY <1>1 DEF SessionInv, IInv, Shape, Queues
    <2>3. Len(queue) <= Limit /\ Len(buffer) <= Limit
      BY <1>1 DEF SessionInv, Queues
    <2>4. Numbers /\ Flags /\ Words /\ Awaits /\ Held
      BY <1>1 DEF SessionInv, Types
    <2>5. QED
      BY <2>1, <2>2, <2>3, <2>4, Zenon DEF TypeOK, Numbers, Flags, Words, Awaits, Held, Waiter
  <1>2. QED
    BY SessionInvariance, <1>1, PTL

\* However Subscribe, Unsubscribe, Connect, losses and replays interleave: when no call holds
\* lifecycleMu and no recovery runs, every topic with a handler is fed by the current,
\* authenticated connection.
THEOREM SubscribedIsFed == Spec => []SubscriptionsAreFed
  <1>1. ASSUME SessionInv PROVE SubscriptionsAreFed
    <2> SUFFICES ASSUME ~closed, ~reconnecting, lifecycleMu = Nobody, subs # {}
                 PROVE  conn # 0 /\ auth /\ subs \subseteq fed
      BY DEF SubscriptionsAreFed
    <2>1. MuInv /\ FeedInv /\ subs \subseteq Keys
      BY <1>1 DEF SessionInv, Fed, Types, Words
    <2>2. \A k \in Keys : caller[k] # "subscribing"
      BY <2>1, SessionAssumption DEF MuInv, Holding, Nobody
    <2>3. QED
      BY <2>1, <2>2 DEF FeedInv
  <1>2. QED
    BY SessionInvariance, <1>1, PTL
=============================================================================
