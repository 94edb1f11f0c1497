---------------------------- MODULE HubProofs ----------------------------
(***************************************************************************)
(* Invariance proofs for Hub, for any sets of keys, sinks, channels,        *)
(* payloads, topic objects and timers.                                      *)
(***************************************************************************)
EXTENDS HubFeeds, TLAPS

\* A timer is pending exactly while it holds a topic object.
PendingTimerHasTopic ==
    \A t \in Timers : timer[t].state = "free" <=> timer[t].of = NoTopic

\* The inductive invariant of the topic lifecycle.
LifecycleInv ==
    /\ TypeOK
    /\ PendingTimerHasTopic
    /\ OneUpstream
    /\ OpenTopicIsFed
    /\ IdleTopicHasTimer

-----------------------------------------------------------------------------
\* What is kept for replay, as a sequence and as a set.

\* A channel that joins the order joins its set, and only once.
LEMMA AppendOnce ==
    ASSUME NEW S, NEW q \in Seq(S), NEW e \in S
    PROVE  /\ ToSet(Append(q, e)) = ToSet(q) \cup {e}
           /\ e \notin ToSet(q) /\ IsInjective(q) => IsInjective(Append(q, e))
<1>1. ToSet(Append(q, e)) = ToSet(q) \cup {e}
  <2>1. /\ DOMAIN q = 1..Len(q) /\ DOMAIN Append(q, e) = DOMAIN q \cup {Len(q) + 1}
        /\ \A i \in DOMAIN q : Append(q, e)[i] = q[i]
        /\ Append(q, e)[Len(q) + 1] = e
    OBVIOUS
  <2> QED
    BY <2>1, Zenon DEF ToSet
<1>2. ASSUME e \notin ToSet(q), IsInjective(q) PROVE IsInjective(Append(q, e))
  BY <1>2 DEF ToSet, IsInjective
<1> QED
  BY <1>1, <1>2

\* A sequence lists elements of its set.
LEMMA SequenceRange ==
    ASSUME NEW S, NEW q \in Seq(S)
    PROVE  ToSet(q) \subseteq S
BY DEF ToSet

\* Nothing is kept at first.
LEMMA EmptySequence == ToSet(<<>>) = {} /\ IsInjective(<<>>)
BY DEF ToSet, IsInjective

-----------------------------------------------------------------------------
\* What the operators on one topic object return.

\* A subscriber is added, and the timer field cleared.
LEMMA AttachObject ==
    ASSUME NEW o \in Topic, NEW s \in Sinks
    PROVE  /\ Attach(o, s) \in Topic
           /\ Attach(o, s).key = o.key
           /\ Attach(o, s).cancelled = o.cancelled
           /\ Attach(o, s).linger = NoTimer
           /\ Attach(o, s).sinks = o.sinks \cup {s}
           /\ Attach(o, s).retained = o.retained
           /\ Attach(o, s).order = o.order
BY Zenon DEF Topic, Attach

\* A subscriber is removed.
LEMMA DetachObject ==
    ASSUME NEW o \in Topic, NEW s \in Sinks
    PROVE  /\ Detach(o, s) \in Topic
           /\ Detach(o, s).key = o.key
           /\ Detach(o, s).cancelled = o.cancelled
           /\ Detach(o, s).linger = o.linger
           /\ Detach(o, s).sinks = o.sinks \ {s}
           /\ Detach(o, s).retained = o.retained
           /\ Detach(o, s).order = o.order
BY DEF Topic, Detach

\* The last subscriber is removed, and the timer recorded.
LEMMA LingerObject ==
    ASSUME NEW o \in Topic, NEW t \in Timers
    PROVE  /\ Linger(o, t) \in Topic
           /\ Linger(o, t).key = o.key
           /\ Linger(o, t).cancelled = o.cancelled
           /\ Linger(o, t).linger = t
           /\ Linger(o, t).sinks = {}
           /\ Linger(o, t).retained = o.retained
           /\ Linger(o, t).order = o.order
BY Zenon DEF Topic, Linger

\* Only the context changes.
LEMMA CancelObject ==
    ASSUME NEW o \in Topic
    PROVE  /\ Cancel(o) \in Topic
           /\ Cancel(o).key = o.key
           /\ Cancel(o).cancelled
           /\ Cancel(o).linger = o.linger
           /\ Cancel(o).sinks = o.sinks
           /\ Cancel(o).retained = o.retained
           /\ Cancel(o).order = o.order
BY Zenon DEF Topic, Cancel

\* Only the replay value and order change.
LEMMA RetainObject ==
    ASSUME NEW o \in Topic, NEW ch \in Channels, NEW p \in Payload
    PROVE  /\ Retain(o, ch, p) \in Topic
           /\ Retain(o, ch, p).key = o.key
           /\ Retain(o, ch, p).cancelled = o.cancelled
           /\ Retain(o, ch, p).linger = o.linger
           /\ Retain(o, ch, p).sinks = o.sinks
<1>1. o.order \in Seq(Channels) /\ Append(o.order, ch) \in Seq(Channels)
  BY DEF Topic
<1>2. [o.retained EXCEPT ![ch] = p] \in [Channels -> Payload \cup {NoPayload}]
  BY DEF Topic
<1> QED
  BY <1>1, <1>2, Zenon DEF Topic, Retain

\* A new object is well-formed.
LEMMA NewTopicType ==
    ASSUME NEW k \in Keys
    PROVE  NewTopic(k) \in Topic
BY DEF NewTopic, Topic

-----------------------------------------------------------------------------
\* Type correctness.

\* The initial state has its types.
LEMMA TypeInit == Init => TypeOK
<1> SUFFICES ASSUME Init PROVE TypeOK
  OBVIOUS
<1>1. topic \in [Objects -> Topic]
  BY NewTopicType DEF Init
<1>2. [at |-> "none", backoff |-> 1] \in Run
  BY HubAssumption DEF Run
<1>3. run \in [Objects -> Run] /\ timer \in [Timers -> Timer]
  BY <1>2 DEF Init, Timer
<1> QED
  BY <1>1, <1>3, Zenon DEF Init, TypeOK

\* A delivery to the sinks of an object keeps view and missed well-typed.
LEMMA FanoutType ==
    ASSUME TypeOK, NEW g \in Objects, NEW ch \in Channels, NEW p \in Payload,
           NEW lost, Fanout(g, ch, p, lost)
    PROVE  /\ view' \in [Sinks -> [Keys -> [Channels -> Payload \cup {NoPayload}]]]
           /\ missed' \in [Sinks -> SUBSET (Keys \X Channels)]
<1>1. topic[g].key \in Keys
  BY DEF TypeOK, Topic
<1> QED
  BY <1>1 DEF TypeOK, Fanout

\* So does the replay to a new subscriber.
LEMMA ReplayType ==
    ASSUME TypeOK, NEW k \in Keys, NEW o \in Topic, NEW s \in Sinks, NEW lost,
           Replay(k, o, s, lost)
    PROVE  /\ view' \in [Sinks -> [Keys -> [Channels -> Payload \cup {NoPayload}]]]
           /\ missed' \in [Sinks -> SUBSET (Keys \X Channels)]
<1>1. ToSet(o.order) \subseteq Channels
  BY DEF ToSet, Topic
<1>2. o.retained \in [Channels -> Payload \cup {NoPayload}]
  BY DEF Topic
<1> QED
  BY <1>1, <1>2 DEF TypeOK, Replay

\* Every step keeps the types.
LEMMA TypeStep == TypeOK /\ [Next]_vars => TypeOK'
<1> SUFFICES ASSUME TypeOK, [Next]_vars PROVE TypeOK'
  BY ZenonT(30)
<1>1. ASSUME NEW k \in Keys, NEW s \in Sinks, NEW lost, SubscribeOpen(k, s, lost)
      PROVE  TypeOK'
  <2> DEFINE g == topics[k]
  <2>1. g \in Objects /\ topic[g] \in Topic
    BY <1>1 DEF SubscribeOpen, TypeOK
  <2>2. Attach(topic[g], s) \in Topic
    BY <2>1, AttachObject
  <2>3. timer' \in [Timers -> Timer]
    BY <1>1, Zenon DEF SubscribeOpen, Stop, FreeTimer, Timer, TypeOK
  <2>4. Replay(k, topic[g], s, lost)
    BY <1>1 DEF SubscribeOpen
  <2> QED
    BY <1>1, <2>1, <2>2, <2>3, <2>4, ReplayType, ZenonT(30) DEF SubscribeOpen, TypeOK
<1>2. ASSUME NEW k \in Keys, NEW s \in Sinks, NEW g \in Objects, SubscribeNew(k, s, g)
      PROVE  TypeOK'
  <2>1. Attach(NewTopic(k), s) \in Topic
    BY NewTopicType, AttachObject
  <2>2. [at |-> "loop", backoff |-> 1] \in Run
    BY HubAssumption DEF Run
  <2> QED
    BY <1>2, <2>1, <2>2 DEF SubscribeNew, TypeOK
<1>3. ASSUME NEW k \in Keys, NEW s \in Sinks, Unsubscribe(k, s)
      PROVE  TypeOK'
  <2> DEFINE g == topics[k]
  <2>1. g \in Objects /\ topic[g] \in Topic
    BY <1>3, ZenonT(30) DEF Unsubscribe, TypeOK
  <2>2. ASSUME topic' = [topic EXCEPT ![g] = Detach(@, s)], UNCHANGED timer
        PROVE  TypeOK'
    BY <1>3, <2>1, <2>2, DetachObject, ZenonT(30) DEF Unsubscribe, TypeOK
  <2>3. ASSUME NEW t \in Timers, ArmLinger(g, t)
        PROVE  TypeOK'
    BY <1>3, <2>1, <2>3, LingerObject DEF Unsubscribe, ArmLinger, TypeOK, Timer
  <2> QED
    BY <1>3, <2>2, <2>3 DEF Unsubscribe
<1>4. ASSUME NEW t \in Timers, TimerExpires(t)
      PROVE  TypeOK'
  BY <1>4, ZenonT(30) DEF TimerExpires, TypeOK, Timer
<1>5. ASSUME NEW t \in Timers, LingerCallback(t)
      PROVE  TypeOK'
  <2>1. timer' \in [Timers -> Timer]
    BY <1>5 DEF LingerCallback, FreeTimer, Timer, TypeOK
  <2>2. topic' \in [Objects -> Topic] /\ topics' \in [Keys -> Objects \cup {NoTopic}]
    <3> DEFINE g == timer[t].of
    <3>1. CASE g \in Objects
      <4>1. Cancel(topic[g]) \in Topic
        BY <3>1, CancelObject DEF TypeOK
      <4> QED
        BY <1>5, <3>1, <4>1, Zenon DEF LingerCallback, TypeOK
    <3>2. CASE g = NoTopic
      BY <1>5, <3>2, HubAssumption DEF LingerCallback, TypeOK
    <3> QED
      BY <3>1, <3>2 DEF TypeOK, Timer
  <2> QED
    BY <1>5, <2>1, <2>2 DEF LingerCallback, TypeOK
<1>6. CASE Close
  <2>1. timer' \in [Timers -> Timer]
    BY <1>6 DEF Close, FreeTimer, Timer, TypeOK
  <2>2. topic' \in [Objects -> Topic]
    BY <1>6, CancelObject DEF Close, TypeOK
  <2> QED
    BY <1>6, <2>1, <2>2 DEF Close, TypeOK
<1>7. ASSUME NEW g \in Objects, RunStep(g)
      PROVE  TypeOK'
  <2>1. CASE EnterSource(g)
    <3>1. NoRun \in Run /\ [run[g] EXCEPT !.at = "source"] \in Run
      BY HubAssumption DEF NoRun, Run, TypeOK
    <3> QED
      BY <2>1, <3>1 DEF EnterSource, TypeOK
  <2>2. CASE SourceReturns(g)
    BY <2>2, HubAssumption DEF SourceReturns, NoRun, TypeOK, Run
  <2>3. ASSUME NEW lost, EmitDown(g, lost)
        PROVE  TypeOK'
    <3>1. run' \in [Objects -> Run]
      BY <2>3, Zenon DEF EmitDown, TypeOK, Run
    <3>2. StatusChannel \in Channels /\ Down \in Payload
      BY HubAssumption DEF Payload
    <3>3. CASE Fanout(g, StatusChannel, Down, lost)
      BY <2>3, <3>1, <3>2, <3>3, FanoutType DEF EmitDown, TypeOK
    <3>4. CASE UNCHANGED <<view, missed>>
      BY <2>3, <3>1, <3>4 DEF EmitDown, TypeOK
    <3> QED
      BY <2>3, <3>3, <3>4 DEF EmitDown
  <2>4. CASE Retry(g)
    <3>1. ASSUME NEW b \in 1 .. 2 * MaxBackoff
          PROVE  NextBackoff(b) \in 1 .. 2 * MaxBackoff
      BY HubAssumption DEF NextBackoff
    <3>2. run[g].backoff \in 1 .. 2 * MaxBackoff /\ NoRun \in Run
      BY HubAssumption DEF TypeOK, Run, NoRun
    <3>3. AfterBackoff(run[g]) \in Run
      BY <3>1, <3>2 DEF AfterBackoff, Run
    <3> QED
      BY <2>4, <3>2, <3>3 DEF Retry, TypeOK
  <2> QED
    BY <1>7, <2>1, <2>2, <2>3, <2>4, ZenonT(30) DEF RunStep
<1>8. ASSUME NEW g \in Objects, NEW ch \in SourceChannels, NEW p \in Payloads, NEW lost,
             Emit(g, ch, p, lost)
      PROVE  TypeOK'
  <2>1. ch \in Channels /\ p \in Payload
    BY HubAssumption DEF Payload
  <2>2. topic[g] \in Topic /\ Retain(topic[g], ch, p) \in Topic
    BY <2>1, RetainObject DEF TypeOK
  <2>3. topic' \in [Objects -> Topic]
    BY <1>8, <2>2 DEF Emit, TypeOK
  <2>4. Fanout(g, ch, p, lost)
    BY <1>8 DEF Emit
  <2> QED
    BY <1>8, <2>1, <2>3, <2>4, FanoutType, ZenonT(30) DEF Emit, TypeOK
<1>9. CASE UNCHANGED vars
  BY <1>9 DEF vars, TypeOK
<1> QED
  BY <1>1, <1>2, <1>3, <1>4, <1>5, <1>6, <1>7, <1>8, <1>9, ZenonT(30) DEF Next

\* Every reachable state of the hub has its types: in particular the retry
\* delay of run never passes twice its cap.
THEOREM TypeCorrect == Spec => []TypeOK
BY TypeInit, TypeStep, PTL DEF Spec

-----------------------------------------------------------------------------
\* The lifecycle of topics.

\* The initial state has no topic and no timer.
LEMMA LifecycleInit == Init => LifecycleInv
BY TypeInit DEF Init, LifecycleInv, PendingTimerHasTopic, OneUpstream, OpenTopicIsFed,
    IdleTopicHasTimer, Live

\* Two keys never share an open topic object.
LEMMA OpenTopicsDiffer ==
    ASSUME OpenTopicIsFed, NEW k \in Keys, NEW k2 \in Keys,
           topics[k] # NoTopic, topics[k2] = topics[k]
    PROVE  k2 = k
BY DEF OpenTopicIsFed

\* A step that leaves goroutines, open topics and the keys and contexts of
\* the objects alone keeps one live upstream per key.
LEMMA SameFeeds ==
    ASSUME LifecycleInv, UNCHANGED <<topics, run>>,
           \A h \in Objects : /\ topic'[h].key = topic[h].key
                              /\ topic'[h].cancelled = topic[h].cancelled
    PROVE  OneUpstream' /\ OpenTopicIsFed'
<1>1. \A h \in Objects : Live(h)' <=> Live(h)
  BY DEF Live
<1>2. OneUpstream'
  BY <1>1 DEF LifecycleInv, OneUpstream
<1>3. OpenTopicIsFed'
  <2> SUFFICES ASSUME NEW k \in Keys, topics[k] # NoTopic
               PROVE  Live(topics[k])' /\ topic'[topics[k]].key = k
    BY DEF OpenTopicIsFed
  <2>1. topics[k] \in Objects
    BY DEF LifecycleInv, TypeOK
  <2> QED
    BY <1>1, <2>1 DEF LifecycleInv, OpenTopicIsFed, Live
<1> QED
  BY <1>2, <1>3

\* Joining an open topic.
LEMMA SubscribeOpenLifecycle ==
    ASSUME LifecycleInv, NEW k \in Keys, NEW s \in Sinks, NEW lost,
           SubscribeOpen(k, s, lost), TypeOK'
    PROVE  LifecycleInv'
<1> DEFINE g == topics[k]
           t == topic[g].linger
<1>1. g \in Objects /\ topic[g] \in Topic /\ t \in Timers \cup {NoTimer}
  BY DEF SubscribeOpen, LifecycleInv, TypeOK, Topic
<1>2. /\ topic' = [topic EXCEPT ![g] = Attach(topic[g], s)]
      /\ timer' = Stop(timer, t)
      /\ UNCHANGED <<topics, closed, run>>
  BY DEF SubscribeOpen
<1>3. /\ topic'[g].key = topic[g].key
      /\ topic'[g].cancelled = topic[g].cancelled
      /\ topic'[g].linger = NoTimer
      /\ topic'[g].sinks # {}
      /\ \A h \in Objects : h # g => topic'[h] = topic[h]
  <2>1. /\ topic'[g] = Attach(topic[g], s)
        /\ \A h \in Objects : h # g => topic'[h] = topic[h]
    BY <1>1, <1>2 DEF LifecycleInv, TypeOK
  <2> QED
    BY <2>1, <1>1, AttachObject
<1>4. t # NoTimer => timer[t].of = g
  BY <1>1, HubAssumption, ZenonT(30) DEF LifecycleInv, IdleTopicHasTimer
<1>5. \A u \in Timers : timer[u].of # g => timer'[u] = timer[u]
  BY <1>1, <1>2, <1>4, ZenonT(30) DEF Stop, LifecycleInv, TypeOK
<1>6. PendingTimerHasTopic'
  BY <1>2 DEF LifecycleInv, PendingTimerHasTopic, Stop, FreeTimer, TypeOK
<1>7. OneUpstream' /\ OpenTopicIsFed'
  BY <1>2, <1>3, SameFeeds, ZenonT(30)
<1>8. IdleTopicHasTimer'
  <2> SUFFICES ASSUME NEW j \in Keys, topics[j] # NoTopic
               PROVE  IF topic'[topics[j]].sinks = {}
                      THEN /\ topic'[topics[j]].linger # NoTimer
                           /\ timer'[topic'[topics[j]].linger].of = topics[j]
                      ELSE topic'[topics[j]].linger = NoTimer
    BY <1>2, ZenonT(30) DEF IdleTopicHasTimer
  <2>1. CASE topics[j] = g
    BY <2>1, <1>3, ZenonT(30)
  <2>2. CASE topics[j] # g
    <3>1. topics[j] \in Objects /\ topic'[topics[j]] = topic[topics[j]]
      BY <2>2, <1>3 DEF LifecycleInv, TypeOK
    <3>2. topic[topics[j]].linger \in Timers \cup {NoTimer}
      BY <3>1, ZenonT(30) DEF LifecycleInv, TypeOK, Topic
    <3> QED
      BY <2>2, <3>1, <3>2, <1>5, ZenonT(30) DEF LifecycleInv, IdleTopicHasTimer
  <2> QED
    BY <2>1, <2>2, ZenonT(30)
<1> QED
  BY <1>6, <1>7, <1>8, ZenonT(30) DEF LifecycleInv

\* Opening a topic.
LEMMA SubscribeNewLifecycle ==
    ASSUME LifecycleInv, NEW k \in Keys, NEW s \in Sinks, NEW g \in Objects,
           SubscribeNew(k, s, g), TypeOK'
    PROVE  LifecycleInv'
<1>1. /\ topics[k] = NoTopic
      /\ run[g].at = "none"
      /\ topics' = [topics EXCEPT ![k] = g]
      /\ topic' = [topic EXCEPT ![g] = Attach(NewTopic(k), s)]
      /\ run' = [run EXCEPT ![g] = [at |-> "loop", backoff |-> 1]]
      /\ UNCHANGED timer
  BY DEF SubscribeNew, Fresh
<1>2. /\ topic'[g].key = k
      /\ topic'[g].cancelled = FALSE
      /\ topic'[g].linger = NoTimer
      /\ topic'[g].sinks # {}
      /\ run'[g].at = "loop"
      /\ \A h \in Objects : h # g => topic'[h] = topic[h] /\ run'[h] = run[h]
  <2>1. /\ topic'[g] = Attach(NewTopic(k), s)
        /\ run'[g] = [at |-> "loop", backoff |-> 1]
        /\ \A h \in Objects : h # g => topic'[h] = topic[h] /\ run'[h] = run[h]
    BY <1>1 DEF LifecycleInv, TypeOK
  <2>2. NewTopic(k).key = k /\ NewTopic(k).cancelled = FALSE
    BY DEF NewTopic
  <2> QED
    <3>1. /\ Attach(NewTopic(k), s).key = k
          /\ Attach(NewTopic(k), s).cancelled = FALSE
          /\ Attach(NewTopic(k), s).linger = NoTimer
          /\ s \in Attach(NewTopic(k), s).sinks
      BY <2>2, NewTopicType, AttachObject, ZenonT(30)
    <3>2. topic'[g].sinks # {}
      BY <2>1, <3>1, Zenon
    <3>3. run'[g].at = "loop"
      BY <2>1
    <3> QED
      BY <2>1, <3>1, <3>2, <3>3, Zenon
<1>3. \A j \in Keys : topics[j] # g
  BY <1>1, HubAssumption, ZenonT(30) DEF LifecycleInv, OpenTopicIsFed, Live
<1>4. topics'[k] = g /\ \A j \in Keys : j # k => topics'[j] = topics[j]
  BY <1>1 DEF LifecycleInv, TypeOK
<1>5. PendingTimerHasTopic'
  BY <1>1, ZenonT(30) DEF LifecycleInv, PendingTimerHasTopic
<1>6. OneUpstream'
  BY <1>1, <1>2, <1>3, <1>4, HubAssumption, SMTT(30) DEF LifecycleInv, OneUpstream, Live, TypeOK
<1>7. OpenTopicIsFed'
  BY <1>1, <1>2, <1>3, <1>4, ZenonT(30) DEF LifecycleInv, OpenTopicIsFed, Live, TypeOK
<1>8. IdleTopicHasTimer'
  BY <1>1, <1>2, <1>3, <1>4, ZenonT(30) DEF LifecycleInv, IdleTopicHasTimer, TypeOK
<1> QED
  BY <1>5, <1>6, <1>7, <1>8, ZenonT(30) DEF LifecycleInv

\* Leaving a topic.
LEMMA UnsubscribeLifecycle ==
    ASSUME LifecycleInv, NEW k \in Keys, NEW s \in Sinks, Unsubscribe(k, s), TypeOK'
    PROVE  LifecycleInv'
<1> DEFINE g == topics[k]
<1>1. g # NoTopic /\ g \in Objects /\ topic[g] \in Topic /\ UNCHANGED <<topics, closed, run>>
  BY DEF Unsubscribe, LifecycleInv, TypeOK
<1>2. CASE /\ topic[g].sinks \ {s} # {} \/ topic[g].linger # NoTimer
           /\ topic' = [topic EXCEPT ![g] = Detach(topic[g], s)]
           /\ UNCHANGED timer
  <2>1. /\ topic'[g] = Detach(topic[g], s)
        /\ \A h \in Objects : h # g => topic'[h] = topic[h]
    BY <1>1, <1>2, ZenonT(30) DEF LifecycleInv, TypeOK
  <2>2. /\ topic'[g].key = topic[g].key
        /\ topic'[g].cancelled = topic[g].cancelled
        /\ topic'[g].linger = topic[g].linger
        /\ topic'[g].sinks = topic[g].sinks \ {s}
    <3>1. /\ Detach(topic[g], s).key = topic[g].key
          /\ Detach(topic[g], s).cancelled = topic[g].cancelled
          /\ Detach(topic[g], s).linger = topic[g].linger
          /\ Detach(topic[g], s).sinks = topic[g].sinks \ {s}
      BY <1>1, DetachObject, Zenon
    <3> QED
      BY <2>1, <3>1, Zenon
  <2>3. PendingTimerHasTopic'
    BY <1>2 DEF LifecycleInv, PendingTimerHasTopic
  <2>4. OneUpstream' /\ OpenTopicIsFed'
    BY <1>1, <2>1, <2>2, SameFeeds, ZenonT(30)
  <2>5. IdleTopicHasTimer'
    <3> SUFFICES ASSUME NEW j \in Keys, topics[j] # NoTopic
                 PROVE  IF topic'[topics[j]].sinks = {}
                        THEN /\ topic'[topics[j]].linger # NoTimer
                             /\ timer[topic'[topics[j]].linger].of = topics[j]
                        ELSE topic'[topics[j]].linger = NoTimer
      BY <1>1, <1>2, ZenonT(30) DEF IdleTopicHasTimer
    <3>1. CASE topics[j] = g
      BY <3>1, <1>2, <2>2, ZenonT(30) DEF LifecycleInv, IdleTopicHasTimer
    <3>2. CASE topics[j] # g
      BY <3>2, <2>1, ZenonT(30) DEF LifecycleInv, IdleTopicHasTimer, TypeOK
    <3> QED
      BY <3>1, <3>2, ZenonT(30)
  <2> QED
    BY <2>3, <2>4, <2>5, ZenonT(30) DEF LifecycleInv
<1>3. ASSUME NEW t \in Timers, ArmLinger(g, t)
      PROVE  LifecycleInv'
  <2>1. /\ topic' = [topic EXCEPT ![g] = Linger(topic[g], t)]
        /\ timer[t].state = "free"
        /\ timer' = [timer EXCEPT ![t] = [state |-> "armed", of |-> g]]
    BY <1>3 DEF ArmLinger
  <2>2. /\ topic'[g] = Linger(topic[g], t)
        /\ \A h \in Objects : h # g => topic'[h] = topic[h]
    BY <1>1, <2>1, ZenonT(30) DEF LifecycleInv, TypeOK
  <2>3. /\ topic'[g].key = topic[g].key
        /\ topic'[g].cancelled = topic[g].cancelled
        /\ topic'[g].linger = t
        /\ topic'[g].sinks = {}
    <3>1. /\ Linger(topic[g], t).key = topic[g].key
          /\ Linger(topic[g], t).cancelled = topic[g].cancelled
          /\ Linger(topic[g], t).linger = t
          /\ Linger(topic[g], t).sinks = {}
      BY <1>1, LingerObject, Zenon
    <3> QED
      BY <2>2, <3>1, Zenon
  <2>4. /\ timer'[t] = [state |-> "armed", of |-> g]
        /\ timer[t].of = NoTopic
        /\ \A u \in Timers : u # t => timer'[u] = timer[u]
    BY <2>1, ZenonT(30) DEF LifecycleInv, PendingTimerHasTopic, TypeOK
  <2>5. PendingTimerHasTopic'
    <3>1. timer'[t].state = "armed" /\ timer'[t].of = g
      BY <2>4
    <3> QED
      BY <1>1, <2>4, <3>1, ZenonT(30) DEF LifecycleInv, PendingTimerHasTopic
  <2>6. OneUpstream' /\ OpenTopicIsFed'
    BY <1>1, <2>2, <2>3, SameFeeds, ZenonT(30)
  <2>7. IdleTopicHasTimer'
    <3> SUFFICES ASSUME NEW j \in Keys, topics[j] # NoTopic
                 PROVE  IF topic'[topics[j]].sinks = {}
                        THEN /\ topic'[topics[j]].linger # NoTimer
                             /\ timer'[topic'[topics[j]].linger].of = topics[j]
                        ELSE topic'[topics[j]].linger = NoTimer
      BY <1>1 DEF IdleTopicHasTimer
    <3>1. CASE topics[j] = g
      <4>1. timer'[t].of = g
        BY <2>4
      <4>2. t # NoTimer
        BY HubAssumption, Zenon
      <4> QED
        BY <2>3, <3>1, <4>1, <4>2, Zenon
    <3>2. CASE topics[j] # g
      <4>1. topics[j] \in Objects /\ topic'[topics[j]] = topic[topics[j]]
        BY <3>2, <2>2, ZenonT(30) DEF LifecycleInv, TypeOK
      <4>2. topic[topics[j]].linger \in Timers \cup {NoTimer}
        BY <4>1 DEF LifecycleInv, TypeOK, Topic
      <4> QED
        BY <4>1, <4>2, <2>4 DEF LifecycleInv, IdleTopicHasTimer
    <3> QED
      BY <3>1, <3>2, ZenonT(30)
  <2> QED
    BY <2>5, <2>6, <2>7 DEF LifecycleInv
<1> QED
  BY <1>2, <1>3, ZenonT(30) DEF Unsubscribe

\* A timer's period ends.
LEMMA TimerExpiresLifecycle ==
    ASSUME LifecycleInv, NEW t \in Timers, TimerExpires(t), TypeOK'
    PROVE  LifecycleInv'
<1>1. /\ timer[t].state = "armed"
      /\ timer' = [timer EXCEPT ![t].state = "fired"]
      /\ UNCHANGED <<topics, closed, topic, run, view, missed>>
  BY DEF TimerExpires
<1>2. /\ timer'[t].state = "fired"
      /\ \A u \in Timers : timer'[u].of = timer[u].of
      /\ \A u \in Timers : u # t => timer'[u] = timer[u]
  BY <1>1 DEF LifecycleInv, TypeOK, Timer
<1>3. PendingTimerHasTopic'
  BY <1>1, <1>2 DEF LifecycleInv, PendingTimerHasTopic
<1>4. OneUpstream' /\ OpenTopicIsFed'
  BY <1>1, SameFeeds
<1>5. IdleTopicHasTimer'
  BY <1>1, <1>2, ZenonT(30) DEF LifecycleInv, IdleTopicHasTimer, TypeOK, Topic
<1> QED
  BY <1>3, <1>4, <1>5 DEF LifecycleInv

\* A linger callback, of the open topic or of an earlier one.
LEMMA LingerCallbackLifecycle ==
    ASSUME LifecycleInv, NEW t \in Timers, LingerCallback(t), TypeOK'
    PROVE  LifecycleInv'
<1> DEFINE g == timer[t].of
<1>1. /\ timer[t].state = "fired"
      /\ timer' = [timer EXCEPT ![t] = FreeTimer]
      /\ UNCHANGED <<closed, run>>
  BY DEF LingerCallback
<1>2. g \in Objects /\ topic[g] \in Topic /\ topic[g].key \in Keys
  BY <1>1, ZenonT(30) DEF LifecycleInv, PendingTimerHasTopic, TypeOK, Timer, Topic
<1>3. /\ timer'[t].state = "free" /\ timer'[t].of = NoTopic
      /\ \A u \in Timers : u # t => timer'[u] = timer[u]
  BY <1>1 DEF FreeTimer, LifecycleInv, TypeOK
<1>4. PendingTimerHasTopic'
  BY <1>3 DEF LifecycleInv, PendingTimerHasTopic
<1>5. CASE LingerCloses(g)
  <2> DEFINE k == topic[g].key
  <2>1. /\ topics[k] = g
        /\ topic' = [topic EXCEPT ![g] = Cancel(topic[g])]
        /\ topics' = [topics EXCEPT ![k] = NoTopic]
    BY <1>5, ZenonT(30) DEF LingerCallback, LingerCloses
  <2>2. /\ topic'[g] = Cancel(topic[g])
        /\ \A h \in Objects : h # g => topic'[h] = topic[h]
        /\ topics'[k] = NoTopic
        /\ \A j \in Keys : j # k => topics'[j] = topics[j]
    BY <1>2, <2>1, ZenonT(30) DEF LifecycleInv, TypeOK
  <2>3. topic'[g].cancelled /\ topic'[g].key = k
    BY <1>2, <2>2, CancelObject, ZenonT(30)
  <2>4. \A j \in Keys : j # k => topics[j] # g
    BY <1>2, <2>1, HubAssumption, ZenonT(30) DEF LifecycleInv, OpenTopicIsFed
  <2>5. OneUpstream'
    <3> SUFFICES ASSUME NEW h \in Objects, Live(h)'
                 PROVE  topics'[topic'[h].key] = h
      BY Zenon DEF OneUpstream
    <3>1. h # g
      BY <2>3, Zenon DEF Live
    <3>2. topic'[h] = topic[h] /\ Live(h)
      BY <1>1, <2>2, <3>1, ZenonT(30) DEF Live
    <3>3. topics[topic[h].key] = h /\ topic[h].key \in Keys
      BY <3>2, ZenonT(30) DEF LifecycleInv, OneUpstream, TypeOK, Topic
    <3>4. topic[h].key # k
      BY <2>1, <3>1, <3>3, Zenon
    <3> QED
      BY <2>2, <3>2, <3>3, <3>4, Zenon
  <2>6. OpenTopicIsFed'
    <3> SUFFICES ASSUME NEW j \in Keys, topics'[j] # NoTopic
                 PROVE  /\ run'[topics'[j]].at # "none"
                        /\ ~topic'[topics'[j]].cancelled
                        /\ topic'[topics'[j]].key = j
      BY DEF OpenTopicIsFed, Live
    <3>1. topics'[j] = topics[j] /\ topics[j] # g /\ topics[j] \in Objects
      BY <2>2, <2>4, ZenonT(30) DEF LifecycleInv, TypeOK
    <3>2. topic'[topics[j]] = topic[topics[j]]
      BY <3>1, <2>2
    <3>3. Live(topics[j]) /\ topic[topics[j]].key = j
      BY <3>1 DEF LifecycleInv, OpenTopicIsFed
    <3> QED
      BY <1>1, <3>1, <3>2, <3>3, ZenonT(30) DEF Live
  <2>7. IdleTopicHasTimer'
    <3> SUFFICES ASSUME NEW j \in Keys, topics'[j] # NoTopic
                 PROVE  IF topic'[topics'[j]].sinks = {}
                        THEN /\ topic'[topics'[j]].linger # NoTimer
                             /\ timer'[topic'[topics'[j]].linger].of = topics'[j]
                        ELSE topic'[topics'[j]].linger = NoTimer
      BY ZenonT(30) DEF IdleTopicHasTimer
    <3>1. topics'[j] = topics[j] /\ topics[j] # g /\ topics[j] \in Objects
      BY <2>2, <2>4 DEF LifecycleInv, TypeOK
    <3>2. topic'[topics[j]] = topic[topics[j]] /\ topic[topics[j]].linger \in Timers \cup {NoTimer}
      BY <3>1, <2>2, ZenonT(30) DEF LifecycleInv, TypeOK, Topic
    <3> QED
      BY <3>1, <3>2, <1>3, ZenonT(30) DEF LifecycleInv, IdleTopicHasTimer
  <2> QED
    BY <1>4, <2>5, <2>6, <2>7, ZenonT(30) DEF LifecycleInv
<1>6. CASE ~LingerCloses(g)
  <2>1. UNCHANGED <<topic, topics>>
    BY <1>6 DEF LingerCallback
  <2>2. OneUpstream' /\ OpenTopicIsFed'
    BY <1>1, <2>1, SameFeeds
  <2>3. IdleTopicHasTimer'
    <3> SUFFICES ASSUME NEW j \in Keys, topics[j] # NoTopic
                 PROVE  IF topic[topics[j]].sinks = {}
                        THEN /\ topic[topics[j]].linger # NoTimer
                             /\ timer'[topic[topics[j]].linger].of = topics[j]
                        ELSE topic[topics[j]].linger = NoTimer
      BY <2>1 DEF IdleTopicHasTimer
    <3>1. topic[topics[j]].key = j /\ topics[j] \in Objects
      BY DEF LifecycleInv, OpenTopicIsFed, TypeOK
    <3>2. topic[topics[j]].sinks = {} => topics[j] # g
      BY <1>6, <3>1, ZenonT(30) DEF LingerCloses
    <3>3. topic[topics[j]].linger \in Timers \cup {NoTimer}
      BY <3>1, ZenonT(30) DEF LifecycleInv, TypeOK, Topic
    <3> QED
      BY <3>2, <3>3, <1>3, ZenonT(30) DEF LifecycleInv, IdleTopicHasTimer
  <2> QED
    BY <1>4, <2>2, <2>3 DEF LifecycleInv
<1> QED
  BY <1>5, <1>6, ZenonT(30)

\* Closing the hub.
LEMMA CloseLifecycle ==
    ASSUME LifecycleInv, Close, TypeOK'
    PROVE  LifecycleInv'
<1> DEFINE open == {topics[k] : k \in Keys} \ {NoTopic}
<1>1. /\ topic' = [g \in Objects |-> IF g \in open THEN Cancel(topic[g]) ELSE topic[g]]
      /\ topics' = [k \in Keys |-> NoTopic]
      /\ UNCHANGED run
  BY DEF Close
<1>2. PendingTimerHasTopic'
  BY DEF Close, FreeTimer, LifecycleInv, PendingTimerHasTopic, TypeOK
<1>3. OneUpstream'
  <2> SUFFICES ASSUME NEW g \in Objects, Live(g)'
               PROVE  FALSE
    BY DEF OneUpstream
  <2>1. CASE g \in open
    <3>1. topic'[g] = Cancel(topic[g]) /\ topic[g] \in Topic
      BY <1>1, <2>1 DEF LifecycleInv, TypeOK
    <3> QED
      BY <3>1, CancelObject DEF Live
  <2>2. CASE g \notin open
    <3>1. topic'[g] = topic[g] /\ topic[g].key \in Keys
      BY <1>1, <2>2, ZenonT(30) DEF LifecycleInv, TypeOK, Topic
    <3>2. topics[topic[g].key] = g
      BY <1>1, <3>1 DEF Live, LifecycleInv, OneUpstream
    <3> QED
      BY <2>2, <3>1, <3>2, HubAssumption, ZenonT(30)
  <2> QED
    BY <2>1, <2>2
<1>4. OpenTopicIsFed' /\ IdleTopicHasTimer'
  BY <1>1 DEF OpenTopicIsFed, IdleTopicHasTimer
<1> QED
  BY <1>2, <1>3, <1>4, ZenonT(30) DEF LifecycleInv

\* A goroutine of a topic moves on.
LEMMA RunLifecycle ==
    ASSUME LifecycleInv, NEW g \in Objects, RunStep(g), TypeOK'
    PROVE  LifecycleInv'
<1>1. UNCHANGED <<topics, topic, timer>>
  BY DEF RunStep, EnterSource, SourceReturns, EmitDown, Retry
<1>2. \A h \in Objects : h # g => run'[h] = run[h]
  BY DEF RunStep, EnterSource, SourceReturns, EmitDown, Retry, LifecycleInv, TypeOK
<1>3. run[g].at # "none" /\ (run'[g].at = "none" => topic[g].cancelled)
  <2>1. CASE EnterSource(g)
    <3>1. run'[g] = IF topic[g].cancelled THEN NoRun ELSE [run[g] EXCEPT !.at = "source"]
      BY <2>1 DEF EnterSource, LifecycleInv, TypeOK
    <3>2. [run[g] EXCEPT !.at = "source"].at = "source"
      BY DEF LifecycleInv, TypeOK, Run
    <3> QED
      BY <2>1, <3>1, <3>2 DEF EnterSource
  <2>2. CASE SourceReturns(g)
    BY <2>2 DEF SourceReturns, LifecycleInv, TypeOK
  <2>3. CASE \E lost \in SUBSET Sinks : EmitDown(g, lost)
    BY <2>3 DEF EmitDown, LifecycleInv, TypeOK, Run
  <2>4. CASE Retry(g)
    BY <2>4 DEF Retry, AfterBackoff, LifecycleInv, TypeOK
  <2> QED
    BY <2>1, <2>2, <2>3, <2>4, ZenonT(30) DEF RunStep
<1>4. \A h \in Objects : Live(h)' <=> Live(h)
  BY <1>1, <1>2, <1>3, ZenonT(30) DEF Live
<1>5. OneUpstream' /\ OpenTopicIsFed'
  BY <1>1, <1>4, ZenonT(30) DEF LifecycleInv, OneUpstream, OpenTopicIsFed, TypeOK
<1>6. PendingTimerHasTopic' /\ IdleTopicHasTimer'
  BY <1>1 DEF LifecycleInv, PendingTimerHasTopic, IdleTopicHasTimer
<1> QED
  BY <1>5, <1>6 DEF LifecycleInv

\* A message.
LEMMA EmitLifecycle ==
    ASSUME LifecycleInv, NEW g \in Objects, NEW ch \in SourceChannels, NEW p \in Payloads,
           NEW lost, Emit(g, ch, p, lost), TypeOK'
    PROVE  LifecycleInv'
<1>1. UNCHANGED <<topics, run, timer>>
  BY DEF Emit
<1>2. \A h \in Objects : /\ topic'[h].key = topic[h].key
                         /\ topic'[h].cancelled = topic[h].cancelled
                         /\ topic'[h].linger = topic[h].linger
                         /\ topic'[h].sinks = topic[h].sinks
  <2>1. ch \in Channels /\ p \in Payload /\ topic[g] \in Topic
    BY HubAssumption, ZenonT(30) DEF Payload, LifecycleInv, TypeOK
  <2>2. CASE ch \in RetainedChannels
    <3>1. /\ topic'[g] = Retain(topic[g], ch, p)
          /\ \A h \in Objects : h # g => topic'[h] = topic[h]
      BY <2>2 DEF Emit, LifecycleInv, TypeOK
    <3>2. /\ topic'[g].key = topic[g].key
          /\ topic'[g].cancelled = topic[g].cancelled
          /\ topic'[g].linger = topic[g].linger
          /\ topic'[g].sinks = topic[g].sinks
      <4>1. /\ Retain(topic[g], ch, p).key = topic[g].key
            /\ Retain(topic[g], ch, p).cancelled = topic[g].cancelled
            /\ Retain(topic[g], ch, p).linger = topic[g].linger
            /\ Retain(topic[g], ch, p).sinks = topic[g].sinks
        BY <2>1, RetainObject, Zenon
      <4> QED
        BY <3>1, <4>1, Zenon
    <3> QED
      BY <3>1, <3>2, Zenon
  <2>3. CASE ch \notin RetainedChannels
    BY <2>3 DEF Emit
  <2> QED
    BY <2>2, <2>3, ZenonT(30)
<1>3. OneUpstream' /\ OpenTopicIsFed'
  BY <1>1, <1>2, SameFeeds, ZenonT(30)
<1>4. PendingTimerHasTopic'
  BY <1>1, ZenonT(30) DEF LifecycleInv, PendingTimerHasTopic
<1>5. IdleTopicHasTimer'
  BY <1>1, <1>2, ZenonT(30) DEF LifecycleInv, IdleTopicHasTimer, TypeOK
<1> QED
  BY <1>3, <1>4, <1>5, ZenonT(30) DEF LifecycleInv

\* Every step keeps the lifecycle invariant.
LEMMA LifecycleStep == LifecycleInv /\ [Next]_vars => LifecycleInv'
<1> SUFFICES ASSUME LifecycleInv, [Next]_vars PROVE LifecycleInv'
  OBVIOUS
<1>1. TypeOK'
  BY TypeStep, ZenonT(30) DEF LifecycleInv
<1>2. CASE UNCHANGED vars
  BY <1>2, ZenonT(30) DEF vars, LifecycleInv, TypeOK, PendingTimerHasTopic, OneUpstream,
     OpenTopicIsFed, IdleTopicHasTimer, Live
<1> QED
  BY <1>1, <1>2, SubscribeOpenLifecycle, SubscribeNewLifecycle, UnsubscribeLifecycle,
     TimerExpiresLifecycle, LingerCallbackLifecycle, CloseLifecycle, RunLifecycle, EmitLifecycle
     DEF Next

\* The lifecycle invariant holds in every reachable state.
THEOREM Lifecycle == Spec => []LifecycleInv
BY LifecycleInit, LifecycleStep, PTL DEF Spec

\* A key never has two live upstream feeds, and no live feed is out of the
\* reach of hub.topics, however timers, subscribers and failures interleave.
THEOREM OneUpstreamAlways == Spec => []OneUpstream
BY Lifecycle, PTL DEF LifecycleInv

\* A topic without subscribers always has a timer that will close it.
THEOREM IdleTopicAlwaysHasTimer == Spec => []IdleTopicHasTimer
BY Lifecycle, PTL DEF LifecycleInv

\* hub.topics only holds topics whose goroutine runs under a live context.
THEOREM OpenTopicAlwaysFed == Spec => []OpenTopicIsFed
BY Lifecycle, PTL DEF LifecycleInv

-----------------------------------------------------------------------------
\* Action properties.

\* A topic with subscribers survives every step but Close.
LEMMA SubscribersKeepTopicStep ==
    ASSUME LifecycleInv, [Next]_vars, NEW k \in Keys,
           topics[k] # NoTopic, topic[topics[k]].sinks # {}, ~closed'
    PROVE  topics'[k] = topics[k]
<1> DEFINE g == topics[k]
<1>1. g \in Objects
  BY ZenonT(30) DEF LifecycleInv, TypeOK
<1>2. ASSUME NEW j \in Keys, NEW s \in Sinks, NEW h \in Objects, SubscribeNew(j, s, h)
      PROVE  topics'[k] = topics[k]
  BY <1>2 DEF SubscribeNew, LifecycleInv, TypeOK
<1>3. ASSUME NEW t \in Timers, LingerCallback(t)
      PROVE  topics'[k] = topics[k]
  <2> DEFINE h == timer[t].of
  <2>1. CASE LingerCloses(h)
    <3>1. topics' = [topics EXCEPT ![topic[h].key] = NoTopic]
      BY <1>3, <2>1, ZenonT(30) DEF LingerCallback
    <3>2. topics[topic[h].key] = h /\ topic[h].sinks = {}
      BY <2>1, ZenonT(30) DEF LingerCloses
    <3>3. topic[h].key # k
      BY <3>2, ZenonT(30)
    <3> QED
      BY <3>1, <3>3, ZenonT(30) DEF LifecycleInv, TypeOK
  <2>2. CASE ~LingerCloses(h)
    BY <1>3, <2>2 DEF LingerCallback
  <2> QED
    BY <2>1, <2>2, ZenonT(30)
<1>4. CASE Close
  BY <1>4, ZenonT(30) DEF Close
<1>5. CASE UNCHANGED vars
  BY <1>5, ZenonT(30) DEF vars
<1>6. ASSUME NEW j \in Keys, NEW s \in Sinks, NEW lost, SubscribeOpen(j, s, lost)
      PROVE  topics'[k] = topics[k]
  BY <1>6, ZenonT(30) DEF SubscribeOpen
<1>7. ASSUME NEW j \in Keys, NEW s \in Sinks, Unsubscribe(j, s)
      PROVE  topics'[k] = topics[k]
  BY <1>7 DEF Unsubscribe
<1>8. ASSUME NEW t \in Timers, TimerExpires(t)
      PROVE  topics'[k] = topics[k]
  BY <1>8 DEF TimerExpires
<1>9. ASSUME NEW h \in Objects, RunStep(h)
      PROVE  topics'[k] = topics[k]
  BY <1>9, ZenonT(30) DEF RunStep, EnterSource, SourceReturns, EmitDown, Retry
<1>10. ASSUME NEW h \in Objects, NEW ch, NEW p, NEW lost, Emit(h, ch, p, lost)
       PROVE  topics'[k] = topics[k]
  BY <1>10 DEF Emit
<1> QED
  BY <1>2, <1>3, <1>4, <1>5, <1>6, <1>7, <1>8, <1>9, <1>10, ZenonT(30) DEF Next

\* No late linger callback, of this topic or of an earlier one under the same
\* key, takes a topic away from its subscribers.
THEOREM SubscribersAlwaysKeepTopic == Spec => SubscribersKeepTopic
<1>1. LifecycleInv /\ [Next]_vars =>
        [\A k \in Keys :
            topics[k] # NoTopic /\ topic[topics[k]].sinks # {} /\ ~closed'
                => topics'[k] = topics[k]]_vars
  BY SubscribersKeepTopicStep, ZenonT(30)
<1> QED
  BY <1>1, Lifecycle, PTL DEF Spec, SubscribersKeepTopic

\* A closed hub has no open topic.
ClosedHubIsEmpty == closed => \A k \in Keys : topics[k] = NoTopic

\* Close empties hub.topics and Subscribe then refuses to fill it.
LEMMA ClosedHubStep == LifecycleInv /\ ClosedHubIsEmpty /\ [Next]_vars => ClosedHubIsEmpty'
<1> SUFFICES ASSUME LifecycleInv, ClosedHubIsEmpty, [Next]_vars PROVE ClosedHubIsEmpty'
  BY ZenonT(30)
<1>1. CASE Close
  BY <1>1, ZenonT(30) DEF Close, ClosedHubIsEmpty
<1>2. ASSUME NEW t \in Timers, LingerCallback(t)
      PROVE  ClosedHubIsEmpty'
  BY <1>2 DEF LingerCallback, ClosedHubIsEmpty, LifecycleInv, TypeOK
<1>3. CASE UNCHANGED vars
  BY <1>3 DEF vars, ClosedHubIsEmpty
<1>4. ASSUME NEW j \in Keys, NEW s \in Sinks, NEW h \in Objects, SubscribeNew(j, s, h)
      PROVE  ClosedHubIsEmpty'
  BY <1>4 DEF SubscribeNew, ClosedHubIsEmpty
<1>5. ASSUME UNCHANGED <<topics, closed>>
      PROVE  ClosedHubIsEmpty'
  BY <1>5, ZenonT(30) DEF ClosedHubIsEmpty
<1> QED
  BY <1>1, <1>2, <1>3, <1>4, <1>5, ZenonT(30) DEF Next, SubscribeOpen, Unsubscribe,
     TimerExpires, RunStep, EnterSource, SourceReturns, EmitDown, Retry, Emit

\* After Close no step sends anything to a sink.
LEMMA ClosedHubIsSilentStep ==
    ASSUME LifecycleInv, ClosedHubIsEmpty, [Next]_vars, closed
    PROVE  UNCHANGED <<view, missed>>
<1>1. \A g \in Objects : ~Live(g)
  BY HubAssumption DEF LifecycleInv, OneUpstream, ClosedHubIsEmpty, TypeOK, Topic
<1>2. ASSUME NEW g \in Objects, NEW ch, NEW p, NEW lost, Emit(g, ch, p, lost)
      PROVE  FALSE
  BY <1>1, <1>2 DEF Emit, Muted, Live
<1>3. ASSUME NEW g \in Objects, NEW lost, EmitDown(g, lost)
      PROVE  UNCHANGED <<view, missed>>
  BY <1>1, <1>3 DEF EmitDown, Muted, Live
<1> QED
  BY <1>2, <1>3, Zenon DEF Next, vars, SubscribeOpen, SubscribeNew, Unsubscribe, TimerExpires,
     LingerCallback, Close, RunStep, EnterSource, SourceReturns, Retry

\* After Close nothing reaches a sink, whatever the sources still emit.
THEOREM ClosedHubAlwaysSilent == Spec => ClosedHubIsSilent
<1>1. Init => ClosedHubIsEmpty
  BY ZenonT(30) DEF Init, ClosedHubIsEmpty
<1>2. LifecycleInv /\ ClosedHubIsEmpty /\ [Next]_vars =>
        [closed => UNCHANGED <<view, missed>>]_vars
  BY ClosedHubIsSilentStep, ZenonT(30)
<1> QED
  BY <1>1, <1>2, Lifecycle, ClosedHubStep, PTL DEF Spec, ClosedHubIsSilent

-----------------------------------------------------------------------------
\* The replay order.

\* Object o lists its retained channels once each, and only channels that are retained.
Listed(o) ==
    /\ ToSet(o.order) = {ch \in Channels : o.retained[ch] # NoPayload}
    /\ IsInjective(o.order)
    /\ ToSet(o.order) \subseteq RetainedChannels

ReplayInv == \A g \in Objects : Listed(topic[g])

\* A retained message replaces the payload of its channel and joins the order once.
LEMMA RetainListed ==
    ASSUME NEW o \in Topic, Listed(o), NEW ch \in RetainedChannels, NEW p \in Payloads
    PROVE  /\ Listed(Retain(o, ch, p))
           /\ Retain(o, ch, p).retained = [o.retained EXCEPT ![ch] = p]
           /\ ToSet(Retain(o, ch, p).order) = ToSet(o.order) \cup {ch}
<1> DEFINE q == IF o.retained[ch] = NoPayload THEN Append(o.order, ch) ELSE o.order
           r == [o.retained EXCEPT ![ch] = p]
<1>1. ch \in Channels /\ p # NoPayload /\ o.order \in Seq(Channels)
      /\ o.retained \in [Channels -> Payload \cup {NoPayload}]
  BY HubAssumption DEF Topic
<1>2. Retain(o, ch, p).order = q /\ Retain(o, ch, p).retained = r
  BY DEF Topic, Retain
<1>3. ToSet(q) = ToSet(o.order) \cup {ch} /\ IsInjective(q)
  <2>1. CASE o.retained[ch] = NoPayload
    <3>1. ch \notin ToSet(o.order)
      BY <2>1 DEF Listed
    <3>2. q = Append(o.order, ch)
      BY <2>1
    <3>3. ToSet(q) = ToSet(o.order) \cup {ch}
      <4>1. ToSet(Append(o.order, ch)) = ToSet(o.order) \cup {ch}
        BY <1>1, AppendOnce
      <4> QED
        BY <3>2, <4>1
    <3>4. IsInjective(q)
      BY <1>1, <3>1, <3>2, AppendOnce, Zenon DEF Listed
    <3> QED
      BY <3>3, <3>4
  <2>2. CASE o.retained[ch] # NoPayload
    BY <1>1, <2>2, ZenonT(30) DEF Listed
  <2> QED
    BY <2>1, <2>2
<1>4. {c \in Channels : r[c] # NoPayload} = {c \in Channels : o.retained[c] # NoPayload} \cup {ch}
  BY <1>1
<1> HIDE DEF q, r
<1>5. ToSet(q) = {c \in Channels : r[c] # NoPayload} /\ ToSet(q) \subseteq RetainedChannels
  BY <1>3, <1>4, ZenonT(30) DEF Listed
<1> QED
  BY <1>2, <1>3, <1>5, ZenonT(30) DEF Listed, r

\* A step that adds no sink and changes no replay data.
KeepsReplay ==
    \A h \in Objects : /\ topic'[h].sinks \subseteq topic[h].sinks
                       /\ topic'[h].order = topic[h].order
                       /\ topic'[h].retained = topic[h].retained

LEMMA UnsubscribeKeepsReplay ==
    ASSUME TypeOK, NEW k \in Keys, NEW s \in Sinks, Unsubscribe(k, s)
    PROVE  KeepsReplay
<1>1. topics[k] \in Objects /\ \A h \in Objects : topic[h] \in Topic
  BY ZenonT(30) DEF Unsubscribe, TypeOK
<1>2. ASSUME topic' = [topic EXCEPT ![topics[k]] = Detach(@, s)] PROVE KeepsReplay
  <2>1. /\ topic'[topics[k]] = Detach(topic[topics[k]], s)
        /\ \A h \in Objects : h # topics[k] => topic'[h] = topic[h]
    BY <1>1, <1>2, ZenonT(30) DEF TypeOK
  <2> QED
    <3>1. /\ Detach(topic[topics[k]], s).sinks \subseteq topic[topics[k]].sinks
          /\ Detach(topic[topics[k]], s).order = topic[topics[k]].order
          /\ Detach(topic[topics[k]], s).retained = topic[topics[k]].retained
      BY <1>1, DetachObject, ZenonT(30)
    <3> QED
      BY <2>1, <3>1, ZenonT(30) DEF KeepsReplay
<1>3. ASSUME NEW t \in Timers, ArmLinger(topics[k], t) PROVE KeepsReplay
  <2>1. /\ topic'[topics[k]] = Linger(topic[topics[k]], t)
        /\ \A h \in Objects : h # topics[k] => topic'[h] = topic[h]
    BY <1>1, <1>3 DEF ArmLinger, TypeOK
  <2> QED
    <3>1. /\ Linger(topic[topics[k]], t).sinks \subseteq topic[topics[k]].sinks
          /\ Linger(topic[topics[k]], t).order = topic[topics[k]].order
          /\ Linger(topic[topics[k]], t).retained = topic[topics[k]].retained
      BY <1>1, LingerObject, ZenonT(30)
    <3> QED
      BY <2>1, <3>1, ZenonT(30) DEF KeepsReplay
<1> QED
  BY <1>2, <1>3, ZenonT(30) DEF Unsubscribe

LEMMA LingerKeepsReplay ==
    ASSUME TypeOK, NEW t \in Timers, LingerCallback(t)
    PROVE  KeepsReplay
<1>1. \A h \in Objects : topic[h] \in Topic /\ topic'[h] \in {topic[h], Cancel(topic[h])}
  BY ZenonT(30) DEF LingerCallback, TypeOK
<1> QED
  BY <1>1, CancelObject, ZenonT(30) DEF KeepsReplay

LEMMA CloseKeepsReplay ==
    ASSUME TypeOK, Close
    PROVE  KeepsReplay
<1>1. \A h \in Objects : topic[h] \in Topic /\ topic'[h] \in {topic[h], Cancel(topic[h])}
  BY DEF Close, TypeOK
<1> QED
  BY <1>1, CancelObject, SMTT(30) DEF KeepsReplay

LEMMA SameReplay ==
    ASSUME ReplayInv, \A h \in Objects : /\ topic'[h].order = topic[h].order
                                         /\ topic'[h].retained = topic[h].retained
    PROVE  ReplayInv'
BY ZenonT(30) DEF ReplayInv, Listed

LEMMA ReplayInit == Init => ReplayInv
<1> SUFFICES ASSUME Init, NEW g \in Objects PROVE Listed(topic[g])
  BY DEF ReplayInv
<1>1. PICK k \in Keys : topic[g] = NewTopic(k)
  BY DEF Init
<1> QED
  BY <1>1 DEF NewTopic, Listed, ToSet, IsInjective

LEMMA ReplayStep == TypeOK /\ ReplayInv /\ [Next]_vars => ReplayInv'
<1> SUFFICES ASSUME TypeOK, ReplayInv, [Next]_vars PROVE ReplayInv'
  OBVIOUS
<1>1. ASSUME NEW k \in Keys, NEW s \in Sinks, NEW lost, SubscribeOpen(k, s, lost)
      PROVE  ReplayInv'
  <2>1. topics[k] \in Objects /\ \A h \in Objects : topic[h] \in Topic
    BY <1>1 DEF SubscribeOpen, TypeOK
  <2>2. /\ topic'[topics[k]] = Attach(topic[topics[k]], s)
        /\ \A h \in Objects : h # topics[k] => topic'[h] = topic[h]
    BY <1>1, <2>1, ZenonT(30) DEF SubscribeOpen, TypeOK
  <2>3. \A h \in Objects : /\ topic'[h].order = topic[h].order
                           /\ topic'[h].retained = topic[h].retained
    BY <2>1, <2>2, AttachObject, SMTT(30)
  <2> QED
    BY <2>3, SameReplay, ZenonT(30)
<1>2. ASSUME NEW k \in Keys, NEW s \in Sinks, NEW g \in Objects, SubscribeNew(k, s, g)
      PROVE  ReplayInv'
  <2>1. Listed(Attach(NewTopic(k), s))
    <3>1. Attach(NewTopic(k), s).order = <<>>
          /\ Attach(NewTopic(k), s).retained = [ch \in Channels |-> NoPayload]
      BY NewTopicType, AttachObject, ZenonT(30) DEF NewTopic
    <3> QED
      BY <3>1, EmptySequence, ZenonT(30) DEF Listed
  <2> QED
    BY <1>2, <2>1, ZenonT(30) DEF SubscribeNew, TypeOK, ReplayInv
<1>3. ASSUME NEW k \in Keys, NEW s \in Sinks, Unsubscribe(k, s)
      PROVE  ReplayInv'
  BY <1>3, UnsubscribeKeepsReplay, SameReplay, ZenonT(30) DEF KeepsReplay
<1>4. ASSUME NEW t \in Timers, LingerCallback(t)
      PROVE  ReplayInv'
  BY <1>4, LingerKeepsReplay, SameReplay, ZenonT(30) DEF KeepsReplay
<1>5. CASE Close
  BY <1>5, CloseKeepsReplay, SameReplay DEF KeepsReplay
<1>6. ASSUME NEW g \in Objects, NEW ch \in SourceChannels, NEW p \in Payloads, NEW lost,
             Emit(g, ch, p, lost)
      PROVE  ReplayInv'
  <2>1. CASE ch \in RetainedChannels
    BY <1>6, <2>1, RetainListed, ZenonT(30) DEF Emit, TypeOK, ReplayInv
  <2>2. CASE ch \notin RetainedChannels
    BY <1>6, <2>2, ZenonT(30) DEF Emit, ReplayInv, Listed
  <2> QED
    BY <2>1, <2>2, ZenonT(30)
<1>7. ASSUME UNCHANGED topic PROVE ReplayInv'
  BY <1>7 DEF ReplayInv, Listed
<1> QED
  BY <1>1, <1>2, <1>3, <1>4, <1>5, <1>6, <1>7, ZenonT(30) DEF Next, vars, TimerExpires, RunStep,
     EnterSource, SourceReturns, EmitDown, Retry

\* The replay data of every object is well-formed in every reachable state.
THEOREM Replays == Spec => []ReplayInv
BY ReplayInit, ReplayStep, TypeCorrect, PTL DEF Spec

\* A late subscriber is sent each retained channel exactly once: the order emit keeps lists
\* the channels of the retained map, without repetition.
THEOREM OrderIsAlwaysRetained == Spec => []OrderIsRetained
<1>1. TypeOK /\ ReplayInv => OrderIsRetained
  BY ZenonT(30) DEF TypeOK, ReplayInv, Listed, OrderIsRetained
<1> QED
  BY <1>1, Replays, TypeCorrect, PTL

-----------------------------------------------------------------------------
\* What the sinks hold.

\* Sink s has what it had of channel c of key j, and misses it if it did.
Kept(s, j, c) ==
    /\ view'[s][j][c] = view[s][j][c]
    /\ <<j, c>> \in missed[s] => <<j, c>> \in missed'[s]

\* A delivery touches one channel of one key, and every sink of the object got it or missed it.
LEMMA FanoutView ==
    ASSUME TypeOK, NEW g \in Objects, NEW ch \in Channels, NEW p \in Payload, NEW lost,
           Fanout(g, ch, p, lost), NEW s \in Sinks
    PROVE  /\ s \in topic[g].sinks => \/ <<topic[g].key, ch>> \in missed'[s]
                                      \/ view'[s][topic[g].key][ch] = p
           /\ \A j \in Keys, c \in Channels :
                 j # topic[g].key \/ c # ch => Kept(s, j, c)
<1> DEFINE k == topic[g].key
           got == topic[g].sinks \ lost
<1>1. k \in Keys
  BY DEF TypeOK, Topic
<1>2. view[s] \in [Keys -> [Channels -> Payload \cup {NoPayload}]]
  BY DEF TypeOK
<1>3. /\ view'[s] = IF s \in got THEN [view[s] EXCEPT ![k][ch] = p] ELSE view[s]
      /\ missed'[s] = IF s \in got THEN missed[s] \ {<<k, ch>>}
                      ELSE IF s \in topic[g].sinks THEN missed[s] \cup {<<k, ch>>}
                      ELSE missed[s]
  BY ZenonT(30) DEF Fanout
<1> HIDE DEF k
<1>4. CASE s \in got
  <2>1. view'[s] = [view[s] EXCEPT ![k][ch] = p] /\ missed'[s] = missed[s] \ {<<k, ch>>}
    BY <1>3, <1>4
  <2>2. view'[s][k][ch] = p
    BY <1>1, <1>2, <2>1, ZenonT(30)
  <2>3. ASSUME NEW j \in Keys, NEW c \in Channels, j # k \/ c # ch
        PROVE  view'[s][j][c] = view[s][j][c] /\ <<j, c>> # <<k, ch>>
    BY <1>1, <1>2, <2>1, <2>3, ZenonT(30)
  <2> QED
    BY <2>1, <2>2, <2>3, ZenonT(30) DEF k, Kept
<1>5. CASE s \notin got
  BY <1>3, <1>5, ZenonT(30) DEF k, Kept
<1> QED
  BY <1>4, <1>5

\* So does the replay, for one sink and one key.
LEMMA ReplayView ==
    ASSUME TypeOK, NEW k \in Keys, NEW o \in Topic, NEW s \in Sinks, NEW lost,
           Replay(k, o, s, lost)
    PROVE  /\ \A c \in ToSet(o.order) : <<k, c>> \in missed'[s] \/ view'[s][k][c] = o.retained[c]
           /\ \A r \in Sinks, j \in Keys, c \in Channels :
                 r # s \/ j # k => Kept(r, j, c)
<1> DEFINE sent == ToSet(o.order)
           w == [ch \in Channels |-> IF ch \in sent \ lost THEN o.retained[ch] ELSE view[s][k][ch]]
           n == (missed[s] \ {<<k, ch>> : ch \in sent}) \cup {<<k, ch>> : ch \in sent \cap lost}
<1>1. sent \subseteq Channels
  BY DEF ToSet, Topic
<1>2. view' = [view EXCEPT ![s][k] = w] /\ missed' = [missed EXCEPT ![s] = n]
  BY DEF Replay
<1>3. \A c \in sent : c \in lost \/ w[c] = o.retained[c]
  BY <1>1
<1>4. \A c \in sent \cap lost : <<k, c>> \in n
  OBVIOUS
<1>5. \A j \in Keys \ {k}, c \in Channels : <<j, c>> \in missed[s] => <<j, c>> \in n
  OBVIOUS
<1> HIDE DEF w, n, sent
<1>6. view'[s][k] = w /\ missed'[s] = n
  BY <1>2, ZenonT(30) DEF TypeOK
<1>7. ASSUME NEW r \in Sinks, NEW j \in Keys, r # s \/ j # k PROVE view'[r][j] = view[r][j]
  BY <1>2, <1>7, ZenonT(30) DEF TypeOK
<1>8. \A r \in Sinks \ {s} : missed'[r] = missed[r]
  BY <1>2, ZenonT(30) DEF TypeOK
<1> QED
  BY <1>3, <1>4, <1>5, <1>6, <1>7, <1>8, ZenonT(30) DEF sent, Kept

\* A step that sends nothing, opens no topic and adds no sink.
LEMMA QuietInSync ==
    ASSUME TypeOK, SubscribersInSync, UNCHANGED <<view, missed>>, KeepsReplay,
           \A k \in Keys : topics'[k] # NoTopic => topics[k] = topics'[k]
    PROVE  SubscribersInSync'
<1> SUFFICES ASSUME NEW k \in Keys, topics'[k] # NoTopic,
                    NEW s \in topic'[topics'[k]].sinks, NEW c \in ToSet(topic'[topics'[k]].order)
             PROVE  <<k, c>> \in missed[s] \/ view[s][k][c] = topic'[topics'[k]].retained[c]
  BY ZenonT(30) DEF SubscribersInSync
<1>1. topics[k] = topics'[k] /\ topics[k] \in Objects
  BY ZenonT(30) DEF TypeOK
<1>2. /\ s \in topic[topics[k]].sinks /\ c \in ToSet(topic[topics[k]].order)
      /\ topic'[topics[k]].retained = topic[topics[k]].retained
  BY <1>1 DEF KeepsReplay
<1> QED
  BY <1>1, <1>2, ZenonT(30) DEF SubscribersInSync

\* The channels of a replay order.
LEMMA OrderRange ==
    ASSUME NEW o \in Topic
    PROVE  ToSet(o.order) \subseteq Channels /\ o.sinks \subseteq Sinks
BY DEF Topic, ToSet

\* A delivery by a live feed whose retained payload, if any, is the one it delivers.
LEMMA FanoutInSync ==
    ASSUME LifecycleInv, SubscribersInSync, NEW g \in Objects, Live(g),
           NEW ch \in Channels, NEW p \in Payload, NEW lost, Fanout(g, ch, p, lost),
           UNCHANGED topics,
           \A h \in Objects : h # g => topic'[h] = topic[h],
           topic'[g].sinks = topic[g].sinks, topic'[g].order \in Seq(Channels),
           ch \in ToSet(topic'[g].order) => topic'[g].retained[ch] = p,
           \A c \in ToSet(topic'[g].order) \ {ch} :
               c \in ToSet(topic[g].order) /\ topic'[g].retained[c] = topic[g].retained[c]
    PROVE  SubscribersInSync'
<1> SUFFICES ASSUME NEW j \in Keys, topics[j] # NoTopic,
                    NEW s \in topic'[topics[j]].sinks, NEW c \in ToSet(topic'[topics[j]].order)
             PROVE  <<j, c>> \in missed'[s] \/ view'[s][j][c] = topic'[topics[j]].retained[c]
  BY ZenonT(30) DEF SubscribersInSync
<1>0. \A r \in Sinks, i \in Keys, b \in Channels : i # topic[g].key \/ b # ch => Kept(r, i, b)
  <2>1. TypeOK
    BY ZenonT(30) DEF LifecycleInv
  <2> QED
    BY <2>1, FanoutView, ZenonT(30)
<1>a. \A r \in Sinks : r \in topic[g].sinks => \/ <<topic[g].key, ch>> \in missed'[r]
                                               \/ view'[r][topic[g].key][ch] = p
  <2>1. TypeOK
    BY DEF LifecycleInv
  <2> QED
    BY <2>1, FanoutView
<1>1. TypeOK /\ topics[j] \in Objects /\ topic[topics[j]].key = j
  BY ZenonT(30) DEF LifecycleInv, TypeOK, OpenTopicIsFed
<1>2. topic[topics[j]] \in Topic /\ topics[topic[g].key] = g /\ topic[g].key \in Keys
  BY <1>1, ZenonT(30) DEF LifecycleInv, OneUpstream, TypeOK, Topic
<1>3. CASE topics[j] = g
  <2>1. s \in topic[g].sinks /\ s \in Sinks /\ c \in Channels /\ topic[g].key = j
    <3>1. topic[g].sinks \subseteq Sinks
      BY <1>2, <1>3, ZenonT(30) DEF Topic
    <3>2. ToSet(topic'[g].order) \subseteq Channels
      BY SequenceRange, Zenon
    <3> QED
      BY <1>1, <1>3, <3>1, <3>2, ZenonT(30)
  <2>2. CASE c = ch
    <3>1. <<j, ch>> \in missed'[s] \/ view'[s][j][ch] = p
      BY <1>a, <2>1, ZenonT(30)
    <3>2. topic'[g].retained[ch] = p
      BY <1>3, <2>2, ZenonT(30)
    <3> QED
      BY <1>3, <2>2, <3>1, <3>2, ZenonT(30)
  <2>3. CASE c # ch
    <3>1. Kept(s, j, c)
      BY <1>0, <2>1, <2>3, ZenonT(30)
    <3>2. c \in ToSet(topic[g].order) /\ topic'[g].retained[c] = topic[g].retained[c]
      BY <1>3, <2>3, ZenonT(30)
    <3>3. <<j, c>> \in missed[s] \/ view[s][j][c] = topic[g].retained[c]
      BY <1>3, <2>1, <3>2, ZenonT(30) DEF SubscribersInSync
    <3>4. <<j, c>> \in missed'[s] \/ view'[s][j][c] = topic'[g].retained[c]
      BY <3>1, <3>2, <3>3, ZenonT(30) DEF Kept
    <3> QED
      BY <1>3, <3>4, ZenonT(30)
  <2> QED
    BY <2>2, <2>3, ZenonT(30)
<1>4. CASE topics[j] # g
  <2>1. topic'[topics[j]] = topic[topics[j]] /\ topic[g].key # j
    BY <1>1, <1>2, <1>4, ZenonT(30)
  <2>2. s \in Sinks /\ c \in Channels
    BY <1>2, <2>1, OrderRange, ZenonT(30)
  <2>3. Kept(s, j, c)
    BY <1>0, <2>1, <2>2, ZenonT(30)
  <2>4. <<j, c>> \in missed[s] \/ view[s][j][c] = topic[topics[j]].retained[c]
    BY <2>1, SMTT(30) DEF SubscribersInSync
  <2> QED
    BY <2>1, <2>3, <2>4, ZenonT(30) DEF Kept
<1> QED
  BY <1>3, <1>4, ZenonT(30)

LEMMA SubscribeOpenInSync ==
    ASSUME LifecycleInv, SubscribersInSync, NEW k \in Keys, NEW s \in Sinks, NEW lost,
           SubscribeOpen(k, s, lost)
    PROVE  SubscribersInSync'
<1> DEFINE g == topics[k]
<1>1. TypeOK /\ g \in Objects /\ topic[g] \in Topic /\ topics[k] # NoTopic
  BY DEF SubscribeOpen, LifecycleInv, TypeOK
<1>2. /\ topic' = [topic EXCEPT ![g] = Attach(topic[g], s)]
      /\ Replay(k, topic[g], s, lost)
      /\ UNCHANGED topics
  BY ZenonT(30) DEF SubscribeOpen
<1>3. /\ topic'[g].sinks = topic[g].sinks \cup {s}
      /\ topic'[g].order = topic[g].order
      /\ topic'[g].retained = topic[g].retained
      /\ \A h \in Objects : h # g => topic'[h] = topic[h]
  <2>1. topic'[g] = Attach(topic[g], s) /\ \A h \in Objects : h # g => topic'[h] = topic[h]
    BY <1>1, <1>2, ZenonT(30) DEF TypeOK
  <2> QED
    <3>1. /\ Attach(topic[g], s).sinks = topic[g].sinks \cup {s}
          /\ Attach(topic[g], s).order = topic[g].order
          /\ Attach(topic[g], s).retained = topic[g].retained
      BY <1>1, AttachObject, Zenon
    <3> QED
      BY <2>1, <3>1, Zenon
<1>4. \A c \in ToSet(topic[g].order) : <<k, c>> \in missed'[s] \/ view'[s][k][c] = topic[g].retained[c]
  BY <1>1, <1>2, ReplayView, ZenonT(30)
<1>5. \A r \in Sinks, j \in Keys, c \in Channels :
         r # s \/ j # k => Kept(r, j, c)
  BY <1>1, <1>2, ReplayView, ZenonT(30)
<1> SUFFICES ASSUME NEW j \in Keys, topics'[j] # NoTopic,
                    NEW r \in topic'[topics'[j]].sinks, NEW c \in ToSet(topic'[topics'[j]].order)
             PROVE  <<j, c>> \in missed'[r] \/ view'[r][j][c] = topic'[topics'[j]].retained[c]
  BY Zenon DEF SubscribersInSync
<1>b. topics'[j] = topics[j]
  BY <1>2, Zenon
<1> /\ topics[j] # NoTopic
    /\ r \in topic'[topics[j]].sinks
    /\ c \in ToSet(topic'[topics[j]].order)
  BY <1>b, Zenon
<1> SUFFICES <<j, c>> \in missed'[r] \/ view'[r][j][c] = topic'[topics[j]].retained[c]
  BY <1>b, Zenon
<1>6. topics[j] \in Objects /\ topic[topics[j]] \in Topic
  BY ZenonT(30) DEF LifecycleInv, TypeOK
<1>7. /\ topic'[topics[j]].order = topic[topics[j]].order
      /\ topic'[topics[j]].retained = topic[topics[j]].retained
  <2>1. CASE topics[j] = g
    BY <1>3, <2>1, ZenonT(30)
  <2>2. CASE topics[j] # g
    BY <1>3, <1>6, <2>2, ZenonT(30)
  <2> QED
    BY <2>1, <2>2, ZenonT(30)
<1>a. c \in Channels
  BY <1>6, <1>7, OrderRange, ZenonT(30)
<1>8. CASE j = k /\ r = s
  BY <1>4, <1>7, <1>8, ZenonT(30)
<1>9. CASE j # k \/ r # s
  <2>1. r \in topic[topics[j]].sinks /\ r \in Sinks
    <3>1. CASE topics[j] = g
      <4>1. j = k
        BY <1>1, <3>1, OpenTopicsDiffer, ZenonT(30) DEF LifecycleInv
      <4> QED
        BY <1>3, <1>6, <1>9, <3>1, <4>1, ZenonT(30) DEF Topic
    <3>2. CASE topics[j] # g
      BY <1>3, <1>6, <3>2, ZenonT(30) DEF Topic
    <3> QED
      BY <3>1, <3>2, ZenonT(30)
  <2>2. <<j, c>> \in missed[r] \/ view[r][j][c] = topic[topics[j]].retained[c]
    BY <1>7, <2>1, ZenonT(30) DEF SubscribersInSync
  <2>3. Kept(r, j, c)
    BY <1>5, <1>9, <1>a, <2>1, ZenonT(30)
  <2> QED
    BY <1>7, <2>2, <2>3, ZenonT(30) DEF Kept
<1> QED
  BY <1>8, <1>9, ZenonT(30)

LEMMA SubscribeNewInSync ==
    ASSUME LifecycleInv, SubscribersInSync, NEW k \in Keys, NEW s \in Sinks, NEW g \in Objects,
           SubscribeNew(k, s, g)
    PROVE  SubscribersInSync'
<1>1. /\ topics' = [topics EXCEPT ![k] = g]
      /\ topic' = [topic EXCEPT ![g] = Attach(NewTopic(k), s)]
      /\ UNCHANGED <<view, missed>>
      /\ run[g].at = "none"
  BY DEF SubscribeNew, Fresh
<1>2. topic'[g].order = <<>> /\ \A h \in Objects : h # g => topic'[h] = topic[h]
  <2>1. topic'[g] = Attach(NewTopic(k), s) /\ \A h \in Objects : h # g => topic'[h] = topic[h]
    BY <1>1, ZenonT(30) DEF LifecycleInv, TypeOK
  <2>2. Attach(NewTopic(k), s).order = <<>>
    BY NewTopicType, AttachObject, ZenonT(30) DEF NewTopic
  <2> QED
    BY <2>1, <2>2
<1> SUFFICES ASSUME NEW j \in Keys, topics'[j] # NoTopic,
                    NEW r \in topic'[topics'[j]].sinks, NEW c \in ToSet(topic'[topics'[j]].order)
             PROVE  <<j, c>> \in missed[r] \/ view[r][j][c] = topic'[topics'[j]].retained[c]
  BY <1>1, ZenonT(30) DEF SubscribersInSync
<1>3. j # k
  <2> SUFFICES ASSUME j = k PROVE FALSE
    OBVIOUS
  <2>1. topics'[j] = g
    BY <1>1, ZenonT(30) DEF LifecycleInv, TypeOK
  <2> QED
    BY <1>2, <2>1 DEF ToSet
<1>4. topics'[j] = topics[j] /\ topics[j] \in Objects
  BY <1>1, <1>3, ZenonT(30) DEF LifecycleInv, TypeOK
<1>5. topics[j] # g
  BY <1>1, <1>4, ZenonT(30) DEF LifecycleInv, OpenTopicIsFed, Live
<1> QED
  <2>1. topic'[topics'[j]] = topic[topics[j]] /\ topics[j] # NoTopic
    BY <1>2, <1>4, <1>5, Zenon
  <2>2. r \in topic[topics[j]].sinks /\ c \in ToSet(topic[topics[j]].order)
    BY <2>1, Zenon
  <2> QED
    BY <2>1, <2>2, ZenonT(30) DEF SubscribersInSync

\* Retained channels and the hub's own status channel are different: the case of every
\* topic but the account's, whose source retains account.status.
LEMMA InSyncStep ==
    ASSUME StatusChannel \notin RetainedChannels,
           LifecycleInv, ReplayInv, SubscribersInSync, [Next]_vars
    PROVE  SubscribersInSync'
<1>0. ASSUME UNCHANGED <<topics, topic, view, missed>> PROVE SubscribersInSync'
  BY <1>0 DEF SubscribersInSync
<1>1. ASSUME NEW k \in Keys, NEW s \in Sinks, Unsubscribe(k, s)
      PROVE  SubscribersInSync'
  <2>1. TypeOK /\ UNCHANGED <<topics, view, missed>>
    BY <1>1, ZenonT(30) DEF Unsubscribe, LifecycleInv
  <2> QED
    BY <1>1, <2>1, UnsubscribeKeepsReplay, QuietInSync, ZenonT(30)
<1>2. ASSUME NEW t \in Timers, LingerCallback(t)
      PROVE  SubscribersInSync'
  <2>1. TypeOK /\ UNCHANGED <<view, missed>>
    BY <1>2 DEF LingerCallback, LifecycleInv
  <2>2. \A k \in Keys : topics'[k] # NoTopic => topics[k] = topics'[k]
    BY <1>2, <2>1, ZenonT(30) DEF LingerCallback, TypeOK
  <2> QED
    BY <1>2, <2>1, <2>2, LingerKeepsReplay, QuietInSync, ZenonT(30)
<1>3. CASE Close
  BY <1>3, Zenon DEF Close, SubscribersInSync
<1>4. ASSUME NEW g \in Objects, NEW lost, EmitDown(g, lost)
      PROVE  SubscribersInSync'
  <2>1. CASE Muted(g)
    BY <1>0, <1>4, <2>1, ZenonT(30) DEF EmitDown
  <2>2. CASE ~Muted(g)
    <3>1. Fanout(g, StatusChannel, Down, lost) /\ UNCHANGED <<topics, topic>> /\ Live(g)
      BY <1>4, <2>2, ZenonT(30) DEF EmitDown, Muted, Live
    <3>2. StatusChannel \in Channels /\ Down \in Payload /\ topic[g].order \in Seq(Channels)
      BY HubAssumption DEF Payload, LifecycleInv, TypeOK, Topic
    <3>3. StatusChannel \notin ToSet(topic[g].order)
      BY ZenonT(30) DEF ReplayInv, Listed
    <3> QED
      BY <3>1, <3>2, <3>3, FanoutInSync, ZenonT(30)
  <2> QED
    BY <2>1, <2>2
<1>5. ASSUME NEW g \in Objects, NEW ch \in SourceChannels, NEW p \in Payloads, NEW lost,
             Emit(g, ch, p, lost)
      PROVE  SubscribersInSync'
  <2>1. ch \in Channels /\ p \in Payload /\ topic[g] \in Topic /\ Listed(topic[g])
    BY HubAssumption DEF Payload, LifecycleInv, TypeOK, ReplayInv
  <2>2. Fanout(g, ch, p, lost) /\ UNCHANGED topics /\ Live(g)
    BY <1>5, ZenonT(30) DEF Emit, Muted, Live
  <2>3. CASE ch \in RetainedChannels
    <3>1. topic'[g] = Retain(topic[g], ch, p) /\ \A h \in Objects : h # g => topic'[h] = topic[h]
      BY <1>5, <2>3, ZenonT(30) DEF Emit, LifecycleInv, TypeOK
    <3>2. topic'[g].sinks = topic[g].sinks /\ topic'[g].order \in Seq(Channels)
      <4>1. Retain(topic[g], ch, p) \in Topic /\ Retain(topic[g], ch, p).sinks = topic[g].sinks
        BY <2>1, RetainObject, ZenonT(30)
      <4> QED
        BY <3>1, <4>1 DEF Topic
    <3>3. /\ topic'[g].retained = [topic[g].retained EXCEPT ![ch] = p]
          /\ ToSet(topic'[g].order) = ToSet(topic[g].order) \cup {ch}
      <4>1. /\ Retain(topic[g], ch, p).retained = [topic[g].retained EXCEPT ![ch] = p]
            /\ ToSet(Retain(topic[g], ch, p).order) = ToSet(topic[g].order) \cup {ch}
        BY <2>1, <2>3, RetainListed, ZenonT(30)
      <4> QED
        BY <3>1, <4>1, Zenon
    <3>4. topic'[g].retained[ch] = p
          /\ \A c \in ToSet(topic'[g].order) \ {ch} :
                c \in ToSet(topic[g].order) /\ topic'[g].retained[c] = topic[g].retained[c]
      BY <2>1, <3>3 DEF Topic
    <3> QED
      BY <2>1, <2>2, <3>1, <3>2, <3>4, FanoutInSync, ZenonT(30)
  <2>4. CASE ch \notin RetainedChannels
    <3>1. topic' = topic /\ ch \notin ToSet(topic[g].order) /\ topic[g].order \in Seq(Channels)
      BY <1>5, <2>1, <2>4, ZenonT(30) DEF Emit, Listed, Topic
    <3> QED
      BY <2>1, <2>2, <3>1, FanoutInSync, ZenonT(30)
  <2> QED
    BY <2>3, <2>4, ZenonT(30)
<1> QED
  BY <1>0, <1>1, <1>2, <1>3, <1>4, <1>5, SubscribeOpenInSync, SubscribeNewInSync, ZenonT(30) DEF
     Next, vars, TimerExpires, RunStep, EnterSource, SourceReturns, Retry

\* A subscriber of a topic that does not retain its status channel has, for every retained
\* channel, the payload kept for replay, unless its own queue refused it: whatever the number
\* of sinks and payloads, and however joins, failures and messages interleave.
THEOREM SubscribersAlwaysInSync ==
    ASSUME StatusChannel \notin RetainedChannels
    PROVE  Spec => []SubscribersInSync
<1>1. Init => SubscribersInSync
  BY ZenonT(30) DEF Init, SubscribersInSync
<1>2. LifecycleInv /\ ReplayInv /\ SubscribersInSync /\ [Next]_vars => SubscribersInSync'
  BY InSyncStep, ZenonT(30)
<1> QED
  BY <1>1, <1>2, Lifecycle, Replays, PTL DEF Spec

-----------------------------------------------------------------------------
\* The contract with the sources.

\* The initial state: no topic of any key, no goroutine.
LEMMA FeedsInit ==
    ASSUME Init, NEW k \in Keys
    PROVE  Contract(k)!FeedInit
BY ZenonT(30) DEF Init, Contract!FeedInit, FeedOf

\* A step that leaves the open topic of a key and the goroutines of its objects alone.
LEMMA FeedsKeep ==
    ASSUME NEW k \in Keys, topics'[k] = topics[k],
           \A h \in Objects : FeedOf(k, h)' = FeedOf(k, h)
    PROVE  UNCHANGED Contract(k)!feedVars
BY DEF Contract!feedVars

\* The context of a running goroutine is live exactly while its object is the open topic.
LEMMA LiveIsOpen ==
    ASSUME LifecycleInv, NEW k \in Keys, NEW g \in Objects, topic[g].key = k, run[g].at # "none"
    PROVE  topics[k] = g <=> ~topic[g].cancelled
<1>1. topics[k] = g => Live(g)
  BY HubAssumption DEF LifecycleInv, OpenTopicIsFed
<1>2. Live(g) => topics[k] = g
  BY DEF LifecycleInv, OneUpstream
<1> QED
  BY <1>1, <1>2, ZenonT(30) DEF Live

\* The first subscriber of a key opens it.
LEMMA SubscribeNewFeeds ==
    ASSUME LifecycleInv, NEW k \in Keys, NEW j \in Keys, NEW s \in Sinks, NEW g \in Objects,
           SubscribeNew(j, s, g)
    PROVE  [Contract(k)!FeedNext]_(Contract(k)!feedVars)
<1>1. /\ topics[j] = NoTopic /\ topics' = [topics EXCEPT ![j] = g]
      /\ run[g].at = "none" /\ run'[g].at = "loop" /\ topic'[g].key = j
      /\ \A h \in Objects : h # g => topic'[h] = topic[h] /\ run'[h] = run[h]
  BY ZenonT(30) DEF SubscribeNew, Fresh, Attach, NewTopic, LifecycleInv, TypeOK
<1>2. \A h \in Objects : h # g => FeedOf(k, h)' = FeedOf(k, h)
  BY <1>1, ZenonT(30) DEF FeedOf
<1>3. FeedOf(k, g) = "none" /\ FeedOf(k, g)' = IF j = k THEN "waiting" ELSE "none"
  BY <1>1, ZenonT(30) DEF FeedOf
<1>4. CASE j = k
  <2>1. topics[k] = NoTopic /\ topics'[k] = g
    BY <1>1, <1>4 DEF LifecycleInv, TypeOK
  <2>2. Contract(k)!Open(g)
    BY <1>2, <1>3, <1>4, <2>1, ZenonT(30) DEF Contract!Open
  <2> QED
    BY <2>2, ZenonT(30) DEF Contract!FeedNext
<1>5. CASE j # k
  <2>1. topics'[k] = topics[k]
    BY <1>1, <1>5, ZenonT(30) DEF LifecycleInv, TypeOK
  <2> QED
    BY <1>2, <1>3, <1>5, <2>1, FeedsKeep, ZenonT(30)
<1> QED
  BY <1>4, <1>5

\* The end of an open topic: the goroutines do not see it yet.
LEMMA CloseFeeds ==
    ASSUME LifecycleInv, NEW k \in Keys, topics'[k] \in {topics[k], NoTopic}, UNCHANGED run,
           \A h \in Objects : topic'[h].key = topic[h].key
    PROVE  [Contract(k)!FeedNext]_(Contract(k)!feedVars)
<1>1. \A h \in Objects : FeedOf(k, h)' = FeedOf(k, h)
  BY DEF FeedOf
<1>2. CASE topics'[k] = topics[k]
  BY <1>1, <1>2, FeedsKeep, ZenonT(30)
<1>3. CASE topics'[k] # topics[k]
  <2>1. Contract(k)!CancelTopic
    BY <1>1, <1>3, ZenonT(30) DEF Contract!CancelTopic
  <2> QED
    BY <2>1, ZenonT(30) DEF Contract!FeedNext
<1> QED
  BY <1>2, <1>3, ZenonT(30)

\* The goroutine of an object enters the source, leaves it, waits or ends.
LEMMA RunFeeds ==
    ASSUME LifecycleInv, NEW k \in Keys, NEW g \in Objects, RunStep(g)
    PROVE  [Contract(k)!FeedNext]_(Contract(k)!feedVars)
<1>1. UNCHANGED <<topics, topic>> /\ run[g].at # "none"
  BY DEF RunStep, EnterSource, SourceReturns, EmitDown, Retry
<1>2. \A h \in Objects : h # g => run'[h] = run[h]
  BY DEF RunStep, EnterSource, SourceReturns, EmitDown, Retry, LifecycleInv, TypeOK
<1>3. \A h \in Objects : h # g => FeedOf(k, h)' = FeedOf(k, h)
  BY <1>1, <1>2, ZenonT(30) DEF FeedOf
<1>4. CASE FeedOf(k, g)' = FeedOf(k, g)
  BY <1>1, <1>3, <1>4, FeedsKeep, ZenonT(30)
<1>5. CASE topic[g].key # k
  BY <1>1, <1>4, <1>5, ZenonT(30) DEF FeedOf
<1>6. CASE topic[g].key = k /\ FeedOf(k, g)' # FeedOf(k, g)
  <2>1. topics[k] = g <=> ~topic[g].cancelled
    BY <1>1, <1>6, LiveIsOpen, ZenonT(30)
  <2>2. CASE EnterSource(g)
    <3>1. FeedOf(k, g) = "waiting"
      BY <1>6, <2>2, ZenonT(30) DEF EnterSource, FeedOf
    <3>2. CASE topic[g].cancelled
      <4>1. FeedOf(k, g)' = "none"
        BY <2>2, <3>2, ZenonT(30) DEF EnterSource, FeedOf, NoRun, LifecycleInv, TypeOK
      <4>2. Contract(k)!Quit(g)
        BY <1>1, <1>3, <2>1, <3>1, <3>2, <4>1, ZenonT(30) DEF Contract!Quit
      <4> QED
        BY <4>2 DEF Contract!FeedNext
    <3>3. CASE ~topic[g].cancelled
      <4>1. run'[g].at = "source"
        BY <2>2, <3>3, ZenonT(30) DEF EnterSource, LifecycleInv, TypeOK, Run
      <4>2. FeedOf(k, g)' = "source"
        BY <1>1, <1>6, <4>1, ZenonT(30) DEF FeedOf
      <4>3. Contract(k)!Call(g)
        BY <1>1, <1>3, <2>1, <3>1, <3>3, <4>2, ZenonT(30) DEF Contract!Call
      <4> QED
        BY <4>3 DEF Contract!FeedNext
    <3> QED
      BY <3>2, <3>3, ZenonT(30)
  <2>3. CASE SourceReturns(g)
    <3>1. FeedOf(k, g) = "source"
      BY <1>6, <2>3, ZenonT(30) DEF SourceReturns, FeedOf
    <3>2. run'[g].at = IF topic[g].cancelled THEN "none" ELSE "failed"
      BY <2>3, SMTT(30) DEF SourceReturns, NoRun, LifecycleInv, TypeOK
    <3>3. FeedOf(k, g)' = IF topic[g].cancelled THEN "none" ELSE "waiting"
      BY <1>1, <1>6, <3>2, ZenonT(30) DEF FeedOf
    <3>4. Contract(k)!Return(g)
      BY <1>1, <1>3, <2>1, <3>1, <3>3, ZenonT(30) DEF Contract!Return
    <3> QED
      BY <3>4, ZenonT(30) DEF Contract!FeedNext
  <2>4. CASE \E lost \in SUBSET Sinks : EmitDown(g, lost)
    <3>1. run[g].at = "failed" /\ run'[g].at = "backoff"
      BY <2>4, ZenonT(30) DEF EmitDown, LifecycleInv, TypeOK, Run
    <3> QED
      BY <1>1, <1>6, <3>1, ZenonT(30) DEF FeedOf
  <2>5. CASE Retry(g)
    <3>1. CASE topic[g].cancelled /\ run' = [run EXCEPT ![g] = NoRun]
      <4>1. run[g].at = "backoff" /\ run'[g] = NoRun
        BY <2>5, <3>1, ZenonT(30) DEF Retry, LifecycleInv, TypeOK
      <4>2. FeedOf(k, g) = "waiting"
        BY <1>6, <4>1, ZenonT(30) DEF FeedOf
      <4>3. run'[g].at = "none"
        BY <4>1, SMTT(30) DEF NoRun
      <4>4. FeedOf(k, g)' = "none"
        BY <4>3, ZenonT(30) DEF FeedOf
      <4>5. Contract(k)!Quit(g)
        BY <1>1, <1>3, <2>1, <3>1, <4>2, <4>4, ZenonT(30) DEF Contract!Quit
      <4> QED
        BY <4>5 DEF Contract!FeedNext
    <3>2. CASE run' = [run EXCEPT ![g] = AfterBackoff(@)]
      <4>1. run[g].at = "backoff" /\ run'[g] = AfterBackoff(run[g])
        BY <2>5, <3>2, ZenonT(30) DEF Retry, LifecycleInv, TypeOK
      <4>2. run'[g].at = "loop"
        BY <4>1, SMTT(30) DEF AfterBackoff
      <4>3. FeedOf(k, g) = "waiting"
        BY <1>6, <4>1, ZenonT(30) DEF FeedOf
      <4>4. FeedOf(k, g)' = "waiting"
        BY <1>1, <1>6, <4>2, ZenonT(30) DEF FeedOf
      <4> QED
        BY <1>6, <4>3, <4>4, ZenonT(30)
    <3> QED
      BY <2>5, <3>1, <3>2, ZenonT(30) DEF Retry
  <2> QED
    BY <2>2, <2>3, <2>4, <2>5, ZenonT(30) DEF RunStep
<1> QED
  BY <1>4, <1>5, <1>6, ZenonT(30)

\* Every step of the hub is for every key a step of its contract, or none.
LEMMA FeedsStep ==
    ASSUME LifecycleInv, [Next]_vars, NEW k \in Keys
    PROVE  [Contract(k)!FeedNext]_(Contract(k)!feedVars)
<1>1. ASSUME NEW j \in Keys, NEW s \in Sinks, NEW lost,
             SubscribeOpen(j, s, lost) \/ Unsubscribe(j, s)
      PROVE  [Contract(k)!FeedNext]_(Contract(k)!feedVars)
  <2>1. UNCHANGED <<topics, run>>
    BY <1>1, ZenonT(30) DEF SubscribeOpen, Unsubscribe
  <2>2. topics[j] \in Objects
    BY <1>1, ZenonT(30) DEF SubscribeOpen, Unsubscribe, LifecycleInv, TypeOK
  <2>3. \E o \in {Attach(topic[topics[j]], s), Detach(topic[topics[j]], s)}
                  \cup {Linger(topic[topics[j]], t) : t \in Timers} :
           topic' = [topic EXCEPT ![topics[j]] = o]
    BY <1>1, ZenonT(30) DEF SubscribeOpen, Unsubscribe, ArmLinger
  <2>4. \A h \in Objects : topic'[h].key = topic[h].key
    <3>1. topic[topics[j]] \in Topic
      BY <2>2, Zenon DEF LifecycleInv, TypeOK
    <3>2. PICK o : /\ topic' = [topic EXCEPT ![topics[j]] = o]
                   /\ \/ o = Attach(topic[topics[j]], s)
                      \/ o = Detach(topic[topics[j]], s)
                      \/ \E t \in Timers : o = Linger(topic[topics[j]], t)
      BY <2>3, Zenon
    <3>3. o.key = topic[topics[j]].key
      <4>1. CASE o = Attach(topic[topics[j]], s)
        BY <3>1, <4>1, AttachObject, Zenon
      <4>2. CASE o = Detach(topic[topics[j]], s)
        BY <3>1, <4>2, DetachObject, Zenon
      <4>3. ASSUME NEW t \in Timers, o = Linger(topic[topics[j]], t)
            PROVE  o.key = topic[topics[j]].key
        BY <3>1, <4>3, LingerObject, Zenon
      <4> QED
        BY <3>2, <4>1, <4>2, <4>3, Zenon
    <3>4. topic'[topics[j]] = o /\ \A h \in Objects : h # topics[j] => topic'[h] = topic[h]
      BY <2>2, <3>2, Zenon DEF LifecycleInv, TypeOK
    <3> QED
      BY <3>3, <3>4, Zenon
  <2> QED
    BY <2>1, <2>4, CloseFeeds, ZenonT(30)
<1>2. ASSUME NEW t \in Timers, TimerExpires(t) \/ LingerCallback(t)
      PROVE  [Contract(k)!FeedNext]_(Contract(k)!feedVars)
  <2>1. UNCHANGED run
    BY <1>2 DEF TimerExpires, LingerCallback
  <2>2. topics'[k] \in {topics[k], NoTopic}
    BY <1>2 DEF TimerExpires, LingerCallback, LifecycleInv, TypeOK
  <2>3. topic' = topic \/ topic' = [topic EXCEPT ![timer[t].of] = Cancel(topic[timer[t].of])]
    BY <1>2 DEF TimerExpires, LingerCallback
  <2>4. \A h \in Objects : topic'[h].key = topic[h].key
    BY <2>3, CancelObject DEF LifecycleInv, TypeOK
  <2> QED
    BY <2>1, <2>2, <2>4, CloseFeeds, ZenonT(30)
<1>3. CASE Close
  <2>1. UNCHANGED run /\ topics'[k] = NoTopic
    BY <1>3, ZenonT(30) DEF Close
  <2>2. \A h \in Objects : topic'[h] \in {topic[h], Cancel(topic[h])}
    BY <1>3, ZenonT(30) DEF Close
  <2>3. \A h \in Objects : topic'[h].key = topic[h].key
    BY <2>2, CancelObject DEF LifecycleInv, TypeOK
  <2> QED
    BY <2>1, <2>3, CloseFeeds, ZenonT(30)
<1>4. ASSUME NEW g \in Objects, NEW ch \in SourceChannels, NEW p \in Payloads, NEW lost,
             Emit(g, ch, p, lost)
      PROVE  [Contract(k)!FeedNext]_(Contract(k)!feedVars)
  <2>1. UNCHANGED <<topics, run>>
    BY <1>4, ZenonT(30) DEF Emit
  <2>2. topic' = topic \/ topic' = [topic EXCEPT ![g] = Retain(topic[g], ch, p)]
    BY <1>4 DEF Emit
  <2>3. ch \in Channels /\ p \in Payload
    BY HubAssumption, ZenonT(30) DEF Payload
  <2>4. Retain(topic[g], ch, p).key = topic[g].key
    BY <2>3, RetainObject, ZenonT(30) DEF LifecycleInv, TypeOK
  <2>5. \A h \in Objects : topic'[h].key = topic[h].key
    BY <2>2, <2>4, ZenonT(30) DEF LifecycleInv, TypeOK
  <2> QED
    BY <2>1, <2>5, CloseFeeds, ZenonT(30)
<1>5. CASE UNCHANGED vars
  BY <1>5, CloseFeeds DEF vars
<1> QED
  BY <1>1, <1>2, <1>3, <1>4, <1>5, SubscribeNewFeeds, RunFeeds, ZenonT(30) DEF Next

\* For every key the source is called by one goroutine per topic object, one call at a time,
\* only under a live context: the hub implements the contract its sources rely on.
THEOREM HubRefinesFeeds == Spec => RefinesFeeds
<1>1. Init => \A k \in Keys : Contract(k)!FeedInit
  BY FeedsInit
<1>2. LifecycleInv /\ [Next]_vars
        => [\A k \in Keys : [Contract(k)!FeedNext]_(Contract(k)!feedVars)]_vars
  BY FeedsStep
<1> QED
  BY <1>1, <1>2, Lifecycle, PTL DEF Spec, RefinesFeeds
=============================================================================
