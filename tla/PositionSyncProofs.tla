------------------------- MODULE PositionSyncProofs -------------------------
(***************************************************************************)
(* Proofs about PositionSync, for any markets, readers and bounds.          *)
(***************************************************************************)
EXTENDS PositionSync, TLAPS

Loading == {"fetch", "store"}

\* The markets the loop has been asked to read and has not begun to.
Queued == ToSet(refresh) \cup pending \cup agent[Loop].todo

AgentShape ==
    /\ \A a \in Agents : agent[a].at \in Loading => agent[a].mkt \in Markets
    /\ agent[Loop].at = "idle" => agent[Loop].todo = {}

UpTo(s, n) == \A i \in 1 .. Len(s) : s[i].ver <= n

\* Nothing tells of a trade that has not happened.
Past ==
    \A m \in Markets : seen[m] <= truth[m] /\ UpTo(events[m], truth[m]) /\ UpTo(statuses[m], truth[m])

\* An answer that became old in the loop's hands is going to be read again.
StaleIsQueued ==
    agent[Loop].at = "store" /\ agent[Loop].ver < seen[agent[Loop].mkt]
        => agent[Loop].mkt \in Queued \cup excused

IInv ==
    /\ TypeOK
    /\ AgentShape
    /\ Past
    /\ StaleIsQueued
    /\ FillsAreOwedARead

Event == [kind : {"fill", "position"}, ver : Version]
Change == [up : BOOLEAN, ver : Version]

-----------------------------------------------------------------------------
\* Sequences and the larger of two versions.

LEMMA MaxOfTwo ==
    ASSUME NEW a \in Nat, NEW b \in Nat
    PROVE  Max({a, b}) = IF a >= b THEN a ELSE b
  <1> DEFINE c == IF a >= b THEN a ELSE b
  <1>1. c \in {a, b} /\ \A y \in {a, b} : c >= y
    OBVIOUS
  <1>2. \A x \in {a, b} : (\A y \in {a, b} : x >= y) => x = c
    OBVIOUS
  <1>3. QED
    BY <1>1, <1>2 DEF Max

LEMMA AppendSet ==
    ASSUME NEW S, NEW s \in Seq(S), NEW e \in S
    PROVE  /\ Append(s, e) \in Seq(S)
           /\ ToSet(s) \subseteq ToSet(Append(s, e))
           /\ e \in ToSet(Append(s, e))
  BY DEF ToSet

LEMMA HeadTailSet ==
    ASSUME NEW S, NEW s \in Seq(S), s # <<>>
    PROVE  /\ Head(s) \in S /\ Tail(s) \in Seq(S)
           /\ \A e \in ToSet(s) : e = Head(s) \/ e \in ToSet(Tail(s))
  <1>1. /\ Head(s) \in S /\ Tail(s) \in Seq(S) /\ Head(s) = s[1]
        /\ Len(Tail(s)) = Len(s) - 1 /\ Len(s) \in Nat \ {0}
    OBVIOUS
  <1>2. ASSUME NEW i \in 1 .. Len(s) PROVE s[i] = Head(s) \/ s[i] \in ToSet(Tail(s))
    <2>1. CASE i = 1
      BY <1>1, <2>1
    <2>2. CASE i # 1
      <3>1. i - 1 \in 1 .. Len(Tail(s)) /\ Tail(s)[i - 1] = s[i]
        BY <1>1, <2>2
      <3>2. i - 1 \in DOMAIN Tail(s)
        BY <1>1, <3>1
      <3>3. QED
        BY <3>1, <3>2, Zenon DEF ToSet
    <2>3. QED
      BY <2>1, <2>2
  <1>3. QED
    BY <1>1, <1>2 DEF ToSet

LEMMA UpToTail ==
    ASSUME NEW S, NEW s \in Seq(S), NEW n, s # <<>>, UpTo(s, n)
    PROVE  UpTo(Tail(s), n) /\ Head(s).ver <= n
  <1>1. Len(Tail(s)) = Len(s) - 1 /\ Len(s) \in Nat \ {0} /\ Head(s) = s[1]
    OBVIOUS
  <1>2. \A i \in 1 .. Len(Tail(s)) : Tail(s)[i] = s[i + 1] /\ i + 1 \in 1 .. Len(s)
    BY <1>1
  <1>3. QED
    BY <1>1, <1>2 DEF UpTo

LEMMA UpToConcat ==
    ASSUME NEW S, NEW s \in Seq(S), NEW t \in Seq(S), NEW n, UpTo(s, n), UpTo(t, n)
    PROVE  s \o t \in Seq(S) /\ UpTo(s \o t, n)
  <1>1. s \o t \in Seq(S) /\ Len(s \o t) = Len(s) + Len(t) /\ Len(s) \in Nat /\ Len(t) \in Nat
    OBVIOUS
  <1>2. ASSUME NEW i \in 1 .. Len(s \o t) PROVE (s \o t)[i].ver <= n
    <2>1. CASE i <= Len(s)
      BY <1>1, <2>1 DEF UpTo
    <2>2. CASE i > Len(s)
      <3>1. (s \o t)[i] = t[i - Len(s)] /\ i - Len(s) \in 1 .. Len(t)
        BY <1>1, <2>2
      <3>2. QED
        BY <3>1 DEF UpTo
    <2>3. QED
      BY <1>1, <2>1, <2>2
  <1>3. QED
    BY <1>1, <1>2 DEF UpTo

LEMMA UpToLater ==
    ASSUME NEW S, NEW s \in Seq(S), \A e \in S : e.ver \in Nat,
           NEW n \in Nat, NEW k \in Nat, n <= k, UpTo(s, n)
    PROVE  UpTo(s, k)
  BY DEF UpTo

-----------------------------------------------------------------------------
\* The goroutines.

LEMMA AgentConstants ==
    /\ NoList \in Lists
    /\ Idle \in Agent /\ Idle.at = "idle" /\ Idle.todo = {}
    /\ StartResync \in Agent /\ StartResync.at = "load" /\ StartResync.todo = Markets
    /\ Loop \in Agents /\ Markets \subseteq Agents /\ Readers \subseteq Agents
    /\ Loop \notin Markets /\ Loop \notin Readers
  <1>1. 0 \in Version
    BY SyncAssumption DEF Version
  <1>2. NoList \in Lists
    BY <1>1 DEF NoList, Lists
  <1>3. Idle \in Agent
    BY <1>1, <1>2 DEF Idle, Agent
  <1>4. StartResync \in Agent
    BY <1>1, <1>2, Zenon DEF StartResync, Idle, Agent
  <1>5. QED
    BY <1>2, <1>3, <1>4, SyncAssumption DEF Idle, StartResync, Agents

LEMMA InitIInv == Init => IInv
  <1> SUFFICES ASSUME Init PROVE IInv
    OBVIOUS
  <1> USE DEF Init
  <1>1. 0 \in Version /\ 0 \in 0 .. MaxDrops
    BY SyncAssumption DEF Version
  <1>2. <<Link(TRUE, 0)>> \in Seq([up : BOOLEAN, ver : Version])
    BY <1>1 DEF Link
  <1>3. TypeOK
    <2>1. agent \in [Agents -> Agent]
      BY AgentConstants
    <2>2. events \in [Markets -> Seq([kind : {"fill", "position"}, ver : Version])]
      OBVIOUS
    <2>3. statuses \in [Markets -> Seq([up : BOOLEAN, ver : Version])]
      BY <1>2, Zenon
    <2>4. refresh \in Seq(Markets) /\ Len(refresh) <= RefreshCap
      BY SyncAssumption
    <2>5. QED
      BY <1>1, <2>1, <2>2, <2>3, <2>4, AgentConstants, Zenon DEF TypeOK
  <1>4. AgentShape
    BY AgentConstants DEF AgentShape, Loading
  <1>5. \A m \in Markets : truth[m] = 0 /\ seen[m] = 0 /\ positions[m] = 0
    BY DEF NoList
  <1>6. \A m \in Markets : events[m] = <<>> /\ statuses[m] = <<Link(TRUE, 0)>>
    BY Zenon
  <1>7. UpTo(<<>>, 0) /\ UpTo(<<Link(TRUE, 0)>>, 0)
    BY DEF UpTo, Link
  <1>8. Past
    BY <1>5, <1>6, <1>7 DEF Past
  <1>9. StaleIsQueued
    BY AgentConstants DEF StaleIsQueued
  <1>10. FillsAreOwedARead
    BY <1>5 DEF FillsAreOwedARead
  <1>11. QED
    BY <1>3, <1>4, <1>8, <1>9, <1>10 DEF IInv

\* A goroutine goes on and the tables of versions stay as they are: what the loop had to
\* read is still to be read, being read, or excused.
LEMMA AgentMoves ==
    ASSUME IInv, NEW a \in Agents, NEW x \in Agent,
           agent[a].at # "store",
           agent' = [agent EXCEPT ![a] = x],
           UNCHANGED <<truth, link, drops, events, statuses, positions, loaded, connected,
                       refresh, pending, timer, seen>>,
           shown' \in Lists, excused \subseteq excused', excused' \subseteq Markets,
           x.at \in Loading => x.mkt \in Markets,
           a = Loop => /\ x.at = "idle" => x.todo = {}
                       /\ x.at = "store" => x.ver = truth[x.mkt]
                       /\ \A m \in Markets :
                             \/ m \in agent[Loop].todo
                             \/ agent[Loop].at = "fetch" /\ agent[Loop].mkt = m
                             => \/ m \in x.todo \cup excused'
                                \/ x.at \in Loading /\ x.mkt = m
    PROVE  IInv'
  <1>1. agent'[a] = x /\ \A b \in Agents \ {a} : agent'[b] = agent[b]
    BY DEF IInv, TypeOK
  <1>2. TypeOK'
    BY Zenon DEF IInv, TypeOK
  <1>3. AgentShape'
    BY <1>1 DEF IInv, AgentShape
  <1>4. Past'
    BY DEF IInv, Past
  <1>5. CASE a # Loop
    <2>1. agent'[Loop] = agent[Loop]
      BY <1>1, <1>5, AgentConstants
    <2>2. StaleIsQueued'
      BY <2>1 DEF IInv, StaleIsQueued, Queued
    <2>3. FillsAreOwedARead'
      BY <2>1, ZenonT(30) DEF IInv, FillsAreOwedARead, ReadOwed
    <2>4. QED
      BY <1>2, <1>3, <1>4, <2>2, <2>3 DEF IInv
  <1>6. CASE a = Loop
    <2>1. \A m \in Markets : seen[m] <= truth[m] /\ seen[m] \in Nat /\ truth[m] \in Nat
      BY SyncAssumption DEF IInv, Past, TypeOK, Lists, Version
    <2>2. x.at = "store" => x.mkt \in Markets /\ x.ver >= seen[x.mkt] /\ ~(x.ver < seen[x.mkt])
      BY <1>6, <2>1 DEF Loading
    <2>3. StaleIsQueued'
      BY <1>1, <1>6, <2>2 DEF StaleIsQueued
    <2>4. ASSUME NEW m \in Markets, positions[m] < seen[m] PROVE ReadOwed(m)' \/ m \in excused'
      <3>1. ReadOwed(m) \/ m \in excused
        BY <2>4 DEF IInv, FillsAreOwedARead
      <3>2. CASE m \in excused \/ m \in ToSet(refresh) \cup pending
        BY <3>2 DEF ReadOwed
      <3>3. CASE m \in agent[Loop].todo \/ (agent[Loop].at = "fetch" /\ agent[Loop].mkt = m)
        <4>1. m \in x.todo \cup excused' \/ (x.at \in Loading /\ x.mkt = m)
          BY <1>6, <3>3
        <4>2. QED
          BY <1>1, <1>6, <2>2, <4>1 DEF ReadOwed, Loading
      <3>4. QED
        BY <1>6, <3>1, <3>2, <3>3 DEF ReadOwed
    <2>5. FillsAreOwedARead'
      BY <2>4 DEF FillsAreOwedARead
    <2>6. QED
      BY <1>2, <1>3, <1>4, <2>3, <2>5 DEF IInv
  <1>7. QED
    BY <1>5, <1>6

-----------------------------------------------------------------------------
\* The steps of a load.

LEMMA LoadStepKeeps ==
    ASSUME IInv, NEW a \in Agents, LoadStep(a), ~Store(a)
    PROVE  IInv'
  <1> USE DEF Loading
  <1>1. agent[a] \in Agent /\ agent[a].todo \subseteq Markets /\ truth \in Lists /\ positions \in Lists
        /\ shown \in Lists /\ excused \subseteq Markets
    BY DEF IInv, TypeOK, Agent
  <1>2. agent[a].at = "fetch" => agent[a].mkt \in Markets
    BY DEF IInv, AgentShape
  <1>3. ASSUME NEW m \in Markets, BeginLoad(a, m) PROVE IInv'
    <2>1. CASE a \in Readers /\ Fresh(m)
      <3> DEFINE x == [agent[a] EXCEPT !.todo = agent[a].todo \ {m}]
      <3>1. x \in Agent /\ x.at = "load" /\ a # Loop
        BY <1>1, <1>3, <2>1, AgentConstants DEF Agent, BeginLoad
      <3>2. agent' = [agent EXCEPT ![a] = x]
        BY <1>3, <2>1 DEF BeginLoad
      <3> HIDE DEF x
      <3>3. QED
        BY <1>1, <1>3, <3>1, <3>2, AgentMoves, Zenon DEF BeginLoad
    <2>2. CASE ~(a \in Readers /\ Fresh(m))
      <3> DEFINE x == [agent[a] EXCEPT !.at = "fetch", !.mkt = m, !.todo = agent[a].todo \ {m}]
      <3>1. x \in Agent /\ x.at = "fetch" /\ x.mkt = m /\ x.todo = agent[a].todo \ {m}
        BY <1>1, Zenon DEF Agent
      <3>2. agent' = [agent EXCEPT ![a] = x]
        BY <1>3, <2>2, Zenon DEF BeginLoad
      <3> HIDE DEF x
      <3>3. QED
        BY <1>1, <1>3, <3>1, <3>2, AgentMoves, Zenon DEF BeginLoad
    <2>3. QED
      BY <2>1, <2>2
  <1>4. CASE Fetch(a)
    <2> DEFINE x == [agent[a] EXCEPT !.at = "store", !.ver = truth[agent[a].mkt]]
    <2>1. agent[a].mkt \in Markets /\ truth[agent[a].mkt] \in Version
      BY <1>1, <1>2, <1>4 DEF Fetch, Lists
    <2>2. x \in Agent /\ x.at = "store" /\ x.mkt = agent[a].mkt /\ x.todo = agent[a].todo
          /\ x.ver = truth[agent[a].mkt]
      BY <1>1, <2>1, Zenon DEF Agent
    <2>3. agent' = [agent EXCEPT ![a] = x]
      BY <1>4 DEF Fetch
    <2>4. agent[a].at = "fetch"
      BY <1>4 DEF Fetch
    <2> HIDE DEF x
    <2>5. a = Loop => \A m \in Markets : m \in agent[Loop].todo \/ agent[Loop].mkt = m
                                         => m \in x.todo \/ (x.at \in Loading /\ x.mkt = m)
      BY <2>2
    <2>6. UNCHANGED <<truth, link, drops, events, statuses, positions, loaded, connected,
                      refresh, pending, timer, shown, seen, excused>>
      BY <1>4 DEF Fetch
    <2>7. QED
      BY <1>1, <2>1, <2>2, <2>3, <2>4, <2>5, <2>6, AgentMoves, Zenon
  <1>5. CASE FetchFails(a)
    <2> DEFINE x == [agent[a] EXCEPT !.at = "load", !.mkt = Loop]
    <2>1. x \in Agent /\ x.at = "load" /\ x.todo = agent[a].todo
      BY <1>1, Zenon DEF Agent
    <2>2. agent' = [agent EXCEPT ![a] = x]
      BY <1>5 DEF FetchFails
    <2>3. excused \subseteq excused' /\ excused' \subseteq Markets /\ (a = Loop => agent[a].mkt \in excused')
      BY <1>1, <1>2, <1>5 DEF FetchFails
    <2> HIDE DEF x
    <2>4. QED
      BY <1>1, <1>5, <2>1, <2>2, <2>3, AgentMoves, Zenon DEF FetchFails
  <1>6. CASE List(a)
    <2> DEFINE x == [agent[a] EXCEPT !.at = "emit", !.list = positions]
    <2>1. x \in Agent /\ x.at = "emit" /\ x.todo = agent[a].todo
      BY <1>1, Zenon DEF Agent
    <2>2. agent' = [agent EXCEPT ![a] = x]
      BY <1>6 DEF List
    <2> HIDE DEF x
    <2>3. QED
      BY <1>1, <1>6, <2>1, <2>2, AgentMoves, Zenon DEF List
  <1>7. CASE Publish(a)
    <2> DEFINE y == [agent[a] EXCEPT !.at = "load", !.list = NoList]
               x == IF a \in Markets THEN Idle ELSE y
    <2>1. y \in Agent /\ y.at = "load" /\ y.todo = agent[a].todo
      BY <1>1, AgentConstants, Zenon DEF Agent
    <2> HIDE DEF y
    <2>2. x \in Agent /\ x.at \in {"idle", "load"} /\ (a = Loop => x.at = "load" /\ x.todo = agent[a].todo)
      BY <2>1, AgentConstants
    <2>3. agent' = [agent EXCEPT ![a] = x]
      BY <1>7 DEF Publish, y
    <2>4. shown' \in Lists
      BY <1>1, <1>7 DEF Publish, Agent
    <2> HIDE DEF x
    <2>5. QED
      BY <1>1, <1>7, <2>2, <2>3, <2>4, AgentMoves, Zenon DEF Publish
  <1>8. CASE Loaded(a)
    <2> DEFINE x == IF agent[a].final THEN [Idle EXCEPT !.at = "list"] ELSE Idle
    <2>1. x \in Agent /\ x.at \in {"list", "idle"} /\ x.todo = {}
      BY AgentConstants DEF Agent
    <2>2. agent' = [agent EXCEPT ![a] = x]
      BY <1>8 DEF Loaded
    <2>3. agent[a].at = "load" /\ agent[a].todo = {}
      BY <1>8 DEF Loaded
    <2> HIDE DEF x
    <2>4. QED
      BY <1>1, <1>8, <2>1, <2>2, <2>3, AgentMoves, Zenon DEF Loaded
  <1>9. QED
    BY <1>3, <1>4, <1>5, <1>6, <1>7, <1>8 DEF LoadStep

\* A store by the loop settles what it was asked to read, unless its answer has become old:
\* then the market is queued again; a store by another goroutine is excused when it is old.
LEMMA StoreKeeps ==
    ASSUME IInv, NEW a \in Agents, Store(a)
    PROVE  IInv'
  <1> DEFINE m == agent[a].mkt
             x == [agent[a] EXCEPT !.at = "list", !.mkt = Loop, !.ver = 0]
  <1>1. agent[a] \in Agent /\ m \in Markets /\ agent[a].ver \in Version /\ agent[a].at = "store"
    BY DEF IInv, TypeOK, AgentShape, Agent, Loading, Store
  <1>2. x \in Agent /\ x.at = "list" /\ x.todo = agent[a].todo
    <2>1. 0 \in Version
      BY SyncAssumption DEF Version
    <2>2. QED
      BY <1>1, <2>1, Zenon DEF Agent
  <1>3. agent' = [agent EXCEPT ![a] = x]
    BY DEF Store
  <1> HIDE DEF x
  <1>4. agent'[a] = x /\ \A b \in Agents \ {a} : agent'[b] = agent[b]
    BY <1>3 DEF IInv, TypeOK
  <1>5. positions' = [positions EXCEPT ![m] = agent[a].ver] /\ loaded' = [loaded EXCEPT ![m] = TRUE]
    BY DEF Store
  <1>6. /\ a = Loop /\ agent[a].ver >= seen[m] => excused' = excused \ {m}
        /\ a = Loop /\ ~(agent[a].ver >= seen[m]) => excused' = excused
        /\ a # Loop /\ agent[a].ver < seen[m] => excused' = excused \cup {m}
        /\ a # Loop /\ ~(agent[a].ver < seen[m]) => excused' = excused
    BY DEF Store
  <1>7. UNCHANGED <<truth, link, drops, events, statuses, connected, refresh, pending, timer, shown, seen>>
    BY DEF Store
  <1> HIDE DEF m
  <1>8. TypeOK'
    <2>1. positions' \in Lists /\ loaded' \in [Markets -> BOOLEAN] /\ agent' \in [Agents -> Agent]
      BY <1>1, <1>2, <1>3, <1>5 DEF IInv, TypeOK, Lists
    <2>2. excused' \subseteq Markets
      BY <1>1, <1>6 DEF IInv, TypeOK
    <2>3. QED
      BY <1>7, <2>1, <2>2, Zenon DEF IInv, TypeOK
  <1>9. AgentShape'
    BY <1>2, <1>4, AgentConstants DEF IInv, AgentShape, Loading
  <1>10. Past'
    BY <1>7 DEF IInv, Past
  <1>11. positions'[m] = agent[a].ver /\ \A n \in Markets \ {m} : positions'[n] = positions[n]
    BY <1>1, <1>5 DEF IInv, TypeOK, Lists
  <1>12. agent'[Loop].todo = agent[Loop].todo
    BY <1>2, <1>4, AgentConstants
  <1>13. seen[m] \in Nat /\ agent[a].ver \in Nat
    BY <1>1, SyncAssumption DEF IInv, TypeOK, Lists, Version
  <1>14. StaleIsQueued'
    <2>1. CASE a = Loop
      BY <1>2, <1>4, <2>1 DEF StaleIsQueued
    <2>2. CASE a # Loop
      <3>1. agent'[Loop] = agent[Loop] /\ excused \subseteq excused'
        BY <1>4, <1>6, <2>2, AgentConstants
      <3>2. QED
        BY <1>7, <3>1 DEF IInv, StaleIsQueued, Queued
    <2>3. QED
      BY <2>1, <2>2
  <1>15. ASSUME NEW n \in Markets, positions'[n] < seen[n] PROVE ReadOwed(n)' \/ n \in excused'
    <2>1. CASE n = m
      <3>1. agent[a].ver < seen[m]
        BY <1>11, <1>15, <2>1
      <3>2. CASE a = Loop
        <4>1. m \in Queued \cup excused
          BY <1>1, <3>1, <3>2 DEF IInv, StaleIsQueued, m
        <4>2. excused' = excused
          BY <1>6, <1>13, <3>1, <3>2
        <4>3. QED
          BY <1>7, <1>12, <2>1, <4>1, <4>2 DEF Queued, ReadOwed
      <3>3. CASE a # Loop
        BY <1>6, <2>1, <3>1, <3>3, ZenonT(30)
      <3>4. QED
        BY <3>2, <3>3
    <2>2. CASE n # m
      <3>1. ReadOwed(n) \/ n \in excused
        BY <1>11, <1>15, <2>2 DEF IInv, FillsAreOwedARead
      <3>2. n \in excused => n \in excused'
        BY <1>6, <2>2
      <3>3. n \in ToSet(refresh) \cup pending \cup agent[Loop].todo => ReadOwed(n)'
        BY <1>7, <1>12 DEF ReadOwed
      <3>4. CASE a = Loop
        BY <1>1, <2>2, <3>1, <3>2, <3>3, <3>4, ZenonT(30) DEF ReadOwed, m
      <3>5. CASE a # Loop
        <4>1. agent'[Loop] = agent[Loop]
          BY <1>4, <3>5, AgentConstants
        <4>2. QED
          BY <1>7, <3>1, <3>2, <4>1 DEF ReadOwed
      <3>6. QED
        BY <3>4, <3>5
    <2>3. QED
      BY <2>1, <2>2
  <1>16. FillsAreOwedARead'
    BY <1>7, <1>15 DEF FillsAreOwedARead
  <1>17. QED
    BY <1>8, <1>9, <1>10, <1>14, <1>16 DEF IInv

-----------------------------------------------------------------------------
\* The streams of the markets.

\* A step that changes neither the goroutines nor the tables, and forgets no request.
LEMMA QueueGrows ==
    ASSUME IInv, TypeOK', Past',
           UNCHANGED <<positions, agent, seen>>,
           ToSet(refresh) \cup pending \subseteq ToSet(refresh') \cup pending',
           excused \subseteq excused'
    PROVE  IInv'
  <1>1. AgentShape'
    BY DEF IInv, AgentShape
  <1>2. StaleIsQueued'
    BY DEF IInv, StaleIsQueued, Queued
  <1>3. FillsAreOwedARead'
    BY DEF IInv, FillsAreOwedARead, ReadOwed
  <1>4. QED
    BY <1>1, <1>2, <1>3 DEF IInv

LEMMA EnqueueGrows ==
    ASSUME TypeOK, NEW m \in Markets, Enqueue(m)
    PROVE  /\ refresh' \in Seq(Markets) /\ Len(refresh') <= RefreshCap
           /\ ToSet(refresh) \subseteq ToSet(refresh')
           /\ m \in ToSet(refresh') \/ Len(refresh) = RefreshCap
  <1>1. refresh \in Seq(Markets) /\ Len(refresh) <= RefreshCap /\ Len(refresh) \in Nat /\ RefreshCap \in Nat
    BY SyncAssumption DEF TypeOK
  <1>2. CASE Len(refresh) < RefreshCap
    <2>1. refresh' = Append(refresh, m)
      BY <1>2 DEF Enqueue
    <2>2. Len(refresh') <= RefreshCap
      BY <1>1, <1>2, <2>1
    <2>3. QED
      BY <1>1, <2>1, <2>2, AppendSet
  <1>3. CASE ~(Len(refresh) < RefreshCap)
    BY <1>1, <1>3 DEF Enqueue
  <1>4. QED
    BY <1>2, <1>3

\* What is told to scheduleRefresh is owed a read, or excused when the channel was full.
LEMMA ScheduleKeeps ==
    ASSUME IInv, NEW m \in Markets, NEW v \in Version, v <= truth[m], ScheduleRefresh(m, v),
           UNCHANGED <<truth, link, drops, positions, loaded, pending, timer, agent, shown>>,
           events' \in [Markets -> Seq(Event)], statuses' \in [Markets -> Seq(Change)],
           connected' \in [Markets -> BOOLEAN],
           \A n \in Markets : UpTo(events'[n], truth[n]) /\ UpTo(statuses'[n], truth[n])
    PROVE  IInv'
  <1>1. TypeOK /\ Enqueue(m)
    BY DEF IInv, ScheduleRefresh
  <1>2. /\ refresh' \in Seq(Markets) /\ Len(refresh') <= RefreshCap
        /\ ToSet(refresh) \subseteq ToSet(refresh')
        /\ m \in ToSet(refresh') \/ Len(refresh) = RefreshCap
    BY <1>1, EnqueueGrows
  <1>3. excused \subseteq excused' /\ excused' \subseteq Markets
    BY <1>1 DEF ScheduleRefresh, TypeOK
  <1>4. m \in ToSet(refresh') \cup excused'
    BY <1>2 DEF ScheduleRefresh
  <1>5. seen[m] \in Version /\ seen[m] \in Nat /\ v \in Nat /\ truth[m] \in Nat
    BY <1>1, SyncAssumption DEF TypeOK, Lists, Version
  <1>6. seen'[m] = Max({seen[m], v}) /\ \A n \in Markets \ {m} : seen'[n] = seen[n]
    BY <1>1 DEF ScheduleRefresh, TypeOK, Lists
  <1>7. seen'[m] \in {seen[m], v}
    BY <1>5, <1>6, MaxOfTwo, Zenon
  <1>8. seen' \in Lists
    <2>1. seen' = [seen EXCEPT ![m] = Max({seen[m], v})]
      BY DEF ScheduleRefresh
    <2>2. QED
      BY <1>1, <1>5, <1>6, <1>7, <2>1 DEF TypeOK, Lists
  <1>9. TypeOK'
    BY <1>1, <1>2, <1>3, <1>8, Zenon DEF TypeOK, Event, Change
  <1>10. AgentShape'
    BY DEF IInv, AgentShape
  <1>11. \A n \in Markets : seen'[n] <= truth[n]
    BY <1>5, <1>6, <1>7, Zenon DEF IInv, Past
  <1>12. Past'
    BY <1>11 DEF Past
  <1>13. StaleIsQueued'
    <2> SUFFICES ASSUME agent[Loop].at = "store", agent[Loop].ver < seen'[agent[Loop].mkt]
                 PROVE  agent[Loop].mkt \in Queued' \cup excused'
      BY DEF StaleIsQueued
    <2>1. agent[Loop].mkt \in Markets
      BY AgentConstants DEF IInv, AgentShape, Loading
    <2>2. CASE agent[Loop].mkt = m
      BY <1>4, <2>2 DEF Queued
    <2>3. CASE agent[Loop].mkt # m
      BY <1>2, <1>3, <1>6, <2>1, <2>3, ZenonT(30) DEF IInv, StaleIsQueued, Queued
    <2>4. QED
      BY <2>2, <2>3
  <1>14. FillsAreOwedARead'
    <2> SUFFICES ASSUME NEW n \in Markets, positions[n] < seen'[n]
                 PROVE  ReadOwed(n)' \/ n \in excused'
      BY DEF FillsAreOwedARead
    <2>1. CASE n = m
      BY <1>4, <2>1 DEF ReadOwed
    <2>2. CASE n # m
      <3>1. seen'[n] = seen[n]
        BY <1>6, <2>2
      <3>2. ReadOwed(n) \/ n \in excused
        BY <3>1 DEF IInv, FillsAreOwedARead
      <3>3. QED
        BY <1>2, <1>3, <3>1, <3>2 DEF ReadOwed
    <2>3. QED
      BY <2>1, <2>2
  <1>15. QED
    BY <1>9, <1>10, <1>12, <1>13, <1>14 DEF IInv

LEMMA HandleStatusKeeps ==
    ASSUME IInv, NEW m \in Markets, HandleStatus(m)
    PROVE  IInv'
  <1>1. TypeOK /\ Past
    BY DEF IInv
  <1>2. statuses[m] \in Seq(Change) /\ statuses[m] # <<>> /\ UpTo(statuses[m], truth[m])
    BY <1>1, Zenon DEF TypeOK, Change, Past, HandleStatus
  <1>3. Head(statuses[m]) \in Change /\ Tail(statuses[m]) \in Seq(Change)
    BY <1>2, HeadTailSet
  <1>4. UpTo(Tail(statuses[m]), truth[m]) /\ Head(statuses[m]).ver <= truth[m]
    BY <1>2, UpToTail
  <1>5. Head(statuses[m]).up \in BOOLEAN /\ Head(statuses[m]).ver \in Version
    BY <1>3 DEF Change
  <1>6. /\ statuses' = [statuses EXCEPT ![m] = Tail(@)]
        /\ connected' = [connected EXCEPT ![m] = Head(statuses[m]).up]
        /\ UNCHANGED <<truth, link, drops, events, positions, loaded, pending, timer, agent, shown>>
    BY DEF HandleStatus
  <1>7. statuses' \in [Markets -> Seq(Change)] /\ connected' \in [Markets -> BOOLEAN]
        /\ events' \in [Markets -> Seq(Event)]
    BY <1>1, <1>3, <1>5, <1>6, Zenon DEF TypeOK, Change, Event
  <1>8. \A n \in Markets : UpTo(events'[n], truth[n]) /\ UpTo(statuses'[n], truth[n])
    BY <1>1, <1>4, <1>6 DEF TypeOK, Past
  <1>9. CASE Head(statuses[m]).up
    <2>1. ScheduleRefresh(m, Head(statuses[m]).ver)
      BY <1>9 DEF HandleStatus
    <2>2. QED
      BY <1>4, <1>5, <1>6, <1>7, <1>8, <2>1, ScheduleKeeps, ZenonT(30)
  <1>10. CASE ~Head(statuses[m]).up
    <2>1. UNCHANGED <<refresh, seen, excused>>
      BY <1>10 DEF HandleStatus
    <2>2. TypeOK'
      BY <1>1, <1>6, <1>7, <2>1, Zenon DEF TypeOK, Change, Event
    <2>3. Past'
      BY <1>1, <1>6, <1>8, <2>1 DEF Past
    <2>4. QED
      BY <1>6, <2>1, <2>2, <2>3, QueueGrows
  <1>11. QED
    BY <1>9, <1>10

LEMMA HandleFillKeeps ==
    ASSUME IInv, NEW m \in Markets, HandleFill(m)
    PROVE  IInv'
  <1>1. TypeOK /\ Past
    BY DEF IInv
  <1>2. events[m] \in Seq(Event) /\ events[m] # <<>> /\ UpTo(events[m], truth[m])
    BY <1>1, Zenon DEF TypeOK, Event, Past, HandleFill
  <1>3. Head(events[m]) \in Event /\ Tail(events[m]) \in Seq(Event)
    BY <1>2, HeadTailSet
  <1>4. UpTo(Tail(events[m]), truth[m]) /\ Head(events[m]).ver <= truth[m]
    BY <1>2, UpToTail
  <1>5. Head(events[m]).ver \in Version
    BY <1>3 DEF Event
  <1>6. /\ events' = [events EXCEPT ![m] = Tail(@)]
        /\ UNCHANGED <<truth, link, drops, statuses, positions, loaded, connected,
                       pending, timer, agent, shown>>
    BY DEF HandleFill
  <1>7. statuses' \in [Markets -> Seq(Change)] /\ connected' \in [Markets -> BOOLEAN]
        /\ events' \in [Markets -> Seq(Event)]
    BY <1>1, <1>3, <1>6, Zenon DEF TypeOK, Change, Event
  <1>8. \A n \in Markets : UpTo(events'[n], truth[n]) /\ UpTo(statuses'[n], truth[n])
    BY <1>1, <1>4, <1>6, ZenonT(30) DEF TypeOK, Past
  <1>9. ScheduleRefresh(m, Head(events[m]).ver)
    BY DEF HandleFill
  <1>10. QED
    BY <1>4, <1>5, <1>6, <1>7, <1>8, <1>9, ScheduleKeeps, ZenonT(30)

LEMMA HandlePositionKeeps ==
    ASSUME IInv, NEW m \in Markets, HandlePosition(m)
    PROVE  IInv'
  <1> DEFINE x == [Idle EXCEPT !.at = "list"]
             v == Head(events[m]).ver
  <1>1. TypeOK /\ Past
    BY DEF IInv
  <1>2. events[m] \in Seq(Event) /\ events[m] # <<>> /\ UpTo(events[m], truth[m])
    BY <1>1, Zenon DEF TypeOK, Event, Past, HandlePosition
  <1>3. Head(events[m]) \in Event /\ Tail(events[m]) \in Seq(Event)
    BY <1>2, HeadTailSet
  <1>4. UpTo(Tail(events[m]), truth[m])
    BY <1>2, UpToTail
  <1>5. v \in Version
    BY <1>3 DEF Event
  <1>6. /\ events' = [events EXCEPT ![m] = Tail(@)]
        /\ positions' = [positions EXCEPT ![m] = v]
        /\ loaded' = [loaded EXCEPT ![m] = TRUE]
        /\ agent' = [agent EXCEPT ![m] = x]
        /\ excused' = IF v < seen[m] THEN excused \cup {m} ELSE excused
        /\ UNCHANGED <<truth, link, drops, statuses, connected, refresh, pending, timer, shown, seen>>
    BY DEF HandlePosition
  <1>7. x \in Agent /\ x.at = "list"
    BY AgentConstants DEF Agent
  <1> HIDE DEF x, v
  <1>8. m \in Agents /\ m # Loop /\ Loop \in Agents
    BY AgentConstants
  <1>9. agent'[m] = x /\ \A b \in Agents \ {m} : agent'[b] = agent[b]
    BY <1>1, <1>6, <1>8 DEF TypeOK
  <1>10. agent'[Loop] = agent[Loop]
    BY <1>8, <1>9
  <1>11. excused \subseteq excused' /\ excused' \subseteq Markets
    BY <1>1, <1>6 DEF TypeOK
  <1>12. TypeOK'
    <2>1. agent' \in [Agents -> Agent] /\ positions' \in Lists /\ loaded' \in [Markets -> BOOLEAN]
      BY <1>1, <1>5, <1>6, <1>7, <1>8 DEF TypeOK, Lists
    <2>2. events' \in [Markets -> Seq(Event)]
      BY <1>1, <1>3, <1>6, Zenon DEF TypeOK, Event
    <2>3. QED
      BY <1>1, <1>6, <1>11, <2>1, <2>2, ZenonT(30) DEF TypeOK, Event
  <1>13. AgentShape'
    BY <1>7, <1>8, <1>9, <1>10, ZenonT(30) DEF IInv, AgentShape, Loading
  <1>14. Past'
    BY <1>1, <1>4, <1>6, ZenonT(30) DEF TypeOK, Past
  <1>15. StaleIsQueued'
    BY <1>6, <1>10, <1>11 DEF IInv, StaleIsQueued, Queued
  <1>16. ASSUME NEW n \in Markets, positions'[n] < seen[n] PROVE ReadOwed(n)' \/ n \in excused'
    <2>1. CASE n = m
      BY <1>1, <1>6, <1>16, <2>1, ZenonT(30) DEF TypeOK, Lists
    <2>2. CASE n # m
      <3>1. positions'[n] = positions[n]
        BY <1>1, <1>6, <2>2 DEF TypeOK, Lists
      <3>2. ReadOwed(n) \/ n \in excused
        BY <1>16, <3>1 DEF IInv, FillsAreOwedARead
      <3>3. QED
        BY <1>6, <1>10, <1>11, <3>2, SMTT(30) DEF ReadOwed
    <2>3. QED
      BY <2>1, <2>2
  <1>17. FillsAreOwedARead'
    BY <1>6, <1>16 DEF FillsAreOwedARead
  <1>18. QED
    BY <1>12, <1>13, <1>14, <1>15, <1>17, ZenonT(30) DEF IInv

-----------------------------------------------------------------------------
\* The venue.

LEMMA TradeKeeps ==
    ASSUME IInv, NEW m \in Markets, Trade(m)
    PROVE  IInv'
  <1> DEFINE v == truth[m] + 1
             p == IF m \in Pushes THEN <<Position(v)>> ELSE <<>>
  <1>1. TypeOK /\ Past
    BY DEF IInv
  <1>2. truth[m] \in Nat /\ v \in Version /\ v \in Nat /\ truth[m] <= v
    BY <1>1, SyncAssumption DEF TypeOK, Lists, Version, Trade
  <1>3. /\ truth' = [truth EXCEPT ![m] = v]
        /\ events' = IF link[m] THEN [events EXCEPT ![m] = @ \o <<Fill(v)>> \o p] ELSE events
        /\ UNCHANGED <<link, drops, statuses, positions, loaded, connected, refresh,
                       pending, timer, agent, shown, seen, excused>>
    BY DEF Trade
  <1>4. <<Fill(v)>> \in Seq(Event) /\ UpTo(<<Fill(v)>>, v)
    BY <1>2 DEF Fill, Event, UpTo
  <1>5. p \in Seq(Event) /\ UpTo(p, v)
    <2>1. <<Position(v)>> \in Seq(Event) /\ UpTo(<<Position(v)>>, v)
      BY <1>2 DEF Position, Event, UpTo
    <2>2. <<>> \in Seq(Event) /\ UpTo(<<>>, v)
      BY DEF UpTo
    <2>3. QED
      BY <2>1, <2>2
  <1> HIDE DEF v, p
  <1>6. events[m] \in Seq(Event) /\ statuses[m] \in Seq(Change)
    BY <1>1, Zenon DEF TypeOK, Event, Change
  <1>7. \A e \in Event \cup Change : e.ver \in Nat
    BY SyncAssumption DEF Event, Change, Version
  <1>8. UpTo(events[m], v) /\ UpTo(statuses[m], v)
    BY <1>1, <1>2, <1>6, <1>7, UpToLater DEF Past
  <1>9. events[m] \o <<Fill(v)>> \in Seq(Event) /\ UpTo(events[m] \o <<Fill(v)>>, v)
    BY <1>4, <1>6, <1>8, UpToConcat, Zenon
  <1>10. events[m] \o <<Fill(v)>> \o p \in Seq(Event) /\ UpTo(events[m] \o <<Fill(v)>> \o p, v)
    BY <1>5, <1>9, UpToConcat, Zenon
  <1>11. events' \in [Markets -> Seq(Event)]
    BY <1>1, <1>3, <1>10, Zenon DEF TypeOK, Event
  <1>12. TypeOK'
    BY <1>1, <1>2, <1>3, <1>11, ZenonT(30) DEF TypeOK, Lists, Event
  <1>13. ASSUME NEW n \in Markets
         PROVE  seen[n] <= truth'[n] /\ UpTo(events'[n], truth'[n]) /\ UpTo(statuses[n], truth'[n])
    <2>1. CASE n = m
      <3>1. truth'[n] = v /\ events'[n] \in {events[m], events[m] \o <<Fill(v)>> \o p}
        BY <1>1, <1>3, <2>1 DEF TypeOK, Lists
      <3>2. seen[m] <= v
        <4>1. seen[m] \in Nat /\ seen[m] <= truth[m]
          BY <1>1, SyncAssumption DEF TypeOK, Lists, Version, Past
        <4>2. QED
          BY <1>2, <4>1
      <3>3. QED
        BY <1>8, <1>10, <2>1, <3>1, <3>2, Zenon
    <2>2. CASE n # m
      BY <1>1, <1>3, <2>2, ZenonT(30) DEF TypeOK, Lists, Past
    <2>3. QED
      BY <2>1, <2>2
  <1>14. Past'
    BY <1>3, <1>13 DEF Past
  <1>15. QED
    BY <1>3, <1>12, <1>14, QueueGrows, ZenonT(30)

LEMMA LinkKeeps ==
    ASSUME IInv, NEW m \in Markets, LinkDown(m) \/ LinkUp(m)
    PROVE  IInv'
  <1>1. TypeOK /\ Past
    BY DEF IInv
  <1>2. PICK c : statuses' = [statuses EXCEPT ![m] = Append(@, c)]
                 /\ (c = Link(FALSE, 0) \/ c = Link(TRUE, truth[m]))
    BY Zenon DEF LinkDown, LinkUp
  <1>3. UNCHANGED <<truth, events, positions, loaded, connected, refresh,
                    pending, timer, agent, shown, seen, excused>>
    BY Zenon DEF LinkDown, LinkUp
  <1>4. truth[m] \in Version /\ truth[m] \in Nat /\ 0 \in Version
    BY <1>1, SyncAssumption DEF TypeOK, Lists, Version
  <1>5. c \in Change /\ c.ver <= truth[m]
    <2>1. Link(FALSE, 0) \in Change /\ Link(FALSE, 0).ver = 0
      BY <1>4 DEF Link, Change
    <2>2. Link(TRUE, truth[m]) \in Change /\ Link(TRUE, truth[m]).ver = truth[m]
      BY <1>4 DEF Link, Change
    <2>3. 0 <= truth[m] /\ truth[m] <= truth[m]
      BY <1>4
    <2>4. CASE c = Link(FALSE, 0)
      BY <2>1, <2>3, <2>4, Zenon
    <2>5. CASE c = Link(TRUE, truth[m])
      BY <2>2, <2>3, <2>5, Zenon
    <2>6. QED
      BY <1>2, <2>4, <2>5, Zenon
  <1>6. statuses[m] \in Seq(Change) /\ UpTo(statuses[m], truth[m])
    BY <1>1, Zenon DEF TypeOK, Change, Past
  <1>7. Append(statuses[m], c) \in Seq(Change) /\ UpTo(Append(statuses[m], c), truth[m])
    BY <1>5, <1>6 DEF UpTo
  <1>8. statuses' \in [Markets -> Seq(Change)]
    BY <1>1, <1>2, <1>7, Zenon DEF TypeOK, Change
  <1>9. link' \in [Markets -> BOOLEAN] /\ drops' \in [Markets -> 0 .. MaxDrops]
    <2>1. CASE LinkDown(m)
      <3>1. drops[m] + 1 \in 0 .. MaxDrops
        BY <1>1, <2>1, SyncAssumption DEF TypeOK, LinkDown
      <3>2. QED
        BY <1>1, <2>1, <3>1 DEF TypeOK, LinkDown
    <2>2. CASE LinkUp(m)
      BY <1>1, <2>2 DEF TypeOK, LinkUp
    <2>3. QED
      BY <2>1, <2>2
  <1>10. TypeOK'
    BY <1>1, <1>3, <1>8, <1>9, Zenon DEF TypeOK, Change
  <1>11. Past'
    BY <1>1, <1>2, <1>3, <1>7 DEF TypeOK, Past
  <1>12. QED
    BY <1>3, <1>10, <1>11, QueueGrows

LEMMA PlaceAcceptedKeeps ==
    ASSUME IInv, NEW m \in Markets, PlaceAccepted(m)
    PROVE  IInv'
  <1>1. TypeOK /\ Enqueue(m)
    BY DEF IInv, PlaceAccepted
  <1>2. TypeOK'
    BY <1>1, EnqueueGrows, Zenon DEF PlaceAccepted, TypeOK
  <1>3. Past'
    BY Zenon DEF IInv, Past, PlaceAccepted
  <1>4. QED
    BY <1>1, <1>2, <1>3, EnqueueGrows, QueueGrows, ZenonT(30) DEF PlaceAccepted

-----------------------------------------------------------------------------
\* The select of the stream loop.

LEMMA ReceiveRefreshKeeps ==
    ASSUME IInv, ReceiveRefresh
    PROVE  IInv'
  <1>1. TypeOK /\ refresh # <<>> /\ refresh \in Seq(Markets)
    BY Zenon DEF IInv, TypeOK, ReceiveRefresh
  <1>2. /\ Head(refresh) \in Markets /\ Tail(refresh) \in Seq(Markets)
        /\ \A e \in ToSet(refresh) : e = Head(refresh) \/ e \in ToSet(Tail(refresh))
    BY <1>1, HeadTailSet
  <1>3. Len(Tail(refresh)) <= RefreshCap
    BY <1>1, SyncAssumption DEF TypeOK
  <1>4. TypeOK'
    BY <1>1, <1>2, <1>3, Zenon DEF ReceiveRefresh, TypeOK
  <1>5. Past'
    BY DEF IInv, Past, ReceiveRefresh
  <1>6. QED
    BY <1>2, <1>4, <1>5, QueueGrows, SMTT(30) DEF ReceiveRefresh

\* What was pending is what the loop now has to load: nothing falls between the two.
LEMMA RefreshDueKeeps ==
    ASSUME IInv, RefreshDue
    PROVE  IInv'
  <1> DEFINE x == [Idle EXCEPT !.at = "load", !.todo = pending]
  <1>1. TypeOK /\ agent[Loop].at = "idle" /\ agent[Loop].todo = {}
    BY DEF IInv, AgentShape, RefreshDue
  <1>2. x \in Agent /\ x.at = "load" /\ x.todo = pending
    BY <1>1, AgentConstants, Zenon DEF Agent, TypeOK
  <1>3. agent' = [agent EXCEPT ![Loop] = x] /\ pending' = {} /\ timer' = FALSE
        /\ UNCHANGED <<truth, link, drops, events, statuses, positions, loaded, connected,
                       refresh, shown, seen, excused>>
    BY DEF RefreshDue, RefreshBatch
  <1> HIDE DEF x
  <1>4. agent'[Loop] = x /\ \A b \in Agents \ {Loop} : agent'[b] = agent[b]
    BY <1>1, <1>3, AgentConstants DEF TypeOK
  <1>5. TypeOK'
    BY <1>1, <1>2, <1>3, Zenon DEF TypeOK
  <1>6. AgentShape'
    BY <1>2, <1>4 DEF IInv, AgentShape, Loading
  <1>7. Past'
    BY <1>3 DEF IInv, Past
  <1>8. StaleIsQueued'
    BY <1>2, <1>4 DEF StaleIsQueued
  <1>9. FillsAreOwedARead'
    BY <1>1, <1>2, <1>3, <1>4, SMTT(30) DEF IInv, FillsAreOwedARead, ReadOwed
  <1>10. QED
    BY <1>5, <1>6, <1>7, <1>8, <1>9 DEF IInv

LEMMA ResyncTickKeeps ==
    ASSUME IInv, ResyncTick
    PROVE  IInv'
  BY AgentMoves, AgentConstants, Zenon DEF ResyncTick, IInv, TypeOK, Loading

LEMMA CallPositionsKeeps ==
    ASSUME IInv, NEW r \in Readers, CallPositions(r)
    PROVE  IInv'
  <1> DEFINE x == [Idle EXCEPT !.at = "load", !.todo = Markets]
  <1>1. x \in Agent /\ x.at = "load"
    BY AgentConstants, ZenonT(30) DEF Agent
  <1>2. agent' = [agent EXCEPT ![r] = x] /\ agent[r].at = "idle"
    BY DEF CallPositions
  <1> HIDE DEF x
  <1>3. QED
    BY <1>1, <1>2, AgentMoves, AgentConstants, Zenon DEF CallPositions, IInv, TypeOK, Loading

-----------------------------------------------------------------------------
LEMMA NextIInv == IInv /\ [Next]_vars => IInv'
  <1> SUFFICES ASSUME IInv, [Next]_vars PROVE IInv'
    OBVIOUS
  <1>1. ASSUME NEW m \in Markets,
               Trade(m) \/ LinkDown(m) \/ LinkUp(m) \/ PlaceAccepted(m) \/ MarketStep(m)
        PROVE  IInv'
    BY <1>1, TradeKeeps, LinkKeeps, PlaceAcceptedKeeps, HandleStatusKeeps, HandleFillKeeps,
       HandlePositionKeeps, ZenonT(30) DEF MarketStep
  <1>2. ASSUME NEW a \in Agents, LoadStep(a) PROVE IInv'
    BY <1>2, LoadStepKeeps, StoreKeeps
  <1>3. CASE UNCHANGED vars
    <2>1. UNCHANGED <<truth, link, drops, events, statuses, positions, loaded, connected,
                      refresh, pending, timer, agent, shown, seen, excused>>
      BY <1>3 DEF vars
    <2>2. TypeOK' /\ Past'
      BY <2>1, Zenon DEF IInv, TypeOK, Past
    <2>3. QED
      BY <2>1, <2>2, QueueGrows
  <1>4. QED
    BY <1>1, <1>2, <1>3, CallPositionsKeeps, ReceiveRefreshKeeps, RefreshDueKeeps,
       ResyncTickKeeps, ZenonT(30) DEF Next

\* The inductive invariant holds in every reachable state.
THEOREM Invariance == Spec => []IInv
  BY InitIInv, NextIInv, PTL DEF Spec

\* Every variable of the position snapshot keeps its type, and rt.refresh never holds
\* more than its capacity.
THEOREM TypeCorrect == Spec => []TypeOK
  <1>1. IInv => TypeOK
    BY DEF IInv
  <1>2. QED
    BY Invariance, <1>1, PTL

\* No fill or reconnect that handleEvent was told of is forgotten, for any number of markets,
\* concurrent callers of Positions, trades and connection losses: the market is read again
\* unless the code gave the request up.
THEOREM FillsAlwaysOwedARead == Spec => []FillsAreOwedARead
  <1>1. IInv => FillsAreOwedARead
    BY DEF IInv
  <1>2. QED
    BY Invariance, <1>1, PTL
=============================================================================
