---------------------------- MODULE PositionSync ----------------------------
(***************************************************************************)
(* gateway/account/runtime.go: how the position snapshot of an account      *)
(* follows the venue during one call of stream.                             *)
(*                                                                          *)
(* A position table is a version: the number of trades of that market it    *)
(* reflects.  Three kinds of goroutine write it: the stream loop (initial   *)
(* and periodic resync, coalesced refreshes), the streamMarket goroutine of *)
(* each market (position events), and callers of Positions.  A REST read,   *)
(* its store under rt.mu, the read of the list to publish and the emit are  *)
(* steps of their own, as in loadMarket and publishPositions.               *)
(***************************************************************************)
EXTENDS Naturals, Sequences, SequencesExt

CONSTANTS
    Markets,
    Readers,     \* concurrent callers of Positions
    Loop,        \* the stream loop
    RefreshCap,  \* capacity of rt.refresh, 16 in the code
    Pushes,      \* the markets whose venue pushes position events
    MaxTrades,   \* bound: trades per market
    MaxDrops     \* bound: connection losses per market

ASSUME SyncAssumption ==
    /\ RefreshCap \in Nat \ {0}
    /\ MaxTrades \in Nat
    /\ MaxDrops \in Nat
    /\ Pushes \subseteq Markets
    /\ Loop \notin Readers \cup Markets
    /\ Readers \cap Markets = {}

VARIABLES
    truth,      \* trades at the venue
    link,       \* the venue connection of each market is up
    drops,      \* connection losses so far
    events,     \* events sent by the venue and not yet handled
    statuses,   \* connection changes not yet handled, with the version at that time
    positions,  \* rt.positions, as a version
    loaded,     \* rt.loaded
    connected,  \* rt.connected
    refresh,    \* rt.refresh
    pending,    \* the loop's pending set
    timer,      \* the loop's timer is running
    agent,      \* the goroutines: Loop, one per market, one per reader
    shown,      \* account.positions as retained by the hub
    seen,       \* the newest version a handled fill or reconnect told of
    excused     \* markets whose refresh was dropped or failed, or was overwritten

venueVars == <<truth, link, drops>>
vars == <<truth, link, drops, events, statuses, positions, loaded, connected,
          refresh, pending, timer, agent, shown, seen, excused>>

Version == 0 .. MaxTrades
Lists == [Markets -> Version]
Agents == {Loop} \cup Markets \cup Readers

\* A goroutine and what it holds: the markets it has yet to load, the one it
\* is loading, the version it read, the list it is about to emit.
\* "idle": in its select (a reader: not called); "fetch": in the REST call;
\* "store": the answer is in hand; "list": in publishPositions, before
\* positionList; "emit": after it.
Agent ==
    [at    : {"idle", "load", "fetch", "store", "list", "emit"},
     todo  : SUBSET Markets,
     mkt   : Markets \cup {Loop},
     ver   : Version,
     list  : Lists,
     final : BOOLEAN]   \* the publication that ends resync is due

NoList == [m \in Markets |-> 0]
Idle == [at |-> "idle", todo |-> {}, mkt |-> Loop, ver |-> 0, list |-> NoList, final |-> FALSE]

\* Faulty variant: resync publishes what is in memory.
StartResyncMemory == [Idle EXCEPT !.at = "load", !.final = TRUE]

\* resync: every market is loaded, then the list is published once more.
StartResync == [Idle EXCEPT !.at = "load", !.todo = Markets, !.final = TRUE]

Link(up, v) == [up |-> up, ver |-> v]

Init ==
    /\ truth = NoList
    /\ link = [m \in Markets |-> TRUE]
    /\ drops = [m \in Markets |-> 0]
    /\ events = [m \in Markets |-> <<>>]
    /\ statuses = [m \in Markets |-> <<Link(TRUE, 0)>>]
    /\ positions = NoList
    /\ loaded = [m \in Markets |-> FALSE]
    /\ connected = [m \in Markets |-> FALSE]
    /\ refresh = <<>>
    /\ pending = {}
    /\ timer = FALSE
    /\ agent = [a \in Agents |-> IF a = Loop THEN StartResync ELSE Idle]
    /\ shown = NoList
    /\ seen = NoList
    /\ excused = {}

-----------------------------------------------------------------------------
\* The venue.  A trade is announced by a fill and, where the venue pushes
\* positions, by a position event; while the connection is down both are lost.

Fill(v) == [kind |-> "fill", ver |-> v]
Position(v) == [kind |-> "position", ver |-> v]

Trade(m) ==
    /\ truth[m] < MaxTrades
    /\ truth' = [truth EXCEPT ![m] = @ + 1]
    /\ events' = IF link[m]
                 THEN [events EXCEPT ![m] = @ \o <<Fill(truth[m] + 1)>>
                          \o IF m \in Pushes THEN <<Position(truth[m] + 1)>> ELSE <<>>]
                 ELSE events
    /\ UNCHANGED <<link, drops, statuses, positions, loaded, connected, refresh,
                   pending, timer, agent, shown, seen, excused>>

LinkDown(m) ==
    /\ link[m]
    /\ drops[m] < MaxDrops
    /\ link' = [link EXCEPT ![m] = FALSE]
    /\ drops' = [drops EXCEPT ![m] = @ + 1]
    /\ statuses' = [statuses EXCEPT ![m] = Append(@, Link(FALSE, 0))]
    /\ UNCHANGED <<truth, events, positions, loaded, connected, refresh,
                   pending, timer, agent, shown, seen, excused>>

LinkUp(m) ==
    /\ ~link[m]
    /\ link' = [link EXCEPT ![m] = TRUE]
    /\ statuses' = [statuses EXCEPT ![m] = Append(@, Link(TRUE, truth[m]))]
    /\ UNCHANGED <<truth, drops, events, positions, loaded, connected, refresh,
                   pending, timer, agent, shown, seen, excused>>

-----------------------------------------------------------------------------
\* streamMarket and handleEvent, for market m.

\* The channel send of scheduleRefresh: a full channel drops the request.
Enqueue(m) ==
    refresh' = IF Len(refresh) < RefreshCap THEN Append(refresh, m) ELSE refresh

\* scheduleRefresh(m), because of version v.
ScheduleRefresh(m, v) ==
    /\ Enqueue(m)
    /\ seen' = [seen EXCEPT ![m] = Max({@, v})]
    /\ excused' = IF Len(refresh) = RefreshCap /\ m \notin ToSet(refresh)
                  THEN excused \cup {m}
                  ELSE excused

\* Place asks for a refresh when an order was accepted.
PlaceAccepted(m) ==
    /\ Enqueue(m)
    /\ UNCHANGED <<truth, link, drops, events, statuses, positions, loaded, connected,
                   pending, timer, agent, shown, seen, excused>>

\* An Active status counts as connected and asks for a refresh, because the
\* trades of the gap were not announced; any other status counts as not.
HandleStatus(m) ==
    /\ agent[m].at = "idle"
    /\ statuses[m] # <<>>
    /\ statuses' = [statuses EXCEPT ![m] = Tail(@)]
    /\ connected' = [connected EXCEPT ![m] = Head(statuses[m]).up]
    /\ IF Head(statuses[m]).up
       THEN ScheduleRefresh(m, Head(statuses[m]).ver)
       ELSE UNCHANGED <<refresh, seen, excused>>
    /\ UNCHANGED <<truth, link, drops, events, positions, loaded, pending, timer, agent, shown>>

HandleFill(m) ==
    /\ agent[m].at = "idle"
    /\ events[m] # <<>>
    /\ Head(events[m]).kind = "fill"
    /\ events' = [events EXCEPT ![m] = Tail(@)]
    /\ ScheduleRefresh(m, Head(events[m]).ver)
    /\ UNCHANGED <<truth, link, drops, statuses, positions, loaded, connected,
                   pending, timer, agent, shown>>

\* applyPositionEvent stores the rows and calls publishPositions.
HandlePosition(m) ==
    /\ agent[m].at = "idle"
    /\ events[m] # <<>>
    /\ Head(events[m]).kind = "position"
    /\ events' = [events EXCEPT ![m] = Tail(@)]
    /\ positions' = [positions EXCEPT ![m] = Head(events[m]).ver]
    /\ loaded' = [loaded EXCEPT ![m] = TRUE]
    /\ agent' = [agent EXCEPT ![m] = [Idle EXCEPT !.at = "list"]]
    /\ excused' = IF Head(events[m]).ver < seen[m] THEN excused \cup {m} ELSE excused
    /\ UNCHANGED <<truth, link, drops, statuses, connected, refresh, pending,
                   timer, shown, seen>>

-----------------------------------------------------------------------------
\* loadMarket and publishPositions, in any goroutine a.

Fresh(m) == loaded[m] /\ connected[m]

\* The next market to load; the order of resync is fixed, that of the
\* refreshes is a map's: any.  Positions skips the markets whose snapshot a
\* private stream keeps live.
BeginLoad(a, m) ==
    /\ agent[a].at = "load"
    /\ m \in agent[a].todo
    /\ agent' = [agent EXCEPT ![a] =
                    IF a \in Readers /\ Fresh(m)
                    THEN [@ EXCEPT !.todo = agent[a].todo \ {m}]
                    ELSE [@ EXCEPT !.at = "fetch", !.mkt = m, !.todo = agent[a].todo \ {m}]]
    /\ UNCHANGED <<truth, link, drops, events, statuses, positions, loaded, connected,
                   refresh, pending, timer, shown, seen, excused>>

\* The venue answers with its positions of that moment.
Fetch(a) ==
    /\ agent[a].at = "fetch"
    /\ agent' = [agent EXCEPT ![a] = [@ EXCEPT !.at = "store", !.ver = truth[agent[a].mkt]]]
    /\ UNCHANGED <<truth, link, drops, events, statuses, positions, loaded, connected,
                   refresh, pending, timer, shown, seen, excused>>

\* The read fails; loadMarket returns and nothing is stored or published.
FetchFails(a) ==
    /\ agent[a].at = "fetch"
    /\ agent' = [agent EXCEPT ![a] = [@ EXCEPT !.at = "load", !.mkt = Loop]]
    /\ excused' = IF a = Loop THEN excused \cup {agent[a].mkt} ELSE excused
    /\ UNCHANGED <<truth, link, drops, events, statuses, positions, loaded, connected,
                   refresh, pending, timer, shown, seen>>

Store(a) ==
    /\ agent[a].at = "store"
    /\ LET m == agent[a].mkt IN
       /\ positions' = [positions EXCEPT ![m] = agent[a].ver]
       /\ loaded' = [loaded EXCEPT ![m] = TRUE]
       /\ excused' = CASE a = Loop /\ agent[a].ver >= seen[m] -> excused \ {m}
                       [] a # Loop /\ agent[a].ver < seen[m] -> excused \cup {m}
                       [] OTHER -> excused
    /\ agent' = [agent EXCEPT ![a] = [@ EXCEPT !.at = "list", !.mkt = Loop, !.ver = 0]]
    /\ UNCHANGED <<truth, link, drops, events, statuses, connected, refresh, pending,
                   timer, shown, seen>>

\* positionList, under rt.mu.
List(a) ==
    /\ agent[a].at = "list"
    /\ agent' = [agent EXCEPT ![a] = [@ EXCEPT !.at = "emit", !.list = positions]]
    /\ UNCHANGED <<truth, link, drops, events, statuses, positions, loaded, connected,
                   refresh, pending, timer, shown, seen, excused>>

\* emit, under hub.mu; an event goroutine goes back to its select.
Publish(a) ==
    /\ agent[a].at = "emit"
    /\ shown' = agent[a].list
    /\ agent' = [agent EXCEPT ![a] =
                    IF a \in Markets THEN Idle ELSE [@ EXCEPT !.at = "load", !.list = NoList]]
    /\ UNCHANGED <<truth, link, drops, events, statuses, positions, loaded, connected,
                   refresh, pending, timer, seen, excused>>

\* All markets are loaded: resync publishes once more, then the goroutine
\* is back in its select, or the call of Positions returns.
Loaded(a) ==
    /\ agent[a].at = "load"
    /\ agent[a].todo = {}
    /\ agent' = [agent EXCEPT ![a] = IF @.final THEN [Idle EXCEPT !.at = "list"] ELSE Idle]
    /\ UNCHANGED <<truth, link, drops, events, statuses, positions, loaded, connected,
                   refresh, pending, timer, shown, seen, excused>>

CallPositions(a) ==
    /\ agent[a].at = "idle"
    /\ agent' = [agent EXCEPT ![a] = [Idle EXCEPT !.at = "load", !.todo = Markets]]
    /\ UNCHANGED <<truth, link, drops, events, statuses, positions, loaded, connected,
                   refresh, pending, timer, shown, seen, excused>>

-----------------------------------------------------------------------------
\* The select of the stream loop.

ReceiveRefresh ==
    /\ agent[Loop].at = "idle"
    /\ refresh # <<>>
    /\ refresh' = Tail(refresh)
    /\ pending' = pending \cup {Head(refresh)}
    /\ timer' = TRUE
    /\ UNCHANGED <<truth, link, drops, events, statuses, positions, loaded, connected,
                   agent, shown, seen, excused>>

\* Faulty variant: the pending set is emptied before it is read.
RefreshBatchEmpty == {}

RefreshBatch == pending

\* case <-timer: every pending market is loaded.
RefreshDue ==
    /\ agent[Loop].at = "idle"
    /\ timer
    /\ timer' = FALSE
    /\ pending' = {}
    /\ agent' = [agent EXCEPT ![Loop] = [Idle EXCEPT !.at = "load", !.todo = RefreshBatch]]
    /\ UNCHANGED <<truth, link, drops, events, statuses, positions, loaded, connected,
                   refresh, shown, seen, excused>>

\* case <-resync.C
ResyncTick ==
    /\ agent[Loop].at = "idle"
    /\ agent' = [agent EXCEPT ![Loop] = StartResync]
    /\ UNCHANGED <<truth, link, drops, events, statuses, positions, loaded, connected,
                   refresh, pending, timer, shown, seen, excused>>

-----------------------------------------------------------------------------
MarketStep(m) == HandleStatus(m) \/ HandleFill(m) \/ HandlePosition(m)

LoadStep(a) ==
    \/ \E m \in Markets : BeginLoad(a, m)
    \/ Fetch(a)
    \/ FetchFails(a)
    \/ Store(a)
    \/ List(a)
    \/ Publish(a)
    \/ Loaded(a)

Next ==
    \/ \E m \in Markets : Trade(m) \/ LinkDown(m) \/ LinkUp(m) \/ PlaceAccepted(m) \/ MarketStep(m)
    \/ \E a \in Agents : LoadStep(a)
    \/ \E r \in Readers : CallPositions(r)
    \/ ReceiveRefresh
    \/ RefreshDue
    \/ ResyncTick

Spec == Init /\ [][Next]_vars

\* Goroutines go on, the ticker fires, and the venue answers a REST call
\* that is made again and again.
Fairness ==
    /\ \A m \in Markets : WF_vars(MarketStep(m))
    /\ \A a \in Agents : WF_vars(LoadStep(a)) /\ \A m \in Markets : SF_vars(agent[a].mkt = m /\ Fetch(a))
    /\ SF_vars(ResyncTick)

FairSpec == Spec /\ Fairness

-----------------------------------------------------------------------------
\* Properties.

\* Every variable has its type.
TypeOK ==
    /\ truth \in Lists
    /\ link \in [Markets -> BOOLEAN]
    /\ drops \in [Markets -> 0 .. MaxDrops]
    /\ events \in [Markets -> Seq([kind : {"fill", "position"}, ver : Version])]
    /\ statuses \in [Markets -> Seq([up : BOOLEAN, ver : Version])]
    /\ positions \in Lists
    /\ loaded \in [Markets -> BOOLEAN]
    /\ connected \in [Markets -> BOOLEAN]
    /\ refresh \in Seq(Markets) /\ Len(refresh) <= RefreshCap
    /\ pending \subseteq Markets
    /\ timer \in BOOLEAN
    /\ agent \in [Agents -> Agent]
    /\ shown \in Lists
    /\ seen \in Lists
    /\ excused \subseteq Markets

\* The loop will still read market m, or holds an answer that is new enough.
ReadOwed(m) ==
    \/ m \in ToSet(refresh) \cup pending \cup agent[Loop].todo
    \/ agent[Loop].mkt = m /\ agent[Loop].at = "fetch"
    \/ agent[Loop].mkt = m /\ agent[Loop].at = "store" /\ agent[Loop].ver >= seen[m]

\* A fill or a reconnect the gateway has handled is not forgotten: as long as
\* the snapshot is older than it, a REST read of that market is still to
\* come, unless the refresh channel was full of other markets' requests, the
\* read failed, or an older answer or event was stored over a newer one.
FillsAreOwedARead ==
    \A m \in Markets : positions[m] < seen[m] => ReadOwed(m) \/ m \in excused

\* However events, refreshes, losses and concurrent reads interleave, once
\* trading stops the snapshot and what the hub retains of it are the venue's
\* positions: "resyncInterval repairs anything a private stream missed".
SnapshotConverges == <>[](positions = truth /\ shown = truth)

\* "A new subscriber immediately receives the current snapshot": when no
\* publication is under way, the retained list is the one in memory.
QuietSnapshotIsCurrent ==
    (\A a \in Agents : agent[a].at = "idle") => shown = positions
=============================================================================
