-------------------------- MODULE RateLimitProofs --------------------------
(***************************************************************************)
(* Proofs about RateLimit, for every limit, interval, set of costs and      *)
(* number of concurrent requests.                                           *)
(***************************************************************************)
EXTENDS RateLimit, TLAPS

\* Before the first request of a key its window has not been used.
UnconfiguredUnused ==
    \A k \in Keys \ configured : window[k].used = 0 /\ banned[k] = 0

\* A request under way has the windows it is charged to.
RequestsConfigured ==
    \A r \in Requests : req[r] # Idle => Charged(req[r]) \subseteq configured

\* A window remembers the longest wait asked for.
BansRemembered == \A k \in Keys : window[k].blocked = banned[k]

\* The venue's window counts the ordinary units.
OrdinaryCounted == ordinary <= window[Venue].used

IInv ==
    /\ TypeOK
    /\ UsedWithinLimit
    /\ HeadroomKept
    /\ UnconfiguredUnused
    /\ RequestsConfigured
    /\ BansRemembered
    /\ OrdinaryCounted

-----------------------------------------------------------------------------
\* The operators of TryAcquire.

\* The headroom is part of the limit.
LEMMA FifthOfLimit == VenueLimit \div 5 \in Nat /\ VenueLimit \div 5 <= VenueLimit
  BY LimitAssumption

\* Limits and intervals are positive.
LEMMA Quotas ==
    ASSUME NEW k \in Keys
    PROVE  Limit(k) \in Nat \ {0} /\ Interval(k) \in Nat \ {0}
  BY LimitAssumption DEF Limit, Interval

\* What a request is charged, and the headroom it leaves.
LEMMA Charges ==
    ASSUME NEW q \in Request, NEW k \in Charged(q)
    PROVE  /\ k \in Keys
           /\ Cost(q, k) \in Nat \ {0}
           /\ Headroom(q, k) \in Nat
           /\ Headroom(q, k) <= Limit(k)
           /\ Valid(q) => Cost(q, k) <= Limit(k) - Headroom(q, k)
  <1>1. q.endpoint \in Endpoints /\ q.cost \in Costs /\ q.cancel \in BOOLEAN
    BY DEF Request
  <1>2. k \in Keys /\ (k = Venue \/ k = q.endpoint) /\ q.endpoint # Venue
    BY <1>1, LimitAssumption DEF Charged, Keys
  <1>3. Cost(q, k) \in Nat \ {0}
    <2>1. q.cost \in Nat \ {0}
      BY <1>1, LimitAssumption, Zenon
    <2>2. QED
      BY <2>1 DEF Cost
  <1>4. Reserve(q) \in Nat /\ Reserve(q) <= VenueLimit
    BY FifthOfLimit, LimitAssumption DEF Reserve
  <1>5. CASE k = Venue
    BY <1>2, <1>3, <1>4, <1>5 DEF Headroom, Limit, Valid, Cost
  <1>6. CASE k # Venue
    BY <1>2, <1>3, <1>6, LimitAssumption DEF Headroom, Limit, Cost
  <1>7. QED
    BY <1>5, <1>6

\* A window that TryAcquire looks at keeps its block, ends after the present,
\* and has its count or none.
LEMMA RolledWindow ==
    ASSUME NEW k \in Keys, NEW w \in Window, NEW t \in Nat
    PROVE  LET x == Rolled(k, w, t) IN
           /\ x \in Window
           /\ x.blocked = w.blocked
           /\ x.used = IF t >= w.start + Interval(k) THEN 0 ELSE w.used
           /\ x.start = IF t >= w.start + Interval(k) THEN t ELSE w.start
           /\ t < x.start + Interval(k)
  <1>1. Interval(k) \in Nat \ {0}
    BY Quotas
  <1>2. w.start \in Nat /\ w.used \in Nat /\ w.blocked \in Nat
    BY DEF Window
  <1>3. CASE t >= w.start + Interval(k)
    <2>1. Rolled(k, w, t) = [start |-> t, used |-> 0, blocked |-> w.blocked]
      BY <1>3, Zenon DEF Rolled, Window
    <2>2. QED
      BY <1>1, <1>2, <1>3, <2>1 DEF Window
  <1>4. CASE ~(t >= w.start + Interval(k))
    BY <1>1, <1>2, <1>4 DEF Rolled, Window
  <1>5. QED
    BY <1>3, <1>4

\* A key imposes no delay exactly when it has room and its block is over.
LEMMA NoKeyDelay ==
    ASSUME NEW q \in Request, NEW k \in Charged(q), NEW w \in Window, NEW t \in Nat
    PROVE  LET x == Rolled(k, w, t)
               d == KeyDelay(q, k, x, t)
           IN  /\ d \in Int
               /\ d <= 0 <=> /\ x.used + Cost(q, k) <= Limit(k) - Headroom(q, k)
                             /\ w.blocked <= t
  <1> DEFINE x == Rolled(k, w, t)
  <1>1. /\ x \in Window /\ x.blocked = w.blocked /\ t < x.start + Interval(k)
    BY Charges, RolledWindow
  <1>2. /\ Limit(k) \in Nat /\ Interval(k) \in Nat /\ Cost(q, k) \in Nat /\ Headroom(q, k) \in Nat
    BY Charges, Quotas
  <1>3. x.used \in Nat /\ x.start \in Nat /\ x.blocked \in Nat
    BY <1>1 DEF Window
  <1> HIDE DEF x
  <1>4. QED
    BY <1>1, <1>2, <1>3 DEF KeyDelay, Max2, x

\* TryAcquire admits a request exactly when both its keys do.
LEMMA Admitted ==
    ASSUME NEW q \in Request, NEW wins \in [Keys -> Window], NEW t \in Nat
    PROVE  /\ Delay(q, wins, t) \in Int
           /\ Delay(q, wins, t) <= 0 <=>
                \A k \in Charged(q) :
                    /\ Rolled(k, wins[k], t).used + Cost(q, k) <= Limit(k) - Headroom(q, k)
                    /\ wins[k].blocked <= t
  <1> DEFINE d(k) == KeyDelay(q, k, Rolled(k, wins[k], t), t)
             free(k) == /\ Rolled(k, wins[k], t).used + Cost(q, k) <= Limit(k) - Headroom(q, k)
                        /\ wins[k].blocked <= t
  <1>1. \A k \in Charged(q) : d(k) \in Int /\ (d(k) <= 0 <=> free(k))
    BY NoKeyDelay, Charges
  <1>2. Venue \in Charged(q) /\ q.endpoint \in Charged(q)
    BY DEF Charged
  <1>3. Delay(q, wins, t) = Max2(d(Venue), d(q.endpoint))
    BY DEF Delay
  <1>4. \A k \in Charged(q) : k = Venue \/ k = q.endpoint
    BY DEF Charged
  <1> HIDE DEF d, free
  <1>5. Delay(q, wins, t) \in Int /\ (Delay(q, wins, t) <= 0 <=> free(Venue) /\ free(q.endpoint))
    BY <1>1, <1>2, <1>3 DEF Max2
  <1>6. QED
    BY <1>2, <1>4, <1>5 DEF free

\* What is booked is a count.
LEMMA BookedTypes ==
    ASSUME NEW f \in [Times -> Nat], NEW t, NEW c \in Nat
    PROVE  Booked(f, t, c) \in [Times -> Nat]
  BY DEF Booked

-----------------------------------------------------------------------------
\* The invariant.

\* A request that is under way is a request.
LEMMA UnderWay ==
    ASSUME TypeOK, NEW r \in Requests, req[r].at # "idle"
    PROVE  req[r] \in Request /\ req[r] # Idle
  BY DEF TypeOK, Idle

LEMMA InitIInv == Init => IInv
  <1> SUFFICES ASSUME Init PROVE IInv
    OBVIOUS
  <1> USE LimitAssumption DEF Init
  <1>1. Venue \in Keys
    BY DEF Keys
  <1>2. TypeOK
    BY DEF TypeOK, NewWindow, Window
  <1>3. \A k \in Keys : window[k].used = 0 /\ window[k].blocked = 0 /\ banned[k] = 0
    BY DEF NewWindow
  <1>4. UsedWithinLimit
    BY <1>3, Quotas DEF UsedWithinLimit
  <1>5. HeadroomKept
    BY FifthOfLimit DEF HeadroomKept
  <1>6. UnconfiguredUnused /\ RequestsConfigured /\ BansRemembered /\ OrdinaryCounted
    BY <1>1, <1>3 DEF UnconfiguredUnused, RequestsConfigured, BansRemembered, OrdinaryCounted
  <1>7. QED
    BY <1>2, <1>4, <1>5, <1>6 DEF IInv

LEMMA ConfigureIInv ==
    ASSUME IInv, NEW r \in Requests, NEW e \in Endpoints, NEW c \in Costs,
           NEW cancel \in BOOLEAN, Configure(r, e, c, cancel)
    PROVE  IInv'
  <1> DEFINE q == [at |-> "ready", endpoint |-> e, cost |-> c, cancel |-> cancel]
  <1>1. q \in Request /\ Charged(q) \subseteq Keys /\ Venue \in Keys
    BY DEF Request, Charged, Keys
  <1>2. req' = [req EXCEPT ![r] = q] /\ configured' = configured \cup Charged(q)
    BY DEF Configure
  <1>3. window' = [k \in Keys |-> IF k \in Charged(q) \ configured THEN NewWindow(now) ELSE window[k]]
    BY DEF Configure
  <1>4. UNCHANGED <<now, spent, ordinary, banned>>
    BY DEF Configure
  <1> HIDE DEF q
  <1>5. NewWindow(now) \in Window /\ NewWindow(now).used = 0 /\ NewWindow(now).blocked = 0
    BY DEF NewWindow, Window, IInv, TypeOK
  <1>6. TypeOK'
    <2>1. window' \in [Keys -> Window]
      BY <1>3, <1>5 DEF IInv, TypeOK
    <2>2. req' \in [Requests -> Request \cup {Idle}]
      BY <1>1, <1>2 DEF IInv, TypeOK
    <2>3. configured' \subseteq Keys
      BY <1>1, <1>2 DEF IInv, TypeOK
    <2>4. QED
      BY <1>4, <2>1, <2>2, <2>3 DEF IInv, TypeOK
  <1>7. \A k \in Keys : window'[k].used = window[k].used /\ window'[k].blocked = window[k].blocked
    BY <1>3, <1>5 DEF IInv, UnconfiguredUnused, BansRemembered
  <1>8. UsedWithinLimit' /\ BansRemembered' /\ OrdinaryCounted' /\ HeadroomKept'
    BY <1>1, <1>4, <1>7 DEF IInv, UsedWithinLimit, BansRemembered, OrdinaryCounted, HeadroomKept
  <1>9. UnconfiguredUnused'
    BY <1>2, <1>4, <1>7 DEF IInv, UnconfiguredUnused
  <1>10. RequestsConfigured'
    BY <1>2 DEF IInv, RequestsConfigured, TypeOK
  <1>11. QED
    BY <1>6, <1>8, <1>9, <1>10 DEF IInv

\* The windows a TryAcquire leaves.
LEMMA ChargedWindow ==
    ASSUME TypeOK, NEW q \in Request, NEW k \in Charged(q), NEW ok \in BOOLEAN
    PROVE  LET x == Charge(q, k, window[k], ok) IN
           /\ x \in Window
           /\ x.blocked = window[k].blocked
           /\ x.used = Rolled(k, window[k], now).used + IF ok THEN Cost(q, k) ELSE 0
  <1>1. k \in Keys /\ Cost(q, k) \in Nat
    BY Charges
  <1>2. window[k] \in Window /\ now \in Nat
    BY <1>1 DEF TypeOK
  <1>3. Rolled(k, window[k], now) \in Window /\ Rolled(k, window[k], now).blocked = window[k].blocked
    BY <1>1, <1>2, RolledWindow
  <1>4. QED
    BY <1>1, <1>3 DEF Charge, Window

LEMMA TryAcquireIInv ==
    ASSUME IInv, NEW r \in Requests, TryAcquire(r)
    PROVE  IInv'
  <1> DEFINE q == req[r]
             ok == Delay(q, window, now) <= 0
             x(k) == Charge(q, k, window[k], ok)
             roll(k) == Rolled(k, window[k], now)
  <1>1. TypeOK /\ window \in [Keys -> Window] /\ now \in Nat
    BY DEF IInv, TypeOK
  <1>2. q \in Request /\ q # Idle
    BY <1>1, UnderWay DEF TryAcquire
  <1>3. Charged(q) \subseteq configured /\ Charged(q) \subseteq Keys /\ Venue \in Charged(q)
    BY <1>2, Charges DEF IInv, RequestsConfigured, Charged
  <1>4. window' = [k \in Keys |-> IF k \in Charged(q) THEN x(k) ELSE window[k]]
    BY DEF TryAcquire
  <1>5. ordinary' = OrdinaryAfter(q, ok) /\ UNCHANGED <<now, configured, banned>>
    BY DEF TryAcquire
  <1>6. req'[r] = Idle \/ (req'[r] = [q EXCEPT !.at = "sent"])
    BY <1>1 DEF TryAcquire, TypeOK
  <1>6a. req' = [req EXCEPT ![r] = req'[r]]
    BY <1>1 DEF TryAcquire, TypeOK
  <1>7. ok => \A k \in Charged(q) : roll(k).used + Cost(q, k) <= Limit(k) - Headroom(q, k)
    BY <1>1, <1>2, Admitted
  <1>8. \A k \in Charged(q) : /\ x(k) \in Window
                               /\ x(k).blocked = window[k].blocked
                               /\ x(k).used = roll(k).used + IF ok THEN Cost(q, k) ELSE 0
    <2>1. ok \in BOOLEAN
      OBVIOUS
    <2> HIDE DEF q, ok, roll
    <2> TAKE k \in Charged(q)
    <2>2. QED
      BY <1>1, <1>2, <2>1, ChargedWindow DEF roll
  <1>9. \A k \in Charged(q) :
           /\ roll(k).used = IF now >= window[k].start + Interval(k) THEN 0 ELSE window[k].used
           /\ roll(k).used \in Nat
    <2> TAKE k \in Charged(q)
    <2>1. k \in Keys /\ window[k] \in Window
      BY <1>1, <1>3
    <2>2. roll(k) \in Window
      BY <1>1, <2>1, RolledWindow
    <2>3. QED
      BY <1>1, <2>1, <2>2, RolledWindow, ZenonT(30) DEF Window
  <1>10. \A k \in Charged(q) :
            Cost(q, k) \in Nat /\ Headroom(q, k) \in Nat /\ Limit(k) \in Nat /\ window[k].used \in Nat
    <2> TAKE k \in Charged(q)
    <2>1. k \in Keys /\ window[k] \in Window
      BY <1>1, <1>3
    <2>2. window[k].used \in Nat
      BY <2>1 DEF Window
    <2>3. QED
      BY <1>2, <2>1, <2>2, Charges, Quotas
  <1>11. spent' \in [Keys -> [Times -> Nat]]
    <2>1. \A k \in Keys : spent[k] \in [Times -> Nat]
      BY <1>1 DEF TypeOK
    <2>2. \A k \in Charged(q) : Booked(spent[k], now, Cost(q, k)) \in [Times -> Nat]
      BY <1>3, <1>10, <2>1, BookedTypes
    <2>3. CASE UNCHANGED spent
      BY <1>1, <2>3 DEF TypeOK
    <2>4. CASE spent' = [k \in Keys |->
                 IF k \in Charged(q) THEN Booked(spent[k], now, Cost(q, k)) ELSE spent[k]]
      BY <2>1, <2>2, <2>4
    <2>5. QED
      BY <2>3, <2>4 DEF TryAcquire
  <1>12. q.cost \in Nat /\ ordinary \in Nat /\ Cost(q, Venue) = q.cost
    BY <1>1, <1>2, LimitAssumption, Zenon DEF TypeOK, Request, Cost
  <1>13. /\ ordinary' = (IF now >= window[Venue].start + VenueInterval THEN 0 ELSE ordinary)
                           + IF ok /\ ~q.cancel THEN q.cost ELSE 0
         /\ Interval(Venue) = VenueInterval
    BY <1>5 DEF OrdinaryAfter, Interval
  <1>13a. ~q.cancel => Headroom(q, Venue) = VenueLimit \div 5 /\ Limit(Venue) = VenueLimit
    BY DEF Headroom, Reserve, Limit
  <1> HIDE DEF q, ok, x, roll
  <1>14. TypeOK'
    <2>1. window' \in [Keys -> Window]
      BY <1>1, <1>3, <1>4, <1>8
    <2>2. req' \in [Requests -> Request \cup {Idle}]
      <3>1. [q EXCEPT !.at = "sent"] \in Request
        BY <1>2 DEF Request
      <3>2. QED
        BY <1>1, <1>6, <1>6a, <3>1 DEF TypeOK
    <2>3. ordinary' \in Nat
      BY <1>12, <1>13
    <2>4. QED
      BY <1>1, <1>5, <1>11, <2>1, <2>2, <2>3 DEF TypeOK
  <1>15. UsedWithinLimit'
    <2> SUFFICES ASSUME NEW k \in Keys PROVE window'[k].used <= Limit(k)
      BY DEF UsedWithinLimit
    <2>1. window[k].used <= Limit(k)
      BY DEF IInv, UsedWithinLimit
    <2>2. CASE k \in Charged(q)
      BY <1>4, <1>7, <1>8, <1>9, <1>10, <2>1, <2>2
    <2>3. CASE k \notin Charged(q)
      BY <1>4, <2>1, <2>3
    <2>4. QED
      BY <2>2, <2>3
  <1>16. ordinary <= window[Venue].used /\ ordinary <= VenueLimit - VenueLimit \div 5
    BY DEF IInv, OrdinaryCounted, HeadroomKept
  <1>17. window'[Venue].used = roll(Venue).used + IF ok THEN q.cost ELSE 0
    BY <1>3, <1>4, <1>8, <1>12
  <1>18. OrdinaryCounted'
    BY <1>3, <1>9, <1>10, <1>12, <1>13, <1>16, <1>17 DEF OrdinaryCounted
  <1>19. HeadroomKept'
    <2>1. CASE ok /\ ~q.cancel
      <3>1. roll(Venue).used + q.cost <= VenueLimit - VenueLimit \div 5
        BY <1>3, <1>7, <1>12, <1>13a, <2>1
      <3>2. QED
        BY <1>3, <1>9, <1>10, <1>12, <1>13, <1>16, <2>1, <3>1, FifthOfLimit, LimitAssumption DEF HeadroomKept
    <2>2. CASE ~(ok /\ ~q.cancel)
      BY <1>12, <1>13, <1>16, <2>2, FifthOfLimit, LimitAssumption DEF HeadroomKept
    <2>3. QED
      BY <2>1, <2>2
  <1>20. UnconfiguredUnused' /\ BansRemembered'
    BY <1>3, <1>4, <1>5, <1>8 DEF IInv, UnconfiguredUnused, BansRemembered
  <1>21. RequestsConfigured'
    <2>1. Charged([q EXCEPT !.at = "sent"]) = Charged(q)
      BY <1>2 DEF Charged, Request
    <2>2. QED
      BY <1>1, <1>3, <1>5, <1>6, <1>6a, <2>1, Zenon DEF IInv, RequestsConfigured, TypeOK
  <1>22. QED
    BY <1>14, <1>15, <1>18, <1>19, <1>20, <1>21 DEF IInv

\* A block changes nothing else of a window, and records the latest time.
LEMMA BlockKeyIInv ==
    ASSUME IInv, NEW k \in Keys \cap configured, NEW until \in Nat, BlockKey(k, until),
           UNCHANGED <<now, configured, spent, ordinary>>,
           req' \in [Requests -> Request \cup {Idle}],
           \A p \in Requests : req'[p] # Idle => Charged(req'[p]) \subseteq configured
    PROVE  IInv'
  <1>1. window[k] \in Window /\ window[k].blocked = banned[k] /\ banned[k] \in Nat
    BY DEF IInv, TypeOK, BansRemembered
  <1>2. window' = [window EXCEPT ![k] = Block(window[k], until)] /\ window \in [Keys -> Window]
    BY DEF BlockKey, IInv, TypeOK
  <1>3. banned' = [banned EXCEPT ![k] = Max2(banned[k], until)] /\ banned \in [Keys -> Nat]
    BY DEF BlockKey, IInv, TypeOK
  <1>4. /\ Block(window[k], until) \in Window
        /\ Block(window[k], until).used = window[k].used
        /\ Block(window[k], until).blocked = Max2(banned[k], until)
        /\ Max2(banned[k], until) \in Nat
    BY <1>1 DEF Block, Window, Max2
  <1>5. TypeOK'
    BY <1>2, <1>3, <1>4 DEF IInv, TypeOK
  <1>6. \A j \in Keys : window'[j].used = window[j].used /\ window'[j].blocked = banned'[j]
    BY <1>2, <1>3, <1>4 DEF IInv, BansRemembered
  <1>7. \A j \in Keys \ configured : banned'[j] = banned[j]
    BY <1>3
  <1>8. Venue \in Keys
    BY DEF Keys
  <1>9. UsedWithinLimit' /\ HeadroomKept' /\ BansRemembered' /\ OrdinaryCounted'
    BY <1>6, <1>8 DEF IInv, UsedWithinLimit, HeadroomKept, BansRemembered, OrdinaryCounted
  <1>10. UnconfiguredUnused' /\ RequestsConfigured'
    BY <1>6, <1>7 DEF IInv, UnconfiguredUnused, RequestsConfigured
  <1>11. QED
    BY <1>5, <1>9, <1>10 DEF IInv

LEMMA NextIInv == IInv /\ [Next]_vars => IInv'
  <1> SUFFICES ASSUME IInv, [Next]_vars PROVE IInv'
    OBVIOUS
  <1> USE DEF IInv
  <1>0. \A r \in Requests : req[r].at # "idle" =>
            /\ req[r] \in Request
            /\ Charged(req[r]) \subseteq Keys \cap configured
            /\ Charged([req[r] EXCEPT !.at = "cooled"]) = Charged(req[r])
            /\ [req[r] EXCEPT !.at = "cooled"] \in Request
    <2> SUFFICES ASSUME NEW r \in Requests, req[r].at # "idle"
                 PROVE  /\ req[r] \in Request
                        /\ Charged(req[r]) \subseteq Keys \cap configured
                        /\ Charged([req[r] EXCEPT !.at = "cooled"]) = Charged(req[r])
                        /\ [req[r] EXCEPT !.at = "cooled"] \in Request
      OBVIOUS
    <2>1. req[r] \in Request /\ req[r] # Idle
      BY UnderWay
    <2>2. Charged(req[r]) \subseteq Keys \cap configured
      BY <2>1, Charges DEF RequestsConfigured
    <2>3. QED
      BY <2>1, <2>2 DEF Charged, Request
  <1>1. CASE Tick
    <2>1. now' \in 0 .. MaxTime
      BY <1>1, LimitAssumption DEF Tick, TypeOK
    <2>2. QED
      BY <1>1, <2>1 DEF Tick, TypeOK, UsedWithinLimit, HeadroomKept, UnconfiguredUnused,
                        RequestsConfigured, BansRemembered, OrdinaryCounted
  <1>2. ASSUME NEW r \in Requests, NEW e \in Endpoints, NEW c \in Costs, NEW cancel \in BOOLEAN,
               Configure(r, e, c, cancel)
        PROVE  IInv'
    BY <1>2, ConfigureIInv
  <1>3. ASSUME NEW r \in Requests, TryAcquire(r) PROVE IInv'
    BY <1>3, TryAcquireIInv
  <1>4. ASSUME NEW r \in Requests, Return(r) PROVE IInv'
    BY <1>4 DEF Return, TypeOK, UsedWithinLimit, HeadroomKept, UnconfiguredUnused,
                RequestsConfigured, BansRemembered, OrdinaryCounted
  <1>5. ASSUME NEW r \in Requests, NEW until \in now .. now + MaxBan, VenueCooldown(r, until)
        PROVE  IInv'
    <2>1. until \in Nat /\ req[r].at # "idle" /\ Venue \in Charged(req[r])
      BY <1>5, LimitAssumption DEF TypeOK, VenueCooldown, Charged
    <2>2. /\ req' \in [Requests -> Request \cup {Idle}]
          /\ \A p \in Requests : req'[p] # Idle => Charged(req'[p]) \subseteq configured
      BY <1>0, <1>5, <2>1 DEF VenueCooldown, TypeOK, RequestsConfigured
    <2>3. QED
      BY <1>0, <1>5, <2>1, <2>2, BlockKeyIInv DEF VenueCooldown
  <1>6. ASSUME NEW r \in Requests, NEW until \in now .. now + MaxBan, EndpointCooldown(r, until)
        PROVE  IInv'
    <2>1. until \in Nat /\ req[r].at # "idle" /\ req[r].endpoint \in Charged(req[r])
      BY <1>6, LimitAssumption DEF TypeOK, EndpointCooldown, Charged
    <2>2. /\ req' \in [Requests -> Request \cup {Idle}]
          /\ \A p \in Requests : req'[p] # Idle => Charged(req'[p]) \subseteq configured
      BY <1>6 DEF EndpointCooldown, TypeOK, RequestsConfigured
    <2>3. QED
      BY <1>0, <1>6, <2>1, <2>2, BlockKeyIInv, Zenon DEF EndpointCooldown
  <1>7. CASE UNCHANGED vars
    BY <1>7 DEF vars, TypeOK, UsedWithinLimit, HeadroomKept, UnconfiguredUnused,
                RequestsConfigured, BansRemembered, OrdinaryCounted
  <1>8. QED
    BY <1>1, <1>2, <1>3, <1>4, <1>5, <1>6, <1>7 DEF Next

\* The inductive invariant holds in every reachable state.
THEOREM Invariance == Spec => []IInv
  BY InitIInv, NextIInv, PTL DEF Spec

-----------------------------------------------------------------------------
\* The theorems.

\* Every reachable state of the coordinator has its types.
THEOREM TypeCorrect == Spec => []TypeOK
  BY Invariance, PTL DEF IInv

\* Whatever requests race, TryAcquire never charges a window beyond its limit.
THEOREM UsedAlwaysWithinLimit == Spec => []UsedWithinLimit
  BY Invariance, PTL DEF IInv

\* Ordinary requests always leave a fifth of the venue's window to cancels.
THEOREM HeadroomAlwaysKept == Spec => []HeadroomKept
  BY Invariance, PTL DEF IInv

\* TryAcquire admits no request, cancels included, before the end of every
\* wait the venue has asked for on the request's keys.
THEOREM BansAlwaysRespected == Spec => BansRespected
  <1> DEFINE Step == \A r \in Requests : req[r].at = "ready" /\ req'[r].at = "sent" =>
                        \A k \in Charged(req[r]) : banned[k] <= now
  <1>1. IInv /\ [Next]_vars => [Step]_vars
    <2> SUFFICES ASSUME IInv, Next, NEW r \in Requests, req[r].at = "ready", req'[r].at = "sent"
                 PROVE  \A k \in Charged(req[r]) : banned[k] <= now
      OBVIOUS
    <2>1. req \in [Requests -> Request \cup {Idle}] /\ window \in [Keys -> Window] /\ now \in Nat
      BY DEF IInv, TypeOK
    <2>2. req[r] \in Request
      BY UnderWay DEF IInv
    <2>3. TryAcquire(r) /\ req'[r] # Idle
      <3>1. req'[r] # Idle
        BY DEF Idle
      <3>2. req'[r] # req[r]
        OBVIOUS
      <3>4. ~Tick
        BY <3>2 DEF Tick
      <3>5. ASSUME NEW p \in Requests, NEW e \in Endpoints, NEW c \in Costs, NEW x \in BOOLEAN,
                   Configure(p, e, c, x)
            PROVE  FALSE
        BY <2>1, <3>2, <3>5 DEF Configure, Idle
      <3>6. ASSUME NEW p \in Requests, Return(p) PROVE FALSE
        BY <2>1, <3>1, <3>2, <3>6 DEF Return
      <3>7. ASSUME NEW p \in Requests, NEW u \in now .. now + MaxBan,
                   VenueCooldown(p, u) \/ EndpointCooldown(p, u)
            PROVE  FALSE
        BY <2>1, <3>2, <3>7 DEF VenueCooldown, EndpointCooldown
      <3>8. PICK p \in Requests : TryAcquire(p)
        BY <3>4, <3>5, <3>6, <3>7 DEF Next
      <3>9. p = r
        BY <2>1, <3>2, <3>8 DEF TryAcquire
      <3>10. QED
        BY <3>1, <3>8, <3>9
    <2>4. Delay(req[r], window, now) <= 0
      BY <2>1, <2>3 DEF TryAcquire
    <2>5. \A k \in Charged(req[r]) : k \in Keys /\ window[k].blocked <= now
      BY <2>1, <2>2, <2>4, Admitted, Charges
    <2>6. QED
      BY <2>5 DEF IInv, BansRemembered
  <1>2. QED
    BY <1>1, Invariance, PTL DEF Spec, BansRespected

\* A request that TryAcquire refuses has taken nothing from any window.
THEOREM RefusedAlwaysFree == Spec => RefusedIsFree
  <1> DEFINE Step == \A r \in Requests : TryAcquire(r) /\ req'[r] = Idle =>
                        \A k \in Keys : window'[k].used <= window[k].used
  <1>1. IInv /\ [Next]_vars => [Step]_vars
    <2> SUFFICES ASSUME IInv, NEW r \in Requests, TryAcquire(r), req'[r] = Idle, NEW k \in Keys
                 PROVE  window'[k].used <= window[k].used
      OBVIOUS
    <2> DEFINE q == req[r]
               ok == Delay(q, window, now) <= 0
    <2>1. TypeOK /\ req \in [Requests -> Request \cup {Idle}] /\ window[k] \in Window /\ now \in Nat
      BY DEF IInv, TypeOK
    <2>2. q \in Request
      BY UnderWay DEF IInv, TryAcquire
    <2>3. ~ok
      <3>1. [q EXCEPT !.at = "sent"].at = "sent"
        BY <2>2 DEF Request
      <3>2. QED
        BY <2>1, <3>1 DEF TryAcquire, Idle
    <2>4. window'[k] = IF k \in Charged(q) THEN Charge(q, k, window[k], ok) ELSE window[k]
      BY DEF TryAcquire
    <2>5. Rolled(k, window[k], now).used = IF now >= window[k].start + Interval(k) THEN 0 ELSE window[k].used
      BY <2>1, RolledWindow
    <2>6. window[k].used \in Nat
      BY <2>1 DEF Window
    <2>7. ok \in BOOLEAN
      OBVIOUS
    <2> HIDE DEF q, ok
    <2>8. k \in Charged(q) => Charge(q, k, window[k], ok).used = Rolled(k, window[k], now).used + 0
      BY <2>1, <2>2, <2>3, <2>7, ChargedWindow
    <2>9. QED
      BY <2>4, <2>5, <2>6, <2>8
  <1>2. QED
    BY <1>1, Invariance, PTL DEF Spec, RefusedIsFree

\* One key: after the delay it imposes, or later, it admits the request; if
\* it imposes a delay, it refuses the request at every earlier time.
LEMMA KeyDelayExact ==
    ASSUME NEW q \in Request, Valid(q), NEW k \in Charged(q), NEW w \in Window,
           NEW t \in Nat, NEW u \in Nat, t <= u
    PROVE  LET d == KeyDelay(q, k, Rolled(k, w, t), t)
               free == /\ Rolled(k, w, u).used + Cost(q, k) <= Limit(k) - Headroom(q, k)
                       /\ w.blocked <= u
           IN  /\ t + d <= u => free
               /\ u < t + d => ~free
  <1> DEFINE x == Rolled(k, w, t)
             y == Rolled(k, w, u)
             I == Interval(k)
             c == Cost(q, k)
             room == Limit(k) - Headroom(q, k)
  <1>1. k \in Keys /\ c \in Nat \ {0} /\ room \in Int /\ c <= room /\ I \in Nat
    BY Charges, Quotas
  <1>2. w.start \in Nat /\ w.used \in Nat /\ w.blocked \in Nat
    BY DEF Window
  <1>3. /\ x.blocked = w.blocked
        /\ x.used = IF t >= w.start + I THEN 0 ELSE w.used
        /\ x.start = IF t >= w.start + I THEN t ELSE w.start
        /\ t < x.start + I
    BY <1>1, RolledWindow
  <1>4. y.used = IF u >= w.start + I THEN 0 ELSE w.used
    BY <1>1, RolledWindow
  <1>5. KeyDelay(q, k, x, t) = Max2(IF x.used + c > room THEN x.start + I - t ELSE 0, x.blocked - t)
    BY DEF KeyDelay
  <1> HIDE DEF x, y, I, c, room
  <1> DEFINE d == KeyDelay(q, k, x, t)
  <1>6. CASE x.used + c > room
    <2>1. ~(t >= w.start + I) /\ x.used = w.used /\ x.start = w.start
      BY <1>1, <1>3, <1>6
    <2>2. d = Max2(w.start + I - t, w.blocked - t)
      BY <1>3, <1>5, <1>6, <2>1
    <2>3. QED
      BY <1>1, <1>2, <1>4, <1>6, <2>1, <2>2 DEF Max2, x, y, c, room
  <1>7. CASE ~(x.used + c > room)
    <2>1. d = Max2(0, w.blocked - t)
      BY <1>3, <1>5, <1>7
    <2>2. y.used = x.used \/ y.used = 0
      BY <1>1, <1>2, <1>3, <1>4
    <2>3. y.used + c <= room
      BY <1>1, <1>2, <1>3, <1>7, <2>2
    <2>4. QED
      BY <1>1, <1>2, <2>1, <2>3 DEF Max2, x, y, c, room
  <1>8. QED
    BY <1>6, <1>7

\* The RetryAfter that a refused request is given is exact.
THEOREM RetryAfterAlwaysExact == Spec => []RetryAfterIsExact
  <1>1. TypeOK => RetryAfterIsExact
    <2> SUFFICES ASSUME TypeOK, NEW r \in Requests, req[r].at = "ready", Valid(req[r]),
                        Delay(req[r], window, now) > 0
                 PROVE  LET d == Delay(req[r], window, now) IN
                        /\ Delay(req[r], window, now + d) <= 0
                        /\ \A t \in 0 .. d - 1 : Delay(req[r], window, now + t) > 0
      BY DEF RetryAfterIsExact
    <2> DEFINE q == req[r]
               d == Delay(q, window, now)
               kd(k) == KeyDelay(q, k, Rolled(k, window[k], now), now)
               free(k, u) == /\ Rolled(k, window[k], u).used + Cost(q, k) <= Limit(k) - Headroom(q, k)
                             /\ window[k].blocked <= u
    <2>1. q \in Request
      BY UnderWay
    <2>2. now \in Nat /\ window \in [Keys -> Window] /\ \A k \in Charged(q) : window[k] \in Window
      BY <2>1, Charges DEF TypeOK
    <2>3. \A k \in Charged(q) : kd(k) \in Int
      BY <2>1, <2>2, NoKeyDelay
    <2>4. d = Max2(kd(Venue), kd(q.endpoint)) /\ Charged(q) = {Venue, q.endpoint}
      BY DEF Delay, Charged
    <2>5. \A u \in Nat : /\ Delay(q, window, u) \in Int
                          /\ Delay(q, window, u) <= 0 <=> \A k \in Charged(q) : free(k, u)
      BY <2>1, <2>2, Admitted
    <2>6. \A k \in Charged(q), u \in Nat : now <= u =>
             (now + kd(k) <= u => free(k, u)) /\ (u < now + kd(k) => ~free(k, u))
      BY <2>1, <2>2, KeyDelayExact
    <2>7. d \in Nat /\ d > 0
      <3>1. d \in Int
        BY <2>1, <2>2, Admitted
      <3>2. d > 0
        OBVIOUS
      <3> HIDE DEF d
      <3>3. QED
        BY <3>1, <3>2
    <2> HIDE DEF q, d, kd, free
    <2>8. (\A k \in Charged(q) : kd(k) <= d) /\ (\E k \in Charged(q) : kd(k) = d)
      BY <2>3, <2>4 DEF Max2
    <2>9. Delay(q, window, now + d) <= 0
      BY <2>2, <2>3, <2>5, <2>6, <2>7, <2>8
    <2>10. ASSUME NEW t \in 0 .. d - 1 PROVE Delay(q, window, now + t) > 0
      <3>1. PICK k \in Charged(q) : kd(k) = d
        BY <2>8
      <3>2. now + t \in Nat /\ now <= now + t /\ now + t < now + d
        BY <2>2, <2>7, <2>10
      <3>3. ~free(k, now + t)
        BY <2>6, <3>1, <3>2
      <3> DEFINE u == now + t
                 e == Delay(q, window, u)
      <3>4. e \in Int /\ (e <= 0 <=> \A j \in Charged(q) : free(j, u))
        <4>1. u \in Nat
          BY <3>2
        <4> HIDE DEF u
        <4>2. QED
          BY <2>1, <2>2, <4>1, Admitted DEF free
      <3>5. ~free(k, u)
        BY <3>3
      <3> HIDE DEF u, e
      <3>6. e > 0
        BY <3>1, <3>4, <3>5
      <3>7. QED
        BY <3>6 DEF e, u
    <2>11. QED
      BY <2>9, <2>10 DEF q, d
  <1>2. QED
    BY <1>1, TypeCorrect, PTL

-----------------------------------------------------------------------------
\* What an interval of time can see.

\* The units f admitted before each time, against the window of key k that started
\* at s and has used n, at time t: they only grow; none was admitted in the
\* future or after the window's end; those since its start are the ones it
\* counts; and an interval that began before the window sees at most one limit
\* before it, since it began within the previous window.
Ledger(k, f, s, n, t) ==
    /\ f \in [Times -> Nat] /\ s \in 0 .. t /\ n \in 0 .. Limit(k)
    /\ \A u, v \in Times : u <= v => f[u] <= f[v]
    /\ \A u \in Times : u > t \/ u >= s + Interval(k) => f[u] = f[MaxTime + 1]
    /\ f[MaxTime + 1] = f[s] + n
    /\ \A u \in Times : u <= s /\ s < u + Interval(k) => f[s] <= f[u] + Limit(k)
    /\ \A u \in 0 .. MaxTime : UnitsIn(f, u, Interval(k)) <= 2 * Limit(k)

\* The clock goes on.
LEMMA TickLedger ==
    ASSUME NEW k \in Keys, NEW f, NEW s, NEW n, NEW t \in 0 .. MaxTime, Ledger(k, f, s, n, t)
    PROVE  Ledger(k, f, s, n, t + 1)
  <1>1. s \in 0 .. t + 1
    BY LimitAssumption DEF Ledger
  <1>2. \A u \in Times : u > t + 1 => u > t
    BY LimitAssumption DEF Times
  <1>3. QED
    BY <1>1, <1>2 DEF Ledger

\* A window that starts over: the units of its predecessor all lie before it, and
\* an interval that reaches into it began after its predecessor did.
LEMMA RollLedger ==
    ASSUME NEW k \in Keys, NEW f, NEW s, NEW n, NEW t \in 0 .. MaxTime, Ledger(k, f, s, n, t),
           t >= s + Interval(k)
    PROVE  Ledger(k, f, t, 0, t)
  <1>1. Limit(k) \in Nat /\ Interval(k) \in Nat \ {0} /\ MaxTime \in Nat
    BY Quotas, LimitAssumption
  <1>2. f \in [Times -> Nat] /\ s \in 0 .. t /\ n \in 0 .. Limit(k) /\ s \in Times /\ t \in Times
    BY <1>1 DEF Ledger, Times
  <1>3. f[t] = f[MaxTime + 1] /\ f[MaxTime + 1] = f[s] + n
    BY <1>2 DEF Ledger
  <1>4. ASSUME NEW u \in Times, u > t \/ u >= t + Interval(k) PROVE f[u] = f[MaxTime + 1]
    BY <1>1, <1>2, <1>4 DEF Ledger, Times
  <1>5. ASSUME NEW u \in Times, u <= t, t < u + Interval(k) PROVE f[t] <= f[u] + Limit(k)
    <2>1. s <= u
      BY <1>1, <1>2, <1>5 DEF Times
    <2>2. f[s] <= f[u] /\ f[s] \in Nat /\ f[u] \in Nat
      BY <1>2, <2>1 DEF Ledger
    <2>3. QED
      BY <1>1, <1>2, <1>3, <2>2
  <1>6. f[MaxTime + 1] \in Nat
    BY <1>1, <1>2 DEF Times
  <1>7. QED
    BY <1>1, <1>2, <1>3, <1>4, <1>5, <1>6 DEF Ledger

\* A request is admitted within the window.  An interval that sees it and began
\* with the window or later sees units of this window only; one that began before
\* sees one limit more.
LEMMA BookLedger ==
    ASSUME NEW k \in Keys, NEW f, NEW s, NEW n, NEW t \in 0 .. MaxTime, Ledger(k, f, s, n, t),
           t < s + Interval(k), NEW c \in Nat, n + c <= Limit(k)
    PROVE  Ledger(k, Booked(f, t, c), s, n + c, t)
  <1> DEFINE g == Booked(f, t, c)
             e == MaxTime + 1
  <1>1. Limit(k) \in Nat /\ Interval(k) \in Nat \ {0} /\ MaxTime \in Nat
    BY Quotas, LimitAssumption
  <1>2. /\ f \in [Times -> Nat] /\ s \in 0 .. t /\ n \in 0 .. Limit(k) /\ s \in Times /\ t \in Times
        /\ e \in Times /\ t < e /\ s <= t
    BY <1>1 DEF Ledger, Times
  <1>3. g \in [Times -> Nat]
    BY <1>2, BookedTypes
  <1>4. \A u \in Times : u \in Nat /\ f[u] \in Nat /\ g[u] = f[u] + IF t < u THEN c ELSE 0
    BY <1>1, <1>2 DEF Booked, Times
  <1> HIDE DEF g, e
  <1>5. n + c \in 0 .. Limit(k)
    BY <1>1, <1>2
  <1>6. ASSUME NEW u \in Times, NEW v \in Times, u <= v PROVE g[u] <= g[v]
    <2>1. f[u] <= f[v]
      BY <1>6 DEF Ledger
    <2>2. QED
      BY <1>2, <1>4, <1>6, <2>1
  <1>7. ASSUME NEW u \in Times, u > t \/ u >= s + Interval(k) PROVE g[u] = g[e]
    <2>1. f[u] = f[e]
      BY <1>7 DEF Ledger, e
    <2>2. t < u
      BY <1>1, <1>2, <1>4, <1>7
    <2>3. QED
      BY <1>2, <1>4, <2>1, <2>2
  <1>8. g[e] = g[s] + (n + c) /\ g[s] = f[s]
    <2>1. f[e] = f[s] + n /\ ~(t < s)
      BY <1>2 DEF Ledger, e
    <2>2. QED
      BY <1>1, <1>2, <1>4, <2>1
  <1>9. ASSUME NEW u \in Times, u <= s, s < u + Interval(k) PROVE g[s] <= g[u] + Limit(k)
    <2>1. f[s] <= f[u] + Limit(k)
      BY <1>9 DEF Ledger
    <2>2. g[u] = f[u]
      BY <1>2, <1>4, <1>9
    <2>3. QED
      BY <1>8, <2>1, <2>2
  <1>10. ASSUME NEW u \in 0 .. MaxTime PROVE UnitsIn(g, u, Interval(k)) <= 2 * Limit(k)
    <2> DEFINE end == IF u + Interval(k) <= MaxTime THEN u + Interval(k) ELSE MaxTime + 1
    <2>1. u \in Times /\ end \in Times /\ u <= end /\ end <= u + Interval(k)
      BY <1>1 DEF Times
    <2>2. UnitsIn(g, u, Interval(k)) = g[end] - g[u] /\ UnitsIn(f, u, Interval(k)) = f[end] - f[u]
      BY DEF UnitsIn
    <2>3. f[end] - f[u] <= 2 * Limit(k)
      BY <2>2 DEF Ledger
    <2> HIDE DEF end
    <2>4. CASE t < u \/ end <= t
      <3>1. g[end] - g[u] = f[end] - f[u]
        BY <1>2, <1>4, <2>1, <2>4
      <3>2. QED
        BY <2>2, <2>3, <3>1
    <2>5. CASE u <= t /\ t < end
      <3>1. g[end] = g[e]
        BY <1>7, <2>1, <2>5
      <3>2. g[u] = f[u]
        BY <1>2, <1>4, <2>1, <2>5
      <3>3. f[s] <= f[u] + Limit(k)
        <4>1. CASE s <= u
          <5>1. f[s] <= f[u]
            BY <1>2, <2>1, <4>1 DEF Ledger
          <5>2. QED
            BY <1>1, <1>2, <1>4, <2>1, <5>1
        <4>2. CASE ~(s <= u)
          <5>1. u <= s /\ s < u + Interval(k)
            BY <1>1, <1>2, <1>4, <2>1, <2>5, <4>2
          <5>2. QED
            BY <2>1, <5>1 DEF Ledger
        <4>3. QED
          BY <4>1, <4>2
      <3>4. g[e] - g[u] <= 2 * Limit(k)
        BY <1>1, <1>2, <1>4, <1>5, <1>8, <2>1, <3>2, <3>3
      <3>5. QED
        BY <2>2, <3>1, <3>4
    <2>6. QED
      BY <1>4, <2>1, <2>4, <2>5
  <1>11. QED
    BY <1>2, <1>3, <1>5, <1>6, <1>7, <1>8, <1>9, <1>10 DEF Ledger, g, e

\* Every window has its ledger; a key without a window has admitted nothing.
LedgerInv ==
    \A k \in Keys :
        /\ Ledger(k, spent[k], window[k].start, window[k].used, now)
        /\ k \notin configured => spent[k][MaxTime + 1] = 0

\* A ledger without units serves any window.
LEMMA EmptyLedger ==
    ASSUME NEW k \in Keys, NEW f \in [Times -> Nat], NEW t \in 0 .. MaxTime,
           \A u \in Times : f[u] = 0
    PROVE  Ledger(k, f, t, 0, t)
  <1>1. Limit(k) \in Nat /\ Interval(k) \in Nat \ {0} /\ MaxTime \in Nat
    BY Quotas, LimitAssumption
  <1>2. t \in Times /\ MaxTime + 1 \in Times
    BY <1>1 DEF Times
  <1>3. ASSUME NEW u \in 0 .. MaxTime PROVE UnitsIn(f, u, Interval(k)) = 0
    <2> DEFINE end == IF u + Interval(k) <= MaxTime THEN u + Interval(k) ELSE MaxTime + 1
    <2>1. u \in Times /\ end \in Times
      BY <1>1 DEF Times
    <2>2. UnitsIn(f, u, Interval(k)) = f[end] - f[u]
      BY DEF UnitsIn
    <2> HIDE DEF end
    <2>3. f[end] = 0 /\ f[u] = 0
      BY <2>1
    <2>4. QED
      BY <2>2, <2>3
  <1>4. QED
    BY <1>1, <1>2, <1>3 DEF Ledger

LEMMA TryAcquireLedger ==
    ASSUME IInv, LedgerInv, NEW r \in Requests, TryAcquire(r)
    PROVE  LedgerInv'
  <1> DEFINE q == req[r]
             ok == Delay(q, window, now) <= 0
             w(k) == Rolled(k, window[k], now)
             c(k) == IF ok THEN Cost(q, k) ELSE 0
  <1>1. TypeOK /\ window \in [Keys -> Window] /\ now \in 0 .. MaxTime /\ now \in Nat
        /\ spent \in [Keys -> [Times -> Nat]]
    BY DEF IInv, TypeOK
  <1>2. q \in Request /\ Charged(q) \subseteq Keys /\ Charged(q) \subseteq configured
    BY <1>1, UnderWay, Charges DEF TryAcquire, IInv, RequestsConfigured
  <1>3. UNCHANGED <<now, configured>>
    BY DEF TryAcquire
  <1>4. ASSUME NEW k \in Keys \ Charged(q) PROVE spent'[k] = spent[k] /\ window'[k] = window[k]
    BY <1>1 DEF TryAcquire
  <1>5. ASSUME NEW k \in Charged(q)
        PROVE  Ledger(k, spent'[k], window'[k].start, window'[k].used, now)
    <2>1. k \in Keys /\ window[k] \in Window /\ Cost(q, k) \in Nat \ {0} /\ Headroom(q, k) \in Nat
          /\ Limit(k) \in Nat /\ Interval(k) \in Nat \ {0}
      BY <1>1, <1>2, Charges, Quotas
    <2>2. /\ w(k) \in Window /\ now < w(k).start + Interval(k)
          /\ w(k).used = IF now >= window[k].start + Interval(k) THEN 0 ELSE window[k].used
          /\ w(k).start = IF now >= window[k].start + Interval(k) THEN now ELSE window[k].start
      BY <1>1, <2>1, RolledWindow
    <2>3. Ledger(k, spent[k], w(k).start, w(k).used, now)
      <3>1. Ledger(k, spent[k], window[k].start, window[k].used, now)
        BY <2>1 DEF LedgerInv
      <3>2. CASE now >= window[k].start + Interval(k)
        BY <1>1, <2>1, <2>2, <3>1, <3>2, RollLedger
      <3>3. CASE ~(now >= window[k].start + Interval(k))
        BY <2>2, <3>1, <3>3
      <3>4. QED
        BY <3>2, <3>3
    <2>4. window'[k] = [w(k) EXCEPT !.used = @ + c(k)]
      BY <2>1 DEF TryAcquire, Charge
    <2>5. window'[k].start = w(k).start /\ window'[k].used = w(k).used + c(k) /\ c(k) \in Nat
      BY <2>1, <2>2, <2>4 DEF Window
    <2>6. CASE ok
      <3>1. spent'[k] = Booked(spent[k], now, Cost(q, k)) /\ c(k) = Cost(q, k)
        BY <2>1, <2>6 DEF TryAcquire
      <3>2. w(k).used + Cost(q, k) <= Limit(k)
        <4>1. w(k).used + Cost(q, k) <= Limit(k) - Headroom(q, k)
          BY <1>1, <1>2, <2>6, Admitted
        <4>2. w(k).used \in Nat
          BY <2>2 DEF Window
        <4>3. QED
          BY <2>1, <4>1, <4>2
      <3> HIDE DEF q, ok, w, c
      <3>3. QED
        BY <1>1, <2>1, <2>2, <2>3, <2>5, <3>1, <3>2, BookLedger
    <2>7. CASE ~ok
      <3>1. spent' = spent /\ c(k) = 0 /\ w(k).used \in Nat
        BY <2>2, <2>7 DEF TryAcquire, Window
      <3> HIDE DEF q, ok, w, c
      <3>2. QED
        BY <2>3, <2>5, <3>1
    <2>8. QED
      BY <2>6, <2>7
  <1> HIDE DEF q
  <1>6. QED
    BY <1>2, <1>3, <1>4, <1>5 DEF LedgerInv

LEMMA StepLedger ==
    ASSUME IInv, LedgerInv, [Next]_vars
    PROVE  LedgerInv'
  <1>1. TypeOK /\ window \in [Keys -> Window] /\ now \in 0 .. MaxTime /\ spent \in [Keys -> [Times -> Nat]]
    BY DEF IInv, TypeOK
  <1>2. CASE Tick
    BY <1>1, <1>2, TickLedger DEF Tick, LedgerInv
  <1>3. ASSUME NEW r \in Requests, NEW e \in Endpoints, NEW c \in Costs, NEW cancel \in BOOLEAN,
               Configure(r, e, c, cancel)
        PROVE  LedgerInv'
    <2>1. UNCHANGED <<now, spent>> /\ configured \subseteq configured'
      BY <1>3 DEF Configure
    <2>2. ASSUME NEW k \in Keys PROVE Ledger(k, spent[k], window'[k].start, window'[k].used, now)
      <3>1. CASE window'[k] = window[k]
        BY <3>1 DEF LedgerInv
      <3>2. CASE window'[k] = NewWindow(now) /\ k \notin configured
        <4>1. window'[k].start = now /\ window'[k].used = 0
          BY <3>2 DEF NewWindow
        <4>2. ASSUME NEW u \in Times PROVE spent[k][u] = 0
          <5>1. u <= MaxTime + 1 /\ MaxTime + 1 \in Times
            BY LimitAssumption DEF Times
          <5>2. spent[k][u] <= spent[k][MaxTime + 1] /\ spent[k][u] \in Nat /\ spent[k][MaxTime + 1] = 0
            BY <3>2, <5>1 DEF LedgerInv, Ledger
          <5>3. QED
            BY <5>2
        <4>3. spent[k] \in [Times -> Nat]
          BY <1>1
        <4>4. QED
          BY <1>1, <4>1, <4>2, <4>3, EmptyLedger
      <3>3. window'[k] = window[k] \/ (window'[k] = NewWindow(now) /\ k \notin configured)
        BY <1>3 DEF Configure
      <3>4. QED
        BY <3>1, <3>2, <3>3
    <2>3. QED
      BY <2>1, <2>2 DEF LedgerInv
  <1>4. ASSUME NEW k \in Keys, NEW until, BlockKey(k, until), UNCHANGED <<now, configured, spent>>
        PROVE  LedgerInv'
    <2>1. \A j \in Keys : window'[j].start = window[j].start /\ window'[j].used = window[j].used
      BY <1>1, <1>4 DEF BlockKey, Block, Window
    <2>2. QED
      BY <1>4, <2>1 DEF LedgerInv
  <1>5. ASSUME NEW r \in Requests, NEW until, VenueCooldown(r, until) \/ EndpointCooldown(r, until)
        PROVE  LedgerInv'
    <2>1. req[r] \in Request
      BY <1>1, <1>5, UnderWay DEF VenueCooldown, EndpointCooldown
    <2>2. Venue \in Keys /\ req[r].endpoint \in Keys
      BY <2>1 DEF Keys, Request
    <2>3. QED
      BY <1>4, <1>5, <2>2 DEF VenueCooldown, EndpointCooldown
  <1>6. CASE UNCHANGED <<now, configured, spent, window>>
    BY <1>6 DEF LedgerInv
  <1>7. QED
    BY <1>2, <1>3, <1>5, <1>6, TryAcquireLedger DEF Next, Return, vars

\* Fixed windows are not sliding ones: however requests race and whenever windows
\* start, no interval of a window's length sees more than twice the limit.
THEOREM AlwaysAtMostTwiceTheLimit == Spec => []AtMostTwiceTheLimit
  <1>1. ASSUME Init PROVE LedgerInv
    <2>1. 0 \in 0 .. MaxTime /\ MaxTime + 1 \in Times
      BY LimitAssumption DEF Times
    <2>2. ASSUME NEW k \in Keys
          PROVE  Ledger(k, spent[k], window[k].start, window[k].used, now) /\ spent[k][MaxTime + 1] = 0
      <3>1. /\ spent[k] \in [Times -> Nat] /\ \A u \in Times : spent[k][u] = 0
            /\ window[k].start = 0 /\ window[k].used = 0 /\ now = 0
        BY <1>1 DEF Init, NewWindow
      <3>2. QED
        BY <2>1, <3>1, EmptyLedger
    <2>3. QED
      BY <2>2 DEF LedgerInv
  <1>2. IInv /\ LedgerInv /\ [Next]_vars => LedgerInv'
    BY StepLedger
  <1>3. LedgerInv => AtMostTwiceTheLimit
    BY DEF LedgerInv, Ledger, AtMostTwiceTheLimit
  <1>4. QED
    BY <1>1, <1>2, <1>3, Invariance, PTL DEF Spec
============================================================================
