----------------------------- MODULE RateLimit -----------------------------
(***************************************************************************)
(* gateway/ratelimit: the budget shared by every HTTP request to one venue. *)
(*                                                                          *)
(* Transport.RoundTrip charges each request to two fixed windows of the     *)
(* Coordinator, the venue's and the endpoint's, and sends it only if both   *)
(* admit it.  A 429 or 418 answer blocks the venue key, a Bybit quota       *)
(* header blocks the endpoint key.  coordinator.mu makes Configure,         *)
(* TryAcquire and Block each one step.                                      *)
(***************************************************************************)
EXTENDS Integers

CONSTANTS
    Venue,             \* the venue's key
    Endpoints,         \* the endpoint keys
    VenueLimit,        \* localUnitsPerMinute of the venue
    VenueInterval,     \* a minute
    EndpointLimit,     \* requests of one endpoint per interval
    EndpointInterval,  \* a second
    Costs,             \* the costs of requests
    Requests,          \* concurrent requests
    MaxTime,           \* bound: the clock
    MaxBan             \* bound: the longest block a venue asks for

ASSUME LimitAssumption ==
    /\ VenueLimit \in Nat \ {0} /\ VenueInterval \in Nat \ {0}
    /\ EndpointLimit \in Nat \ {0} /\ EndpointInterval \in Nat \ {0}
    /\ Costs \subseteq Nat \ {0}
    /\ MaxTime \in Nat /\ MaxBan \in Nat
    /\ Venue \notin Endpoints

VARIABLES
    now,         \* the coordinator's clock
    configured,  \* the keys that have a window
    window,      \* the windows
    req,         \* the requests
    spent,       \* per key and time, the units admitted before that time
    ordinary,    \* the venue units admitted in its window without being a cancel
    banned       \* per key, the latest time a venue has asked us to wait for

vars == <<now, configured, window, req, spent, ordinary, banned>>

Keys == Endpoints \cup {Venue}
Limit(k) == IF k = Venue THEN VenueLimit ELSE EndpointLimit
Interval(k) == IF k = Venue THEN VenueInterval ELSE EndpointInterval

\* The clock, and a time after it.
Times == 0 .. MaxTime + 1

Window == [start : Nat, used : Nat, blocked : Nat]
NewWindow(t) == [start |-> t, used |-> 0, blocked |-> 0]

Idle == [at |-> "idle"]
Request == [at : {"ready", "sent", "cooled"}, endpoint : Endpoints, cost : Costs, cancel : BOOLEAN]

Init ==
    /\ now = 0
    /\ configured = {}
    /\ window = [k \in Keys |-> NewWindow(0)]
    /\ req = [r \in Requests |-> Idle]
    /\ spent = [k \in Keys |-> [t \in Times |-> 0]]
    /\ ordinary = 0
    /\ banned = [k \in Keys |-> 0]

Tick ==
    /\ now < MaxTime
    /\ now' = now + 1
    /\ UNCHANGED <<configured, window, req, spent, ordinary, banned>>

-----------------------------------------------------------------------------
\* What RoundTrip charges: the venue's budget by cost, keeping a fifth of it
\* for cancels, and the endpoint's by one.

\* Faulty variant: no headroom is kept.
ReserveNone(q) == 0

Reserve(q) == IF q.cancel THEN 0 ELSE VenueLimit \div 5

Cost(q, k) == IF k = Venue THEN q.cost ELSE 1
Headroom(q, k) == IF k = Venue THEN Reserve(q) ELSE 0
Charged(q) == {Venue, q.endpoint}

\* RoundTrip up to TryAcquire: Configure keeps an existing window.
Configure(r, e, c, cancel) ==
    LET q == [at |-> "ready", endpoint |-> e, cost |-> c, cancel |-> cancel] IN
    /\ req[r] = Idle
    /\ req' = [req EXCEPT ![r] = q]
    /\ configured' = configured \cup Charged(q)
    /\ window' = [k \in Keys |->
                    IF k \in Charged(q) \ configured THEN NewWindow(now) ELSE window[k]]
    /\ UNCHANGED <<now, spent, ordinary, banned>>

-----------------------------------------------------------------------------
\* TryAcquire.

\* Faulty variant: the count starts over, the window does not.
RolledKeepsStart(k, w, t) ==
    IF t >= w.start + Interval(k) THEN [w EXCEPT !.used = 0] ELSE w

\* The window of key k as TryAcquire finds it at time t.
Rolled(k, w, t) ==
    IF t >= w.start + Interval(k) THEN [w EXCEPT !.start = t, !.used = 0] ELSE w

Max2(a, b) == IF a >= b THEN a ELSE b

\* Faulty variant: the delay is a whole interval, not what is left of it.
KeyDelayWhole(q, k, w, t) ==
    Max2(IF w.used + Cost(q, k) > Limit(k) - Headroom(q, k) THEN Interval(k) ELSE 0,
         w.blocked - t)

\* The delay a key imposes on a request, its window being w.
KeyDelay(q, k, w, t) ==
    Max2(IF w.used + Cost(q, k) > Limit(k) - Headroom(q, k)
         THEN w.start + Interval(k) - t
         ELSE 0,
         w.blocked - t)

\* The delay TryAcquire computes for request q at time t.
Delay(q, wins, t) ==
    Max2(KeyDelay(q, Venue, Rolled(Venue, wins[Venue], t), t),
         KeyDelay(q, q.endpoint, Rolled(q.endpoint, wins[q.endpoint], t), t))

\* TryAcquire does not return ErrInvalidBudget.
Valid(q) == q.cost <= VenueLimit - Reserve(q)

\* Faulty variant: the charges are applied key by key until one refuses.
ChargeVenueAnyway(q, k, w, ok) ==
    [Rolled(k, w, now) EXCEPT !.used = @ + IF ok \/ k = Venue THEN Cost(q, k) ELSE 0]

\* The window of key k after TryAcquire; `ok`: the request is admitted.
Charge(q, k, w, ok) ==
    [Rolled(k, w, now) EXCEPT !.used = @ + IF ok THEN Cost(q, k) ELSE 0]

\* Units admitted in the venue's window that were not for cancels.
OrdinaryAfter(q, ok) ==
    (IF now >= window[Venue].start + VenueInterval THEN 0 ELSE ordinary)
        + IF ok /\ ~q.cancel THEN q.cost ELSE 0

\* The units `f` admitted before each time, once c more are admitted at time t.
Booked(f, t, c) == [u \in Times |-> f[u] + IF t < u THEN c ELSE 0]

TryAcquire(r) ==
    LET q == req[r]
        ok == Delay(q, window, now) <= 0
    IN
    /\ q.at = "ready"
    /\ Valid(q)
    /\ window' = [k \in Keys |->
                    IF k \in Charged(q) THEN Charge(q, k, window[k], ok) ELSE window[k]]
    /\ ordinary' = OrdinaryAfter(q, ok)
    /\ \/ /\ ok
          /\ req' = [req EXCEPT ![r] = [@ EXCEPT !.at = "sent"]]
          /\ spent' = [k \in Keys |->
                         IF k \in Charged(q) THEN Booked(spent[k], now, Cost(q, k)) ELSE spent[k]]
       \/ /\ ~ok   \* LocalRateLimitError
          /\ req' = [req EXCEPT ![r] = Idle]
          /\ UNCHANGED spent
    /\ UNCHANGED <<now, configured, banned>>

\* RoundTrip returns: ErrInvalidBudget, the caller's context has ended, or
\* the answer asks for nothing more.
Return(r) ==
    /\ req[r] # Idle
    /\ req' = [req EXCEPT ![r] = Idle]
    /\ UNCHANGED <<now, configured, window, spent, ordinary, banned>>

-----------------------------------------------------------------------------
\* The venue answers a request that was sent.

\* Faulty variant: the last answer wins.
BlockOverwrites(w, until) == [w EXCEPT !.blocked = until]

\* Block never shortens a block.
Block(w, until) == IF until > w.blocked THEN [w EXCEPT !.blocked = until] ELSE w

BlockKey(k, until) ==
    /\ window' = [window EXCEPT ![k] = Block(@, until)]
    /\ banned' = [banned EXCEPT ![k] = Max2(@, until)]

\* 429 or 418: the venue is blocked, for a second if no Retry-After is given.
VenueCooldown(r, until) ==
    /\ req[r].at = "sent"
    /\ until > now
    /\ BlockKey(Venue, until)
    /\ req' = [req EXCEPT ![r] = [@ EXCEPT !.at = "cooled"]]
    /\ UNCHANGED <<now, configured, spent, ordinary>>

\* X-Bapi-Limit-Status 0: the endpoint is blocked until the time Bybit gives.
EndpointCooldown(r, until) ==
    /\ req[r].at \in {"sent", "cooled"}
    /\ BlockKey(req[r].endpoint, until)
    /\ req' = [req EXCEPT ![r] = Idle]
    /\ UNCHANGED <<now, configured, spent, ordinary>>

-----------------------------------------------------------------------------
Next ==
    \/ Tick
    \/ \E r \in Requests :
          \/ \E e \in Endpoints, c \in Costs, cancel \in BOOLEAN : Configure(r, e, c, cancel)
          \/ TryAcquire(r)
          \/ Return(r)
          \/ \E until \in now .. now + MaxBan :
                VenueCooldown(r, until) \/ EndpointCooldown(r, until)

Spec == Init /\ [][Next]_vars

-----------------------------------------------------------------------------
\* Properties.

\* Every variable has its type.
TypeOK ==
    /\ now \in 0 .. MaxTime
    /\ configured \subseteq Keys
    /\ window \in [Keys -> Window]
    /\ req \in [Requests -> Request \cup {Idle}]
    /\ spent \in [Keys -> [Times -> Nat]]
    /\ ordinary \in Nat
    /\ banned \in [Keys -> Nat]

\* No window is ever charged beyond its limit, whatever requests race.
UsedWithinLimit == \A k \in Keys : window[k].used <= Limit(k)

\* "Keep a fifth of the shared allowance available for cancellation": what
\* ordinary requests take of a venue window leaves that fifth.
HeadroomKept == ordinary <= VenueLimit - VenueLimit \div 5

\* A request that is refused consumes nothing, on either key: TryAcquire
\* "reserves weighted capacity atomically with the other dimensions".
RefusedIsFree ==
    [][\A r \in Requests : TryAcquire(r) /\ req'[r] = Idle =>
          \A k \in Keys : window'[k].used <= window[k].used]_vars

\* "priority never bypasses an IP ban": a request is admitted only when every
\* wait the venue ever asked for on its keys is over, cancels included.
BansRespected ==
    [][\A r \in Requests : req[r].at = "ready" /\ req'[r].at = "sent" =>
          \A k \in Charged(req[r]) : banned[k] <= now]_vars

\* The RetryAfter of a LocalRateLimitError is exact: if nothing else is
\* admitted meanwhile the request is admitted after that delay, and not
\* before.
RetryAfterIsExact ==
    \A r \in Requests : req[r].at = "ready" /\ Valid(req[r]) =>
        LET d == Delay(req[r], window, now) IN
        d > 0 => /\ Delay(req[r], window, now + d) <= 0
                 /\ \A t \in 0 .. d - 1 : Delay(req[r], window, now + t) > 0

\* Of the units `f` admitted before each time, those of the interval of
\* length n that starts at time t.
UnitsIn(f, t, n) == f[IF t + n <= MaxTime THEN t + n ELSE MaxTime + 1] - f[t]

\* Windows are fixed and not sliding: an interval that straddles two of them
\* can see more than the limit, and never more than twice the limit.
AtMostTwiceTheLimit ==
    \A k \in Keys, t \in 0 .. MaxTime : UnitsIn(spent[k], t, Interval(k)) <= 2 * Limit(k)
=============================================================================
