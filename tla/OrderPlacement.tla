--------------------------- MODULE OrderPlacement ---------------------------
(***************************************************************************)
(* One order from the submit button to the venue and back: the browser     *)
(* (web/src/features/submit.ts), the gateway's order handlers              *)
(* (gateway/api, gateway/account/orders.go), the adapter of one venue      *)
(* (VenueOrders) and the venue itself.  The gateway stores nothing and     *)
(* never retries; the browser resolves an outcome it did not learn by      *)
(* looking the client order id up.  Afterwards the order may be cancelled. *)
(***************************************************************************)
EXTENDS VenueOrders

CONSTANT MaxLookups    \* lookups of resolveUnknown (3)

ASSUME OrderAssumption == MaxLookups \in Nat

VARIABLES
    venue, type,   \* of the order: chosen once
    order,         \* at the venue: "none", "active", "closed"
    wire,          \* the place command: "idle", "travelling", "executed", "dropped"
    handler,       \* placeOrder: "idle", "entered", "calling", "done"
    told,          \* its answer to the browser, "" before it
    soft,          \* (history) ... which rests on a code that is not definitive
    browser,       \* submitOrder, its outcome in the end
    tries,         \* lookups left
    look,          \* LookupExactOrder: list read next, 0 when idle
    existed,       \* (history) the order was at the venue when the lookup began
    early,         \* (history) the list said "missing" before the command had ended
    cancel,        \* cancelOrder: "none", "calling", "ok", "failed"
    cwire          \* the cancel command, as wire

vars == <<venue, type, order, wire, handler, told, soft, browser, tries, look,
          existed, early, cancel, cwire>>
placing == <<venue, type, order, wire, handler, told, soft>>
resolving == <<browser, tries, look, existed, early>>
cancelling == <<cancel, cwire>>

Init ==
    /\ venue \in Venues /\ type \in Types
    /\ order = "none" /\ wire = "idle" /\ handler = "idle" /\ told = "" /\ soft = FALSE
    /\ browser = "idle" /\ tries = MaxLookups /\ look = 0
    /\ existed = FALSE /\ early = FALSE
    /\ cancel = "none" /\ cwire = "idle"

\* What may have become of a command that got answer a.  The SDKs keep lists of the
\* codes that prove it was not executed; of any other code they say it may have been.
MayExecute(a) ==
    CASE a.st = 200 /\ a.body \in Placed -> {TRUE}
      [] \/ a.body = "local"
         \/ a.st = 200 /\ a.body \in Codes \ {"temp"}
         \/ a.st \in {400, 404} /\ a.body # "temp"
         \/ a.st = 401 -> {FALSE}
      [] OTHER -> BOOLEAN

\* The command may still take effect.
InFlight == browser # "idle" /\ (handler # "done" \/ wire = "travelling")

----------------------------------------------------------------------------
(* The browser submits, the gateway calls the venue.                       *)

submitOrder ==
    /\ browser = "idle"
    /\ browser' = "waiting"
    /\ UNCHANGED <<placing, tries, look, existed, early, cancelling>>

\* Decoding, routing and validation may refuse with a 4xx before the venue.
placeOrder ==
    /\ browser # "idle" /\ handler = "idle"
    /\ \/ handler' = "entered" /\ UNCHANGED told
       \/ handler' = "done" /\ told' = "invalid"
    /\ UNCHANGED <<venue, type, order, wire, soft, resolving, cancelling>>

\* A preliminary read fails: nothing was sent.
PreliminaryReadFails ==
    /\ handler = "entered" /\ venue \in Reading
    /\ \E a \in FailedReads(venue) :
         handler' = "done" /\ told' = classify(ReadFailure(venue, a))
    /\ UNCHANGED <<venue, type, order, wire, soft, resolving, cancelling>>

\* The local limiter refuses the command, or it leaves the process.
SendOrder ==
    /\ handler = "entered"
    /\ \/ /\ handler' = "done"
          /\ told' = classify(PlaceOrder(venue, [st |-> 0, body |-> "local"], type))
          /\ UNCHANGED wire
       \/ handler' = "calling" /\ wire' = "travelling" /\ UNCHANGED told
    /\ UNCHANGED <<venue, type, order, soft, resolving, cancelling>>

\* (External) the venue executes the command, or it never arrives.
VenueExecutes ==
    /\ wire = "travelling"
    /\ \/ wire' = "executed" /\ order' \in {"active", "closed"}
       \/ wire' = "dropped" /\ UNCHANGED order
    /\ UNCHANGED <<venue, type, handler, told, soft, resolving, cancelling>>

\* (External) the order fills or expires.
VenueCloses ==
    /\ order = "active"
    /\ order' = "closed"
    /\ UNCHANGED <<venue, type, wire, handler, told, soft, resolving, cancelling>>

\* The adapter gets answer a, which is true of the command, or the call times
\* out after 15 s; Place classifies it.
PlaceReturns ==
    /\ handler = "calling"
    /\ \E a \in Answers :
         /\ a.body # "local"
         /\ MayExecute(a) = {TRUE} => wire = "executed" /\ UNCHANGED wire
         /\ MayExecute(a) = {FALSE} => wire # "executed" /\ wire' = "dropped"
         /\ MayExecute(a) = BOOLEAN => UNCHANGED wire
         /\ told' = classify(PlaceOrder(venue, a, type))
         /\ soft' = (a.body = "temp")
    /\ handler' = "done"
    /\ UNCHANGED <<venue, type, order, resolving, cancelling>>

\* The gateway's process ends: the connection to the browser breaks, a
\* command on its way stays on its way.
GatewayCrash ==
    /\ handler \in {"entered", "calling"}
    /\ handler' = "done"
    /\ browser' = IF browser = "waiting" THEN "resolving" ELSE browser
    /\ UNCHANGED <<venue, type, order, wire, told, soft, tries, look, existed, early,
                   cancelling>>

----------------------------------------------------------------------------
(* The browser learns the outcome.                                         *)

\* Mutant: the gateway's word is the browser's.
SubmitReturnsVerbatim ==
    /\ browser = "waiting" /\ told # ""
    /\ browser' = told
    /\ UNCHANGED <<placing, tries, look, existed, early, cancelling>>

\* A 4xx and "rejected" are refusals; a 202 is looked up.
SubmitReturns ==
    /\ browser = "waiting" /\ told # ""
    /\ browser' = CASE told = "accepted" -> "accepted"
                    [] told \in {"rejected", "invalid"} -> "rejected"
                    [] OTHER -> "resolving"
    /\ UNCHANGED <<placing, tries, look, existed, early, cancelling>>

\* The request fails in transit.  It may have arrived: Place runs without the
\* caller's cancellation, and may even begin later.
RequestFails ==
    /\ browser = "waiting"
    /\ browser' = "resolving"
    /\ \/ UNCHANGED handler
       \/ handler = "idle" /\ handler' = "done"
    /\ UNCHANGED <<venue, type, order, wire, told, soft, tries, look, existed, early,
                   cancelling>>

\* Mutant: lookups are not counted.
resolveUncounted ==
    /\ browser = "resolving"
    /\ browser' = "looking" /\ look' = 1
    /\ existed' = (order # "none") /\ early' = FALSE
    /\ UNCHANGED <<placing, tries, cancelling>>

\* resolveUnknown: one more lookup, or "unknown" after the last.
resolveUnknown ==
    /\ browser = "resolving"
    /\ \/ /\ tries > 0
          /\ browser' = "looking" /\ tries' = tries - 1 /\ look' = 1
          /\ existed' = (order # "none") /\ early' = FALSE
       \/ /\ tries = 0
          /\ browser' = "unknown"
          /\ UNCHANGED <<tries, look, existed, early>>
    /\ UNCHANGED <<placing, cancelling>>

\* One read of LookupExactOrder and, after the last or when it has the order,
\* what the browser makes of the result.
LookupExactOrder ==
    /\ browser = "looking"
    /\ LET list == lookupReads(venue)[look]
           has == IF list = "any" THEN order # "none" ELSE order = list
       IN  IF has
           THEN browser' = "accepted" /\ look' = 0 /\ UNCHANGED early
           ELSE IF look < Len(lookupReads(venue))
           THEN look' = look + 1 /\ UNCHANGED <<browser, early>>
           ELSE /\ look' = 0
                /\ early' = InFlight
                /\ browser' = IF lookupMissing(venue) = "not_found" THEN "rejected"
                                                                     ELSE "resolving"
    /\ UNCHANGED <<placing, tries, existed, cancelling>>

\* A read or the request itself fails: try again.
LookupFails ==
    /\ browser = "looking"
    /\ browser' = "resolving" /\ look' = 0
    /\ UNCHANGED <<placing, tries, existed, early, cancelling>>

----------------------------------------------------------------------------
(* Cancelling an order the browser shows.                                  *)

cancelOrder ==
    /\ browser = "accepted" /\ cancel = "none"
    /\ cancel' = "calling" /\ cwire' = "travelling"
    /\ UNCHANGED <<placing, resolving>>

\* Mutant: an ambiguous cancellation is taken for one that worked.
CancelResultHopeful(r) == IF r.kind \in {"nil", "Ambiguous"} THEN "ok" ELSE "failed"

\* Cancel returns the adapter's error and drops its acknowledgement; the
\* blotter removes the order when there was none.
CancelResult(r) == IF r.kind = "nil" THEN "ok" ELSE "failed"

\* (External) the venue takes the cancellation.
VenueCancels ==
    /\ cwire = "travelling"
    /\ \/ order = "active" /\ order' = "closed" /\ cwire' = "executed"
       \/ cwire' = "dropped" /\ UNCHANGED order
    /\ UNCHANGED <<venue, type, wire, handler, told, soft, resolving, cancel>>

CancelReturns ==
    /\ cancel = "calling"
    /\ \E a \in Answers :
         /\ a.body \notin Placed \ {"new"}
         /\ a.body = "missing" => order = "closed"
         /\ MayExecute(a) = {TRUE} => cwire = "executed" /\ UNCHANGED cwire
         /\ MayExecute(a) = {FALSE} => cwire # "executed" /\ cwire' = "dropped"
         /\ MayExecute(a) = BOOLEAN => UNCHANGED cwire
         /\ cancel' = CancelResult(CancelOrder(venue, a))
    /\ UNCHANGED <<placing, resolving>>

Gateway == placeOrder \/ PreliminaryReadFails \/ SendOrder \/ PlaceReturns
Browser == submitOrder \/ SubmitReturns \/ resolveUnknown \/ LookupExactOrder \/ LookupFails

Next ==
    \/ Gateway \/ GatewayCrash \/ Browser \/ RequestFails
    \/ VenueExecutes \/ VenueCloses
    \/ cancelOrder \/ VenueCancels \/ CancelReturns

Spec == Init /\ [][Next]_vars

\* Handlers run to their end (every venue call is bounded by its 15 s), and
\* the page keeps running.
FairSpec == Spec /\ WF_vars(Gateway) /\ WF_vars(Browser)

----------------------------------------------------------------------------
(* Properties.                                                             *)

TypeOK ==
    /\ venue \in Venues /\ type \in Types
    /\ order \in {"none", "active", "closed"}
    /\ wire \in {"idle", "travelling", "executed", "dropped"}
    /\ handler \in {"idle", "entered", "calling", "done"}
    /\ told \in {"", "invalid", "accepted", "rejected", "unknown"}
    /\ browser \in {"idle", "waiting", "resolving", "looking", "accepted", "rejected", "unknown"}
    /\ tries \in 0..MaxLookups /\ look \in 0..2
    /\ soft \in BOOLEAN /\ existed \in BOOLEAN /\ early \in BOOLEAN
    /\ cancel \in {"none", "calling", "ok", "failed"}
    /\ cwire \in {"idle", "travelling", "executed", "dropped"}

\* classify: "rejected" is proof of non-execution.  An order the gateway called
\* rejected (or refused itself) does not exist and no command for it is under way,
\* whatever the venue answered.  The exception, which Gate and Hyperliquid do not
\* need: a code outside the SDK's list of definitive refusals.
RejectedNeverExecutes ==
    told \in {"rejected", "invalid"} =>
      \/ order = "none" /\ wire \in {"idle", "dropped"}
      \/ soft /\ venue \notin {"gate", "hyperliquid"}

\* An order the gateway calls accepted, and one the browser shows as
\* accepted, is at the venue.
AcceptedExists == told = "accepted" \/ browser = "accepted" => order # "none"

\* The browser's "rejected" is wrong only in that case, and when a lookup overtook the
\* place command: resolveUnknown's "Order was not placed" is true once it has ended.
NotPlacedIsTrue == browser = "rejected" /\ order # "none" => early \/ soft

\* A lookup whose reads succeed finds an order that was at the venue when it
\* began, even when the order closes between the two reads.
LookupFindsOlder ==
    [][browser = "looking" /\ existed /\ LookupExactOrder => browser' # "resolving"
                                                         /\ browser' # "rejected"]_vars

\* The cancel route answers ok only for a cancellation the venue took, or an
\* order that is over.  (Bybit and Bitget acknowledge a definitive refusal without an
\* error, and Cancel returns the error alone.)
CancelOkElsewhere ==
    cancel = "ok" /\ venue \notin {"bybit", "bitget"} => order = "closed"

\* A submission ends: accepted, rejected or, after the last lookup, unknown.
SubmissionEnds == browser = "waiting" ~> browser \in {"accepted", "rejected", "unknown"}
============================================================================
