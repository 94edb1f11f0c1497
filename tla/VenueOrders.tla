---------------------------- MODULE VenueOrders ----------------------------
(***************************************************************************)
(* What the adapters of the seven served venues make of one HTTP answer to *)
(* an order command, and the verdict the gateway draws from it.            *)
(*                                                                         *)
(* An answer is [st, body]: st is the HTTP status (0: none came back; 500  *)
(* stands for 408 as well, 429 for 418, 401 for 403) and body what the     *)
(* payload says.  Payloads are told apart as far as the code tells them    *)
(* apart: an order that is new, partly filled, filled or dead; an identity *)
(* that is not the request's ("mismatch"); bytes that do not decode        *)
(* ("garbled"); or an error code of one of six classes.  "temp" is every   *)
(* code outside a venue's list of definitive refusals: timeouts, backend   *)
(* failures, codes the SDK does not know.                                  *)
(*                                                                         *)
(* Two layers per venue: the SDK's HTTP client turns the answer into an    *)
(* error of some class, the adapter turns that into an acknowledgement     *)
(* and a normalized error.  r = [ack, kind, st, notSent] is that pair,     *)
(* with Details().HTTPStatus and Details().CommandNotSent.                 *)
(***************************************************************************)
EXTENDS Naturals, Sequences

Venues == {"binance_spot", "binance_perp", "okx", "bybit", "bitget", "gate",
           "hyperliquid", "lighter"}
Types == {"market", "limit"}

Codes == {"reject", "param", "missing", "auth", "throttle", "temp"}
Done == {"new", "partial", "filled"}
Placed == Done \cup {"dead"}

\* Nothing came back: the local limiter refused to send, the connection
\* failed, the 15 s of the gateway's call ran out.
Silences == {"local", "lost", "deadline"}

Answers ==
    [st : {0}, body : Silences]
      \cup [st : {200}, body : Placed \cup Codes \cup {"mismatch", "garbled"}]
      \cup [st : {400, 401, 404, 429, 500}, body : Codes \cup {"garbled"}]

\* internal/venuehttp: an SDK error.  st is the status of the HTTPError in
\* its chain, limited is errors.Is(err, ErrRateLimited).
SdkError(cls, a) ==
    [cls |-> cls, code |-> a.body, st |-> a.st,
     limited |-> cls = "limited" \/ a.st = 429]

\* An error made after the response was read: WithHTTPResponse is not applied.
Bare(cls, a) == [SdkError(cls, a) EXCEPT !.st = 0]

NoError == [cls |-> "none", code |-> "none", st |-> 0, limited |-> FALSE]

\* DoHTTP makes one call; a refusal of the local limiter is an ErrRateLimited.
DoHTTP(a) ==
    [SdkError(IF a.body = "lost" THEN "transport" ELSE a.body, a)
       EXCEPT !.limited = a.body = "local"]

Result(ack, kind) == [ack |-> ack, kind |-> kind, st |-> 0, notSent |-> FALSE]

\* OrderAcknowledgement.Validate: a market order cannot be resting.
Validated(ack, type) ==
    IF ack = "Resting" /\ type = "market" THEN Result("", "Malformed")
                                          ELSE Result(ack, "nil")

----------------------------------------------------------------------------
(* The normalization all adapters share.                                   *)

normalizeHTTPError(r, e) ==
    LET decoded == IF e.cls = "malformed" /\ r.kind # "Ambiguous" THEN "Malformed" ELSE r.kind
        status == CASE decoded # "Ambiguous" /\ e.st >= 500 -> "Transport"
                    [] decoded # "Ambiguous" /\ e.st = 429 -> "RateLimit"
                    [] OTHER -> decoded
        limited == IF e.limited /\ status # "Ambiguous" /\ e.st < 500 THEN "RateLimit" ELSE status
    IN  IF r.kind = "nil" THEN r
        ELSE [ack |-> r.ack,
              kind |-> IF e.cls = "local" THEN "RateLimit" ELSE limited,
              st |-> e.st,
              notSent |-> e.cls = "local"]

normalizeHTTPCommand(r, e) ==
    normalizeHTTPError(IF e.st \in {429, 500} THEN Result("Ambiguous", "Ambiguous") ELSE r, e)

----------------------------------------------------------------------------
(* Binance, spot and USD-M perpetuals.                                     *)

\* The code of an error body counts only at 400 and above.
binanceCall(a) ==
    CASE a.st = 0 -> DoHTTP(a)
      [] a.st = 200 -> IF a.body = "garbled" THEN SdkError("malformed", a) ELSE NoError
      [] OTHER -> SdkError(IF a.body = "garbled" THEN "opaque"
                           ELSE IF a.st = 429 \/ a.body = "throttle" THEN "limited"
                           ELSE IF a.st = 401 \/ a.body = "auth" THEN "auth"
                           ELSE "api", a)

binanceIsDefinitive(e) ==
    e.cls = "api" /\ e.st = 400 /\ e.code \in {"reject", "param", "missing"}

binanceSpotNormalizeErr(e) ==
    normalizeHTTPError(Result("",
        CASE e.cls = "deadline" -> "Deadline"
          [] e.cls = "auth" -> "Authentication"
          [] e.cls = "limited" -> "RateLimit"
          [] e.cls = "api" /\ e.st < 500 ->
               IF e.code = "missing" \/ e.st = 404 THEN "NotFound" ELSE "VenueRejected"
          [] OTHER -> "Transport"), e)

binanceSpotCommandAck(e) ==
    normalizeHTTPCommand(
        CASE binanceIsDefinitive(e) -> Result("Rejected", "VenueRejected")
          [] e.cls \in {"transport", "deadline", "local"} -> Result("Ambiguous", "Ambiguous")
          [] OTHER -> binanceSpotNormalizeErr(e), e)

binanceSpotPlace(a, type) ==
    LET e == binanceCall(a)
    IN  IF e.cls # "none" THEN binanceSpotCommandAck(e)
        ELSE CASE a.body = "new" -> Validated("Resting", type)
          [] a.body = "partial" -> Validated("PartiallyFilled", type)
          [] a.body = "filled" -> Validated("ImmediatelyFilled", type)
          [] OTHER -> Result("", "Malformed")

binanceSpotCancel(a) ==
    LET e == binanceCall(a)
    IN  IF e.cls # "none" THEN binanceSpotCommandAck(e)
        ELSE IF a.body \in Placed THEN Result("AcceptedPending", "nil")
        ELSE Result("", "Malformed")

binancePerpNormalizeError(e) ==
    normalizeHTTPError(Result("",
        CASE e.cls = "deadline" -> "Deadline"
          [] e.cls = "auth" -> "Authentication"
          [] e.cls = "limited" -> "RateLimit"
          [] e.cls = "api" /\ e.st < 500 ->
               IF e.st = 404 \/ e.code = "missing" THEN "NotFound" ELSE "VenueRejected"
          [] OTHER -> "Transport"), e)

binancePerpCommandErrorAck(e) ==
    normalizeHTTPCommand(
        CASE binanceIsDefinitive(e) -> Result("Rejected", "VenueRejected")
          [] e.cls \in {"api", "limited", "auth"} /\ ~binanceIsDefinitive(e) ->
               binancePerpNormalizeError(e)
          [] OTHER -> Result("Ambiguous", "Ambiguous"), e)

\* A market order that is still NEW is pending, not resting.
binancePerpOrderAck(a, type) ==
    LET e == binanceCall(a)
    IN  IF e.cls # "none" THEN binancePerpCommandErrorAck(e)
        ELSE CASE a.body = "new" ->
               Validated(IF type = "market" THEN "AcceptedPending" ELSE "Resting", type)
          [] a.body = "partial" -> Validated("PartiallyFilled", type)
          [] a.body = "filled" -> Validated("ImmediatelyFilled", type)
          [] OTHER -> Result("", "Malformed")

binancePerpCancel(a) ==
    LET e == binanceCall(a)
    IN  IF e.cls # "none" THEN binancePerpCommandErrorAck(e)
        ELSE IF a.body \in Placed THEN Result("AcceptedPending", "nil")
        ELSE Result("", "Malformed")

----------------------------------------------------------------------------
(* OKX: error codes come with status 200, other statuses are opaque.       *)

okxDo(a) ==
    CASE a.st = 0 -> DoHTTP(a)
      [] a.st >= 400 -> SdkError(IF a.st = 429 THEN "limited" ELSE "opaque", a)
      [] OTHER -> CASE a.body \in Codes -> SdkError(IF a.body = "throttle" THEN "limited" ELSE "api", a)
                    [] a.body = "garbled" -> Bare("malformed", a)
                    [] OTHER -> NoError

okxNormalizeErr(e) ==
    normalizeHTTPError(Result("",
        CASE e.cls = "deadline" -> "Deadline"
          [] e.cls = "limited" -> "RateLimit"
          [] e.cls = "api" -> IF e.code = "auth" THEN "Authentication" ELSE "VenueRejected"
          [] OTHER -> "Transport"), e)

okxCommandTransportAck(e) ==
    normalizeHTTPCommand(
        CASE e.cls = "limited" -> Result("", "RateLimit")
          [] e.cls = "api" -> IF e.code = "auth" THEN Result("", "Authentication")
                                                ELSE Result("Rejected", "VenueRejected")
          [] OTHER -> Result("Ambiguous", "Ambiguous"), e)

okxCommandAck(a) ==
    IF a.body = "mismatch" THEN Result("", "Malformed") ELSE Result("AcceptedPending", "nil")

okxCommand(a) ==
    LET e == okxDo(a)
    IN  IF e.cls # "none" THEN okxCommandTransportAck(e) ELSE okxCommandAck(a)

----------------------------------------------------------------------------
(* Bybit and Bitget share the adapter.  A code counts at every status.     *)

bybitPost(a) ==
    IF a.st = 0 THEN DoHTTP(a)
    ELSE CASE a.body = "garbled" -> SdkError("malformed", a)
           [] a.body \in Codes -> [SdkError("api", a) EXCEPT !.limited = @ \/ a.body = "throttle"]
           [] a.body = "mismatch" -> Bare("mismatch", a)
           [] OTHER -> NoError

bybitIsDefinitive(e) ==
    /\ e.cls = "api"
    /\ e.st \notin {429, 500}
    /\ e.code \in {"reject", "param", "missing", "auth"}

\* Above 299 a body without a code is an opaque error.
bitgetPost(a) ==
    IF a.st = 0 THEN DoHTTP(a)
    ELSE IF a.st = 429 THEN SdkError("limited", a)
    ELSE CASE a.body = "garbled" -> SdkError(IF a.st >= 300 THEN "opaque" ELSE "malformed", a)
           [] a.body \in Codes -> [SdkError("api", a) EXCEPT !.limited = a.body = "throttle"]
           [] a.body = "mismatch" -> Bare("mismatch", a)
           [] OTHER -> NoError

bitgetIsDefinitive(e) ==
    /\ e.cls = "api"
    /\ e.st \notin {429, 500}
    /\ e.code \in {"reject", "param", "missing", "auth"}

classifyCode(code) ==
    CASE code = "auth" -> "Authentication"
      [] code = "throttle" -> "RateLimit"
      [] code = "param" -> "InvalidRequest"
      [] OTHER -> "VenueRejected"

normErr(e) ==
    normalizeHTTPError(Result("",
        CASE e.cls = "deadline" -> "Deadline"
          [] e.cls = "api" -> classifyCode(e.code)
          [] OTHER -> "Transport"), e)

\* A definitive refusal is an acknowledgement without an error.
commandAck(e, definitive) ==
    normalizeHTTPCommand(IF definitive THEN Result("Rejected", "nil")
                                       ELSE [normErr(e) EXCEPT !.ack = "Ambiguous"], e)

bybitPlace(a) ==
    LET e == bybitPost(a)
    IN  CASE e.cls = "mismatch" -> Result("", "Malformed")
          [] e.cls = "none" -> Result("AcceptedPending", "nil")
          [] OTHER -> commandAck(e, bybitIsDefinitive(e))

bybitCancel(a) ==
    LET e == bybitPost(a)
    IN  CASE e.cls = "mismatch" -> Result("", "Malformed")
          [] e.cls = "none" -> Result("Canceled", "nil")
          [] OTHER -> commandAck(e, bybitIsDefinitive(e))

bitgetPlace(a) ==
    LET e == bitgetPost(a)
    IN  CASE e.cls = "mismatch" -> Result("", "Malformed")
          [] e.cls = "none" -> Result("AcceptedPending", "nil")
          [] OTHER -> commandAck(e, bitgetIsDefinitive(e))

bitgetCancel(a) ==
    LET e == bitgetPost(a)
    IN  CASE e.cls = "mismatch" -> Result("", "Malformed")
          [] e.cls = "none" -> Result("Canceled", "nil")
          [] OTHER -> commandAck(e, bitgetIsDefinitive(e))

----------------------------------------------------------------------------
(* Gate: a label counts above 299; at 200 the row itself is checked.       *)

gateDo(a) ==
    CASE a.st = 0 -> DoHTTP(a)
      [] a.st >= 300 -> SdkError("api", a)
      [] OTHER -> CASE a.body = "garbled" -> SdkError("malformed", a)
                    [] a.body = "mismatch" -> Bare("mismatch", a)
                    [] OTHER -> NoError

gateIsDefinitive(e) ==
    /\ e.cls = "api"
    /\ e.st \in {400, 401, 404}
    /\ e.code \in {"reject", "param", "missing", "auth"}

gateNormalizeErr(e) ==
    normalizeHTTPError(Result("",
        CASE e.cls = "deadline" -> "Deadline"
          [] e.cls = "api" -> (CASE e.st = 401 -> "Authentication"
                                 [] e.st = 404 -> "NotFound"
                                 [] e.st = 429 -> "RateLimit"
                                 [] OTHER -> "VenueRejected")
          [] OTHER -> "Transport"), e)

gateCommandErr(e) ==
    normalizeHTTPCommand(
        CASE e.cls = "mismatch" -> Result("Ambiguous", "Metadata")
          [] gateIsDefinitive(e) -> [gateNormalizeErr(e) EXCEPT !.ack = "Rejected"]
          [] OTHER -> Result("Ambiguous", "Ambiguous"), e)

\* The state follows from the filled quantity alone: a limit order that died
\* without a fill is acknowledged as resting.
gateAckFromOrder(body, type) ==
    CASE body = "partial" -> "PartiallyFilled"
      [] body = "filled" -> "ImmediatelyFilled"
      [] OTHER -> IF type = "market" THEN "AcceptedPending" ELSE "Resting"

gatePlace(a, type) ==
    LET e == gateDo(a)
    IN  IF e.cls # "none" THEN gateCommandErr(e)
        ELSE IF a.body \in Codes THEN Result("", "Malformed")
        ELSE Validated(gateAckFromOrder(a.body, type), type)

gateCancel(a) ==
    LET e == gateDo(a)
    IN  IF e.cls # "none" THEN gateCommandErr(e)
        ELSE IF a.body \in Codes THEN Result("", "Malformed")
        ELSE Result("Canceled", "nil")

----------------------------------------------------------------------------
(* Hyperliquid: an order refused by the matching engine is reported at 200 *)
(* in the order's own status; other refusals there say only "not ok".      *)

hlPost(a) ==
    CASE a.st = 0 -> DoHTTP(a)
      [] a.st >= 400 -> SdkError(IF a.body = "garbled" THEN "opaque"
                                 ELSE IF a.st = 429 \/ a.body = "throttle" THEN "limited"
                                 ELSE "api", a)
      [] OTHER -> CASE a.body \in {"reject", "param", "missing"} -> Bare("rejected", a)
                    [] a.body \in {"auth", "throttle", "temp"} -> Bare("opaque", a)
                    [] a.body \in {"garbled", "mismatch"} -> Bare("malformed", a)
                    [] OTHER -> NoError

\* status is what the request tracker saw: the status of this answer.  The
\* text of a market order's error hides that the response was malformed.
hlMutationErr(e, status, type) ==
    normalizeHTTPCommand(
        IF e.cls = "rejected" THEN Result("Rejected", "VenueRejected")
        ELSE IF status < 400 /\ e.limited THEN Result("", "RateLimit")
        ELSE IF status < 400 /\ e.cls = "malformed" /\ type = "limit" THEN Result("", "Malformed")
        ELSE CASE status = 401 -> Result("", "Authentication")
               [] status = 429 -> Result("", "RateLimit")
               [] status = 404 -> Result("", "NotFound")
               [] status = 400 -> Result("", "InvalidRequest")
               [] OTHER -> Result("Ambiguous", "Ambiguous"), e)

hlPlaceAck(a, type) ==
    CASE a.body = "new" -> Validated("Resting", type)
      [] a.body \in {"partial", "filled"} -> Validated("ImmediatelyFilled", type)
      [] OTHER -> Result("", "Malformed")

hlPlace(a, type) ==
    LET e == hlPost(a)
    IN  IF e.cls # "none" THEN hlMutationErr(e, a.st, type) ELSE hlPlaceAck(a, type)

hlCancel(a) ==
    LET e == hlPost(a)
    IN  IF e.cls # "none" THEN hlMutationErr(e, a.st, "limit")
        ELSE IF a.body \in Placed THEN Result("AcceptedPending", "nil")
        ELSE Result("", "Malformed")

----------------------------------------------------------------------------
(* Lighter: the transport turns every status from 400 up into an error;    *)
(* at 200 the code is a field of the body ("temp": 500 and above).         *)

lighterRoundTrip(a) ==
    CASE a.st = 0 -> DoHTTP(a)
      [] a.st >= 400 -> SdkError("status", a)
      [] OTHER -> IF a.body = "garbled" THEN Bare("malformed", a) ELSE NoError

lighterNormalizeErr(e) ==
    normalizeHTTPError(Result("",
        CASE e.cls = "deadline" -> "Deadline"
          [] e.cls = "malformed" -> "Malformed"
          [] e.cls = "status" -> (CASE e.st = 401 -> "Authentication"
                                    [] e.st = 404 -> "NotFound"
                                    [] e.st = 429 -> "RateLimit"
                                    [] e.st >= 500 -> "Transport"
                                    [] OTHER -> "InvalidRequest")
          [] OTHER -> "Transport"), e)

\* began: the request tracker saw sendTx leave; otherwise only the nonce was read.
lighterCommandErr(e, began) ==
    normalizeHTTPCommand(
        CASE e.st = 429 -> Result("", "RateLimit")
          [] e.st = 401 -> Result("", "Authentication")
          [] e.st = 404 -> Result("", "NotFound")
          [] e.st = 400 /\ began -> Result("Rejected", "VenueRejected")
          [] OTHER -> IF e.cls = "deadline" /\ ~began THEN Result("", "Deadline")
                      ELSE IF e.limited THEN Result("", "RateLimit")
                      ELSE IF ~began THEN lighterNormalizeErr(e)
                      ELSE Result("Ambiguous", "Ambiguous"), e)

lighterCommandAck(a) ==
    CASE a.body \in Placed -> Result("AcceptedPending", "nil")
      [] a.body = "temp" -> Result("Ambiguous", "Ambiguous")
      [] a.body = "mismatch" -> Result("", "Malformed")
      [] OTHER -> Result("Rejected", "VenueRejected")

lighterCommand(a) ==
    LET e == lighterRoundTrip(a)
    IN  IF e.cls # "none" THEN lighterCommandErr(e, TRUE) ELSE lighterCommandAck(a)

----------------------------------------------------------------------------
(* One command of one venue, and the verdict of the gateway.               *)

PlaceOrder(v, a, type) ==
    CASE v = "binance_spot" -> binanceSpotPlace(a, type)
      [] v = "binance_perp" -> binancePerpOrderAck(a, type)
      [] v = "okx" -> okxCommand(a)
      [] v = "bybit" -> bybitPlace(a)
      [] v = "bitget" -> bitgetPlace(a)
      [] v = "gate" -> gatePlace(a, type)
      [] v = "hyperliquid" -> hlPlace(a, type)
      [] v = "lighter" -> lighterCommand(a)

CancelOrder(v, a) ==
    CASE v = "binance_spot" -> binanceSpotCancel(a)
      [] v = "binance_perp" -> binancePerpCancel(a)
      [] v = "okx" -> okxCommand(a)
      [] v = "bybit" -> bybitCancel(a)
      [] v = "bitget" -> bitgetCancel(a)
      [] v = "gate" -> gateCancel(a)
      [] v = "hyperliquid" -> hlCancel(a)
      [] v = "lighter" -> lighterCommand(a)

\* A read made before the command (trade mode, hold mode, best price, nonce)
\* failed, and PlaceOrder returned its error.
Reading == {"okx", "bybit", "bitget", "hyperliquid", "lighter"}

FailedReads(v) ==
    {a \in Answers : a.st # 200 \/ a.body = "garbled"}
      \cup (IF v \in {"okx", "bybit", "bitget"} THEN [st : {200}, body : Codes] ELSE {})

\* CommandNotSent is set for commands only: the limiter refused a read.
ReadFailure(v, a) ==
    LET r == CASE v = "okx" -> okxNormalizeErr(okxDo(a))
               [] v = "bybit" -> normErr(bybitPost(a))
               [] v = "bitget" -> normErr(bitgetPost(a))
               [] v = "hyperliquid" -> hlMutationErr(hlPost(a), a.st, "limit")
               [] v = "lighter" -> lighterCommandErr(lighterRoundTrip(a), FALSE)
    IN  [r EXCEPT !.notSent = FALSE]

\* Mutants of classify: every error but an ambiguous one is a refusal; no answer is
\* an acceptance.
classifyByKind(r) ==
    CASE r.kind = "nil" /\ r.ack # "Rejected" -> "accepted"
      [] r.kind = "Ambiguous" -> "unknown"
      [] OTHER -> "rejected"

classifyHopeful(r) == IF r.ack = "Rejected" \/ r.notSent THEN "rejected" ELSE "accepted"

\* Only proof of non-execution may yield "rejected".
classify(r) ==
    IF r.kind = "nil"
    THEN CASE r.ack \in {"AcceptedPending", "Resting", "PartiallyFilled",
                         "ImmediatelyFilled", "Canceled"} -> "accepted"
           [] r.ack = "Rejected" -> "rejected"
           [] OTHER -> "unknown"
    ELSE IF \/ r.notSent
            \/ r.ack = "Rejected"
            \/ r.kind \in {"VenueRejected", "Authentication", "Permission"}
            \/ r.st = 0 /\ r.kind \in {"InvalidRequest", "Unsupported", "InvalidConfig"}
            \/ r.st = 0 /\ r.kind = "RateLimit"
         THEN "rejected"
         ELSE "unknown"

----------------------------------------------------------------------------
(* LookupExactOrder: the lists it reads, and what it concludes when none   *)
(* of them has the order.                                                  *)

Lookup(reads, missing) == [reads |-> reads, missing |-> missing]

\* One read by client order id; a code of its own says that there is no such order.
binanceLookup == Lookup(<<"any">>, "not_found")
okxLookup == Lookup(<<"any">>, "not_found")
gateLookup == Lookup(<<"any">>, "not_found")
hlLookup == Lookup(<<"any">>, "not_found")

\* A missing order is an error like any other.
bitgetLookup == Lookup(<<"any">>, "error")

\* The open orders, then the closed ones: an order that is in neither may exist.
bybitLookup == Lookup(<<"active", "closed">>, "unconfirmed")
lighterLookup == Lookup(<<"active", "closed">>, "unconfirmed")

LookupOf(v) ==
    CASE v \in {"binance_spot", "binance_perp"} -> binanceLookup
      [] v = "okx" -> okxLookup
      [] v = "bybit" -> bybitLookup
      [] v = "bitget" -> bitgetLookup
      [] v = "gate" -> gateLookup
      [] v = "hyperliquid" -> hlLookup
      [] v = "lighter" -> lighterLookup

\* Mutants: the list of closed orders first; a missing order is proof everywhere.
lookupReadsClosedFirst(v) ==
    IF v \in {"bybit", "lighter"} THEN <<"closed", "active">> ELSE <<"any">>

lookupMissingIsProof(v) == IF v = "bitget" THEN "error" ELSE "not_found"

lookupReads(v) == LookupOf(v).reads
lookupMissing(v) == LookupOf(v).missing
============================================================================
