------------------------ MODULE OrderPlacementProofs ------------------------
(***************************************************************************)
(* Proofs about OrderPlacement: for every venue, order type and answer,    *)
(* and any number of lookups.                                              *)
(***************************************************************************)
EXTENDS OrderPlacement, TLAPS

-----------------------------------------------------------------------------
(* What an answer proves.                                                  *)

\* The venue has taken the command; the venue, or the local limiter, has refused it.
Taken(a) == a.st = 200 /\ a.body \in Placed

Refused(a) ==
    \/ a.body = "local"
    \/ a.st = 200 /\ a.body \in Codes \ {"temp"}
    \/ a.st \in {400, 404} /\ a.body # "temp"
    \/ a.st = 401

LEMMA AnswerTypes ==
    ASSUME NEW a \in Answers
    PROVE  /\ a.st \in {0, 200, 400, 401, 404, 429, 500}
           /\ a.st = 0 => a.body \in {"local", "lost", "deadline"}
           /\ a.st = 200 => a.body \in Placed \cup Codes \cup {"mismatch", "garbled"}
           /\ a.st >= 400 => a.body \in Codes \cup {"garbled"}
  BY DEF Answers, Silences

LEMMA AnswerCases ==
    ASSUME NEW a \in Answers
    PROVE  \/ a.st = 0
           \/ a.st >= 400
           \/ a.st = 200 /\ a.body \in Codes
           \/ a.st = 200 /\ a.body = "garbled"
           \/ a.st = 200 /\ a.body = "mismatch"
           \/ Taken(a)
  <1>1. a.st = 0 \/ a.st >= 400 \/ a.st = 200
    BY AnswerTypes
  <1>2. a.st = 200 => a.body \in Placed \cup Codes \cup {"mismatch", "garbled"}
    BY AnswerTypes
  <1>3. QED
    BY <1>1, <1>2 DEF Taken

LEMMA Fate ==
    ASSUME NEW a \in Answers
    PROVE  /\ Taken(a) <=> MayExecute(a) = {TRUE}
           /\ Refused(a) <=> MayExecute(a) = {FALSE}
           /\ MayExecute(a) = BOOLEAN \/ Taken(a) \/ Refused(a)
  <1>1. {TRUE} # {FALSE} /\ {TRUE} # BOOLEAN /\ {FALSE} # BOOLEAN
    BY Zenon
  <1>2. ~(Taken(a) /\ Refused(a))
    BY AnswerTypes DEF Taken, Refused, Placed, Done, Codes
  <1>3. MayExecute(a) = IF Taken(a) THEN {TRUE} ELSE IF Refused(a) THEN {FALSE} ELSE BOOLEAN
    BY <1>2 DEF MayExecute, Taken, Refused
  <1>4. QED
    BY <1>1, <1>2, <1>3, Zenon

-----------------------------------------------------------------------------
(* The shared normalization and the verdict.                               *)

\* errors.Is(err, ErrRateLimited).
Limited(e) == e.limited

\* A normalized error keeps the acknowledgement and carries the status; an ambiguous
\* one stays ambiguous, unless the limiter did not send the command.
LEMMA NormalizedError ==
    ASSUME NEW e, NEW r, NEW n, n = normalizeHTTPError(r, e), r.kind # "nil",
           e.st \in Nat
    PROVE  /\ n.ack = r.ack /\ n.st = e.st /\ (e.cls # "local" => ~n.notSent)
           /\ n.kind # "nil" /\ n.kind \in {r.kind, "Malformed", "Transport", "RateLimit"}
           /\ e.cls # "local" /\ e.st < 429 /\ n.kind = "RateLimit" =>
                r.kind = "RateLimit" \/ (Limited(e) /\ r.kind # "Ambiguous")
           /\ e.cls # "local" /\ r.kind = "Ambiguous" => n.kind = "Ambiguous"
  <1>1. n.ack = r.ack /\ n.st = e.st
    BY DEF normalizeHTTPError
  <1>2. e.cls # "local" => ~n.notSent
    BY Zenon DEF normalizeHTTPError
  <1>3. n.kind # "nil" /\ n.kind \in {r.kind, "Malformed", "Transport", "RateLimit"}
    BY DEF normalizeHTTPError
  <1>4. e.cls # "local" /\ e.st < 429 /\ n.kind = "RateLimit" =>
                r.kind = "RateLimit" \/ (Limited(e) /\ r.kind # "Ambiguous")
    BY DEF normalizeHTTPError, Limited
  <1>5. e.cls # "local" /\ r.kind = "Ambiguous" => n.kind = "Ambiguous"
    BY DEF normalizeHTTPError
  <1>6. QED
    BY <1>1, <1>2, <1>3, <1>4, <1>5

RefusalKinds == {"VenueRejected", "Authentication", "Permission"}
UnsentKinds == {"InvalidRequest", "Unsupported", "InvalidConfig", "RateLimit"}

\* An error is never an acceptance.
LEMMA ErrorNotAccepted ==
    ASSUME NEW n, n.kind # "nil"
    PROVE  classify(n) \in {"rejected", "unknown"}
  BY DEF classify

\* What it takes for an error to be a refusal.
LEMMA ErrorRejected ==
    ASSUME NEW n, n.kind # "nil", ~n.notSent, classify(n) = "rejected"
    PROVE  \/ n.ack = "Rejected"
           \/ n.kind \in RefusalKinds
           \/ n.st = 0 /\ n.kind \in UnsentKinds
  BY DEF classify, RefusalKinds, UnsentKinds

\* The verdict n on a command that failed with e, which the adapter took for r.
Judged(n, r, e) ==
    /\ n.kind # "nil"
    /\ classify(n) \in {"rejected", "unknown"}
    /\ e.cls # "local" /\ classify(n) = "rejected" =>
        /\ e.st \notin {429, 500}
        /\ \/ r.ack = "Rejected"
           \/ r.kind \in RefusalKinds
           \/ e.st = 0 /\ r.kind \in UnsentKinds
           \/ e.st = 0 /\ Limited(e) /\ r.kind # "Ambiguous"

LEMMA CommandVerdict ==
    ASSUME NEW e, NEW r, NEW n, n = normalizeHTTPCommand(r, e), r.kind # "nil",
           e.st \in Nat
    PROVE  Judged(n, r, e)
  <1>1. CASE e.st \in {429, 500}
    <2> DEFINE hot == Result("Ambiguous", "Ambiguous")
    <2>1. n = normalizeHTTPError(hot, e) /\ hot.kind = "Ambiguous" /\ hot.ack = "Ambiguous"
      BY <1>1 DEF normalizeHTTPCommand, Result
    <2> HIDE DEF hot
    <2>2. n.kind # "nil" /\ (e.cls # "local" => n.kind = "Ambiguous" /\ n.ack = "Ambiguous" /\ ~n.notSent)
      BY <2>1, NormalizedError
    <2>3. QED
      BY <2>2, ErrorNotAccepted, ErrorRejected DEF Judged, RefusalKinds, UnsentKinds
  <1>2. CASE e.st \notin {429, 500}
    <2>1. n = normalizeHTTPError(r, e)
      BY <1>2 DEF normalizeHTTPCommand
    <2>2. /\ n.ack = r.ack /\ n.st = e.st /\ n.kind # "nil"
          /\ e.cls # "local" => ~n.notSent
          /\ n.kind \in {r.kind, "Malformed", "Transport", "RateLimit"}
          /\ e.cls # "local" /\ e.st < 429 /\ n.kind = "RateLimit" =>
                r.kind = "RateLimit" \/ (Limited(e) /\ r.kind # "Ambiguous")
      BY <2>1, NormalizedError
    <2>3. classify(n) \in {"rejected", "unknown"}
      BY <2>2, ErrorNotAccepted
    <2>4. e.cls # "local" /\ classify(n) = "rejected" =>
            n.ack = "Rejected" \/ n.kind \in RefusalKinds \/ (n.st = 0 /\ n.kind \in UnsentKinds)
      BY <2>2, ErrorRejected
    <2>5. QED
      BY <1>2, <2>2, <2>3, <2>4 DEF Judged, RefusalKinds, UnsentKinds
  <1>3. QED
    BY <1>1, <1>2

\* No answer came back.
LEMMA Silent ==
    ASSUME NEW a \in Answers, a.st = 0, NEW e, e = DoHTTP(a)
    PROVE  /\ e.cls \in {"local", "transport", "deadline"}
           /\ e.cls = "local" <=> a.body = "local"
           /\ Limited(e) => a.body = "local"
           /\ e.st = 0
  <1> DEFINE s == SdkError(IF a.body = "lost" THEN "transport" ELSE a.body, a)
  <1>1. e = [s EXCEPT !.limited = (a.body = "local")]
    BY DEF DoHTTP
  <1>2. s = [cls |-> s.cls, code |-> s.code, st |-> 0, limited |-> s.limited]
        /\ s.cls = IF a.body = "lost" THEN "transport" ELSE a.body
    BY DEF SdkError
  <1> HIDE DEF s
  <1>3. e.cls = s.cls /\ e.st = 0
    BY <1>1, <1>2
  <1>4. Limited(e) => a.body = "local"
    BY <1>1, <1>2, Zenon DEF Limited
  <1>5. QED
    BY <1>2, <1>3, <1>4, AnswerTypes

\* An answer with an error.
LEMMA SdkFields ==
    ASSUME NEW cls, NEW a \in Answers, NEW e, e = SdkError(cls, a)
    PROVE  /\ e.cls = cls /\ e.code = a.body /\ e.st = a.st /\ e.st \in Nat
           /\ Limited(e) => cls = "limited" \/ a.st = 429
  <1>1. a.st \in Nat
    BY AnswerTypes
  <1>2. e.cls = cls /\ e.code = a.body /\ e.st = a.st
    BY DEF SdkError
  <1>3. Limited(e) => cls = "limited" \/ a.st = 429
    BY Zenon DEF SdkError, Limited
  <1>4. QED
    BY <1>1, <1>2, <1>3

LEMMA BareFields ==
    ASSUME NEW cls, cls # "limited", NEW a, NEW e, e = Bare(cls, a), a.st = 200
    PROVE  e.cls = cls /\ e.code = a.body /\ e.st = 0 /\ ~Limited(e)
  <1>1. e.cls = cls /\ e.code = a.body /\ e.st = 0
    BY DEF SdkError, Bare
  <1>2. ~Limited(e)
    <2> DEFINE s == SdkError(cls, a)
    <2>1. s = [cls |-> cls, code |-> a.body, st |-> a.st, limited |-> cls = "limited" \/ a.st = 429]
      BY DEF SdkError
    <2>2. e = [s EXCEPT !.st = 0]
      BY DEF Bare
    <2> HIDE DEF s
    <2>3. e.limited = s.limited
      BY <2>1, <2>2
    <2>4. s.limited => cls = "limited" \/ a.st = 429
      BY <2>1, Zenon
    <2>5. a.st # 429
      OBVIOUS
    <2>6. QED
      BY <2>3, <2>4, <2>5 DEF Limited
  <1>3. QED
    BY <1>1, <1>2

LEMMA NoErrorFields == NoError.cls = "none" /\ NoError.st = 0 /\ ~Limited(NoError)
  BY DEF NoError, Limited

LEMMA ResultFields ==
    ASSUME NEW ack, NEW kind, NEW r, r = Result(ack, kind)
    PROVE  r.ack = ack /\ r.kind = kind /\ r.st = 0 /\ ~r.notSent
  BY DEF Result

Acks == {"AcceptedPending", "Resting", "PartiallyFilled", "ImmediatelyFilled", "Canceled"}

LEMMA MalformedVerdict ==
    ASSUME NEW n, n = Result("", "Malformed")
    PROVE  n.kind # "nil" /\ classify(n) = "unknown"
  <1>1. n.ack = "" /\ n.kind = "Malformed" /\ ~n.notSent
    BY ResultFields, ZenonT(30)
  <1>2. QED
    BY <1>1, Zenon DEF classify

LEMMA AckVerdict ==
    ASSUME NEW ack \in Acks, NEW n, n = Result(ack, "nil")
    PROVE  n.kind = "nil" /\ classify(n) = "accepted"
  <1>1. n.ack = ack /\ n.kind = "nil"
    BY ResultFields
  <1>2. QED
    BY <1>1 DEF classify, Acks

LEMMA ValidatedVerdict ==
    ASSUME NEW ack \in Acks, NEW t, NEW n, n = Validated(ack, t)
    PROVE  classify(n) \in {"accepted", "unknown"}
  BY AckVerdict, MalformedVerdict, Zenon DEF Validated

\* A verdict tells the truth: an acceptance is the venue's, and so is a refusal,
\* but for a code that says nothing of the command (lenient).
Honest(n, a, lenient) ==
    /\ classify(n) \in {"accepted", "rejected", "unknown"}
    /\ classify(n) = "accepted" => Taken(a)
    /\ classify(n) = "rejected" => Refused(a) \/ (lenient /\ a.body = "temp")

\* No answer: the verdict is honest when the adapter's own view is no refusal.
LEMMA SilentVerdict ==
    ASSUME NEW a \in Answers, a.st = 0, NEW e, e = DoHTTP(a), NEW r, NEW n, Judged(n, r, e),
           a.body # "local" => r.ack # "Rejected" /\ r.kind \notin RefusalKinds \cup UnsentKinds
    PROVE  Honest(n, a, FALSE) /\ n.kind # "nil"
  <1>1. /\ e.cls = "local" <=> a.body = "local"
        /\ Limited(e) => a.body = "local"
    BY Silent
  <1>2. classify(n) = "rejected" => a.body = "local"
    BY <1>1 DEF Judged
  <1>3. QED
    BY <1>2 DEF Honest, Judged, Refused

\* An error status: but for "temp", what is not ambiguous is a refusal.
LEMMA StatusVerdict ==
    ASSUME NEW a \in Answers, a.st >= 400, NEW e, e.st = a.st, e.cls # "local",
           NEW r, NEW n, Judged(n, r, e)
    PROVE  Honest(n, a, TRUE) /\ n.kind # "nil"
  <1>1. classify(n) = "rejected" => a.st \in {400, 401, 404}
    BY AnswerTypes DEF Judged
  <1>2. QED
    BY <1>1 DEF Honest, Judged, Refused

\* A 200 that the adapter did not take for a refusal.
LEMMA UnreadVerdict ==
    ASSUME NEW a, NEW e, e.cls # "local", ~Limited(e), NEW r, NEW n, Judged(n, r, e),
           r.ack # "Rejected", r.kind \notin RefusalKinds, e.st # 0 \/ r.kind \notin UnsentKinds
    PROVE  Honest(n, a, FALSE) /\ n.kind # "nil"
  BY DEF Honest, Judged

LEMMA Lenient ==
    ASSUME NEW a, NEW n, Honest(n, a, FALSE)
    PROVE  Honest(n, a, TRUE)
  BY DEF Honest

-----------------------------------------------------------------------------
(* OKX.                                                                    *)

LEMMA okxFailure ==
    ASSUME NEW a \in Answers, NEW e, e = okxDo(a), e.cls # "none",
           NEW n, n = okxCommandTransportAck(e)
    PROVE  Honest(n, a, TRUE) /\ n.kind # "nil"
  <1> DEFINE r == CASE e.cls = "limited" -> Result("", "RateLimit")
                    [] e.cls = "api" -> IF e.code = "auth" THEN Result("", "Authentication")
                                                           ELSE Result("Rejected", "VenueRejected")
                    [] OTHER -> Result("Ambiguous", "Ambiguous")
  <1>1. n = normalizeHTTPCommand(r, e)
    BY Zenon DEF okxCommandTransportAck
  <1>2. /\ r.kind # "nil"
        /\ e.cls \notin {"limited", "api"} => r.ack = "Ambiguous" /\ r.kind = "Ambiguous"
    BY DEF Result
  <1> HIDE DEF r
  <1>3. CASE a.st = 0
    <2>1. e = DoHTTP(a)
      BY <1>3 DEF okxDo
    <2>2. e.st = 0 /\ e.cls \in {"local", "transport", "deadline"}
      BY <1>3, <2>1, Silent
    <2>3. Judged(n, r, e) /\ r.ack = "Ambiguous" /\ r.kind = "Ambiguous"
      BY <1>1, <1>2, <2>2, CommandVerdict
    <2>4. QED
      BY <1>3, <2>1, <2>3, SilentVerdict, Lenient, Zenon DEF RefusalKinds, UnsentKinds
  <1>4. CASE a.st >= 400
    <2>1. e = SdkError(IF a.st = 429 THEN "limited" ELSE "opaque", a)
      BY <1>4 DEF okxDo
    <2>2. e.st = a.st /\ e.st \in Nat /\ e.cls # "local"
      BY <2>1, SdkFields
    <2>3. Judged(n, r, e)
      BY <1>1, <1>2, <2>2, CommandVerdict
    <2>4. QED
      BY <1>4, <2>2, <2>3, StatusVerdict, Zenon
  <1>5. CASE a.st = 200 /\ a.body \in Codes
    <2>1. e = SdkError(IF a.body = "throttle" THEN "limited" ELSE "api", a)
      BY <1>5 DEF okxDo, Codes
    <2>2. e.st \in Nat
      BY <2>1, SdkFields
    <2>3. Judged(n, r, e)
      BY <1>1, <1>2, <2>2, CommandVerdict
    <2>4. QED
      BY <1>5, <2>3 DEF Honest, Judged, Refused
  <1>6. CASE a.st = 200 /\ a.body = "garbled"
    <2>1. e = Bare("malformed", a)
      BY <1>6 DEF okxDo, Codes
    <2>2. e.cls = "malformed" /\ e.st = 0 /\ ~Limited(e)
      BY <1>6, <2>1, BareFields
    <2>3. Judged(n, r, e) /\ r.ack = "Ambiguous" /\ r.kind = "Ambiguous"
      BY <1>1, <1>2, <2>2, CommandVerdict
    <2>4. QED
      BY <2>2, <2>3, UnreadVerdict, Lenient, Zenon DEF RefusalKinds, UnsentKinds
  <1>7. CASE Taken(a) \/ (a.st = 200 /\ a.body = "mismatch")
    BY <1>7, NoErrorFields DEF okxDo, Codes, Placed, Done, Taken
  <1>8. QED
    BY <1>3, <1>4, <1>5, <1>6, <1>7, AnswerCases, Zenon

LEMMA okxVerdict ==
    ASSUME NEW a \in Answers, NEW n, n = okxCommand(a)
    PROVE  Honest(n, a, TRUE) /\ (n.kind = "nil" => Taken(a))
  <1> DEFINE e == okxDo(a)
  <1>1. CASE e.cls # "none"
    <2>1. n = okxCommandTransportAck(e)
      BY <1>1 DEF okxCommand
    <2>2. QED
      BY <1>1, <2>1, okxFailure, Zenon
  <1>2. CASE e.cls = "none"
    <2>1. Taken(a) \/ a.body = "mismatch"
      <3>1. CASE a.st = 0
        BY <1>2, <3>1, Silent DEF okxDo
      <3>2. CASE a.st >= 400
        BY <1>2, <3>2, SdkFields DEF okxDo
      <3>3. CASE a.st = 200 /\ a.body \in Codes
        <4>1. e = SdkError(IF a.body = "throttle" THEN "limited" ELSE "api", a)
          BY <3>3 DEF okxDo, Codes
        <4>2. QED
          BY <1>2, <4>1, SdkFields
      <3>4. CASE a.st = 200 /\ a.body = "garbled"
        BY <1>2, <3>4, BareFields DEF okxDo, Codes
      <3>5. QED
        BY <3>1, <3>2, <3>3, <3>4, AnswerCases
    <2>2. n = (IF a.body = "mismatch" THEN Result("", "Malformed") ELSE Result("AcceptedPending", "nil"))
      BY <1>2, Zenon DEF okxCommand, okxCommandAck
    <2>3. /\ a.body = "mismatch" => n.kind # "nil" /\ classify(n) = "unknown"
          /\ a.body # "mismatch" => n.kind = "nil" /\ classify(n) = "accepted"
      BY <2>2, MalformedVerdict, AckVerdict, Zenon DEF Acks
    <2>4. QED
      BY <2>1, <2>3 DEF Honest
  <1>3. QED
    BY <1>1, <1>2, Zenon

-----------------------------------------------------------------------------
(* Binance.                                                                *)

LEMMA binanceCallCases ==
    ASSUME NEW a \in Answers, NEW e, e = binanceCall(a)
    PROVE  \/ a.st = 0 /\ e = DoHTTP(a)
           \/ a.st >= 400 /\ e.st = a.st /\ e.cls \in {"opaque", "limited", "auth", "api"}
           \/ a.st = 200 /\ e.st = 200 /\ e.cls = "malformed" /\ ~Limited(e)
           \/ a.st = 200 /\ e.cls = "none"
  <1>1. CASE a.st = 0
    BY <1>1 DEF binanceCall
  <1>2. CASE a.st >= 400
    <2> DEFINE cls == IF a.body = "garbled" THEN "opaque"
                      ELSE IF a.st = 429 \/ a.body = "throttle" THEN "limited"
                      ELSE IF a.st = 401 \/ a.body = "auth" THEN "auth"
                      ELSE "api"
    <2>1. e = SdkError(cls, a)
      BY <1>2 DEF binanceCall
    <2>2. cls \in {"opaque", "limited", "auth", "api"}
      OBVIOUS
    <2> HIDE DEF cls
    <2>3. QED
      BY <1>2, <2>1, <2>2, SdkFields
  <1>3. CASE a.st = 200 /\ a.body = "garbled"
    <2>1. e = SdkError("malformed", a)
      BY <1>3 DEF binanceCall
    <2>2. e.cls = "malformed" /\ e.st = a.st /\ (Limited(e) => a.st = 429)
      BY <2>1, SdkFields
    <2>3. QED
      BY <1>3, <2>2
  <1>4. CASE a.st = 200 /\ a.body # "garbled"
    BY <1>4, NoErrorFields DEF binanceCall
  <1>5. QED
    BY <1>1, <1>2, <1>3, <1>4, AnswerTypes

LEMMA binanceSpotFailure ==
    ASSUME NEW a \in Answers, NEW e, e = binanceCall(a), e.cls # "none",
           NEW n, n = binanceSpotCommandAck(e)
    PROVE  Honest(n, a, TRUE) /\ n.kind # "nil"
  <1> DEFINE k == CASE e.cls = "deadline" -> "Deadline"
                    [] e.cls = "auth" -> "Authentication"
                    [] e.cls = "limited" -> "RateLimit"
                    [] e.cls = "api" /\ e.st < 500 ->
                         IF e.code = "missing" \/ e.st = 404 THEN "NotFound" ELSE "VenueRejected"
                    [] OTHER -> "Transport"
             q == Result("", k)
             r == CASE binanceIsDefinitive(e) -> Result("Rejected", "VenueRejected")
                    [] e.cls \in {"transport", "deadline", "local"} -> Result("Ambiguous", "Ambiguous")
                    [] OTHER -> normalizeHTTPError(q, e)
  <1>1. n = normalizeHTTPCommand(r, e)
    BY Zenon DEF binanceSpotCommandAck, binanceSpotNormalizeErr
  <1>2. q.ack = "" /\ q.kind # "nil" /\ (e.cls = "malformed" => q.kind = "Transport")
    BY DEF Result
  <1>3. /\ binanceIsDefinitive(e) => r = Result("Rejected", "VenueRejected")
        /\ e.cls \in {"transport", "deadline", "local"} => r = Result("Ambiguous", "Ambiguous")
        /\ ~binanceIsDefinitive(e) /\ e.cls \notin {"transport", "deadline", "local"} =>
             r = normalizeHTTPError(q, e)
    BY Zenon DEF binanceIsDefinitive
  <1> HIDE DEF k, q, r
  <1>4. e.st \in Nat => r.kind # "nil"
    <2>1. CASE r = Result("Rejected", "VenueRejected")
      BY <2>1, ResultFields
    <2>2. CASE r = Result("Ambiguous", "Ambiguous")
      BY <2>2, ResultFields
    <2>3. CASE r = normalizeHTTPError(q, e)
      BY <1>2, <2>3, NormalizedError, Zenon
    <2>4. QED
      BY <1>3, <2>1, <2>2, <2>3
  <1>5. CASE a.st = 0 /\ e = DoHTTP(a)
    <2>1. e.st = 0 /\ e.cls \in {"local", "transport", "deadline"}
      BY <1>5, Silent
    <2>2. Judged(n, r, e) /\ r.ack = "Ambiguous" /\ r.kind = "Ambiguous"
      BY <1>1, <1>3, <1>4, <2>1, CommandVerdict, ResultFields
    <2>3. QED
      BY <1>5, <2>2, SilentVerdict, Lenient, Zenon DEF RefusalKinds, UnsentKinds
  <1>6. CASE a.st >= 400 /\ e.st = a.st /\ e.cls \in {"opaque", "limited", "auth", "api"}
    <2>1. Judged(n, r, e)
      BY <1>1, <1>4, <1>6, CommandVerdict, AnswerTypes
    <2>2. QED
      BY <1>6, <2>1, StatusVerdict, Zenon
  <1>7. CASE a.st = 200 /\ e.st = 200 /\ e.cls = "malformed" /\ ~Limited(e)
    <2>1. r = normalizeHTTPError(q, e)
      BY <1>3, <1>7 DEF binanceIsDefinitive
    <2>2. r.ack = "" /\ r.kind \in {"Transport", "Malformed", "RateLimit"}
      <3>1. e.st \in Nat
        BY <1>7
      <3>2. q.kind # "nil" /\ q.kind = "Transport" /\ q.ack = ""
        BY <1>2, <1>7, Zenon
      <3>3. QED
        BY <2>1, <3>1, <3>2, NormalizedError, Zenon
    <2>3. Judged(n, r, e)
      BY <1>1, <1>4, <1>7, CommandVerdict
    <2>4. r.ack # "Rejected" /\ r.kind \notin RefusalKinds /\ e.st # 0 /\ e.cls # "local" /\ ~Limited(e)
      <3>1. e.st # 0
        BY <1>7
      <3>2. e.cls # "local" /\ ~Limited(e)
        BY <1>7, Zenon
      <3>3. r.ack # "Rejected" /\ r.kind \notin RefusalKinds
        BY <2>2, Zenon DEF RefusalKinds
      <3>4. QED
        BY <3>1, <3>2, <3>3
    <2>5. Honest(n, a, FALSE) /\ n.kind # "nil"
      BY <2>3, <2>4, UnreadVerdict, Zenon
    <2>6. QED
      BY <2>5, Lenient, Zenon
  <1>8. \/ a.st = 0 /\ e = DoHTTP(a)
        \/ a.st >= 400 /\ e.st = a.st /\ e.cls \in {"opaque", "limited", "auth", "api"}
        \/ a.st = 200 /\ e.st = 200 /\ e.cls = "malformed" /\ ~Limited(e)
        \/ a.st = 200 /\ e.cls = "none"
    BY binanceCallCases
  <1>9. QED
    BY <1>5, <1>6, <1>7, <1>8, Zenon

LEMMA binanceSpotPlaceVerdict ==
    ASSUME NEW a \in Answers, NEW t, NEW n, n = binanceSpotPlace(a, t)
    PROVE  Honest(n, a, TRUE)
  <1> DEFINE e == binanceCall(a)
  <1>1. CASE e.cls # "none"
    <2>1. n = binanceSpotCommandAck(e)
      BY <1>1 DEF binanceSpotPlace
    <2>2. QED
      BY <1>1, <2>1, binanceSpotFailure, Zenon
  <1>2. CASE e.cls = "none"
    <2>1. a.st = 200
      BY <1>2, binanceCallCases, Silent
    <2>2. \/ a.body \in Done /\ \E ack \in Acks : n = Validated(ack, t)
          \/ n = Result("", "Malformed")
      BY <1>2, Zenon DEF binanceSpotPlace, Done, Acks
    <2>3. CASE n = Result("", "Malformed")
      BY <2>3, MalformedVerdict, Zenon DEF Honest
    <2>4. CASE a.body \in Done /\ \E ack \in Acks : n = Validated(ack, t)
      <3>1. classify(n) \in {"accepted", "unknown"}
        BY <2>4, ValidatedVerdict
      <3>2. QED
        BY <2>1, <2>4, <3>1 DEF Honest, Taken, Placed
    <2>5. QED
      BY <2>2, <2>3, <2>4, Zenon
  <1>3. QED
    BY <1>1, <1>2, Zenon

LEMMA binanceSpotCancelVerdict ==
    ASSUME NEW a \in Answers, NEW n, n = binanceSpotCancel(a), n.kind = "nil"
    PROVE  Taken(a)
  <1> DEFINE e == binanceCall(a)
  <1>1. e.cls = "none"
    BY binanceSpotFailure, Zenon DEF binanceSpotCancel
  <1>2. a.st = 200
    BY <1>1, binanceCallCases, Silent
  <1>3. a.body \in Placed
    BY <1>1, MalformedVerdict, Zenon DEF binanceSpotCancel
  <1>4. QED
    BY <1>2, <1>3 DEF Taken

LEMMA binancePerpFailure ==
    ASSUME NEW a \in Answers, NEW e, e = binanceCall(a), e.cls # "none",
           NEW n, n = binancePerpCommandErrorAck(e)
    PROVE  Honest(n, a, TRUE) /\ n.kind # "nil"
  <1> DEFINE k == CASE e.cls = "deadline" -> "Deadline"
                    [] e.cls = "auth" -> "Authentication"
                    [] e.cls = "limited" -> "RateLimit"
                    [] e.cls = "api" /\ e.st < 500 ->
                         IF e.st = 404 \/ e.code = "missing" THEN "NotFound" ELSE "VenueRejected"
                    [] OTHER -> "Transport"
             q == Result("", k)
             r == CASE binanceIsDefinitive(e) -> Result("Rejected", "VenueRejected")
                    [] e.cls \in {"api", "limited", "auth"} /\ ~binanceIsDefinitive(e) ->
                         normalizeHTTPError(q, e)
                    [] OTHER -> Result("Ambiguous", "Ambiguous")
  <1>1. n = normalizeHTTPCommand(r, e)
    BY Zenon DEF binancePerpCommandErrorAck, binancePerpNormalizeError
  <1>2. q.kind # "nil"
    BY DEF Result
  <1>3. /\ r \in {Result("Rejected", "VenueRejected"), Result("Ambiguous", "Ambiguous"),
                  normalizeHTTPError(q, e)}
        /\ e.cls \notin {"api", "limited", "auth"} => r = Result("Ambiguous", "Ambiguous")
    BY Zenon DEF binanceIsDefinitive
  <1> HIDE DEF k, q, r
  <1>4. /\ e.st \in Nat => r.kind # "nil"
        /\ e.cls \notin {"api", "limited", "auth"} => r.ack = "Ambiguous" /\ r.kind = "Ambiguous"
    BY <1>2, <1>3, ResultFields, NormalizedError
  <1>5. CASE a.st = 0 /\ e = DoHTTP(a)
    <2>1. e.st = 0 /\ e.cls \in {"local", "transport", "deadline"}
      BY <1>5, Silent
    <2>2. Judged(n, r, e) /\ r.ack = "Ambiguous" /\ r.kind = "Ambiguous"
      BY <1>1, <1>4, <2>1, CommandVerdict
    <2>3. QED
      BY <1>5, <2>2, SilentVerdict, Lenient, Zenon DEF RefusalKinds, UnsentKinds
  <1>6. CASE a.st >= 400 /\ e.st = a.st /\ e.cls \in {"opaque", "limited", "auth", "api"}
    <2>1. Judged(n, r, e)
      BY <1>1, <1>4, <1>6, CommandVerdict, AnswerTypes
    <2>2. QED
      BY <1>6, <2>1, StatusVerdict, Zenon
  <1>7. CASE a.st = 200 /\ e.st = 200 /\ e.cls = "malformed" /\ ~Limited(e)
    <2>1. Judged(n, r, e) /\ r.ack = "Ambiguous" /\ r.kind = "Ambiguous"
      BY <1>1, <1>4, <1>7, CommandVerdict
    <2>2. r.ack # "Rejected" /\ r.kind \notin RefusalKinds /\ e.st # 0 /\ e.cls # "local" /\ ~Limited(e)
      BY <1>7, <2>1 DEF RefusalKinds
    <2>3. Honest(n, a, FALSE) /\ n.kind # "nil"
      BY <2>1, <2>2, UnreadVerdict, Zenon
    <2>4. QED
      BY <2>3, Lenient, Zenon
  <1>8. \/ a.st = 0 /\ e = DoHTTP(a)
        \/ a.st >= 400 /\ e.st = a.st /\ e.cls \in {"opaque", "limited", "auth", "api"}
        \/ a.st = 200 /\ e.st = 200 /\ e.cls = "malformed" /\ ~Limited(e)
        \/ a.st = 200 /\ e.cls = "none"
    BY binanceCallCases
  <1>9. QED
    BY <1>5, <1>6, <1>7, <1>8, Zenon

LEMMA binancePerpPlaceVerdict ==
    ASSUME NEW a \in Answers, NEW t, NEW n, n = binancePerpOrderAck(a, t)
    PROVE  Honest(n, a, TRUE)
  <1> DEFINE e == binanceCall(a)
  <1>1. CASE e.cls # "none"
    <2>1. n = binancePerpCommandErrorAck(e)
      BY <1>1 DEF binancePerpOrderAck
    <2>2. QED
      BY <1>1, <2>1, binancePerpFailure, Zenon
  <1>2. CASE e.cls = "none"
    <2>1. a.st = 200
      BY <1>2, binanceCallCases, Silent
    <2>2. \/ a.body \in Done /\ \E ack \in Acks : n = Validated(ack, t)
          \/ n = Result("", "Malformed")
      BY <1>2, Zenon DEF binancePerpOrderAck, Done, Acks
    <2>3. CASE n = Result("", "Malformed")
      BY <2>3, MalformedVerdict, Zenon DEF Honest
    <2>4. CASE a.body \in Done /\ \E ack \in Acks : n = Validated(ack, t)
      <3>1. classify(n) \in {"accepted", "unknown"}
        BY <2>4, ValidatedVerdict
      <3>2. QED
        BY <2>1, <2>4, <3>1 DEF Honest, Taken, Placed
    <2>5. QED
      BY <2>2, <2>3, <2>4, Zenon
  <1>3. QED
    BY <1>1, <1>2, Zenon

LEMMA binancePerpCancelVerdict ==
    ASSUME NEW a \in Answers, NEW n, n = binancePerpCancel(a), n.kind = "nil"
    PROVE  Taken(a)
  <1> DEFINE e == binanceCall(a)
  <1>1. e.cls = "none"
    BY binancePerpFailure, Zenon DEF binancePerpCancel
  <1>2. a.st = 200
    BY <1>1, binanceCallCases, Silent
  <1>3. a.body \in Placed
    BY <1>1, MalformedVerdict, Zenon DEF binancePerpCancel
  <1>4. QED
    BY <1>2, <1>3 DEF Taken

-----------------------------------------------------------------------------
(* Bybit and Bitget.                                                       *)

LEMMA NormalizedShape ==
    ASSUME NEW e, NEW r, NEW n, n = normalizeHTTPError(r, e), r.kind # "nil"
    PROVE  n = [ack |-> n.ack, kind |-> n.kind, st |-> n.st, notSent |-> n.notSent]
  BY DEF normalizeHTTPError

\* What Post returns, to both SDKs' callers.
PostCases(a, e) ==
    \/ a.st = 0 /\ e = DoHTTP(a)
    \/ a.st >= 400 /\ e.st = a.st /\ e.cls \in {"api", "malformed", "opaque", "limited"}
    \/ a.st = 200 /\ a.body \in Codes /\ e.st = 200 /\ e.cls = "api"
    \/ a.st = 200 /\ e.st = 200 /\ e.cls = "malformed"
    \/ a.st = 200 /\ e.cls = "mismatch"
    \/ Taken(a) /\ e.cls = "none"

LEMMA ApiFields ==
    ASSUME NEW a \in Answers, NEW l, NEW e, e = [SdkError("api", a) EXCEPT !.limited = l]
    PROVE  e.cls = "api" /\ e.code = a.body /\ e.st = a.st
  BY DEF SdkError

LEMMA bybitPostCases ==
    ASSUME NEW a \in Answers, NEW e, e = bybitPost(a)
    PROVE  PostCases(a, e)
  <1>1. CASE a.st = 0
    BY <1>1 DEF bybitPost, PostCases
  <1>2. CASE a.st # 0 /\ a.body \in Codes
    <2>1. e.cls = "api" /\ e.st = a.st
      BY <1>2, ApiFields DEF bybitPost, Codes, SdkError
    <2>2. QED
      BY <1>2, <2>1, AnswerTypes DEF PostCases
  <1>3. CASE a.st # 0 /\ a.body = "garbled"
    <2>1. e = SdkError("malformed", a)
      BY <1>3 DEF bybitPost, Codes
    <2>2. e.cls = "malformed" /\ e.st = a.st
      BY <2>1, SdkFields
    <2>3. QED
      BY <1>3, <2>2, AnswerTypes DEF PostCases
  <1>4. CASE a.st = 200 /\ a.body = "mismatch"
    <2>1. e = Bare("mismatch", a)
      BY <1>4 DEF bybitPost, Codes
    <2>2. e.cls = "mismatch"
      BY <1>4, <2>1, BareFields
    <2>3. QED
      BY <1>4, <2>2 DEF PostCases
  <1>5. CASE Taken(a)
    <2>1. e = NoError
      BY <1>5 DEF bybitPost, Codes, Taken, Placed, Done
    <2>2. QED
      BY <1>5, <2>1, NoErrorFields DEF PostCases
  <1>6. QED
    <2>1. a.st # 0 /\ a.body \notin Codes /\ a.body # "garbled" => a.st < 400
      BY AnswerTypes
    <2>2. QED
      BY <1>1, <1>2, <1>3, <1>4, <1>5, <2>1, AnswerCases, AnswerTypes

LEMMA bitgetPostCases ==
    ASSUME NEW a \in Answers, NEW e, e = bitgetPost(a)
    PROVE  PostCases(a, e)
  <1>1. CASE a.st = 0
    BY <1>1 DEF bitgetPost, PostCases
  <1>2. CASE a.st = 429
    <2>1. e = SdkError("limited", a)
      BY <1>2 DEF bitgetPost
    <2>2. e.cls = "limited" /\ e.st = a.st
      BY <2>1, SdkFields
    <2>3. QED
      BY <1>2, <2>2 DEF PostCases
  <1>3. CASE a.st \notin {0, 429} /\ a.body \in Codes
    <2>1. e = [SdkError("api", a) EXCEPT !.limited = (a.body = "throttle")]
      BY <1>3 DEF bitgetPost, Codes
    <2>2. e.cls = "api" /\ e.st = a.st
      BY <2>1 DEF SdkError
    <2>3. QED
      BY <1>3, <2>2, AnswerTypes DEF PostCases
  <1>4. CASE a.st \notin {0, 429} /\ a.body = "garbled"
    <2>1. e = SdkError(IF a.st >= 300 THEN "opaque" ELSE "malformed", a)
      BY <1>4 DEF bitgetPost, Codes
    <2>2. e.cls = (IF a.st >= 300 THEN "opaque" ELSE "malformed") /\ e.st = a.st
      BY <2>1, SdkFields
    <2>3. QED
      BY <1>4, <2>2, AnswerTypes DEF PostCases
  <1>5. CASE a.st = 200 /\ a.body = "mismatch"
    <2>1. e = Bare("mismatch", a)
      BY <1>5 DEF bitgetPost, Codes
    <2>2. e.cls = "mismatch"
      BY <1>5, <2>1, BareFields
    <2>3. QED
      BY <1>5, <2>2 DEF PostCases
  <1>6. CASE Taken(a)
    <2>1. e = NoError
      BY <1>6 DEF bitgetPost, Codes, Taken, Placed, Done
    <2>2. QED
      BY <1>6, <2>1, NoErrorFields DEF PostCases
  <1>7. QED
    <2>1. a.st # 0 /\ a.body \notin Codes /\ a.body # "garbled" => a.st < 400
      BY AnswerTypes
    <2>2. QED
      BY <1>1, <1>2, <1>3, <1>4, <1>5, <1>6, <2>1, AnswerCases, AnswerTypes

\* The adapter's error of a read or of a command.
LEMMA normErrFields ==
    ASSUME NEW e, e.st \in Nat, NEW r, r = normErr(e)
    PROVE  /\ r = [ack |-> r.ack, kind |-> r.kind, st |-> r.st, notSent |-> r.notSent]
           /\ r.kind # "nil"
           /\ e.cls \notin {"api", "local"} => r.kind \notin RefusalKinds
           /\ e.cls \notin {"api", "local"} /\ e.st = 0 /\ ~Limited(e) => r.kind \notin UnsentKinds
  <1> DEFINE k == CASE e.cls = "deadline" -> "Deadline"
                    [] e.cls = "api" -> classifyCode(e.code)
                    [] OTHER -> "Transport"
             q == Result("", k)
  <1>1. r = normalizeHTTPError(q, e)
    BY Zenon DEF normErr
  <1>2. q.kind # "nil" /\ (e.cls # "api" => q.kind \in {"Deadline", "Transport"})
    BY DEF Result, classifyCode
  <1> HIDE DEF q
  <1>3. /\ r = [ack |-> r.ack, kind |-> r.kind, st |-> r.st, notSent |-> r.notSent]
        /\ r.kind # "nil"
    BY <1>1, <1>2, NormalizedShape, NormalizedError
  <1>4. /\ r.kind \in {q.kind, "Malformed", "Transport", "RateLimit"}
        /\ e.cls # "local" /\ e.st < 429 /\ r.kind = "RateLimit" =>
                q.kind = "RateLimit" \/ (Limited(e) /\ q.kind # "Ambiguous")
    BY <1>1, <1>2, NormalizedError
  <1>5. e.cls \notin {"api", "local"} => r.kind \notin RefusalKinds
    BY <1>2, <1>4 DEF RefusalKinds
  <1>6. ASSUME e.cls \notin {"api", "local"}, e.st = 0, ~Limited(e)
        PROVE  r.kind \notin UnsentKinds
    <2>1. r.kind # "RateLimit"
      BY <1>2, <1>4, <1>6
    <2>2. QED
      BY <1>2, <1>4, <1>6, <2>1 DEF UnsentKinds
  <1>7. QED
    BY <1>3, <1>5, <1>6

LEMMA commandAckVerdict ==
    ASSUME NEW a \in Answers, NEW e, PostCases(a, e), e.cls \notin {"none", "mismatch"},
           NEW d \in BOOLEAN, d => e.cls = "api" /\ e.st \notin {429, 500},
           NEW n, n = commandAck(e, d)
    PROVE  Honest(n, a, TRUE)
  <1>1. CASE d
    <2>1. n = Result("Rejected", "nil")
      BY <1>1 DEF commandAck, normalizeHTTPCommand, normalizeHTTPError, Result
    <2>2. classify(n) = "rejected"
      BY <2>1, ResultFields DEF classify
    <2>3. a.st # 0
      BY <1>1, Silent DEF PostCases
    <2>4. e.st = a.st
      BY <1>1, <2>3 DEF PostCases
    <2>5. a.st \in {400, 401, 404} \/ (a.st = 200 /\ a.body \in Codes)
      <3>1. a.st = 200 \/ a.st \in {400, 401, 404}
        BY <1>1, <2>3, <2>4, AnswerTypes
      <3>2. a.st = 200 => a.body \in Codes
        BY <1>1 DEF PostCases
      <3>3. QED
        BY <3>1, <3>2
    <2>6. QED
      BY <2>2, <2>5 DEF Honest, Refused
  <1>2. CASE ~d
    <2> DEFINE q == normErr(e)
               r == [q EXCEPT !.ack = "Ambiguous"]
    <2>1. n = normalizeHTTPCommand(r, e)
      BY <1>2 DEF commandAck
    <2>2. e.st \in Nat
      BY Silent, AnswerTypes DEF PostCases
    <2>3. /\ q = [ack |-> q.ack, kind |-> q.kind, st |-> q.st, notSent |-> q.notSent]
          /\ q.kind # "nil"
          /\ e.cls \notin {"api", "local"} => q.kind \notin RefusalKinds
          /\ e.cls \notin {"api", "local"} /\ e.st = 0 /\ ~Limited(e) => q.kind \notin UnsentKinds
      BY <2>2, normErrFields
    <2> HIDE DEF q
    <2>4. r.ack = "Ambiguous" /\ r.kind = q.kind
      BY <2>3
    <2> HIDE DEF r
    <2>5. Judged(n, r, e)
      BY <2>1, <2>2, <2>3, <2>4, CommandVerdict
    <2>6. CASE a.st = 0 /\ e = DoHTTP(a)
      <3>1. /\ e.st = 0 /\ e.cls # "api"
            /\ e.cls = "local" <=> a.body = "local"
            /\ Limited(e) => a.body = "local"
        BY <2>6, Silent
      <3>2. a.body # "local" => r.ack # "Rejected" /\ r.kind \notin RefusalKinds \cup UnsentKinds
        BY <2>3, <2>4, <3>1
      <3>3. Honest(n, a, FALSE)
        BY <2>5, <2>6, <3>2, SilentVerdict, Zenon
      <3>4. QED
        BY <3>3, Lenient, Zenon
    <2>7. CASE a.st >= 400 /\ e.st = a.st /\ e.cls \in {"api", "malformed", "opaque", "limited"}
      BY <2>5, <2>7, StatusVerdict, Zenon
    <2>8. CASE a.st = 200 /\ a.body \in Codes
      BY <2>5, <2>8 DEF Honest, Judged, Refused
    <2>9. CASE a.st = 200 /\ e.st = 200 /\ e.cls = "malformed"
      <3>1. e.st \notin {0, 429, 500}
        BY <2>9
      <3>2. e.cls \notin {"api", "local"}
        BY <2>9, Zenon
      <3>3. r.ack # "Rejected" /\ r.kind \notin RefusalKinds
        BY <2>3, <2>4, <3>2
      <3>4. classify(n) = "unknown"
        BY <2>5, <3>1, <3>2, <3>3 DEF Judged
      <3>5. QED
        BY <3>4 DEF Honest
    <2>10. QED
      BY <2>6, <2>7, <2>8, <2>9, Zenon DEF PostCases
  <1>3. QED
    BY <1>1, <1>2, Zenon

LEMMA bybitPlaceVerdict ==
    ASSUME NEW a \in Answers, NEW n, n = bybitPlace(a)
    PROVE  Honest(n, a, TRUE)
  <1> DEFINE e == bybitPost(a)
  <1>1. PostCases(a, e)
    BY bybitPostCases
  <1>2. CASE e.cls = "mismatch"
    BY <1>2, MalformedVerdict, Zenon DEF bybitPlace, Honest
  <1>3. CASE e.cls = "none"
    <2>1. Taken(a)
      BY <1>1, <1>3, Silent DEF PostCases
    <2>2. n = Result("AcceptedPending", "nil")
      BY <1>3 DEF bybitPlace
    <2>3. QED
      BY <2>1, <2>2, AckVerdict DEF Honest, Acks
  <1>4. CASE e.cls \notin {"none", "mismatch"}
    <2>1. n = commandAck(e, bybitIsDefinitive(e))
      BY <1>4, Zenon DEF bybitPlace
    <2>2. /\ bybitIsDefinitive(e) \in BOOLEAN
          /\ bybitIsDefinitive(e) => e.cls = "api" /\ e.st \notin {429, 500}
      BY DEF bybitIsDefinitive
    <2> HIDE DEF e
    <2>3. QED
      BY <1>1, <1>4, <2>1, <2>2, commandAckVerdict, ZenonT(30)
  <1>5. QED
    BY <1>2, <1>3, <1>4, Zenon

LEMMA bitgetPlaceVerdict ==
    ASSUME NEW a \in Answers, NEW n, n = bitgetPlace(a)
    PROVE  Honest(n, a, TRUE)
  <1> DEFINE e == bitgetPost(a)
  <1>1. PostCases(a, e)
    BY bitgetPostCases
  <1>2. CASE e.cls = "mismatch"
    BY <1>2, MalformedVerdict, Zenon DEF bitgetPlace, Honest
  <1>3. CASE e.cls = "none"
    <2>1. Taken(a)
      BY <1>1, <1>3, Silent DEF PostCases
    <2>2. n = Result("AcceptedPending", "nil")
      BY <1>3 DEF bitgetPlace
    <2>3. QED
      BY <2>1, <2>2, AckVerdict DEF Honest, Acks
  <1>4. CASE e.cls \notin {"none", "mismatch"}
    <2>1. n = commandAck(e, bitgetIsDefinitive(e))
      BY <1>4, Zenon DEF bitgetPlace
    <2>2. /\ bitgetIsDefinitive(e) \in BOOLEAN
          /\ bitgetIsDefinitive(e) => e.cls = "api" /\ e.st \notin {429, 500}
      BY DEF bitgetIsDefinitive
    <2> HIDE DEF e
    <2>3. QED
      BY <1>1, <1>4, <2>1, <2>2, commandAckVerdict, ZenonT(30)
  <1>5. QED
    BY <1>2, <1>3, <1>4, Zenon

-----------------------------------------------------------------------------
(* Gate.                                                                   *)

LEMMA gateDoCases ==
    ASSUME NEW a \in Answers, NEW e, e = gateDo(a)
    PROVE  \/ a.st = 0 /\ e = DoHTTP(a)
           \/ a.st >= 400 /\ e.st = a.st /\ e.cls = "api" /\ e.code = a.body
           \/ a.st = 200 /\ e.st = 200 /\ e.cls = "malformed" /\ ~Limited(e)
           \/ a.st = 200 /\ e.st = 0 /\ e.cls = "mismatch" /\ ~Limited(e)
           \/ a.st = 200 /\ e.cls = "none" /\ (a.body \in Codes \/ Taken(a))
  <1>1. CASE a.st = 0
    BY <1>1 DEF gateDo
  <1>2. CASE a.st >= 400
    <2>1. e = SdkError("api", a)
      BY <1>2, AnswerTypes DEF gateDo
    <2>2. e.cls = "api" /\ e.st = a.st /\ e.code = a.body
      BY <2>1, SdkFields
    <2>3. QED
      BY <1>2, <2>2
  <1>3. CASE a.st = 200 /\ a.body = "garbled"
    <2>1. e = SdkError("malformed", a)
      BY <1>3 DEF gateDo
    <2>2. e.cls = "malformed" /\ e.st = a.st /\ (Limited(e) => a.st = 429)
      BY <2>1, SdkFields
    <2>3. QED
      BY <1>3, <2>2
  <1>4. CASE a.st = 200 /\ a.body = "mismatch"
    <2>1. e = Bare("mismatch", a)
      BY <1>4 DEF gateDo
    <2>2. e.cls = "mismatch" /\ e.st = 0 /\ ~Limited(e)
      BY <1>4, <2>1, BareFields
    <2>3. QED
      BY <1>4, <2>2
  <1>5. CASE a.st = 200 /\ a.body \in Codes
    <2>1. e = NoError
      BY <1>5 DEF gateDo, Codes
    <2>2. QED
      BY <1>5, <2>1, NoErrorFields
  <1>6. CASE Taken(a)
    <2>1. e = NoError /\ a.st = 200
      BY <1>6 DEF gateDo, Taken, Placed, Done
    <2>2. QED
      BY <1>6, <2>1, NoErrorFields
  <1>7. QED
    BY <1>1, <1>2, <1>3, <1>4, <1>5, <1>6, AnswerCases

LEMMA gateFailure ==
    ASSUME NEW a \in Answers, NEW e, e = gateDo(a), e.cls # "none", NEW n, n = gateCommandErr(e)
    PROVE  Honest(n, a, FALSE) /\ n.kind # "nil"
  <1> DEFINE k == CASE e.cls = "deadline" -> "Deadline"
                    [] e.cls = "api" -> (CASE e.st = 401 -> "Authentication"
                                           [] e.st = 404 -> "NotFound"
                                           [] e.st = 429 -> "RateLimit"
                                           [] OTHER -> "VenueRejected")
                    [] OTHER -> "Transport"
             p == Result("", k)
             q == normalizeHTTPError(p, e)
             r == CASE e.cls = "mismatch" -> Result("Ambiguous", "Metadata")
                    [] gateIsDefinitive(e) -> [q EXCEPT !.ack = "Rejected"]
                    [] OTHER -> Result("Ambiguous", "Ambiguous")
  <1>1. n = normalizeHTTPCommand(r, e)
    BY Zenon DEF gateCommandErr, gateNormalizeErr
  <1>2. p.kind # "nil"
    BY DEF Result
  <1>3. /\ e.cls = "mismatch" => r = Result("Ambiguous", "Metadata")
        /\ gateIsDefinitive(e) => r = [q EXCEPT !.ack = "Rejected"]
        /\ e.cls # "mismatch" /\ ~gateIsDefinitive(e) => r = Result("Ambiguous", "Ambiguous")
    BY Zenon DEF gateIsDefinitive
  <1> HIDE DEF k, p, r
  <1>4. /\ q = [ack |-> q.ack, kind |-> q.kind, st |-> q.st, notSent |-> q.notSent]
        /\ e.st \in Nat => q.kind # "nil"
    BY <1>2, NormalizedShape, NormalizedError
  <1> HIDE DEF q
  <1>5. /\ e.cls = "mismatch" => r.ack = "Ambiguous" /\ r.kind = "Metadata"
        /\ e.cls # "mismatch" /\ ~gateIsDefinitive(e) => r.ack = "Ambiguous" /\ r.kind = "Ambiguous"
    BY <1>3, ResultFields
  <1>6. e.st \in Nat => r.kind # "nil"
    <2>1. gateIsDefinitive(e) => r.kind = q.kind
      BY <1>3, <1>4
    <2>2. QED
      BY <1>4, <1>5, <2>1
  <1>7. CASE a.st = 0 /\ e = DoHTTP(a)
    <2>1. e.st = 0 /\ e.cls \in {"local", "transport", "deadline"}
      BY <1>7, Silent
    <2>2. r.ack = "Ambiguous" /\ r.kind = "Ambiguous"
      BY <1>5, <2>1 DEF gateIsDefinitive
    <2>3. Judged(n, r, e)
      BY <1>1, <1>6, <2>1, CommandVerdict
    <2>4. QED
      BY <1>7, <2>2, <2>3, SilentVerdict, Zenon DEF RefusalKinds, UnsentKinds
  <1>8. CASE a.st >= 400 /\ e.st = a.st /\ e.cls = "api" /\ e.code = a.body
    <2>1. Judged(n, r, e)
      BY <1>1, <1>6, <1>8, CommandVerdict, AnswerTypes
    <2>2. Honest(n, a, TRUE) /\ n.kind # "nil"
      BY <1>8, <2>1, StatusVerdict, Zenon
    <2>3. CASE a.body = "temp"
      <3>1. ~gateIsDefinitive(e)
        BY <1>8, <2>3 DEF gateIsDefinitive
      <3>2. r.ack = "Ambiguous" /\ r.kind = "Ambiguous"
        BY <1>5, <1>8, <3>1
      <3>3. e.st # 0
        BY <1>8
      <3>4. e.cls # "local"
        BY <1>8
      <3>5. classify(n) = "unknown"
        BY <2>1, <3>2, <3>3, <3>4 DEF Judged, RefusalKinds
      <3>6. QED
        BY <2>2, <3>5 DEF Honest
    <2>4. CASE a.body # "temp"
      BY <2>2, <2>4 DEF Honest
    <2>5. QED
      BY <2>3, <2>4, Zenon
  <1>9. CASE a.st = 200 /\ e.st = 200 /\ e.cls = "malformed" /\ ~Limited(e)
    <2>1. e.st \in Nat
      BY <1>9
    <2>2. e.cls # "local" /\ e.cls # "mismatch" /\ e.cls # "api" /\ ~Limited(e)
      BY <1>9, Zenon
    <2>3. r.ack = "Ambiguous" /\ r.kind = "Ambiguous"
      BY <1>5, <2>2 DEF gateIsDefinitive
    <2>4. Judged(n, r, e)
      BY <1>1, <1>6, <2>1, CommandVerdict
    <2>5. QED
      BY <2>2, <2>3, <2>4, UnreadVerdict, Zenon DEF RefusalKinds, UnsentKinds
  <1>10. CASE a.st = 200 /\ e.st = 0 /\ e.cls = "mismatch" /\ ~Limited(e)
    <2>1. e.st \in Nat
      BY <1>10
    <2>2. e.cls # "local" /\ ~Limited(e)
      BY <1>10, Zenon
    <2>3. r.ack = "Ambiguous" /\ r.kind = "Metadata"
      BY <1>5, <1>10, Zenon
    <2>4. Judged(n, r, e)
      BY <1>1, <1>6, <2>1, CommandVerdict
    <2>5. QED
      BY <2>2, <2>3, <2>4, UnreadVerdict, Zenon DEF RefusalKinds, UnsentKinds
  <1>11. QED
    <2>1. \/ a.st = 0 /\ e = DoHTTP(a)
          \/ a.st >= 400 /\ e.st = a.st /\ e.cls = "api" /\ e.code = a.body
          \/ a.st = 200 /\ e.st = 200 /\ e.cls = "malformed" /\ ~Limited(e)
          \/ a.st = 200 /\ e.st = 0 /\ e.cls = "mismatch" /\ ~Limited(e)
      BY gateDoCases
    <2>2. QED
      BY <1>7, <1>8, <1>9, <1>10, <2>1, ZenonT(30)

LEMMA gateNoFailure ==
    ASSUME NEW a \in Answers, gateDo(a).cls = "none"
    PROVE  a.body \in Codes \/ Taken(a)
  BY gateDoCases, Silent

LEMMA gatePlaceVerdict ==
    ASSUME NEW a \in Answers, NEW t, NEW n, n = gatePlace(a, t)
    PROVE  Honest(n, a, FALSE)
  <1> DEFINE e == gateDo(a)
  <1>1. CASE e.cls # "none"
    <2>1. n = gateCommandErr(e)
      BY <1>1 DEF gatePlace
    <2>2. QED
      BY <1>1, <2>1, gateFailure, Zenon
  <1>2. CASE e.cls = "none" /\ a.body \in Codes
    <2>1. n = Result("", "Malformed")
      BY <1>2, Zenon DEF gatePlace
    <2>2. QED
      BY <2>1, MalformedVerdict, Zenon DEF Honest
  <1>3. CASE e.cls = "none" /\ a.body \notin Codes
    <2>1. Taken(a)
      BY <1>3, gateNoFailure
    <2>2. n = Validated(gateAckFromOrder(a.body, t), t) /\ gateAckFromOrder(a.body, t) \in Acks
      BY <1>3 DEF gatePlace, gateAckFromOrder, Acks
    <2>3. classify(n) \in {"accepted", "unknown"}
      BY <2>2, ValidatedVerdict
    <2>4. QED
      BY <2>1, <2>3 DEF Honest
  <1>4. QED
    BY <1>1, <1>2, <1>3, Zenon

LEMMA gateCancelVerdict ==
    ASSUME NEW a \in Answers, NEW n, n = gateCancel(a), n.kind = "nil"
    PROVE  Taken(a)
  <1>1. gateDo(a).cls = "none"
    BY gateFailure, Zenon DEF gateCancel
  <1>2. a.body \notin Codes
    BY <1>1, MalformedVerdict, Zenon DEF gateCancel
  <1>3. QED
    BY <1>1, <1>2, gateNoFailure

-----------------------------------------------------------------------------
(* Hyperliquid.                                                            *)

LEMMA hlPostCases ==
    ASSUME NEW a \in Answers, NEW e, e = hlPost(a)
    PROVE  \/ a.st = 0 /\ e = DoHTTP(a)
           \/ a.st >= 400 /\ e.st = a.st /\ e.cls \in {"opaque", "limited", "api"}
           \/ a.st = 200 /\ a.body \in Codes \ {"temp"} /\ e.st = 0 /\ e.cls = "rejected" /\ ~Limited(e)
           \/ a.st = 200 /\ e.st = 0 /\ e.cls \in {"opaque", "malformed"} /\ ~Limited(e)
           \/ Taken(a) /\ e.cls = "none"
  <1>1. CASE a.st = 0
    BY <1>1 DEF hlPost
  <1>2. CASE a.st >= 400
    <2> DEFINE cls == IF a.body = "garbled" THEN "opaque"
                      ELSE IF a.st = 429 \/ a.body = "throttle" THEN "limited"
                      ELSE "api"
    <2>1. e = SdkError(cls, a)
      BY <1>2, AnswerTypes DEF hlPost
    <2>2. cls \in {"opaque", "limited", "api"}
      OBVIOUS
    <2> HIDE DEF cls
    <2>3. e.cls = cls /\ e.st = a.st
      BY <2>1, SdkFields
    <2>4. QED
      BY <1>2, <2>2, <2>3
  <1>3. CASE a.st = 200 /\ a.body \in {"reject", "param", "missing"}
    <2>1. e = Bare("rejected", a) /\ a.body \in Codes \ {"temp"}
      BY <1>3 DEF hlPost, Codes
    <2>2. e.cls = "rejected" /\ e.st = 0 /\ ~Limited(e)
      BY <1>3, <2>1, BareFields
    <2>3. QED
      BY <1>3, <2>1, <2>2
  <1>4. CASE a.st = 200 /\ a.body \in {"auth", "throttle", "temp"}
    <2>1. e = Bare("opaque", a)
      BY <1>4 DEF hlPost
    <2>2. e.cls = "opaque" /\ e.st = 0 /\ ~Limited(e)
      BY <1>4, <2>1, BareFields
    <2>3. QED
      BY <1>4, <2>2
  <1>5. CASE a.st = 200 /\ a.body \in {"garbled", "mismatch"}
    <2>1. e = Bare("malformed", a)
      BY <1>5 DEF hlPost
    <2>2. e.cls = "malformed" /\ e.st = 0 /\ ~Limited(e)
      BY <1>5, <2>1, BareFields
    <2>3. QED
      BY <1>5, <2>2
  <1>6. CASE Taken(a)
    <2>1. e = NoError
      BY <1>6 DEF hlPost, Taken, Placed, Done
    <2>2. QED
      BY <1>6, <2>1, NoErrorFields
  <1>7. QED
    BY <1>1, <1>2, <1>3, <1>4, <1>5, <1>6, AnswerCases DEF Codes

\* The adapter's view of an error depends on the status the tracker saw.
hlView(r, e, st) ==
    /\ r.kind # "nil"
    /\ e.cls = "rejected" \/ r.ack # "Rejected"
    /\ e.cls = "rejected" \/ st = 401 \/ r.kind \notin RefusalKinds
    /\ st \in {0, 200} /\ e.cls # "rejected" /\ ~Limited(e) => r.kind \notin UnsentKinds

LEMMA hlViewed ==
    ASSUME NEW e, NEW st \in Nat, NEW t, NEW n, n = hlMutationErr(e, st, t)
    PROVE  \E r : n = normalizeHTTPCommand(r, e) /\ hlView(r, e, st)
  <1> DEFINE r == IF e.cls = "rejected" THEN Result("Rejected", "VenueRejected")
                  ELSE IF st < 400 /\ e.limited THEN Result("", "RateLimit")
                  ELSE IF st < 400 /\ e.cls = "malformed" /\ t = "limit" THEN Result("", "Malformed")
                  ELSE CASE st = 401 -> Result("", "Authentication")
                         [] st = 429 -> Result("", "RateLimit")
                         [] st = 404 -> Result("", "NotFound")
                         [] st = 400 -> Result("", "InvalidRequest")
                         [] OTHER -> Result("Ambiguous", "Ambiguous")
  <1>1. n = normalizeHTTPCommand(r, e)
    BY Zenon DEF hlMutationErr
  <1>2. /\ r.kind # "nil"
        /\ e.cls = "rejected" \/ r.ack # "Rejected"
    BY DEF Result
  <1>3. e.cls = "rejected" \/ st = 401 \/ r.kind \notin RefusalKinds
    BY DEF Result, RefusalKinds
  <1>4. ASSUME st \in {0, 200}, e.cls # "rejected", ~Limited(e)
        PROVE  r.kind \notin UnsentKinds
    <2>1. st < 400 /\ st \notin {400, 401, 404, 429} /\ ~e.limited
      BY <1>4 DEF Limited
    <2>2. r = Result("", "Malformed") \/ r = Result("Ambiguous", "Ambiguous")
      BY <1>4, <2>1, ZenonT(30)
    <2> HIDE DEF r
    <2>3. CASE r = Result("", "Malformed")
      <3>1. r.kind = "Malformed"
        BY <2>3, Zenon DEF Result
      <3>2. QED
        BY <3>1 DEF UnsentKinds
    <2>4. CASE r = Result("Ambiguous", "Ambiguous")
      BY <2>4, ResultFields DEF UnsentKinds
    <2>5. QED
      BY <2>2, <2>3, <2>4, Zenon
  <1> HIDE DEF r
  <1>5. hlView(r, e, st)
    BY <1>2, <1>3, <1>4 DEF hlView
  <1>6. QED
    BY <1>1, <1>5

LEMMA hlFailure ==
    ASSUME NEW a \in Answers, NEW e, e = hlPost(a), e.cls # "none", NEW t,
           NEW n, n = hlMutationErr(e, a.st, t)
    PROVE  Honest(n, a, FALSE) /\ n.kind # "nil"
  <1>1. PICK r : n = normalizeHTTPCommand(r, e) /\ hlView(r, e, a.st)
    <2>1. a.st \in Nat
      BY AnswerTypes
    <2>2. QED
      BY <2>1, hlViewed
  <1>2. CASE a.st = 0 /\ e = DoHTTP(a)
    <2>1. /\ e.st = 0 /\ e.cls # "rejected"
          /\ Limited(e) => a.body = "local"
      BY <1>2, Silent
    <2>2. Judged(n, r, e)
      BY <1>1, <2>1, CommandVerdict DEF hlView
    <2>3. a.body # "local" => r.ack # "Rejected" /\ r.kind \notin RefusalKinds \cup UnsentKinds
      BY <1>1, <1>2, <2>1 DEF hlView
    <2>4. QED
      BY <1>2, <2>2, <2>3, SilentVerdict, Zenon
  <1>3. CASE a.st >= 400 /\ e.st = a.st /\ e.cls \in {"opaque", "limited", "api"}
    <2>1. e.cls # "rejected" /\ e.cls # "local"
      BY <1>3, Zenon
    <2>2. e.st \in Nat /\ e.st # 0
      BY <1>3, AnswerTypes
    <2>3. Judged(n, r, e)
      BY <1>1, <2>2, CommandVerdict DEF hlView
    <2>4. classify(n) = "rejected" => a.st = 401
      BY <1>1, <2>1, <2>2, <2>3 DEF Judged, hlView
    <2>5. QED
      BY <2>3, <2>4 DEF Honest, Judged, Refused
  <1>4. CASE a.st = 200 /\ a.body \in Codes \ {"temp"} /\ e.st = 0
    <2>1. Judged(n, r, e)
      BY <1>1, <1>4, CommandVerdict DEF hlView
    <2>2. QED
      BY <1>4, <2>1 DEF Honest, Judged, Refused
  <1>5. CASE a.st = 200 /\ e.st = 0 /\ e.cls \in {"opaque", "malformed"} /\ ~Limited(e)
    <2>1. e.st \in Nat /\ a.st = 200
      BY <1>5
    <2>2. e.cls # "rejected" /\ e.cls # "local" /\ ~Limited(e)
      BY <1>5, Zenon
    <2>3. Judged(n, r, e)
      BY <1>1, <2>1, CommandVerdict DEF hlView
    <2>4. r.ack # "Rejected" /\ r.kind \notin RefusalKinds /\ r.kind \notin UnsentKinds
      BY <1>1, <2>1, <2>2 DEF hlView
    <2>5. QED
      BY <2>2, <2>3, <2>4, UnreadVerdict, Zenon
  <1>6. QED
    <2>1. \/ a.st = 0 /\ e = DoHTTP(a)
          \/ a.st >= 400 /\ e.st = a.st /\ e.cls \in {"opaque", "limited", "api"}
          \/ a.st = 200 /\ a.body \in Codes \ {"temp"} /\ e.st = 0
          \/ a.st = 200 /\ e.st = 0 /\ e.cls \in {"opaque", "malformed"} /\ ~Limited(e)
      BY hlPostCases
    <2>2. QED
      BY <1>2, <1>3, <1>4, <1>5, <2>1, ZenonT(30)

LEMMA hlPlaceVerdict ==
    ASSUME NEW a \in Answers, NEW t, NEW n, n = hlPlace(a, t)
    PROVE  Honest(n, a, FALSE)
  <1> DEFINE e == hlPost(a)
  <1>1. CASE e.cls # "none"
    <2>1. n = hlMutationErr(e, a.st, t)
      BY <1>1 DEF hlPlace
    <2>2. QED
      BY <1>1, <2>1, hlFailure, Zenon
  <1>2. CASE e.cls = "none"
    <2>1. Taken(a)
      BY <1>2, hlPostCases, Silent
    <2>2. \/ \E ack \in Acks : n = Validated(ack, t)
          \/ n = Result("", "Malformed")
      BY <1>2, Zenon DEF hlPlace, hlPlaceAck, Acks
    <2>3. classify(n) \in {"accepted", "unknown"}
      BY <2>2, ValidatedVerdict, MalformedVerdict, Zenon
    <2>4. QED
      BY <2>1, <2>3 DEF Honest
  <1>3. QED
    BY <1>1, <1>2, Zenon

LEMMA hlCancelVerdict ==
    ASSUME NEW a \in Answers, NEW n, n = hlCancel(a), n.kind = "nil"
    PROVE  Taken(a)
  <1>1. hlPost(a).cls = "none"
    BY hlFailure, Zenon DEF hlCancel
  <1>2. QED
    BY <1>1, hlPostCases, Silent

-----------------------------------------------------------------------------
(* Lighter.                                                                *)

LEMMA lighterRoundTripCases ==
    ASSUME NEW a \in Answers, NEW e, e = lighterRoundTrip(a)
    PROVE  \/ a.st = 0 /\ e = DoHTTP(a)
           \/ a.st >= 400 /\ e.st = a.st /\ e.cls = "status"
           \/ a.st = 200 /\ e.st = 0 /\ e.cls = "malformed" /\ ~Limited(e)
           \/ a.st = 200 /\ a.body # "garbled" /\ e.cls = "none"
  <1>1. CASE a.st = 0
    BY <1>1 DEF lighterRoundTrip
  <1>2. CASE a.st >= 400
    <2>1. e = SdkError("status", a)
      BY <1>2, AnswerTypes DEF lighterRoundTrip
    <2>2. e.cls = "status" /\ e.st = a.st
      BY <2>1, SdkFields
    <2>3. QED
      BY <1>2, <2>2
  <1>3. CASE a.st = 200 /\ a.body = "garbled"
    <2>1. e = Bare("malformed", a)
      BY <1>3 DEF lighterRoundTrip
    <2>2. e.cls = "malformed" /\ e.st = 0 /\ ~Limited(e)
      BY <1>3, <2>1, BareFields
    <2>3. QED
      BY <1>3, <2>2
  <1>4. CASE a.st = 200 /\ a.body # "garbled"
    <2>1. e = NoError
      BY <1>4 DEF lighterRoundTrip
    <2>2. QED
      BY <1>4, <2>1, NoErrorFields
  <1>5. QED
    BY <1>1, <1>2, <1>3, <1>4, AnswerTypes

LEMMA lighterFailed ==
    ASSUME NEW a \in Answers, NEW e, e = lighterRoundTrip(a), e.cls # "none",
           NEW r, r.kind # "nil", NEW n, n = normalizeHTTPCommand(r, e),
           e.st = 0 /\ ~Limited(e) => r.ack = "Ambiguous" /\ r.kind = "Ambiguous"
    PROVE  Honest(n, a, TRUE) /\ n.kind # "nil"
  <1>1. CASE a.st = 0 /\ e = DoHTTP(a)
    <2>1. e.st = 0 /\ (Limited(e) => a.body = "local")
      BY <1>1, Silent
    <2>2. Judged(n, r, e)
      BY <2>1, CommandVerdict
    <2>3. a.body # "local" => r.ack = "Ambiguous" /\ r.kind = "Ambiguous"
      BY <2>1
    <2>4. Honest(n, a, FALSE) /\ n.kind # "nil"
      BY <1>1, <2>2, <2>3, SilentVerdict, Zenon DEF RefusalKinds, UnsentKinds
    <2>5. QED
      BY <2>4, Lenient, Zenon
  <1>2. CASE a.st >= 400 /\ e.st = a.st /\ e.cls = "status"
    <2>1. Judged(n, r, e)
      BY <1>2, CommandVerdict, AnswerTypes
    <2>2. QED
      BY <1>2, <2>1, StatusVerdict, Zenon
  <1>3. CASE a.st = 200 /\ e.st = 0 /\ e.cls = "malformed" /\ ~Limited(e)
    <2>1. Judged(n, r, e) /\ r.ack = "Ambiguous" /\ r.kind = "Ambiguous"
      BY <1>3, CommandVerdict
    <2>2. e.cls # "local" /\ ~Limited(e)
      BY <1>3, Zenon
    <2>3. Honest(n, a, FALSE) /\ n.kind # "nil"
      BY <2>1, <2>2, UnreadVerdict, Zenon DEF RefusalKinds, UnsentKinds
    <2>4. QED
      BY <2>3, Lenient, Zenon
  <1>4. QED
    <2>1. \/ a.st = 0 /\ e = DoHTTP(a)
          \/ a.st >= 400 /\ e.st = a.st /\ e.cls = "status"
          \/ a.st = 200 /\ e.st = 0 /\ e.cls = "malformed" /\ ~Limited(e)
      BY lighterRoundTripCases
    <2>2. QED
      BY <1>1, <1>2, <1>3, <2>1, Zenon

LEMMA lighterFailure ==
    ASSUME NEW a \in Answers, NEW e, e = lighterRoundTrip(a), e.cls # "none",
           NEW n, n = lighterCommandErr(e, TRUE)
    PROVE  Honest(n, a, TRUE) /\ n.kind # "nil"
  <1> DEFINE r == CASE e.st = 429 -> Result("", "RateLimit")
                    [] e.st = 401 -> Result("", "Authentication")
                    [] e.st = 404 -> Result("", "NotFound")
                    [] e.st = 400 -> Result("Rejected", "VenueRejected")
                    [] OTHER -> IF e.limited THEN Result("", "RateLimit")
                                ELSE Result("Ambiguous", "Ambiguous")
  <1>1. n = normalizeHTTPCommand(r, e)
    BY Zenon DEF lighterCommandErr
  <1>2. r.kind # "nil"
    BY DEF Result
  <1>3. e.st = 0 /\ ~Limited(e) => r = Result("Ambiguous", "Ambiguous")
    <2>1. e.st = 0 => e.st \notin {429, 401, 404, 400}
      OBVIOUS
    <2>2. QED
      BY <2>1 DEF Limited
  <1> HIDE DEF r
  <1>4. e.st = 0 /\ ~Limited(e) => r.ack = "Ambiguous" /\ r.kind = "Ambiguous"
    BY <1>3, ResultFields
  <1>5. QED
    BY <1>1, <1>2, <1>4, lighterFailed, Zenon

LEMMA lighterVerdict ==
    ASSUME NEW a \in Answers, NEW n, n = lighterCommand(a)
    PROVE  Honest(n, a, TRUE) /\ (n.kind = "nil" => Taken(a))
  <1> DEFINE e == lighterRoundTrip(a)
  <1>1. CASE e.cls # "none"
    <2>1. n = lighterCommandErr(e, TRUE)
      BY <1>1 DEF lighterCommand
    <2>2. QED
      BY <1>1, <2>1, lighterFailure, Zenon
  <1>2. CASE e.cls = "none"
    <2>1. a.st = 200 /\ a.body # "garbled"
      BY <1>2, lighterRoundTripCases, Silent
    <2>2. a.body \in Placed \cup Codes \cup {"mismatch"}
      BY <2>1, AnswerTypes
    <2>3. n = lighterCommandAck(a)
      BY <1>2 DEF lighterCommand
    <2>4. CASE a.body \in Placed
      <3>1. n = Result("AcceptedPending", "nil")
        BY <2>3, <2>4, Zenon DEF lighterCommandAck, Placed, Done
      <3>2. QED
        BY <2>1, <2>4, <3>1, AckVerdict DEF Honest, Taken, Acks
    <2>5. CASE a.body = "mismatch"
      <3>1. n = Result("", "Malformed")
        BY <2>3, <2>5, Zenon DEF lighterCommandAck, Placed, Done
      <3>2. QED
        BY <3>1, MalformedVerdict, Zenon DEF Honest
    <2>6. CASE a.body \in Codes
      <3>1. n = Result("Ambiguous", "Ambiguous") \/ n = Result("Rejected", "VenueRejected")
        BY <2>3, <2>6, Zenon DEF lighterCommandAck, Placed, Done, Codes
      <3>2. n.kind # "nil"
        BY <3>1, ResultFields
      <3>3. QED
        BY <2>1, <2>6, <3>2, ErrorNotAccepted DEF Honest, Refused
    <2>7. QED
      BY <2>2, <2>4, <2>5, <2>6, Zenon
  <1>3. QED
    BY <1>1, <1>2, Zenon

-----------------------------------------------------------------------------
(* Every venue.                                                            *)

\* Gate and Hyperliquid alone leave "temp" open.
LEMMA PlaceVerdict ==
    ASSUME NEW v \in Venues, NEW a \in Answers, NEW t, NEW n, n = PlaceOrder(v, a, t)
    PROVE  /\ v \in {"gate", "hyperliquid"} => Honest(n, a, FALSE)
           /\ Honest(n, a, TRUE)
  <1>1. CASE v = "binance_spot"
    BY <1>1, binanceSpotPlaceVerdict, Zenon DEF PlaceOrder
  <1>2. CASE v = "binance_perp"
    BY <1>2, binancePerpPlaceVerdict, Zenon DEF PlaceOrder
  <1>3. CASE v = "okx"
    BY <1>3, okxVerdict, Zenon DEF PlaceOrder
  <1>4. CASE v = "bybit"
    BY <1>4, bybitPlaceVerdict, Zenon DEF PlaceOrder
  <1>5. CASE v = "bitget"
    BY <1>5, bitgetPlaceVerdict, Zenon DEF PlaceOrder
  <1>6. CASE v = "gate"
    BY <1>6, gatePlaceVerdict, Lenient, Zenon DEF PlaceOrder
  <1>7. CASE v = "hyperliquid"
    BY <1>7, hlPlaceVerdict, Lenient, Zenon DEF PlaceOrder
  <1>8. CASE v = "lighter"
    BY <1>8, lighterVerdict, Zenon DEF PlaceOrder
  <1>9. QED
    BY <1>1, <1>2, <1>3, <1>4, <1>5, <1>6, <1>7, <1>8, Zenon DEF Venues

\* No error without the venue's word, Bybit and Bitget apart.
LEMMA CancelVerdict ==
    ASSUME NEW v \in Venues \ {"bybit", "bitget"}, NEW a \in Answers,
           CancelResult(CancelOrder(v, a)) = "ok"
    PROVE  Taken(a)
  <1> DEFINE n == CancelOrder(v, a)
  <1>0. n.kind = "nil"
    BY DEF CancelResult
  <1>1. CASE v = "binance_spot"
    BY <1>0, <1>1, binanceSpotCancelVerdict DEF CancelOrder
  <1>2. CASE v = "binance_perp"
    BY <1>0, <1>2, binancePerpCancelVerdict DEF CancelOrder
  <1>3. CASE v = "okx"
    BY <1>0, <1>3, okxVerdict, Zenon DEF CancelOrder
  <1>4. CASE v = "gate"
    BY <1>0, <1>4, gateCancelVerdict DEF CancelOrder
  <1>5. CASE v = "hyperliquid"
    BY <1>0, <1>5, hlCancelVerdict DEF CancelOrder
  <1>6. CASE v = "lighter"
    BY <1>0, <1>6, lighterVerdict, Zenon DEF CancelOrder
  <1>7. QED
    BY <1>1, <1>2, <1>3, <1>4, <1>5, <1>6 DEF Venues

LEMMA NormalizedNotNil ==
    ASSUME NEW e, NEW r, NEW n, n = normalizeHTTPError(r, e), r.kind # "nil"
    PROVE  n.kind # "nil" /\ n = [ack |-> n.ack, kind |-> n.kind, st |-> n.st, notSent |-> n.notSent]
  BY DEF normalizeHTTPError

LEMMA CommandNotNil ==
    ASSUME NEW e, NEW r, NEW n, n = normalizeHTTPCommand(r, e), r.kind # "nil"
    PROVE  n.kind # "nil" /\ n = [ack |-> n.ack, kind |-> n.kind, st |-> n.st, notSent |-> n.notSent]
  <1> DEFINE q == IF e.st \in {429, 500} THEN Result("Ambiguous", "Ambiguous") ELSE r
  <1>1. n = normalizeHTTPError(q, e)
    BY DEF normalizeHTTPCommand
  <1>2. q.kind # "nil"
    BY DEF Result
  <1> HIDE DEF q
  <1>3. QED
    BY <1>1, <1>2, NormalizedNotNil

LEMMA lighterReadNotNil ==
    ASSUME NEW e, NEW n, n = lighterCommandErr(e, FALSE)
    PROVE  n.kind # "nil" /\ n = [ack |-> n.ack, kind |-> n.kind, st |-> n.st, notSent |-> n.notSent]
  <1> DEFINE k == CASE e.cls = "deadline" -> "Deadline"
                    [] e.cls = "malformed" -> "Malformed"
                    [] e.cls = "status" -> (CASE e.st = 401 -> "Authentication"
                                              [] e.st = 404 -> "NotFound"
                                              [] e.st = 429 -> "RateLimit"
                                              [] e.st >= 500 -> "Transport"
                                              [] OTHER -> "InvalidRequest")
                    [] OTHER -> "Transport"
             p == Result("", k)
             q == normalizeHTTPError(p, e)
             r == CASE e.st = 429 -> Result("", "RateLimit")
                    [] e.st = 401 -> Result("", "Authentication")
                    [] e.st = 404 -> Result("", "NotFound")
                    [] e.st = 400 /\ FALSE -> Result("Rejected", "VenueRejected")
                    [] OTHER -> IF e.cls = "deadline" /\ ~FALSE THEN Result("", "Deadline")
                                ELSE IF e.limited THEN Result("", "RateLimit")
                                ELSE IF ~FALSE THEN q
                                ELSE Result("Ambiguous", "Ambiguous")
  <1>1. n = normalizeHTTPCommand(r, e)
    BY Zenon DEF lighterCommandErr, lighterNormalizeErr
  <1>2. p.kind # "nil"
    BY DEF Result
  <1> HIDE DEF k, p
  <1>3. q.kind # "nil"
    BY <1>2, NormalizedNotNil
  <1> HIDE DEF q
  <1>4. r.kind # "nil"
    BY <1>3 DEF Result
  <1> HIDE DEF r
  <1>5. QED
    BY <1>1, <1>4, CommandNotNil, Zenon

\* A read that failed is never an acceptance.
LEMMA ReadVerdict ==
    ASSUME NEW v \in Reading, NEW a \in Answers
    PROVE  classify(ReadFailure(v, a)) \in {"rejected", "unknown"}
  <1> DEFINE q == CASE v = "okx" -> okxNormalizeErr(okxDo(a))
                    [] v = "bybit" -> normErr(bybitPost(a))
                    [] v = "bitget" -> normErr(bitgetPost(a))
                    [] v = "hyperliquid" -> hlMutationErr(hlPost(a), a.st, "limit")
                    [] v = "lighter" -> lighterCommandErr(lighterRoundTrip(a), FALSE)
             r == [q EXCEPT !.notSent = FALSE]
  <1>1. ReadFailure(v, a) = r
    BY DEF ReadFailure
  <1>2. q.kind # "nil" /\ q = [ack |-> q.ack, kind |-> q.kind, st |-> q.st, notSent |-> q.notSent]
    <2>1. CASE v = "okx"
      <3> DEFINE e == okxDo(a)
                 p == Result("", CASE e.cls = "deadline" -> "Deadline"
                                   [] e.cls = "limited" -> "RateLimit"
                                   [] e.cls = "api" -> IF e.code = "auth" THEN "Authentication" ELSE "VenueRejected"
                                   [] OTHER -> "Transport")
      <3>1. q = normalizeHTTPError(p, e)
        BY <2>1 DEF okxNormalizeErr
      <3>2. p.kind # "nil"
        BY DEF Result
      <3> HIDE DEF e, p, q
      <3>3. QED
        BY <3>1, <3>2, NormalizedNotNil
    <2>2. CASE v \in {"bybit", "bitget"}
      <3>1. PICK e : q = normErr(e)
        BY <2>2, Zenon
      <3> DEFINE p == Result("", CASE e.cls = "deadline" -> "Deadline"
                                   [] e.cls = "api" -> classifyCode(e.code)
                                   [] OTHER -> "Transport")
      <3> HIDE DEF q
      <3>2. q = normalizeHTTPError(p, e)
        BY <3>1, Zenon DEF normErr
      <3>3. p.kind # "nil"
        BY DEF Result, classifyCode
      <3> HIDE DEF p
      <3>4. QED
        BY <3>2, <3>3, NormalizedNotNil
    <2>3. CASE v = "hyperliquid"
      <3> DEFINE e == hlPost(a)
      <3>1. q = hlMutationErr(e, a.st, "limit")
        BY <2>3
      <3>2. a.st \in Nat
        BY AnswerTypes
      <3> HIDE DEF e, q
      <3>3. PICK p : q = normalizeHTTPCommand(p, e) /\ hlView(p, e, a.st)
        BY <3>1, <3>2, hlViewed
      <3>4. QED
        BY <3>3, CommandNotNil DEF hlView
    <2>4. CASE v = "lighter"
      <3> DEFINE e == lighterRoundTrip(a)
      <3>1. q = lighterCommandErr(e, FALSE)
        BY <2>4
      <3> HIDE DEF e, q
      <3>2. QED
        BY <3>1, lighterReadNotNil, Zenon
    <2>5. QED
      BY <2>1, <2>2, <2>3, <2>4, Zenon DEF Reading
  <1> HIDE DEF q
  <1>3. r.kind # "nil"
    BY <1>2
  <1> HIDE DEF r
  <1>4. QED
    BY <1>1, <1>3, ErrorNotAccepted

-----------------------------------------------------------------------------
(* The inductive invariant.                                                *)

\* TypeOK, in three parts.
Words ==
    /\ venue \in Venues /\ type \in Types
    /\ order \in {"none", "active", "closed"}
    /\ wire \in {"idle", "travelling", "executed", "dropped"}
    /\ handler \in {"idle", "entered", "calling", "done"}
    /\ told \in {"", "invalid", "accepted", "rejected", "unknown"}
    /\ browser \in {"idle", "waiting", "resolving", "looking", "accepted", "rejected", "unknown"}
    /\ cancel \in {"none", "calling", "ok", "failed"}
    /\ cwire \in {"idle", "travelling", "executed", "dropped"}

Counters == tries \in 0..MaxLookups /\ look \in 0..2

Flags == soft \in BOOLEAN /\ existed \in BOOLEAN /\ early \in BOOLEAN

LEMMA TypeParts == TypeOK <=> Words /\ Counters /\ Flags
  BY Zenon DEF TypeOK, Words, Counters, Flags

\* A handler speaks once, at its end; the command leaves in between.
HandlerInv ==
    /\ told # "" \/ soft => handler = "done"
    /\ handler \in {"idle", "entered"} => wire = "idle"
    /\ order # "none" <=> wire = "executed"

\* The lookup of an order that was there: it is in a list still to be read.
LookupInv ==
    /\ existed => order # "none"
    /\ browser = "looking" => look \in 1..Len(lookupReads(venue))
    /\ look = 2 /\ existed => order = "closed"

\* A final "rejected" without an excuse leaves no command behind.
RejectedInv ==
    browser = "rejected" /\ ~early /\ ~soft =>
        order = "none" /\ handler = "done" /\ wire # "travelling"

CancelInv ==
    /\ cwire = "executed" => order = "closed"
    /\ CancelOkElsewhere

IInv ==
    /\ Words /\ Counters /\ Flags
    /\ HandlerInv
    /\ LookupInv
    /\ RejectedNeverExecutes /\ AcceptedExists
    /\ RejectedInv
    /\ CancelInv

LEMMA LookupFacts ==
    ASSUME NEW v \in Venues
    PROVE  \/ lookupReads(v) = <<"any">>
           \/ lookupReads(v) = <<"active", "closed">> /\ lookupMissing(v) # "not_found"
  <1>1. CASE v \in {"bybit", "lighter"}
    BY <1>1 DEF lookupReads, lookupMissing, LookupOf, Lookup, bybitLookup, lighterLookup
  <1>2. CASE v \notin {"bybit", "lighter"}
    BY <1>2 DEF Venues, lookupReads, LookupOf, Lookup, binanceLookup, okxLookup, gateLookup, hlLookup,
                bitgetLookup
  <1>3. QED
    BY <1>1, <1>2

LEMMA LookupLists ==
    ASSUME NEW v \in Venues, NEW k, k \in 1..Len(lookupReads(v))
    PROVE  \/ Len(lookupReads(v)) = 1 /\ k = 1 /\ lookupReads(v)[k] = "any"
           \/ Len(lookupReads(v)) = 2 /\ k = 1 /\ lookupReads(v)[k] = "active"
           \/ /\ Len(lookupReads(v)) = 2 /\ k = 2 /\ lookupReads(v)[k] = "closed"
              /\ lookupMissing(v) # "not_found"
  <1>1. CASE lookupReads(v) = <<"any">>
    BY <1>1
  <1>2. CASE lookupReads(v) = <<"active", "closed">> /\ lookupMissing(v) # "not_found"
    <2>1. Len(lookupReads(v)) = 2
      BY <1>2
    <2>2. k = 1 \/ k = 2
      BY <2>1
    <2>3. lookupReads(v)[1] = "active" /\ lookupReads(v)[2] = "closed"
      BY <1>2
    <2>4. QED
      BY <1>2, <2>1, <2>2, <2>3
  <1>3. QED
    BY <1>1, <1>2, LookupFacts

LEMMA LookupLength ==
    ASSUME NEW v \in Venues
    PROVE  Len(lookupReads(v)) \in {1, 2}
  BY LookupFacts

LEMMA InitIInv == Init => IInv
  <1> SUFFICES ASSUME Init PROVE IInv
    OBVIOUS
  <1>1. Words
    BY Zenon DEF Init, Words
  <1>2. Counters
    <2>1. tries = MaxLookups /\ look = 0
      BY Zenon DEF Init
    <2>2. QED
      BY <2>1, OrderAssumption DEF Counters
  <1>3. Flags
    BY Zenon DEF Init, Flags
  <1>4. HandlerInv /\ LookupInv /\ RejectedInv /\ CancelInv
    BY Zenon DEF Init, HandlerInv, LookupInv, RejectedInv, CancelInv, CancelOkElsewhere
  <1>5. RejectedNeverExecutes /\ AcceptedExists
    BY Zenon DEF Init, RejectedNeverExecutes, AcceptedExists
  <1>6. QED
    BY <1>1, <1>2, <1>3, <1>4, <1>5 DEF IInv

\* What no step but the handler's own disturbs.
LEMMA SubmitKeeps == IInv /\ submitOrder => IInv'
  <1> SUFFICES ASSUME IInv, submitOrder PROVE IInv'
    OBVIOUS
  <1> USE DEF submitOrder, placing, cancelling
  <1>1. Words'
    BY ZenonT(30) DEF IInv, Words
  <1>2. Counters'
    BY DEF IInv, Counters
  <1>3. Flags'
    BY Zenon DEF IInv, Flags
  <1>4. HandlerInv' /\ LookupInv' /\ RejectedInv' /\ CancelInv'
    BY Zenon DEF IInv, HandlerInv, LookupInv, RejectedInv, CancelInv, CancelOkElsewhere
  <1>5. RejectedNeverExecutes' /\ AcceptedExists'
    BY DEF IInv, RejectedNeverExecutes, AcceptedExists
  <1>6. QED
    BY <1>1, <1>2, <1>3, <1>4, <1>5 DEF IInv

LEMMA placeOrderKeeps == IInv /\ placeOrder => IInv'
  <1> SUFFICES ASSUME IInv, placeOrder PROVE IInv'
    OBVIOUS
  <1> USE DEF placeOrder, resolving, cancelling
  <1>1. Words'
    BY ZenonT(30) DEF IInv, Words
  <1>2. Counters'
    BY DEF IInv, Counters
  <1>3. Flags'
    BY Zenon DEF IInv, Flags
  <1>4. HandlerInv' /\ LookupInv' /\ RejectedInv' /\ CancelInv'
    BY Zenon DEF IInv, HandlerInv, LookupInv, RejectedInv, CancelInv, CancelOkElsewhere
  <1>5. RejectedNeverExecutes' /\ AcceptedExists'
    BY Zenon DEF IInv, HandlerInv, RejectedNeverExecutes, AcceptedExists
  <1>6. QED
    BY <1>1, <1>2, <1>3, <1>4, <1>5 DEF IInv

LEMMA ReadFailsKeeps == IInv /\ PreliminaryReadFails => IInv'
  <1> SUFFICES ASSUME IInv, PreliminaryReadFails PROVE IInv'
    OBVIOUS
  <1>0. /\ handler = "entered" /\ handler' = "done" /\ told' \in {"rejected", "unknown"}
        /\ UNCHANGED <<venue, type, order, wire, soft, resolving, cancelling>>
    <2>1. PICK a \in FailedReads(venue) : told' = classify(ReadFailure(venue, a))
      BY DEF PreliminaryReadFails
    <2>2. a \in Answers
      BY <2>1 DEF FailedReads, Answers, Codes
    <2>3. QED
      BY <2>1, <2>2, ReadVerdict DEF PreliminaryReadFails
  <1> USE DEF resolving, cancelling
  <1>1. Words'
    BY <1>0, ZenonT(30) DEF IInv, Words
  <1>2. Counters'
    BY <1>0 DEF IInv, Counters
  <1>3. Flags'
    BY <1>0, Zenon DEF IInv, Flags
  <1>4. HandlerInv' /\ LookupInv' /\ RejectedInv' /\ CancelInv'
    BY <1>0, Zenon DEF IInv, HandlerInv, LookupInv, RejectedInv, CancelInv, CancelOkElsewhere
  <1>5. RejectedNeverExecutes' /\ AcceptedExists'
    BY <1>0, Zenon DEF IInv, HandlerInv, RejectedNeverExecutes, AcceptedExists
  <1>6. QED
    BY <1>1, <1>2, <1>3, <1>4, <1>5 DEF IInv

LEMMA SendKeeps == IInv /\ SendOrder => IInv'
  <1> SUFFICES ASSUME IInv, SendOrder PROVE IInv'
    OBVIOUS
  <1>0. /\ handler = "entered" /\ UNCHANGED <<venue, type, order, soft, resolving, cancelling>>
        /\ \/ handler' = "done" /\ told' \in {"rejected", "unknown"} /\ UNCHANGED wire
           \/ handler' = "calling" /\ wire' = "travelling" /\ UNCHANGED told
    <2> DEFINE a == [st |-> 0, body |-> "local"]
               n == PlaceOrder(venue, a, type)
    <2>1. a \in Answers /\ ~Taken(a)
      BY DEF Answers, Silences, Taken
    <2>2. venue \in Venues
      BY Zenon DEF IInv, Words
    <2>3. Honest(n, a, TRUE)
      BY <2>1, <2>2, PlaceVerdict, Zenon
    <2>4. classify(n) \in {"rejected", "unknown"}
      BY <2>1, <2>3 DEF Honest
    <2>5. QED
      BY <2>4 DEF SendOrder
  <1> USE DEF resolving, cancelling
  <1>1. Words'
    BY <1>0, Zenon DEF IInv, Words
  <1>2. Counters'
    BY <1>0 DEF IInv, Counters
  <1>3. Flags'
    BY <1>0, Zenon DEF IInv, Flags
  <1>4. HandlerInv' /\ LookupInv' /\ RejectedInv' /\ CancelInv'
    BY <1>0, Zenon DEF IInv, HandlerInv, LookupInv, RejectedInv, CancelInv, CancelOkElsewhere
  <1>5. RejectedNeverExecutes' /\ AcceptedExists'
    BY <1>0, Zenon DEF IInv, HandlerInv, RejectedNeverExecutes, AcceptedExists
  <1>6. QED
    BY <1>1, <1>2, <1>3, <1>4, <1>5 DEF IInv

LEMMA ExecutesKeeps == IInv /\ VenueExecutes => IInv'
  <1> SUFFICES ASSUME IInv, VenueExecutes PROVE IInv'
    OBVIOUS
  <1> USE DEF VenueExecutes, resolving, cancelling
  <1>1. Words'
    <2>1. wire' \in {"executed", "dropped"} /\ (order' \in {"active", "closed"} \/ order' = order)
      OBVIOUS
    <2>2. UNCHANGED <<venue, type, handler, told, browser, cancel, cwire>>
      OBVIOUS
    <2>3. QED
      BY <2>1, <2>2, Zenon DEF IInv, Words
  <1>2. Counters'
    BY DEF IInv, Counters
  <1>3. Flags'
    BY Zenon DEF IInv, Flags
  <1>4. HandlerInv' /\ LookupInv' /\ RejectedInv' /\ CancelInv'
    BY Zenon DEF IInv, HandlerInv, LookupInv, RejectedInv, CancelInv, CancelOkElsewhere
  <1>5. RejectedNeverExecutes' /\ AcceptedExists'
    BY Zenon DEF IInv, HandlerInv, RejectedNeverExecutes, AcceptedExists
  <1>6. QED
    BY <1>1, <1>2, <1>3, <1>4, <1>5 DEF IInv

LEMMA ClosesKeeps == IInv /\ VenueCloses => IInv'
  <1> SUFFICES ASSUME IInv, VenueCloses PROVE IInv'
    OBVIOUS
  <1> USE DEF VenueCloses, resolving, cancelling
  <1>1. Words'
    <2>1. order' = "closed" /\ UNCHANGED <<venue, type, wire, handler, told, browser, cancel, cwire>>
      OBVIOUS
    <2>2. QED
      BY <2>1, Zenon DEF IInv, Words
  <1>2. Counters'
    BY DEF IInv, Counters
  <1>3. Flags'
    BY Zenon DEF IInv, Flags
  <1>4. HandlerInv' /\ LookupInv' /\ RejectedInv' /\ CancelInv'
    BY Zenon DEF IInv, HandlerInv, LookupInv, RejectedInv, CancelInv, CancelOkElsewhere
  <1>5. RejectedNeverExecutes' /\ AcceptedExists'
    BY Zenon DEF IInv, HandlerInv, RejectedNeverExecutes, AcceptedExists
  <1>6. QED
    BY <1>1, <1>2, <1>3, <1>4, <1>5 DEF IInv

LEMMA ReturnsKeeps == IInv /\ PlaceReturns => IInv'
  <1> SUFFICES ASSUME IInv, PlaceReturns PROVE IInv'
    OBVIOUS
  <1>1. PICK a \in Answers :
          /\ MayExecute(a) = {TRUE} => wire = "executed" /\ UNCHANGED wire
          /\ MayExecute(a) = {FALSE} => wire # "executed" /\ wire' = "dropped"
          /\ MayExecute(a) = BOOLEAN => UNCHANGED wire
          /\ told' = classify(PlaceOrder(venue, a, type))
          /\ soft' = (a.body = "temp")
    BY Zenon DEF PlaceReturns
  <1>2. handler = "calling" /\ handler' = "done" /\ UNCHANGED <<venue, type, order, resolving, cancelling>>
    BY DEF PlaceReturns
  <1>3. venue \in Venues
    BY Zenon DEF IInv, Words
  <1>4. /\ Honest(PlaceOrder(venue, a, type), a, TRUE)
        /\ venue \in {"gate", "hyperliquid"} => Honest(PlaceOrder(venue, a, type), a, FALSE)
    BY <1>3, PlaceVerdict, Zenon
  <1>5. /\ told' \in {"accepted", "rejected", "unknown"}
        /\ told' = "accepted" => Taken(a)
        /\ told' = "rejected" => Refused(a) \/ (a.body = "temp" /\ venue \notin {"gate", "hyperliquid"})
    BY <1>1, <1>4 DEF Honest
  <1>6. /\ Taken(a) => wire = "executed"
        /\ Refused(a) => wire # "executed" /\ wire' = "dropped"
        /\ wire' = wire \/ (wire # "executed" /\ wire' = "dropped")
    BY <1>1, Fate, Zenon
  <1>7. soft' \in BOOLEAN /\ (soft' <=> a.body = "temp")
    BY <1>1, Zenon
  <1> USE DEF resolving, cancelling
  <1>8. Words'
    BY <1>2, <1>5, <1>6, ZenonT(30) DEF IInv, Words
  <1>9. Counters'
    BY <1>2 DEF IInv, Counters
  <1>10. Flags'
    BY <1>2, <1>7, Zenon DEF IInv, Flags
  <1>11. HandlerInv' /\ LookupInv' /\ CancelInv'
    BY <1>2, <1>6, Zenon DEF IInv, HandlerInv, LookupInv, CancelInv, CancelOkElsewhere
  <1>12. RejectedInv'
    <2>1. ~soft
      BY <1>2, Zenon DEF IInv, HandlerInv
    <2>2. QED
      BY <1>2, <2>1 DEF IInv, RejectedInv
  <1>13. AcceptedExists'
    BY <1>2, <1>5, <1>6, Zenon DEF IInv, HandlerInv, AcceptedExists
  <1>14. RejectedNeverExecutes'
    <2>1. ASSUME told' \in {"rejected", "invalid"}
          PROVE  (order' = "none" /\ wire' \in {"idle", "dropped"})
                   \/ (a.body = "temp" /\ venue' \notin {"gate", "hyperliquid"})
      BY <1>2, <1>5, <1>6, <2>1, Zenon DEF IInv, HandlerInv
    <2>2. QED
      BY <1>7, <2>1 DEF RejectedNeverExecutes
  <1>15. QED
    BY <1>8, <1>9, <1>10, <1>11, <1>12, <1>13, <1>14 DEF IInv

LEMMA CrashKeeps == IInv /\ GatewayCrash => IInv'
  <1> SUFFICES ASSUME IInv, GatewayCrash PROVE IInv'
    OBVIOUS
  <1> USE DEF GatewayCrash, cancelling
  <1>1. Words'
    BY Zenon DEF IInv, Words
  <1>2. Counters'
    BY DEF IInv, Counters
  <1>3. Flags'
    BY Zenon DEF IInv, Flags
  <1>4. HandlerInv' /\ LookupInv' /\ RejectedInv' /\ CancelInv'
    BY Zenon DEF IInv, HandlerInv, LookupInv, RejectedInv, CancelInv, CancelOkElsewhere
  <1>5. RejectedNeverExecutes' /\ AcceptedExists'
    BY DEF IInv, RejectedNeverExecutes, AcceptedExists
  <1>6. QED
    BY <1>1, <1>2, <1>3, <1>4, <1>5 DEF IInv

LEMMA SubmitReturnsKeeps == IInv /\ SubmitReturns => IInv'
  <1> SUFFICES ASSUME IInv, SubmitReturns PROVE IInv'
    OBVIOUS
  <1>0. /\ browser = "waiting" /\ told # "" /\ UNCHANGED <<placing, tries, look, existed, early, cancelling>>
        /\ \/ told = "accepted" /\ browser' = "accepted"
           \/ told \in {"rejected", "invalid"} /\ browser' = "rejected"
           \/ browser' = "resolving"
    BY Zenon DEF SubmitReturns
  <1> USE DEF placing, cancelling
  <1>1. Words'
    BY <1>0, ZenonT(30) DEF IInv, Words
  <1>2. Counters'
    BY <1>0, Zenon DEF IInv, Counters
  <1>3. Flags'
    BY <1>0, Zenon DEF IInv, Flags
  <1>4. HandlerInv' /\ LookupInv' /\ CancelInv'
    BY <1>0, Zenon DEF IInv, HandlerInv, LookupInv, CancelInv, CancelOkElsewhere
  <1>5. RejectedInv'
    BY <1>0, Zenon DEF IInv, HandlerInv, RejectedNeverExecutes, RejectedInv
  <1>6. RejectedNeverExecutes' /\ AcceptedExists'
    BY <1>0, Zenon DEF IInv, RejectedNeverExecutes, AcceptedExists
  <1>7. QED
    BY <1>1, <1>2, <1>3, <1>4, <1>5, <1>6 DEF IInv

LEMMA RequestFailsKeeps == IInv /\ RequestFails => IInv'
  <1> SUFFICES ASSUME IInv, RequestFails PROVE IInv'
    OBVIOUS
  <1> USE DEF RequestFails, cancelling
  <1>1. Words'
    BY ZenonT(30) DEF IInv, Words
  <1>2. Counters'
    BY DEF IInv, Counters
  <1>3. Flags'
    BY Zenon DEF IInv, Flags
  <1>4. HandlerInv' /\ LookupInv' /\ RejectedInv' /\ CancelInv'
    BY Zenon DEF IInv, HandlerInv, LookupInv, RejectedInv, CancelInv, CancelOkElsewhere
  <1>5. RejectedNeverExecutes' /\ AcceptedExists'
    BY DEF IInv, RejectedNeverExecutes, AcceptedExists
  <1>6. QED
    BY <1>1, <1>2, <1>3, <1>4, <1>5 DEF IInv

LEMMA ResolveKeeps == IInv /\ resolveUnknown => IInv'
  <1> SUFFICES ASSUME IInv, resolveUnknown PROVE IInv'
    OBVIOUS
  <1> USE DEF placing, cancelling
  <1>1. CASE tries > 0 /\ browser' = "looking" /\ tries' = tries - 1 /\ look' = 1
    <2>1. existed' = (order # "none") /\ early' = FALSE /\ UNCHANGED <<placing, cancelling>>
      BY <1>1 DEF resolveUnknown
    <2>2. Words'
      BY <1>1, <2>1, ZenonT(30) DEF IInv, Words
    <2>3. Counters'
      BY <1>1, <2>1, OrderAssumption DEF IInv, Counters
    <2>4. Flags' /\ (existed' <=> order # "none")
      BY <2>1, Zenon DEF IInv, Flags
    <2>5. HandlerInv' /\ RejectedInv' /\ CancelInv'
      BY <1>1, <2>1, Zenon DEF IInv, HandlerInv, RejectedInv, CancelInv, CancelOkElsewhere
    <2>6. LookupInv'
      <3>1. Len(lookupReads(venue)) \in {1, 2}
        BY LookupLength, Zenon DEF IInv, Words
      <3> DEFINE len == Len(lookupReads(venue))
      <3>2. len \in {1, 2}
        BY <3>1
      <3> HIDE DEF len
      <3>3. look' \in 1..len /\ look' # 2
        BY <1>1, <3>2
      <3>4. QED
        BY <2>1, <2>4, <3>3 DEF IInv, LookupInv, len
    <2>7. RejectedNeverExecutes' /\ AcceptedExists'
      BY <1>1, <2>1 DEF IInv, RejectedNeverExecutes, AcceptedExists
    <2>8. QED
      BY <2>2, <2>3, <2>4, <2>5, <2>6, <2>7 DEF IInv
  <1>2. CASE browser' = "unknown" /\ UNCHANGED <<tries, look, existed, early, placing, cancelling>>
    <2>1. Words'
      BY <1>2, ZenonT(30) DEF IInv, Words
    <2>2. Counters'
      BY <1>2 DEF IInv, Counters
    <2>3. Flags'
      BY <1>2, Zenon DEF IInv, Flags
    <2>4. HandlerInv' /\ LookupInv' /\ RejectedInv' /\ CancelInv'
      BY <1>2, Zenon DEF IInv, HandlerInv, LookupInv, RejectedInv, CancelInv, CancelOkElsewhere
    <2>5. RejectedNeverExecutes' /\ AcceptedExists'
      BY <1>2 DEF IInv, RejectedNeverExecutes, AcceptedExists
    <2>6. QED
      BY <2>1, <2>2, <2>3, <2>4, <2>5 DEF IInv
  <1>3. QED
    BY <1>1, <1>2 DEF resolveUnknown

\* One read of a lookup: it has the order, goes on to the next list, or ends.
LookupStep ==
    \/ order # "none" /\ browser' = "accepted" /\ look' = 0 /\ early' = early
    \/ /\ Len(lookupReads(venue)) = 2 /\ look = 1 /\ look' = 2 /\ order # "active"
       /\ browser' = browser /\ early' = early
    \/ /\ (look = 2 /\ order # "closed") \/ order = "none"
       /\ look' = 0 /\ early' = InFlight
       /\ browser' \in {"rejected", "resolving"}
       /\ browser' = "rejected" => order = "none"

LEMMA LookupSteps == IInv /\ LookupExactOrder => LookupStep
  <1> SUFFICES ASSUME IInv, LookupExactOrder PROVE LookupStep
    OBVIOUS
  <1> DEFINE reads == lookupReads(venue)
             list == reads[look]
             has == IF list = "any" THEN order # "none" ELSE order = list
  <1>1. look \in 1..Len(reads)
    BY DEF IInv, LookupInv, LookupExactOrder
  <1>2. IF has
        THEN browser' = "accepted" /\ look' = 0 /\ UNCHANGED early
        ELSE IF look < Len(reads)
        THEN look' = look + 1 /\ UNCHANGED <<browser, early>>
        ELSE /\ look' = 0
             /\ early' = InFlight
             /\ browser' = IF lookupMissing(venue) = "not_found" THEN "rejected" ELSE "resolving"
    BY DEF LookupExactOrder
  <1>3. \/ Len(reads) = 1 /\ look = 1 /\ list = "any"
        \/ Len(reads) = 2 /\ look = 1 /\ list = "active"
        \/ Len(reads) = 2 /\ look = 2 /\ list = "closed" /\ lookupMissing(venue) # "not_found"
    BY <1>1, LookupLists, Zenon DEF IInv, Words
  <1>4. CASE has
    <2>1. order # "none"
      BY <1>3, <1>4, Zenon DEF IInv, Words
    <2>2. QED
      BY <1>2, <1>4, <2>1 DEF LookupStep
  <1>5. CASE ~has /\ Len(reads) = 2 /\ look = 1 /\ list = "active"
    <2>1. look < Len(reads) /\ look + 1 = 2
      BY <1>5
    <2>2. order # "active"
      BY <1>5
    <2> HIDE DEF has
    <2>3. QED
      BY <1>2, <1>5, <2>1, <2>2 DEF LookupStep
  <1>6. CASE ~has /\ Len(reads) = 1 /\ look = 1 /\ list = "any"
    <2>1. ~(look < Len(reads)) /\ look # 2
      BY <1>6
    <2>2. order = "none"
      BY <1>6
    <2> HIDE DEF has
    <2>3. look' = 0 /\ early' = InFlight /\ browser' \in {"rejected", "resolving"}
      BY <1>2, <1>6, <2>1
    <2>4. QED
      BY <2>1, <2>2, <2>3 DEF LookupStep
  <1>7. CASE ~has /\ Len(reads) = 2 /\ look = 2 /\ list = "closed" /\ lookupMissing(venue) # "not_found"
    <2>1. ~(look < Len(reads))
      BY <1>7
    <2>2. look = 2 /\ order # "closed"
      BY <1>7
    <2> HIDE DEF has
    <2>3. look' = 0 /\ early' = InFlight /\ browser' = "resolving"
      BY <1>2, <1>7, <2>1
    <2>4. QED
      BY <2>2, <2>3 DEF LookupStep
  <1>8. QED
    BY <1>3, <1>4, <1>5, <1>6, <1>7

LEMMA LookupKeeps == IInv /\ LookupExactOrder => IInv'
  <1> SUFFICES ASSUME IInv, LookupExactOrder PROVE IInv'
    OBVIOUS
  <1>0. /\ browser = "looking" /\ LookupStep
        /\ UNCHANGED <<placing, tries, existed, cancelling>>
    BY LookupSteps DEF LookupExactOrder
  <1> USE DEF placing, cancelling
  <1>1. Words'
    <2>1. UNCHANGED <<venue, type, order, wire, handler, told, cancel, cwire>>
      BY <1>0
    <2>2. browser' = browser \/ browser' \in {"accepted", "rejected", "resolving"}
      BY <1>0 DEF LookupStep
    <2>3. Words
      BY DEF IInv
    <2>4. browser' \in {"idle", "waiting", "resolving", "looking", "accepted", "rejected", "unknown"}
      BY <2>2, <2>3, Zenon DEF Words
    <2>5. QED
      BY <2>1, <2>3, <2>4, ZenonT(30) DEF Words
  <1>2. Counters'
    <2>1. look' \in {0, 2}
      BY <1>0 DEF LookupStep
    <2>2. QED
      BY <1>0, <2>1 DEF IInv, Counters
  <1>3. Flags'
    <2>1. early' = early \/ early' = InFlight
      BY <1>0 DEF LookupStep
    <2>2. InFlight \in BOOLEAN
      BY DEF InFlight
    <2>3. early' \in BOOLEAN
      BY <2>1, <2>2 DEF IInv, Flags
    <2>4. QED
      BY <1>0, <2>3, Zenon DEF IInv, Flags
  <1>4. HandlerInv' /\ CancelInv'
    BY <1>0, Zenon DEF IInv, HandlerInv, CancelInv, CancelOkElsewhere
  <1>5. LookupInv'
    <2>1. browser' = "looking" => look' = 2 /\ Len(lookupReads(venue)) = 2
      BY <1>0 DEF LookupStep
    <2>2. look' = 2 => order # "active"
      BY <1>0 DEF LookupStep
    <2>3. look' = 2 /\ existed => order = "closed"
      BY <2>2, Zenon DEF IInv, LookupInv, Words
    <2>4. browser' = "looking" => look' \in 1..Len(lookupReads(venue))
      BY <2>1
    <2>5. QED
      BY <1>0, <2>3, <2>4 DEF IInv, LookupInv
  <1>6. RejectedInv'
    <2>1. ASSUME browser' = "rejected", ~early'
          PROVE  order = "none" /\ handler = "done" /\ wire # "travelling"
      <3>1. early' = InFlight /\ order = "none"
        BY <1>0, <2>1 DEF LookupStep
      <3>2. ~InFlight
        BY <2>1, <3>1
      <3>3. QED
        BY <1>0, <3>1, <3>2 DEF InFlight
    <2>2. QED
      BY <1>0, <2>1 DEF RejectedInv
  <1>7. RejectedNeverExecutes' /\ AcceptedExists'
    BY <1>0 DEF IInv, RejectedNeverExecutes, AcceptedExists, LookupStep
  <1>8. QED
    BY <1>1, <1>2, <1>3, <1>4, <1>5, <1>6, <1>7 DEF IInv

LEMMA LookupFailsKeeps == IInv /\ LookupFails => IInv'
  <1> SUFFICES ASSUME IInv, LookupFails PROVE IInv'
    OBVIOUS
  <1> USE DEF LookupFails, placing, cancelling
  <1>1. Words'
    BY ZenonT(30) DEF IInv, Words
  <1>2. Counters'
    BY DEF IInv, Counters
  <1>3. Flags'
    BY Zenon DEF IInv, Flags
  <1>4. HandlerInv' /\ RejectedInv' /\ CancelInv'
    BY Zenon DEF IInv, HandlerInv, RejectedInv, CancelInv, CancelOkElsewhere
  <1>5. LookupInv'
    <2>1. browser' # "looking" /\ look' # 2 /\ UNCHANGED <<existed, order>>
      OBVIOUS
    <2>2. QED
      BY <2>1 DEF IInv, LookupInv
  <1>6. RejectedNeverExecutes' /\ AcceptedExists'
    BY DEF IInv, RejectedNeverExecutes, AcceptedExists
  <1>7. QED
    BY <1>1, <1>2, <1>3, <1>4, <1>5, <1>6 DEF IInv

LEMMA cancelOrderKeeps == IInv /\ cancelOrder => IInv'
  <1> SUFFICES ASSUME IInv, cancelOrder PROVE IInv'
    OBVIOUS
  <1> USE DEF cancelOrder, placing, resolving
  <1>1. Words'
    BY Zenon DEF IInv, Words
  <1>2. Counters'
    BY DEF IInv, Counters
  <1>3. Flags'
    BY Zenon DEF IInv, Flags
  <1>4. HandlerInv' /\ LookupInv' /\ RejectedInv'
    BY Zenon DEF IInv, HandlerInv, LookupInv, RejectedInv
  <1>5. CancelInv'
    BY DEF IInv, CancelInv, CancelOkElsewhere
  <1>6. RejectedNeverExecutes' /\ AcceptedExists'
    BY DEF IInv, RejectedNeverExecutes, AcceptedExists
  <1>7. QED
    BY <1>1, <1>2, <1>3, <1>4, <1>5, <1>6 DEF IInv

LEMMA VenueCancelsKeeps == IInv /\ VenueCancels => IInv'
  <1> SUFFICES ASSUME IInv, VenueCancels PROVE IInv'
    OBVIOUS
  <1>0. /\ UNCHANGED <<venue, type, wire, handler, told, soft, resolving, cancel>>
        /\ cwire = "travelling"
        /\ \/ order = "active" /\ order' = "closed" /\ cwire' = "executed"
           \/ cwire' = "dropped" /\ UNCHANGED order
    BY DEF VenueCancels
  <1> USE DEF resolving
  <1>1. Words'
    <2>1. UNCHANGED <<venue, type, wire, handler, told, browser, cancel>>
      BY <1>0
    <2>2. (order' = order \/ order' = "closed") /\ cwire' \in {"executed", "dropped"}
      BY <1>0
    <2>3. Words
      BY DEF IInv
    <2>4. order' \in {"none", "active", "closed"}
      BY <2>2, <2>3, Zenon DEF Words
    <2>5. cwire' \in {"idle", "travelling", "executed", "dropped"}
      BY <2>2
    <2>6. QED
      BY <2>1, <2>3, <2>4, <2>5, ZenonT(30) DEF Words
  <1>2. Counters'
    BY <1>0 DEF IInv, Counters
  <1>3. Flags'
    BY <1>0, Zenon DEF IInv, Flags
  <1>4. HandlerInv' /\ LookupInv' /\ RejectedInv' /\ CancelInv'
    BY <1>0, Zenon DEF IInv, HandlerInv, LookupInv, RejectedInv, CancelInv, CancelOkElsewhere
  <1>5. RejectedNeverExecutes' /\ AcceptedExists'
    BY <1>0 DEF IInv, RejectedNeverExecutes, AcceptedExists
  <1>6. QED
    BY <1>1, <1>2, <1>3, <1>4, <1>5 DEF IInv

LEMMA CancelReturnsKeeps == IInv /\ CancelReturns => IInv'
  <1> SUFFICES ASSUME IInv, CancelReturns PROVE IInv'
    OBVIOUS
  <1>1. PICK a \in Answers :
          /\ MayExecute(a) = {TRUE} => cwire = "executed" /\ UNCHANGED cwire
          /\ MayExecute(a) = {FALSE} => cwire # "executed" /\ cwire' = "dropped"
          /\ MayExecute(a) = BOOLEAN => UNCHANGED cwire
          /\ cancel' = CancelResult(CancelOrder(venue, a))
    BY Zenon DEF CancelReturns
  <1>2. UNCHANGED <<placing, resolving>>
    BY DEF CancelReturns
  <1>3. /\ Taken(a) => cwire = "executed"
        /\ cwire' = cwire \/ cwire' = "dropped"
    BY <1>1, Fate, Zenon
  <1>4. cancel' \in {"ok", "failed"}
    BY <1>1 DEF CancelResult
  <1>5. cancel' = "ok" /\ venue \notin {"bybit", "bitget"} => Taken(a)
    <2>1. venue \in Venues
      BY Zenon DEF IInv, Words
    <2>2. QED
      BY <1>1, <2>1, CancelVerdict, Zenon
  <1> USE DEF placing, resolving
  <1>6. Words'
    <2>1. UNCHANGED <<venue, type, order, wire, handler, told, browser>>
      BY <1>2
    <2>2. Words
      BY DEF IInv
    <2>3. cwire' \in {"idle", "travelling", "executed", "dropped"}
      BY <1>3, <2>2, Zenon DEF Words
    <2>4. cancel' \in {"none", "calling", "ok", "failed"}
      BY <1>4
    <2>5. QED
      BY <2>1, <2>2, <2>3, <2>4, ZenonT(30) DEF Words
  <1>7. Counters'
    BY <1>2 DEF IInv, Counters
  <1>8. Flags'
    BY <1>2, Zenon DEF IInv, Flags
  <1>9. HandlerInv' /\ LookupInv' /\ RejectedInv'
    BY <1>2, Zenon DEF IInv, HandlerInv, LookupInv, RejectedInv
  <1>10. CancelInv'
    BY <1>2, <1>3, <1>5 DEF IInv, CancelInv, CancelOkElsewhere
  <1>11. RejectedNeverExecutes' /\ AcceptedExists'
    BY <1>2 DEF IInv, RejectedNeverExecutes, AcceptedExists
  <1>12. QED
    BY <1>6, <1>7, <1>8, <1>9, <1>10, <1>11 DEF IInv

LEMMA NextIInv == IInv /\ [Next]_vars => IInv'
  <1> SUFFICES ASSUME IInv, [Next]_vars PROVE IInv'
    OBVIOUS
  <1>1. CASE UNCHANGED vars
    <2> USE <1>1 DEF vars
    <2>1. Words'
      <3>1. Words /\ UNCHANGED <<venue, type, order, wire, handler, told, browser, cancel, cwire>>
        BY DEF IInv
      <3>2. QED
        BY <3>1, Zenon DEF Words
    <2>2. Counters'
      BY DEF IInv, Counters
    <2>3. Flags'
      BY Zenon DEF IInv, Flags
    <2>4. HandlerInv' /\ LookupInv' /\ RejectedInv' /\ CancelInv'
      BY Zenon DEF IInv, HandlerInv, LookupInv, RejectedInv, CancelInv, CancelOkElsewhere
    <2>5. RejectedNeverExecutes' /\ AcceptedExists'
      BY DEF IInv, RejectedNeverExecutes, AcceptedExists
    <2>6. QED
      BY <2>1, <2>2, <2>3, <2>4, <2>5 DEF IInv
  <1>2. CASE Next
    BY <1>2, SubmitKeeps, placeOrderKeeps, ReadFailsKeeps, SendKeeps, ExecutesKeeps, ClosesKeeps,
       ReturnsKeeps, CrashKeeps, SubmitReturnsKeeps, RequestFailsKeeps, ResolveKeeps, LookupKeeps,
       LookupFailsKeeps, cancelOrderKeeps, VenueCancelsKeeps, CancelReturnsKeeps
       DEF Next, Gateway, Browser
  <1>3. QED
    BY <1>1, <1>2

-----------------------------------------------------------------------------
(* Theorems.                                                               *)

\* Every reachable state satisfies the inductive invariant.
THEOREM Invariance == Spec => []IInv
  <1>1. IInv /\ [Next]_vars => IInv'
    BY NextIInv
  <1>2. QED
    BY InitIInv, <1>1, PTL DEF Spec

\* Every variable of a submission keeps its type, the number of lookups its bound.
THEOREM TypeCorrect == Spec => []TypeOK
  <1>1. IInv => TypeOK
    BY TypeParts DEF IInv
  <1>2. QED
    BY Invariance, <1>1, PTL

\* classify's "rejected" is proof of non-execution, at every venue and for every answer.
THEOREM RejectedIsProof == Spec => []RejectedNeverExecutes
  <1>1. IInv => RejectedNeverExecutes
    BY DEF IInv
  <1>2. QED
    BY Invariance, <1>1, PTL

\* An order called accepted, by the gateway or by the browser, is at the venue.
THEOREM AcceptedIsThere == Spec => []AcceptedExists
  <1>1. IInv => AcceptedExists
    BY DEF IInv
  <1>2. QED
    BY Invariance, <1>1, PTL

\* The browser's "rejected" is wrong only after a code outside the SDK's list, or when a
\* lookup overtook the place command.
THEOREM NotPlacedIsTrueThen == Spec => []NotPlacedIsTrue
  <1>1. IInv => NotPlacedIsTrue
    BY DEF IInv, RejectedInv, NotPlacedIsTrue
  <1>2. QED
    BY Invariance, <1>1, PTL

\* An ok from the cancel route means that the order is over, Bybit and Bitget apart.
THEOREM CancelOkIsOver == Spec => []CancelOkElsewhere
  <1>1. IInv => CancelOkElsewhere
    BY DEF IInv, CancelInv
  <1>2. QED
    BY Invariance, <1>1, PTL

\* LookupExactOrder finds an order that was there when it began, in whichever list.
THEOREM LookupAlwaysFinds == Spec => LookupFindsOlder
  <1>1. IInv /\ [Next]_vars =>
          [browser = "looking" /\ existed /\ LookupExactOrder => browser' # "resolving"
                                                              /\ browser' # "rejected"]_vars
    <2> SUFFICES ASSUME IInv, browser = "looking", existed, LookupExactOrder
                 PROVE  browser' # "resolving" /\ browser' # "rejected"
      OBVIOUS
    <2>1. LookupStep
      BY LookupSteps
    <2>2. order # "none" /\ (look = 2 => order = "closed")
      BY DEF IInv, LookupInv
    <2>3. QED
      BY <2>1, <2>2 DEF LookupStep
  <1>2. QED
    BY Invariance, <1>1, PTL DEF Spec, LookupFindsOlder
=============================================================================
