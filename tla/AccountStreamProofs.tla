------------------------ MODULE AccountStreamProofs ------------------------
(***************************************************************************)
(* Proofs about AccountStream, for any number of topics, markets and calls. *)
(***************************************************************************)
EXTENDS AccountStream, TLAPS

\* A call in progress is the call its topic's goroutine is in; hence no topic
\* that is opened again can be the topic of a call that is still returning.
CallsInSource ==
    /\ \A c \in Calls : InProgress(c) => call[c].topic \in Topics /\ feed[call[c].topic] = "source"
    /\ \A c, d \in Calls : InProgress(c) /\ InProgress(d) /\ c # d => call[c].topic # call[d].topic

IInv ==
    /\ TypeOK
    /\ CallsInSource
    /\ EmitHasCall
    /\ DeadMarketFails

\* The constants of the types.
LEMMA Constants ==
    /\ NoNote \in Note
    /\ NoCall \in CallRecord /\ NoCall.at = "none"
    /\ NoWorker \in Worker /\ NoWorker.at = "none"
    /\ [NoWorker EXCEPT !.at = "opening"] \in Worker
    /\ [NoWorker EXCEPT !.at = "opening"].at = "opening"
    /\ [NoWorker EXCEPT !.at = "running"] \in Worker
    /\ [NoWorker EXCEPT !.at = "running"].at = "running"
  <1>1. NoNote \in Note
    BY DEF NoNote, Note
  <1>2. QED
    BY <1>1, Zenon DEF NoCall, CallRecord, NoWorker, Worker

LEMMA InitIInv == Init => IInv
  <1> SUFFICES ASSUME Init PROVE IInv
    OBVIOUS
  <1> USE DEF Init, FeedInit
  <1>1. TypeOK
    BY Constants DEF TypeOK, FeedTypeOK, Statuses
  <1>2. \A c \in Calls : call[c].at = "none"
    BY Constants
  <1>3. CallsInSource /\ EmitHasCall /\ DeadMarketFails
    BY <1>2 DEF CallsInSource, InProgress, EmitHasCall, DeadMarketFails, Cancelled
  <1>4. QED
    BY <1>1, <1>3 DEF IInv

-----------------------------------------------------------------------------
\* Steps of a call and of its goroutines.

\* A step of call c, or of one of its goroutines, that neither begins nor
\* ends the call: the call becomes q, and a goroutine of c ends only if the
\* call's context has ended or the call is marked as failed.
LEMMA CallGoesOn ==
    ASSUME IInv, NEW c \in Calls, NEW q \in CallRecord,
           call' = [call EXCEPT ![c] = q],
           q.topic = call[c].topic,
           q.at # "none" <=> call[c].at # "none",
           call[c].at = "leaving" => q.at = "leaving",
           call[c].failed => q.failed,
           UNCHANGED <<alive, feed, emit>>,
           TypeOK',
           \A d \in Calls, m \in Markets : worker'[d][m].at = "none" =>
               worker[d][m].at = "none" \/ (d = c /\ (Cancelled(c) \/ q.failed))
    PROVE  IInv'
  <1>1. call'[c] = q /\ \A d \in Calls \ {c} : call'[d] = call[d]
    BY DEF IInv, TypeOK
  <1>2. \A d \in Calls : /\ call'[d].topic = call[d].topic
                         /\ call'[d].at # "none" <=> call[d].at # "none"
                         /\ call[d].failed => call'[d].failed
                         /\ call[d].at = "leaving" => call'[d].at = "leaving"
    BY <1>1
  <1>3. CallsInSource'
    BY <1>2 DEF IInv, CallsInSource, InProgress
  <1>4. EmitHasCall'
    BY <1>2 DEF IInv, EmitHasCall, InProgress
  <1>5. \A d \in Calls : Cancelled(d) => Cancelled(d)'
    BY <1>2 DEF Cancelled
  <1>6. DeadMarketFails'
    BY <1>1, <1>2, <1>5 DEF IInv, DeadMarketFails
  <1>7. QED
    BY <1>3, <1>4, <1>6 DEF IInv

\* What publishStatus reads is a note.
LEMMA ReadStatusNote == TypeOK => ReadStatus \in Note
  BY DEF TypeOK, ReadStatus, Note

\* What publishStatus emits keeps the type of the retained status.
LEMMA DeliverStatus ==
    ASSUME TypeOK, NEW note \in Note, Deliver(note)
    PROVE  status' \in Statuses \cup {NoStatus}
  BY DEF TypeOK, Deliver, Note

\* Every step of the loop that keeps the call in progress.
LEMMA CallStepIInv ==
    ASSUME IInv, NEW c \in Calls, Resync(c) \/ ResyncEmit(c) \/ Tick(c) \/ Leave(c)
    PROVE  IInv'
  <1>1. TypeOK /\ call[c] \in CallRecord /\ call \in [Calls -> CallRecord] /\ ReadStatus \in Note
    BY ReadStatusNote DEF IInv, TypeOK
  <1>2. ASSUME NEW q \in CallRecord, call' = [call EXCEPT ![c] = q], q.topic = call[c].topic,
               q.at # "none", call[c].at \notin {"none", "leaving"}, q.failed = call[c].failed,
               UNCHANGED <<alive, feed, emit, connected, worker>>,
               status' \in Statuses \cup {NoStatus}
        PROVE  IInv'
    <2>1. TypeOK'
      BY <1>1, <1>2 DEF TypeOK, FeedTypeOK
    <2>2. QED
      BY <1>2, <2>1, CallGoesOn, Zenon
  <1>3. status \in Statuses \cup {NoStatus}
    BY <1>1 DEF TypeOK
  <1>4. CASE Resync(c)
    <2> DEFINE q == AfterResync(call[c])
    <2>1. q \in CallRecord /\ q.topic = call[c].topic /\ q.at # "none" /\ q.failed = call[c].failed
      BY <1>1, Zenon DEF AfterResync, CallRecord
    <2> HIDE DEF q
    <2>2. call' = [call EXCEPT ![c] = q]
      BY <1>4 DEF Resync, q
    <2>3. QED
      BY <1>2, <1>3, <1>4, <2>1, <2>2, Zenon DEF Resync
  <1>5. CASE ResyncEmit(c)
    <2> DEFINE q == [call[c] EXCEPT !.at = "select", !.note = NoNote]
    <2>1. q \in CallRecord /\ q.topic = call[c].topic /\ q.at # "none" /\ q.failed = call[c].failed
      BY <1>1, Constants, Zenon DEF CallRecord
    <2>2. call' = [call EXCEPT ![c] = q]
      BY <1>5 DEF ResyncEmit
    <2>3. call[c].note \in Note
      BY <1>1 DEF CallRecord
    <2>4. status' \in Statuses \cup {NoStatus}
      BY <1>1, <1>5, <2>3, DeliverStatus DEF ResyncEmit
    <2> HIDE DEF q
    <2>5. QED
      BY <1>2, <1>5, <2>1, <2>2, <2>4, Zenon DEF ResyncEmit
  <1>6. CASE Tick(c)
    <2> DEFINE q == [call[c] EXCEPT !.at = "resync"]
    <2>1. q \in CallRecord /\ q.topic = call[c].topic /\ q.at # "none" /\ q.failed = call[c].failed
      BY <1>1 DEF CallRecord
    <2>2. call' = [call EXCEPT ![c] = q]
      BY <1>6 DEF Tick
    <2> HIDE DEF q
    <2>3. QED
      BY <1>2, <1>3, <1>6, <2>1, <2>2, Zenon DEF Tick
  <1>7. CASE Leave(c)
    <2> DEFINE q == [call[c] EXCEPT !.at = "leaving"]
    <2>1. q \in CallRecord /\ q.topic = call[c].topic /\ q.at # "none" /\ q.failed = call[c].failed
      BY <1>1 DEF CallRecord
    <2>2. call' = [call EXCEPT ![c] = q]
      BY <1>7 DEF Leave
    <2> HIDE DEF q
    <2>3. QED
      BY <1>2, <1>3, <1>7, <2>1, <2>2, Zenon DEF Leave
  <1>8. QED
    BY <1>4, <1>5, <1>6, <1>7

\* SetWorker changes one goroutine.
LEMMA OneWorker ==
    ASSUME TypeOK, NEW c \in Calls, NEW m \in Markets, NEW w \in Worker, SetWorker(c, m, w)
    PROVE  /\ worker' \in [Calls -> [Markets -> Worker]]
           /\ worker'[c][m] = w
           /\ \A d \in Calls, n \in Markets : d # c \/ n # m => worker'[d][n] = worker[d][n]
  <1>1. worker \in [Calls -> [Markets -> Worker]] /\ worker[c] \in [Markets -> Worker]
    BY DEF TypeOK
  <1>2. [worker[c] EXCEPT ![m] = w] \in [Markets -> Worker]
    BY <1>1
  <1>3. worker' = [worker EXCEPT ![c] = [worker[c] EXCEPT ![m] = w]]
    BY DEF SetWorker
  <1>4. worker' \in [Calls -> [Markets -> Worker]]
    BY <1>1, <1>2, <1>3
  <1>5. worker'[c] = [worker[c] EXCEPT ![m] = w] /\ \A d \in Calls \ {c} : worker'[d] = worker[d]
    BY <1>1, <1>3
  <1>6. QED
    BY <1>1, <1>4, <1>5

\* A goroutine goes on, or ends without an error because its context ended.
LEMMA WorkerGoesOn ==
    ASSUME IInv, NEW c \in Calls, NEW m \in Markets, NEW w \in Worker, SetWorker(c, m, w),
           w.at # "none" \/ Cancelled(c),
           UNCHANGED <<alive, feed, emit, call>>,
           connected' \in Statuses, status' \in Statuses \cup {NoStatus}
    PROVE  IInv'
  <1>1. /\ worker' \in [Calls -> [Markets -> Worker]]
        /\ worker'[c][m] = w
        /\ \A d \in Calls, n \in Markets : d # c \/ n # m => worker'[d][n] = worker[d][n]
    BY OneWorker DEF IInv
  <1>2. TypeOK'
    BY <1>1 DEF IInv, TypeOK, FeedTypeOK
  <1>3. call[c] \in CallRecord /\ call' = [call EXCEPT ![c] = call[c]]
    BY DEF IInv, TypeOK
  <1>4. \A d \in Calls, n \in Markets : worker'[d][n].at = "none" =>
            worker[d][n].at = "none" \/ (d = c /\ (Cancelled(c) \/ call[c].failed))
    BY <1>1
  <1>5. QED
    BY <1>2, <1>3, <1>4, CallGoesOn, Zenon

\* A goroutine ends with an error: its call is marked as failed.
LEMMA WorkerFails ==
    ASSUME IInv, NEW c \in Calls, NEW m \in Markets, SetWorker(c, m, NoWorker), call' = Fail(c),
           UNCHANGED <<alive, feed, emit>>,
           connected' \in Statuses, status' \in Statuses \cup {NoStatus}
    PROVE  IInv'
  <1>1. /\ worker' \in [Calls -> [Markets -> Worker]]
        /\ \A d \in Calls, n \in Markets : d # c \/ n # m => worker'[d][n] = worker[d][n]
    BY OneWorker, Constants DEF IInv
  <1> DEFINE q == [call[c] EXCEPT !.failed = call[c].failed \/ ~Cancelled(c)]
  <1>2. call[c] \in CallRecord /\ call \in [Calls -> CallRecord]
    BY DEF IInv, TypeOK
  <1>3. call[c].failed \in BOOLEAN
    BY <1>2 DEF CallRecord
  <1>4. q \in CallRecord /\ q.topic = call[c].topic /\ q.at = call[c].at
    BY <1>2, Zenon DEF CallRecord
  <1>5. q.failed = (call[c].failed \/ ~Cancelled(c))
    BY <1>2 DEF CallRecord
  <1>6. call' = [call EXCEPT ![c] = q]
    BY DEF Fail
  <1> HIDE DEF q
  <1>7. TypeOK'
    BY <1>1, <1>2, <1>4, <1>6 DEF IInv, TypeOK, FeedTypeOK
  <1>8. \A d \in Calls, n \in Markets : worker'[d][n].at = "none" =>
            worker[d][n].at = "none" \/ (d = c /\ (Cancelled(c) \/ q.failed))
    BY <1>1, <1>5, Zenon
  <1>9. call[c].failed => q.failed
    BY <1>5, Zenon
  <1>10. QED
    BY <1>4, <1>6, <1>7, <1>8, <1>9, CallGoesOn, Zenon

LEMMA WorkerStepIInv ==
    ASSUME IInv, NEW c \in Calls, NEW m \in Markets, WorkerStep(c, m)
    PROVE  IInv'
  <1>1. /\ TypeOK /\ worker[c][m] \in Worker /\ connected \in Statuses
        /\ status \in Statuses \cup {NoStatus} /\ ReadStatus \in Note
    BY ReadStatusNote DEF IInv, TypeOK
  <1>2. CASE WatchFails(c, m)
    BY <1>1, <1>2, WorkerFails DEF WatchFails
  <1>3. CASE WatchOpens(c, m)
    BY <1>1, <1>3, Constants, WorkerGoesOn, Zenon DEF WatchOpens
  <1>4. ASSUME NEW flag \in BOOLEAN, NEW last \in BOOLEAN, SetConnected(c, m, flag, last)
        PROVE  IInv'
    <2> DEFINE w == [NoWorker EXCEPT !.at = "changed", !.last = last]
    <2>1. w \in Worker /\ w.at = "changed"
      BY Constants, Zenon DEF NoWorker, Worker
    <2>2. connected' \in Statuses
      BY <1>1, <1>4 DEF SetConnected, Statuses
    <2>3. /\ UNCHANGED <<alive, feed, emit, status>>
          /\ \/ SetWorker(c, m, w) /\ UNCHANGED call
             \/ SetWorker(c, m, NoWorker) /\ call' = Fail(c)
             \/ UNCHANGED <<worker, call>>
      BY <1>4 DEF SetConnected
    <2> HIDE DEF w
    <2>4. CASE SetWorker(c, m, w) /\ UNCHANGED call
      BY <1>1, <2>1, <2>2, <2>3, <2>4, WorkerGoesOn
    <2>5. CASE SetWorker(c, m, NoWorker) /\ call' = Fail(c)
      BY <1>1, <2>2, <2>3, <2>5, WorkerFails
    <2>6. CASE UNCHANGED <<worker, call>>
      <3>1. TypeOK'
        BY <2>2, <2>3, <2>6 DEF IInv, TypeOK, FeedTypeOK
      <3>2. call[c] \in CallRecord /\ call' = [call EXCEPT ![c] = call[c]]
        BY <2>6 DEF IInv, TypeOK
      <3>3. QED
        BY <2>3, <2>6, <3>1, <3>2, CallGoesOn, Zenon
    <2>7. QED
      BY <2>3, <2>4, <2>5, <2>6
  <1>5. CASE StatusActive(c, m) \/ StatusDegraded(c, m) \/ StreamEnds(c, m)
    BY <1>4, <1>5, Zenon DEF StatusActive, StatusDegraded, StreamEnds
  <1>6. CASE WorkerReads(c, m)
    <2> DEFINE w == [worker[c][m] EXCEPT !.at = "report", !.note = ReadStatus]
    <2>1. w \in Worker /\ w.at = "report"
      BY <1>1, Zenon DEF Worker
    <2>2. SetWorker(c, m, w)
      BY <1>6 DEF WorkerReads
    <2> HIDE DEF w
    <2>3. QED
      BY <1>1, <1>6, <2>1, <2>2, WorkerGoesOn DEF WorkerReads
  <1>7. CASE WorkerEmits(c, m)
    <2>1. worker[c][m].note \in Note
      BY <1>1 DEF Worker
    <2>2. status' \in Statuses \cup {NoStatus}
      BY <1>1, <1>7, <2>1, DeliverStatus DEF WorkerEmits
    <2>3. CASE SetWorker(c, m, NoWorker) /\ call' = Fail(c)
      BY <1>1, <1>7, <2>2, <2>3, WorkerFails DEF WorkerEmits
    <2>4. CASE SetWorker(c, m, [NoWorker EXCEPT !.at = "running"]) /\ UNCHANGED call
      BY <1>1, <1>7, <2>2, <2>4, Constants, WorkerGoesOn, Zenon DEF WorkerEmits
    <2>5. QED
      BY <1>7, <2>3, <2>4 DEF WorkerEmits
  <1>8. CASE WorkerDone(c, m)
    BY <1>1, <1>8, Constants, WorkerGoesOn DEF WorkerDone
  <1>9. QED
    BY <1>2, <1>3, <1>5, <1>6, <1>7, <1>8 DEF WorkerStep

-----------------------------------------------------------------------------
\* The topic's life, and the beginning and the end of a call.

\* A topic is opened, cancelled or given up by its goroutine.
LEMMA TopicIInv ==
    ASSUME IInv, CloseTopic \/ \E g \in Topics : OpenTopic(g) \/ QuitTopic(g)
    PROVE  IInv'
  <1>1. UNCHANGED <<emit, connected, call, worker>>
    BY DEF CloseTopic, OpenTopic, QuitTopic, streamVars
  <1>2. TypeOK'
    <2>1. status' \in Statuses \cup {NoStatus}
      BY DEF IInv, TypeOK, CloseTopic, OpenTopic, QuitTopic, streamVars
    <2>2. FeedTypeOK'
      BY DEF IInv, TypeOK, FeedTypeOK, CloseTopic, CancelTopic, OpenTopic, Open, QuitTopic, Quit
    <2>3. QED
      BY <1>1, <2>1, <2>2 DEF IInv, TypeOK
  <1>3. feed \in [Topics -> {"none", "waiting", "source"}]
    BY DEF IInv, TypeOK, FeedTypeOK
  <1>4. \A g \in Topics : feed[g] = "source" => feed'[g] = "source" /\ (alive # g => alive' # g)
    BY <1>3, StreamAssumption DEF CloseTopic, CancelTopic, OpenTopic, Open, QuitTopic, Quit
  <1>5. CallsInSource'
    BY <1>1, <1>4 DEF IInv, CallsInSource, InProgress
  <1>6. EmitHasCall'
    BY <1>1 DEF IInv, EmitHasCall, InProgress
  <1>7. \A c \in Calls : Cancelled(c) => Cancelled(c)'
    BY <1>1, <1>4 DEF IInv, CallsInSource, InProgress, Cancelled
  <1>8. DeadMarketFails'
    BY <1>1, <1>7 DEF IInv, DeadMarketFails
  <1>9. QED
    BY <1>2, <1>5, <1>6, <1>8 DEF IInv

LEMMA StreamIInv ==
    ASSUME IInv, NEW g \in Topics, NEW c \in Calls, Stream(g, c)
    PROVE  IInv'
  <1> DEFINE q == [NoCall EXCEPT !.topic = g, !.at = "resync"]
             ws == [m \in Markets |-> [NoWorker EXCEPT !.at = "opening"]]
  <1>1. q \in CallRecord /\ q.topic = g /\ q.at = "resync"
    BY Constants, Zenon DEF NoCall, CallRecord
  <1>2. ws \in [Markets -> Worker] /\ \A m \in Markets : ws[m].at = "opening"
    BY Constants, Zenon
  <1>3. /\ call' = [call EXCEPT ![c] = q] /\ worker' = [worker EXCEPT ![c] = ws]
        /\ emit' = g /\ UNCHANGED <<alive, connected, status>>
        /\ feed[g] = "waiting" /\ feed' = [feed EXCEPT ![g] = "source"]
    BY DEF Stream, Call
  <1> HIDE DEF q, ws
  <1>4. TypeOK'
    BY <1>1, <1>2, <1>3 DEF IInv, TypeOK, FeedTypeOK
  <1>5. /\ call'[c] = q /\ worker'[c] = ws
        /\ \A d \in Calls \ {c} : call'[d] = call[d] /\ worker'[d] = worker[d]
    BY <1>3 DEF IInv, TypeOK
  <1>6. feed'[g] = "source" /\ \A h \in Topics : feed[h] = "source" => feed'[h] = "source" /\ h # g
    BY <1>3 DEF IInv, TypeOK, FeedTypeOK
  <1>7. CallsInSource'
    BY <1>1, <1>5, <1>6 DEF IInv, CallsInSource, InProgress
  <1>8. EmitHasCall'
    BY <1>1, <1>3, <1>5 DEF EmitHasCall, InProgress
  <1>9. \A d \in Calls \ {c} : Cancelled(d) => Cancelled(d)'
    BY <1>3, <1>5 DEF Cancelled
  <1>10. DeadMarketFails'
    BY <1>2, <1>5, <1>9 DEF IInv, DeadMarketFails
  <1>11. QED
    BY <1>4, <1>7, <1>8, <1>10 DEF IInv

LEMMA StreamReturnsIInv ==
    ASSUME IInv, NEW c \in Calls, StreamReturns(c)
    PROVE  IInv'
  <1> DEFINE g == call[c].topic
  <1>1. /\ call' = [call EXCEPT ![c] = NoCall] /\ emit' = NoTopic
        /\ connected' = [m \in Markets |-> FALSE] /\ UNCHANGED <<alive, worker, status>>
        /\ feed' = [feed EXCEPT ![g] = IF alive = g THEN "waiting" ELSE "none"]
    BY DEF StreamReturns, Clear, Return
  <1>2. InProgress(c) /\ g \in Topics
    BY DEF IInv, CallsInSource, StreamReturns, InProgress
  <1> HIDE DEF g
  <1>3. TypeOK'
    <2>1. connected' \in Statuses
      BY <1>1 DEF Statuses
    <2>2. QED
      BY <1>1, <1>2, <2>1, Constants DEF IInv, TypeOK, FeedTypeOK
  <1>4. call'[c].at = "none" /\ \A d \in Calls \ {c} : call'[d] = call[d]
    BY <1>1, Constants DEF IInv, TypeOK
  <1>5. \A h \in Topics : h # g => feed'[h] = feed[h]
    BY <1>1 DEF IInv, TypeOK, FeedTypeOK
  <1>6. \A d \in Calls \ {c} : InProgress(d) => call[d].topic # g
    BY <1>2 DEF IInv, CallsInSource, g
  <1>7. CallsInSource'
    BY <1>4, <1>5, <1>6 DEF IInv, CallsInSource, InProgress
  <1>8. EmitHasCall'
    BY <1>1 DEF EmitHasCall
  <1>9. \A d \in Calls : Cancelled(d) => Cancelled(d)'
    BY <1>1, <1>4 DEF Cancelled
  <1>10. Cancelled(c)'
    BY <1>4 DEF Cancelled
  <1>11. DeadMarketFails'
    BY <1>1, <1>4, <1>9, <1>10 DEF IInv, DeadMarketFails
  <1>12. QED
    BY <1>3, <1>7, <1>8, <1>11 DEF IInv

LEMMA NextIInv == IInv /\ [Next]_vars => IInv'
  <1> SUFFICES ASSUME IInv, [Next]_vars PROVE IInv'
    OBVIOUS
  <1>1. CASE CloseTopic \/ \E g \in Topics : OpenTopic(g) \/ QuitTopic(g)
    BY <1>1, TopicIInv
  <1>2. ASSUME NEW g \in Topics, NEW c \in Calls, Stream(g, c) PROVE IInv'
    BY <1>2, StreamIInv
  <1>3. ASSUME NEW c \in Calls, CallStep(c) PROVE IInv'
    BY <1>3, CallStepIInv, StreamReturnsIInv DEF CallStep
  <1>4. ASSUME NEW c \in Calls, NEW m \in Markets, WorkerStep(c, m) PROVE IInv'
    BY <1>4, WorkerStepIInv
  <1>5. CASE UNCHANGED vars
    BY <1>5 DEF vars, IInv, TypeOK, FeedTypeOK, CallsInSource, EmitHasCall, DeadMarketFails,
                InProgress, Cancelled
  <1>6. QED
    BY <1>1, <1>2, <1>3, <1>4, <1>5 DEF Next

\* The inductive invariant holds in every reachable state.
THEOREM Invariance == Spec => []IInv
  BY InitIInv, NextIInv, PTL DEF Spec

\* Every reachable state of the account stream has its types.
THEOREM TypeCorrect == Spec => []TypeOK
  BY Invariance, PTL DEF IInv

\* rt.emit never outlives the last call of stream.
THEOREM EmitAlwaysHasCall == Spec => []EmitHasCall
  BY Invariance, PTL DEF IInv

\* A live stream never goes on without one of its markets: the goroutine that
\* ended has left an error for the loop.
THEOREM DeadMarketAlwaysFails == Spec => []DeadMarketFails
  BY Invariance, PTL DEF IInv
=============================================================================
