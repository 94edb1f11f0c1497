--------------------------- MODULE AccountStream ---------------------------
(***************************************************************************)
(* gateway/account/runtime.go: the private stream of one account as a hub   *)
(* source.  Every call of stream registers its emit in the runtime, starts  *)
(* one goroutine per market (streamMarket) and leaves without waiting for   *)
(* them; connected says, per market, whether positions may be served from   *)
(* memory.  rt.mu makes each read or write of emit and connected one step;  *)
(* publishStatus reads them in one step and emits in another.               *)
(*                                                                          *)
(* The position and balance tables of the runtime are in PositionSync.      *)
(***************************************************************************)
EXTENDS Feeds

CONSTANTS
    Markets,  \* the markets the account trades on
    Calls,    \* calls of stream, those whose goroutines linger included
    NoStatus

ASSUME StreamAssumption ==
    /\ NoTopic \notin Topics
    /\ NoStatus \notin [Markets -> BOOLEAN]

VARIABLES
    emit,       \* rt.emit: the topic it emits to
    connected,  \* rt.connected
    call,       \* the calls of stream
    worker,     \* the streamMarket goroutine of each call and market
    status      \* account.status as retained by the live topic

streamVars == <<emit, connected, call, worker, status>>
vars == <<alive, feed, emit, connected, call, worker, status>>

Statuses == [Markets -> BOOLEAN]

\* What publishStatus read under rt.mu and has yet to emit.
Note == [to : Topics \cup {NoTopic}, value : Statuses \cup {NoStatus}]
NoNote == [to |-> NoTopic, value |-> NoStatus]

\* "none": not running; "resync": reading the venue; "publish": a status is
\* read and not yet emitted; "select": the loop; "leaving": the deferred
\* cancel() has run.
CallRecord ==
    [topic  : Topics \cup {NoTopic},
     at     : {"none", "resync", "publish", "select", "leaving"},
     failed : BOOLEAN,
     note   : Note]

NoCall == [topic |-> NoTopic, at |-> "none", failed |-> FALSE, note |-> NoNote]

\* "opening": in WatchAccountEvents; "running": in the select loop;
\* "changed": setConnected changed the flag; "report": the status is read.
\* `last`: the goroutine returns an error after this setConnected.
Worker ==
    [at   : {"none", "opening", "running", "changed", "report"},
     last : BOOLEAN,
     note : Note]

NoWorker == [at |-> "none", last |-> FALSE, note |-> NoNote]

InProgress(c) == call[c].at # "none"

\* streamCtx.Err() # nil in a goroutine of call c.
Cancelled(c) ==
    \/ call[c].at \in {"none", "leaving"}
    \/ alive # call[c].topic

Init ==
    /\ FeedInit
    /\ emit = NoTopic
    /\ connected = [m \in Markets |-> FALSE]
    /\ call = [c \in Calls |-> NoCall]
    /\ worker = [c \in Calls |-> [m \in Markets |-> NoWorker]]
    /\ status = NoStatus

-----------------------------------------------------------------------------
\* The hub opens and cancels topics (Feeds).

\* A new object is one nothing refers to.
Unreferenced(g) ==
    /\ \A c \in Calls : call[c].note.to # g
    /\ \A c \in Calls, m \in Markets : worker[c][m].note.to # g

OpenTopic(g) ==
    /\ Open(g)
    /\ Unreferenced(g)
    /\ UNCHANGED streamVars

CloseTopic ==
    /\ CancelTopic
    /\ status' = NoStatus
    /\ UNCHANGED <<emit, connected, call, worker>>

QuitTopic(g) == Quit(g) /\ UNCHANGED streamVars

\* emit(message, true): muted once the topic's context has ended.
Deliver(note) ==
    status' = IF note.to # NoTopic /\ note.to = alive THEN note.value ELSE status

\* publishStatus, first half: the emit and the flags are read under rt.mu.
ReadStatus == [to |-> emit, value |-> connected]

-----------------------------------------------------------------------------
\* stream.

Stream(g, c) ==
    /\ Call(g)
    /\ ~InProgress(c)
    /\ worker[c] = [m \in Markets |-> NoWorker]
    /\ emit' = g
    /\ call' = [call EXCEPT ![c] = [NoCall EXCEPT !.topic = g, !.at = "resync"]]
    /\ worker' = [worker EXCEPT ![c] = [m \in Markets |-> [NoWorker EXCEPT !.at = "opening"]]]
    /\ UNCHANGED <<connected, status>>

\* Faulty variant: resync publishes positions and balances only.
AfterResyncSilent(r) == [r EXCEPT !.at = "select"]

AfterResync(r) ==
    IF emit = NoTopic
    THEN [r EXCEPT !.at = "select"]
    ELSE [r EXCEPT !.at = "publish", !.note = ReadStatus]

\* resync: the REST reads are over and publishStatus reads.
Resync(c) ==
    /\ call[c].at = "resync"
    /\ call' = [call EXCEPT ![c] = AfterResync(@)]
    /\ UNCHANGED <<alive, feed, emit, connected, worker, status>>

ResyncEmit(c) ==
    /\ call[c].at = "publish"
    /\ Deliver(call[c].note)
    /\ call' = [call EXCEPT ![c] = [@ EXCEPT !.at = "select", !.note = NoNote]]
    /\ UNCHANGED <<alive, feed, emit, connected, worker>>

\* case <-resync.C
Tick(c) ==
    /\ call[c].at = "select"
    /\ call' = [call EXCEPT ![c] = [@ EXCEPT !.at = "resync"]]
    /\ UNCHANGED <<alive, feed, emit, connected, worker, status>>

\* Faulty variant: the loop waits for its context only.
MustLeaveWhenDone(c) == alive # call[c].topic

\* case <-ctx.Done() and case err := <-failures.
MustLeave(c) == alive # call[c].topic \/ call[c].failed

\* cancel() is deferred last and so runs first.
Leave(c) ==
    /\ call[c].at = "select"
    /\ MustLeave(c)
    /\ call' = [call EXCEPT ![c] = [@ EXCEPT !.at = "leaving"]]
    /\ UNCHANGED <<alive, feed, emit, connected, worker, status>>

\* The deferred function of stream.
Clear == emit' = NoTopic /\ connected' = [m \in Markets |-> FALSE]

StreamReturns(c) ==
    /\ call[c].at = "leaving"
    /\ Return(call[c].topic)
    /\ Clear
    /\ call' = [call EXCEPT ![c] = NoCall]
    /\ UNCHANGED <<worker, status>>

-----------------------------------------------------------------------------
\* streamMarket, for market m of call c.

\* Faulty variant: only the errors of a cancelled stream are reported.
FailInverted(c) == [call EXCEPT ![c] = [@ EXCEPT !.failed = call[c].failed \/ Cancelled(c)]]

\* The goroutine ends with an error: failures <- err, unless streamCtx ended.
Fail(c) == [call EXCEPT ![c] = [@ EXCEPT !.failed = call[c].failed \/ ~Cancelled(c)]]

SetWorker(c, m, w) == worker' = [worker EXCEPT ![c] = [@ EXCEPT ![m] = w]]

\* No socket, no instruments, or WatchAccountEvents fails.
WatchFails(c, m) ==
    /\ worker[c][m].at = "opening"
    /\ SetWorker(c, m, NoWorker)
    /\ call' = Fail(c)
    /\ UNCHANGED <<alive, feed, emit, connected, status>>

\* The subscription may also have been made just before the call was cancelled.
WatchOpens(c, m) ==
    /\ worker[c][m].at = "opening"
    /\ SetWorker(c, m, [NoWorker EXCEPT !.at = "running"])
    /\ UNCHANGED <<alive, feed, emit, connected, call, status>>

\* setConnected(flag); publishStatus follows only if the flag changed.
SetConnected(c, m, flag, last) ==
    /\ worker[c][m].at = "running"
    /\ connected' = [connected EXCEPT ![m] = flag]
    /\ IF connected[m] # flag
       THEN /\ SetWorker(c, m, [NoWorker EXCEPT !.at = "changed", !.last = last])
            /\ UNCHANGED call
       ELSE IF last
       THEN SetWorker(c, m, NoWorker) /\ call' = Fail(c)
       ELSE UNCHANGED <<worker, call>>
    /\ UNCHANGED <<alive, feed, emit, status>>

\* A status other than Closed.
StatusActive(c, m) == SetConnected(c, m, TRUE, FALSE)
StatusDegraded(c, m) == SetConnected(c, m, FALSE, FALSE)

\* An error, the Closed status, or the end of the event channel.
StreamEnds(c, m) == SetConnected(c, m, FALSE, TRUE)

\* publishStatus of the goroutine: read, then emit.
WorkerReads(c, m) ==
    /\ worker[c][m].at = "changed"
    /\ SetWorker(c, m, [worker[c][m] EXCEPT !.at = "report", !.note = ReadStatus])
    /\ UNCHANGED <<alive, feed, emit, connected, call, status>>

WorkerEmits(c, m) ==
    /\ worker[c][m].at = "report"
    /\ Deliver(worker[c][m].note)
    /\ IF worker[c][m].last
       THEN SetWorker(c, m, NoWorker) /\ call' = Fail(c)
       ELSE SetWorker(c, m, [NoWorker EXCEPT !.at = "running"]) /\ UNCHANGED call
    /\ UNCHANGED <<alive, feed, emit, connected>>

\* case <-ctx.Done(): connected keeps its value.
WorkerDone(c, m) ==
    /\ worker[c][m].at = "running"
    /\ Cancelled(c)
    /\ SetWorker(c, m, NoWorker)
    /\ UNCHANGED <<alive, feed, emit, connected, call, status>>

-----------------------------------------------------------------------------
CallStep(c) ==
    \/ Resync(c)
    \/ ResyncEmit(c)
    \/ Tick(c)
    \/ Leave(c)
    \/ StreamReturns(c)

WorkerStep(c, m) ==
    \/ WatchFails(c, m)
    \/ WatchOpens(c, m)
    \/ StatusActive(c, m)
    \/ StatusDegraded(c, m)
    \/ StreamEnds(c, m)
    \/ WorkerReads(c, m)
    \/ WorkerEmits(c, m)
    \/ WorkerDone(c, m)

Next ==
    \/ CloseTopic
    \/ \E g \in Topics :
          \/ OpenTopic(g)
          \/ QuitTopic(g)
          \/ \E c \in Calls : Stream(g, c)
    \/ \E c \in Calls :
          \/ CallStep(c)
          \/ \E m \in Markets : WorkerStep(c, m)

Spec == Init /\ [][Next]_vars

\* The ticker fires, the loop's select serves every ready case sooner or
\* later (Go picks among ready cases at random), and no goroutine stops
\* between its steps.  Nothing is assumed of the venue.
Fairness ==
    \A c \in Calls :
        /\ WF_vars(Resync(c))
        /\ WF_vars(ResyncEmit(c))
        /\ WF_vars(Tick(c))
        /\ SF_vars(Leave(c))
        /\ WF_vars(StreamReturns(c))
        /\ \A m \in Markets :
              /\ WF_vars(WorkerReads(c, m))
              /\ WF_vars(WorkerEmits(c, m))
              /\ WF_vars(WorkerDone(c, m))

FairSpec == Spec /\ Fairness

-----------------------------------------------------------------------------
\* Properties.

\* Every variable has its type.
TypeOK ==
    /\ FeedTypeOK
    /\ emit \in Topics \cup {NoTopic}
    /\ connected \in Statuses
    /\ call \in [Calls -> CallRecord]
    /\ worker \in [Calls -> [Markets -> Worker]]
    /\ status \in Statuses \cup {NoStatus}

\* rt.emit is the emit of a call in progress: once the last call of stream
\* has returned, Positions reads the venue and nothing is published.
EmitHasCall ==
    emit # NoTopic => \E c \in Calls : InProgress(c) /\ call[c].topic = emit

\* While the context of a call is live, a market whose goroutine has ended
\* has left an error in failures: the stream never goes on without one of
\* its markets.
DeadMarketFails ==
    \A c \in Calls, m \in Markets :
        worker[c][m].at = "none" => Cancelled(c) \/ call[c].failed

\* A call that lost a market's stream returns, so that the hub retries.
LostMarketEndsCall ==
    \A c \in Calls : call[c].failed ~> ~InProgress(c)

\* If the flags settle while a topic's emit is registered, the account.status
\* its subscribers and late joiners hold settles to them, in whatever order
\* the goroutines published.
StatusSettles ==
    \A g \in Topics, f \in Statuses :
        <>[](alive = g /\ emit = g /\ connected = f) => <>[](status = f)

\* "keeps the snapshot fresh": while a call of a live topic is at work, the
\* runtime publishes to that topic.
LiveStreamPublishes ==
    \A c \in Calls :
        call[c].at \in {"resync", "publish", "select"} /\ alive = call[c].topic
            => emit = call[c].topic

=============================================================================
