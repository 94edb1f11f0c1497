-------------------------- MODULE VenueTopicProofs --------------------------
(***************************************************************************)
(* The safety properties of VenueTopic, for any number of Watch calls.      *)
(***************************************************************************)
EXTENDS VenueTopic, TLAPS

\* A call that has not begun is known to nobody.
IdleUnused ==
    \A w \in Watches : watch[w].at = "idle" =>
        /\ current # w
        /\ topic[w].starting
        /\ closer[w].at = "none"
        /\ w \notin shutdown.todo
        /\ \A v \in Watches : w \notin topic[v].subs /\ watch[v].of # w

\* A topic stays in the map while its start is under way.
StartingCurrent ==
    \A w \in Watches : watch[w].at \in {"starting", "startok", "startfail"} =>
        current = w /\ topic[w].starting /\ watch[w].of = w

\* A subscription that nobody closed is one of its topic, and the topic is in
\* the map unless it failed.
Attached ==
    \A w \in Watches :
        /\ watch[w].at \in {"starting", "startok", "startfail", "waiting", "finish", "open"}
        /\ closer[w].at = "none"
        => /\ watch[w].of \in Watches
           /\ w \in topic[watch[w].of].subs
           /\ topic[watch[w].of].err \/ current = watch[w].of

\* A start that nobody waits for any more: its own subscription was closed.
Unwanted ==
    \A w \in Watches : watch[w].at = "stopping" =>
        watch[w].of = w /\ ~topic[w].starting /\ closer[w].at # "none"

\* What a call knows of its topic once it is ready.
Opened ==
    \A w \in Watches :
        /\ watch[w].at \in {"waiting", "finish", "open"} => watch[w].of \in Watches
        /\ watch[w].at \in {"finish", "open"} => ~topic[watch[w].of].starting
        /\ watch[w].at = "open" => ~topic[watch[w].of].err

\* A topic without subscribers is in the map only during its start.
CurrentUsed ==
    current # None => topic[current].starting \/ topic[current].subs # {}

\* Who will stop the native topic.
FeedOwned ==
    handler # None =>
        /\ watch[handler].at \notin {"idle", "starting", "startfail"}
        /\ \/ current = handler
           \/ \E w \in Watches : closer[w].at = "stop" /\ closer[w].of = handler
           \/ watch[handler].at = "stopping"
           \/ topic[handler].leaked
           \/ closed

\* A pending stop is one of a topic.
StopsTopic == \A w \in Watches : closer[w].at = "stop" => closer[w].of \in Watches

IInv ==
    /\ TypeOK
    /\ IdleUnused
    /\ StartingCurrent
    /\ Attached
    /\ Unwanted
    /\ Opened
    /\ CurrentUsed
    /\ StopsTopic
    /\ FeedOwned

\* The records keep their type when a field is assigned.
LEMMA TopicFields ==
  ASSUME NEW r \in Topic, NEW s \in SUBSET Watches, NEW e \in BOOLEAN
  PROVE  /\ [r EXCEPT !.subs = s] \in Topic
         /\ [r EXCEPT !.leaked = TRUE] \in Topic
         /\ [r EXCEPT !.starting = FALSE, !.err = e] \in Topic
  BY Zenon DEF Topic

\* A topic's fields are assigned values of their types.
LEMMA TopicSubs ==
  ASSUME NEW r \in Topic, NEW s \in SUBSET Watches
  PROVE  [r EXCEPT !.subs = s] \in Topic
  BY DEF Topic

LEMMA TopicLeaks ==
  ASSUME NEW r \in Topic
  PROVE  /\ [r EXCEPT !.leaked = TRUE] \in Topic
         /\ [r EXCEPT !.leaked = TRUE].subs = r.subs
         /\ [r EXCEPT !.leaked = TRUE].starting = r.starting
         /\ [r EXCEPT !.leaked = TRUE].err = r.err
         /\ [r EXCEPT !.leaked = TRUE].leaked
  BY Zenon DEF Topic

LEMMA TopicStarted ==
  ASSUME NEW r \in Topic, NEW e \in BOOLEAN
  PROVE  [r EXCEPT !.starting = FALSE, !.err = e] \in Topic
  BY Zenon DEF Topic

\* The invariant holds before the first call of Watch.
LEMMA InitIInv == Init => IInv
  <1> SUFFICES ASSUME Init PROVE IInv
    OBVIOUS
  <1>1. TypeOK
    BY Zenon DEF Init, TypeOK, newWebSocketTopic, Topic, Watch, Closer, Shutdown
  <1>2. /\ IdleUnused
        /\ StartingCurrent
        /\ CurrentUsed
        /\ StopsTopic
        /\ FeedOwned
    BY TopicAssumption DEF Init, newWebSocketTopic, IdleUnused, StartingCurrent,
       CurrentUsed, StopsTopic, FeedOwned
  <1>3. Attached /\ Unwanted /\ Opened
    BY DEF Init, Attached, Unwanted, Opened
  <1>4. QED
    BY <1>1, <1>2, <1>3 DEF IInv

\* WatchRefused preserves the invariant.
LEMMA WatchRefusedKeeps ==
  ASSUME IInv, NEW w \in Watches, WatchRefused(w)
  PROVE  IInv'
  <1> USE TopicAssumption DEF IInv
  <1>1. TypeOK'
    <2>1. watch' \in [Watches -> Watch]
      BY DEF TypeOK, Watch, WatchRefused, Goto
    <2>2. QED
      BY <2>1 DEF TypeOK, WatchRefused, Goto
  <1>2. IdleUnused'
    BY DEF TypeOK, IdleUnused, WatchRefused, Goto
  <1>3. StartingCurrent'
    BY DEF TypeOK, StartingCurrent, WatchRefused, Goto
  <1>4. Attached'
    BY DEF TypeOK, Attached, WatchRefused, Goto
  <1>5. Unwanted'
    BY DEF TypeOK, Unwanted, WatchRefused, Goto
  <1>6. Opened'
    BY DEF TypeOK, Opened, WatchRefused, Goto
  <1>7. CurrentUsed'
    BY DEF TypeOK, CurrentUsed, WatchRefused, Goto
  <1>8. StopsTopic'
    BY DEF TypeOK, StopsTopic, WatchRefused, Goto
  <1>9. FeedOwned'
    BY DEF TypeOK, FeedOwned, WatchRefused, Goto
  <1>10. QED
    BY <1>1, <1>2, <1>3, <1>4, <1>5, <1>6, <1>7, <1>8, <1>9

\* WatchFirst preserves the invariant.
LEMMA WatchFirstKeeps ==
  ASSUME IInv, NEW w \in Watches, WatchFirst(w)
  PROVE  IInv'
  <1> USE TopicAssumption DEF IInv
  <1>1. TypeOK'
    <2>1. topic' \in [Watches -> Topic]
      BY DEF TypeOK, Topic, Closer, WatchFirst, Enter, Add
    <2>2. watch' \in [Watches -> Watch]
      BY DEF TypeOK, Watch, WatchFirst, Enter, Add
    <2>3. QED
      BY <2>1, <2>2 DEF TypeOK, WatchFirst, Enter, Add
  <1>2. IdleUnused'
    BY DEF TypeOK, IdleUnused, WatchFirst, Enter, Add
  <1>3. StartingCurrent'
    BY DEF TypeOK, Topic, Watch, Closer, Shutdown, IdleUnused, StartingCurrent, Attached,
       Unwanted, WatchFirst, Enter, Add
  <1>4. Attached'
    BY DEF TypeOK, Attached, WatchFirst, Enter, Add
  <1>5. Unwanted'
    BY DEF TypeOK, Unwanted, WatchFirst, Enter, Add
  <1>6. Opened'
    BY DEF TypeOK, Opened, WatchFirst, Enter, Add
  <1>7. CurrentUsed'
    BY DEF TypeOK, CurrentUsed, WatchFirst, Enter, Add
  <1>8. StopsTopic'
    BY DEF TypeOK, StopsTopic, WatchFirst, Enter, Add
  <1>9. FeedOwned'
    BY DEF TypeOK, FeedOwned, WatchFirst, Enter, Add
  <1>10. QED
    BY <1>1, <1>2, <1>3, <1>4, <1>5, <1>6, <1>7, <1>8, <1>9

\* WatchJoins preserves the invariant.
LEMMA WatchJoinsKeeps ==
  ASSUME IInv, NEW w \in Watches, WatchJoins(w)
  PROVE  IInv'
  <1> USE TopicAssumption DEF IInv
  <1>1. TypeOK'
    <2>1. topic' \in [Watches -> Topic]
      BY DEF TypeOK, Topic, Closer, WatchJoins, Add
    <2>2. watch' \in [Watches -> Watch]
      BY DEF TypeOK, Watch, WatchJoins, Add
    <2>3. QED
      BY <2>1, <2>2 DEF TypeOK, WatchJoins, Add
  <1>2. IdleUnused'
    BY DEF TypeOK, IdleUnused, WatchJoins, Add
  <1>3. StartingCurrent'
    BY DEF TypeOK, StartingCurrent, WatchJoins, Add
  <1>4. Attached'
    BY DEF TypeOK, Attached, WatchJoins, Add
  <1>5. Unwanted'
    BY DEF TypeOK, Unwanted, WatchJoins, Add
  <1>6. Opened'
    BY DEF TypeOK, Opened, WatchJoins, Add
  <1>7. CurrentUsed'
    BY DEF TypeOK, CurrentUsed, WatchJoins, Add
  <1>8. StopsTopic'
    BY DEF TypeOK, StopsTopic, WatchJoins, Add
  <1>9. FeedOwned'
    BY DEF TypeOK, FeedOwned, WatchJoins, Add
  <1>10. QED
    BY <1>1, <1>2, <1>3, <1>4, <1>5, <1>6, <1>7, <1>8, <1>9

\* StartSucceeds preserves the invariant.
LEMMA StartSucceedsKeeps ==
  ASSUME IInv, NEW w \in Watches, StartSucceeds(w)
  PROVE  IInv'
  <1> USE TopicAssumption DEF IInv
  <1>1. TypeOK'
    <2>1. watch' \in [Watches -> Watch]
      BY DEF TypeOK, Watch, StartSucceeds, Subscribe, Goto
    <2>2. QED
      BY <2>1 DEF TypeOK, StartSucceeds, Subscribe, Goto
  <1>2. IdleUnused'
    BY DEF TypeOK, IdleUnused, StartSucceeds, Subscribe, Goto
  <1>3. StartingCurrent'
    BY DEF TypeOK, StartingCurrent, StartSucceeds, Subscribe, Goto
  <1>4. Attached'
    BY DEF TypeOK, Attached, StartSucceeds, Subscribe, Goto
  <1>5. Unwanted'
    BY DEF TypeOK, Unwanted, StartSucceeds, Subscribe, Goto
  <1>6. Opened'
    BY DEF TypeOK, Opened, StartSucceeds, Subscribe, Goto
  <1>7. CurrentUsed'
    BY DEF TypeOK, CurrentUsed, StartSucceeds, Subscribe, Goto
  <1>8. StopsTopic'
    BY DEF TypeOK, StopsTopic, StartSucceeds, Subscribe, Goto
  <1>9. FeedOwned'
    BY DEF TypeOK, Topic, Watch, Closer, Shutdown, IdleUnused, StartingCurrent, Attached,
       Unwanted, FeedOwned, StartSucceeds, Subscribe, Goto
  <1>10. QED
    BY <1>1, <1>2, <1>3, <1>4, <1>5, <1>6, <1>7, <1>8, <1>9

\* StartFails preserves the invariant.
LEMMA StartFailsKeeps ==
  ASSUME IInv, NEW w \in Watches, StartFails(w)
  PROVE  IInv'
  <1> USE TopicAssumption DEF IInv
  <1>1. TypeOK'
    <2>1. watch' \in [Watches -> Watch]
      BY DEF TypeOK, Watch, StartFails, Goto
    <2>2. QED
      BY <2>1 DEF TypeOK, StartFails, Goto
  <1>2. IdleUnused'
    BY DEF TypeOK, IdleUnused, StartFails, Goto
  <1>3. StartingCurrent'
    BY DEF TypeOK, StartingCurrent, StartFails, Goto
  <1>4. Attached'
    BY DEF TypeOK, Attached, StartFails, Goto
  <1>5. Unwanted'
    BY DEF TypeOK, Unwanted, StartFails, Goto
  <1>6. Opened'
    BY DEF TypeOK, Opened, StartFails, Goto
  <1>7. CurrentUsed'
    BY DEF TypeOK, CurrentUsed, StartFails, Goto
  <1>8. StopsTopic'
    BY DEF TypeOK, StopsTopic, StartFails, Goto
  <1>9. FeedOwned'
    BY SMTT(30) DEF TypeOK, FeedOwned, StartFails, Goto
  <1>10. QED
    BY <1>1, <1>2, <1>3, <1>4, <1>5, <1>6, <1>7, <1>8, <1>9

\* StartReturns preserves the invariant.
LEMMA StartReturnsKeeps ==
  ASSUME IInv, NEW w \in Watches, StartReturns(w)
  PROVE  IInv'
  <1> USE TopicAssumption DEF IInv
  <1>1. topic' \in [Watches -> Topic]
    BY TopicStarted, Zenon DEF TypeOK, StartReturns, AfterStart, startErr
  <1>2. TypeOK'
    <2>1. watch' \in [Watches -> Watch]
      BY DEF TypeOK, Watch, StartReturns, AfterStart, startErr, Goto
    <2>2. QED
      BY <1>1, <2>1 DEF TypeOK, StartReturns, AfterStart, startErr, Goto
  <1>3. IdleUnused'
    BY DEF TypeOK, IdleUnused, StartReturns, AfterStart, startErr, Goto
  <1>4. StartingCurrent'
    BY DEF TypeOK, StartingCurrent, StartReturns, AfterStart, startErr, Goto
  <1>5. Attached'
    BY DEF TypeOK, Topic, Watch, Closer, Shutdown, IdleUnused, StartingCurrent, Attached,
       Unwanted, StartReturns, AfterStart, startErr, Goto
  <1>6. Unwanted'
    BY DEF TypeOK, Topic, Watch, Closer, Shutdown, IdleUnused, StartingCurrent, Attached,
       Unwanted, StartReturns, AfterStart, startErr, Goto
  <1>7. Opened'
    BY DEF TypeOK, Topic, Watch, Closer, Shutdown, IdleUnused, StartingCurrent, Attached,
       Unwanted, Opened, StartReturns, AfterStart, startErr, Goto
  <1>8. CurrentUsed'
    BY DEF TypeOK, CurrentUsed, StartReturns, AfterStart, startErr, Goto
  <1>9. StopsTopic'
    BY DEF TypeOK, StopsTopic, StartReturns, AfterStart, startErr, Goto
  <1>10. FeedOwned'
    BY DEF TypeOK, FeedOwned, StartReturns, AfterStart, startErr, Goto
  <1>11. QED
    BY <1>2, <1>3, <1>4, <1>5, <1>6, <1>7, <1>8, <1>9, <1>10

\* StopAfterStart preserves the invariant.
LEMMA StopAfterStartKeeps ==
  ASSUME IInv, NEW w \in Watches, StopAfterStart(w)
  PROVE  IInv'
  <1> USE TopicAssumption DEF IInv
  <1>1. \/ UNCHANGED topic /\ handler' = None
        \/ /\ topic' = [topic EXCEPT ![w] = [topic[w] EXCEPT !.leaked = TRUE]]
           /\ handler' = handler
    BY DEF StopAfterStart, Unsubscribe
  <1>2. topic' \in [Watches -> Topic]
    BY <1>1, TopicLeaks DEF TypeOK
  <1>3. \A v \in Watches : /\ topic'[v].subs = topic[v].subs
                           /\ topic'[v].starting = topic[v].starting
                           /\ topic'[v].err = topic[v].err
                           /\ topic[v].leaked => topic'[v].leaked
    <2>1. CASE UNCHANGED topic /\ handler' = None
      BY <2>1 DEF TypeOK
    <2>2. CASE /\ topic' = [topic EXCEPT ![w] = [topic[w] EXCEPT !.leaked = TRUE]]
               /\ handler' = handler
      <3>1. topic'[w] = [topic[w] EXCEPT !.leaked = TRUE]
        BY <2>2 DEF TypeOK
      <3>2. \A v \in Watches : v # w => topic'[v] = topic[v]
        BY <2>2 DEF TypeOK
      <3>3. topic[w] \in Topic
        BY DEF TypeOK
      <3>4. QED
        BY <2>2, <3>1, <3>2, <3>3, TopicLeaks
    <2>3. QED
      BY <1>1, <2>1, <2>2
  <1>4. handler' = None \/ (handler' = handler /\ topic'[w].leaked)
    <2>1. CASE UNCHANGED topic /\ handler' = None
      BY <2>1 DEF TypeOK
    <2>2. CASE /\ topic' = [topic EXCEPT ![w] = [topic[w] EXCEPT !.leaked = TRUE]]
               /\ handler' = handler
      <3>1. topic'[w] = [topic[w] EXCEPT !.leaked = TRUE]
        BY <2>2 DEF TypeOK
      <3>2. \A v \in Watches : v # w => topic'[v] = topic[v]
        BY <2>2 DEF TypeOK
      <3>3. topic[w] \in Topic
        BY DEF TypeOK
      <3>4. QED
        BY <2>2, <3>1, <3>2, <3>3, TopicLeaks, Zenon
    <2>3. QED
      BY <1>1, <2>1, <2>2
  <1>5. /\ watch[w].at = "stopping"
        /\ watch' = [watch EXCEPT ![w] = [@ EXCEPT !.at = "finish"]]
        /\ UNCHANGED <<closed, current, closer, shutdown>>
    BY DEF StopAfterStart, Goto
  <1>6. TypeOK'
    BY <1>1, <1>2, <1>3, <1>4, <1>5 DEF TypeOK, Watch, Closer
  <1>7. IdleUnused'
    BY <1>1, <1>2, <1>3, <1>4, <1>5 DEF TypeOK, IdleUnused
  <1>8. StartingCurrent'
    BY <1>1, <1>2, <1>3, <1>4, <1>5 DEF TypeOK, StartingCurrent
  <1>9. Attached'
    BY <1>1, <1>2, <1>3, <1>4, <1>5 DEF TypeOK, Topic, Watch, Closer, Shutdown, IdleUnused,
       StartingCurrent, Attached, Unwanted
  <1>10. Unwanted'
    BY <1>1, <1>2, <1>3, <1>4, <1>5 DEF TypeOK, Unwanted
  <1>11. Opened'
    BY <1>1, <1>2, <1>3, <1>4, <1>5 DEF TypeOK, Topic, Watch, Closer, Shutdown, IdleUnused,
       StartingCurrent, Attached, Unwanted, Opened
  <1>12. CurrentUsed'
    BY <1>1, <1>2, <1>3, <1>4, <1>5 DEF TypeOK, CurrentUsed
  <1>13. StopsTopic'
    BY <1>1, <1>2, <1>3, <1>4, <1>5 DEF TypeOK, StopsTopic
  <1>14. FeedOwned'
    BY <1>1, <1>2, <1>3, <1>4, <1>5 DEF TypeOK, FeedOwned
  <1>15. QED
    BY <1>6, <1>7, <1>8, <1>9, <1>10, <1>11, <1>12, <1>13, <1>14

\* Ready preserves the invariant.
LEMMA ReadyKeeps ==
  ASSUME IInv, NEW w \in Watches, Ready(w)
  PROVE  IInv'
  <1> USE TopicAssumption DEF IInv
  <1>1. TypeOK'
    <2>1. watch' \in [Watches -> Watch]
      BY DEF TypeOK, Watch, Ready, Goto
    <2>2. QED
      BY <2>1 DEF TypeOK, Ready, Goto
  <1>2. IdleUnused'
    BY DEF TypeOK, IdleUnused, Ready, Goto
  <1>3. StartingCurrent'
    BY DEF TypeOK, StartingCurrent, Ready, Goto
  <1>4. Attached'
    BY DEF TypeOK, Attached, Ready, Goto
  <1>5. Unwanted'
    BY DEF TypeOK, Unwanted, Ready, Goto
  <1>6. Opened'
    BY DEF TypeOK, Opened, Ready, Goto
  <1>7. CurrentUsed'
    BY DEF TypeOK, CurrentUsed, Ready, Goto
  <1>8. StopsTopic'
    BY DEF TypeOK, StopsTopic, Ready, Goto
  <1>9. FeedOwned'
    BY DEF TypeOK, FeedOwned, Ready, Goto
  <1>10. QED
    BY <1>1, <1>2, <1>3, <1>4, <1>5, <1>6, <1>7, <1>8, <1>9

\* GiveUp preserves the invariant.
LEMMA GiveUpKeeps ==
  ASSUME IInv, NEW w \in Watches, GiveUp(w)
  PROVE  IInv'
  <1> USE TopicAssumption DEF IInv
  <1>1. closer' \in [Watches -> Closer]
    BY DEF TypeOK, Closer, GiveUp, CloserAt
  <1>2. \A v \in Watches : \/ closer'[v] = closer[v]
                           \/ v = w /\ closer[v].at = "none" /\ closer'[v].at = "begun"
    BY DEF TypeOK, Closer, GiveUp, CloserAt
  <1>3. /\ watch[w].at = "waiting"
        /\ watch' = [watch EXCEPT ![w] = [@ EXCEPT !.at = "givingup"]]
        /\ UNCHANGED <<closed, current, topic, shutdown, handler>>
    BY DEF GiveUp, Goto
  <1>4. TypeOK'
    BY <1>1, <1>2, <1>3 DEF TypeOK, Watch, Closer
  <1>5. IdleUnused'
    BY <1>1, <1>2, <1>3 DEF TypeOK, IdleUnused
  <1>6. StartingCurrent'
    BY <1>1, <1>2, <1>3 DEF TypeOK, StartingCurrent
  <1>7. Attached'
    BY <1>1, <1>2, <1>3 DEF TypeOK, Attached
  <1>8. Unwanted'
    BY <1>1, <1>2, <1>3 DEF TypeOK, Unwanted
  <1>9. Opened'
    BY <1>1, <1>2, <1>3 DEF TypeOK, Opened
  <1>10. CurrentUsed'
    BY <1>1, <1>2, <1>3 DEF TypeOK, CurrentUsed
  <1>11. StopsTopic'
    BY <1>1, <1>2, <1>3 DEF TypeOK, StopsTopic
  <1>12. FeedOwned'
    BY <1>1, <1>2, <1>3 DEF TypeOK, FeedOwned
  <1>13. QED
    BY <1>4, <1>5, <1>6, <1>7, <1>8, <1>9, <1>10, <1>11, <1>12

\* GaveUp preserves the invariant.
LEMMA GaveUpKeeps ==
  ASSUME IInv, NEW w \in Watches, GaveUp(w)
  PROVE  IInv'
  <1> USE TopicAssumption DEF IInv
  <1>1. TypeOK'
    <2>1. watch' \in [Watches -> Watch]
      BY DEF TypeOK, Watch, GaveUp, Goto
    <2>2. QED
      BY <2>1 DEF TypeOK, GaveUp, Goto
  <1>2. IdleUnused'
    BY DEF TypeOK, IdleUnused, GaveUp, Goto
  <1>3. StartingCurrent'
    BY DEF TypeOK, StartingCurrent, GaveUp, Goto
  <1>4. Attached'
    BY DEF TypeOK, Attached, GaveUp, Goto
  <1>5. Unwanted'
    BY DEF TypeOK, Unwanted, GaveUp, Goto
  <1>6. Opened'
    BY DEF TypeOK, Opened, GaveUp, Goto
  <1>7. CurrentUsed'
    BY DEF TypeOK, CurrentUsed, GaveUp, Goto
  <1>8. StopsTopic'
    BY DEF TypeOK, StopsTopic, GaveUp, Goto
  <1>9. FeedOwned'
    BY DEF TypeOK, FeedOwned, GaveUp, Goto
  <1>10. QED
    BY <1>1, <1>2, <1>3, <1>4, <1>5, <1>6, <1>7, <1>8, <1>9

\* Finish preserves the invariant.
LEMMA FinishKeeps ==
  ASSUME IInv, NEW w \in Watches, Finish(w)
  PROVE  IInv'
  <1> USE TopicAssumption DEF IInv
  <1>1. TypeOK'
    <2>1. watch' \in [Watches -> Watch]
      BY DEF TypeOK, Watch, Finish, Goto, Outcome
    <2>2. QED
      BY <2>1 DEF TypeOK, Finish, Goto, Outcome
  <1>2. IdleUnused'
    BY DEF TypeOK, IdleUnused, Finish, Goto, Outcome
  <1>3. StartingCurrent'
    BY DEF TypeOK, StartingCurrent, Finish, Goto, Outcome
  <1>4. Attached'
    BY DEF TypeOK, Attached, Finish, Goto, Outcome
  <1>5. Unwanted'
    BY DEF TypeOK, Unwanted, Finish, Goto, Outcome
  <1>6. Opened'
    BY DEF TypeOK, Opened, Finish, Goto, Outcome
  <1>7. CurrentUsed'
    BY DEF TypeOK, CurrentUsed, Finish, Goto, Outcome
  <1>8. StopsTopic'
    BY DEF TypeOK, StopsTopic, Finish, Goto, Outcome
  <1>9. FeedOwned'
    BY DEF TypeOK, FeedOwned, Finish, Goto, Outcome
  <1>10. QED
    BY <1>1, <1>2, <1>3, <1>4, <1>5, <1>6, <1>7, <1>8, <1>9

\* CloseSubscription preserves the invariant.
LEMMA CloseSubscriptionKeeps ==
  ASSUME IInv, NEW w \in Watches, CloseSubscription(w)
  PROVE  IInv'
  <1> USE TopicAssumption DEF IInv
  <1>1. TypeOK'
    <2>1. closer' \in [Watches -> Closer]
      BY DEF TypeOK, Closer, CloseSubscription, CloserAt
    <2>2. QED
      BY <2>1 DEF TypeOK, CloseSubscription, CloserAt
  <1>2. IdleUnused'
    BY DEF TypeOK, IdleUnused, CloseSubscription, CloserAt
  <1>3. StartingCurrent'
    BY DEF TypeOK, StartingCurrent, CloseSubscription, CloserAt
  <1>4. Attached'
    BY DEF TypeOK, Attached, CloseSubscription, CloserAt
  <1>5. Unwanted'
    BY DEF TypeOK, Unwanted, CloseSubscription, CloserAt
  <1>6. Opened'
    BY DEF TypeOK, Opened, CloseSubscription, CloserAt
  <1>7. CurrentUsed'
    BY DEF TypeOK, CurrentUsed, CloseSubscription, CloserAt
  <1>8. StopsTopic'
    BY DEF TypeOK, StopsTopic, CloseSubscription, CloserAt
  <1>9. FeedOwned'
    BY DEF TypeOK, FeedOwned, CloseSubscription, CloserAt
  <1>10. QED
    BY <1>1, <1>2, <1>3, <1>4, <1>5, <1>6, <1>7, <1>8, <1>9

\* Remove preserves the invariant.
LEMMA RemoveKeeps ==
  ASSUME IInv, NEW w \in Watches, Remove(w)
  PROVE  IInv'
  <1> USE TopicAssumption DEF IInv
  <1>1. \/ UNCHANGED topic /\ current = None
        \/ /\ current \in Watches
           /\ topic' = [topic EXCEPT ![current] = [topic[current] EXCEPT !.subs = topic[current].subs \ {w}]]
    BY DEF TypeOK, Remove, Remaining
  <1>2. topic' \in [Watches -> Topic]
    BY <1>1, TopicSubs DEF TypeOK, Topic
  <1>3. \A v \in Watches : /\ topic'[v].subs = topic[v].subs \ (IF v = current THEN {w} ELSE {})
                           /\ topic'[v].starting = topic[v].starting
                           /\ topic'[v].err = topic[v].err
                           /\ topic'[v].leaked = topic[v].leaked
    <2>1. CASE UNCHANGED topic /\ current = None
      BY <2>1 DEF TypeOK, Topic
    <2>2. CASE /\ current \in Watches
               /\ topic' = [topic EXCEPT ![current] = [topic[current] EXCEPT !.subs = topic[current].subs \ {w}]]
      <3>1. topic'[current] = [topic[current] EXCEPT !.subs = topic[current].subs \ {w}]
        BY <2>2 DEF TypeOK
      <3>2. \A v \in Watches : v # current => topic'[v] = topic[v]
        BY <2>2 DEF TypeOK
      <3>3. topic[current] \in Topic
        BY <2>2 DEF TypeOK
      <3>4. /\ topic'[current].subs = topic[current].subs \ {w}
            /\ topic'[current].starting = topic[current].starting
            /\ topic'[current].err = topic[current].err
            /\ topic'[current].leaked = topic[current].leaked
        BY <3>1, <3>3 DEF Topic
      <3>5. QED
        BY <3>2, <3>4
    <2>3. QED
      BY <1>1, <2>1, <2>2
  <1>4. closer' \in [Watches -> Closer]
    BY DEF TypeOK, Closer, Remove, CloserAt
  <1>5. \A v \in Watches : v # w => closer'[v] = closer[v]
    BY DEF TypeOK, Remove, CloserAt
  <1>6. \/ /\ current' = current
           /\ closer'[w].at = "stopped"
           /\ current # None => (topic[current].starting \/ topic[current].subs \ {w} # {})
        \/ /\ current' = None
           /\ current \in Watches
           /\ ~topic[current].starting
           /\ topic[current].subs \ {w} = {}
           /\ closer'[w].at = "stop"
           /\ closer'[w].of = current
    BY DEF TypeOK, Closer, Remove, Remaining, LastOne, CloserAt
  <1>7. closer[w].at = "begun" /\ UNCHANGED <<closed, watch, shutdown, handler>>
    BY DEF Remove
  <1>8. TypeOK'
    BY <1>1, <1>2, <1>3, <1>4, <1>5, <1>6, <1>7 DEF TypeOK, Watch, Closer
  <1>9. IdleUnused'
    <2> SUFFICES ASSUME NEW v \in Watches, watch[v].at = "idle"
                 PROVE  /\ current' # v
                        /\ topic'[v].starting
                        /\ closer'[v].at = "none"
                        /\ v \notin shutdown.todo
                        /\ \A u \in Watches : v \notin topic'[u].subs /\ watch[u].of # v
      BY <1>7 DEF IdleUnused
    <2>1. /\ current # v
          /\ topic[v].starting
          /\ closer[v].at = "none"
          /\ v \notin shutdown.todo
          /\ \A u \in Watches : v \notin topic[u].subs /\ watch[u].of # v
      BY DEF IdleUnused
    <2>2. closer'[v].at = "none"
      BY <2>1, <1>5, <1>7
    <2>3. QED
      BY <2>1, <2>2, <1>3, <1>6
  <1>10. StartingCurrent'
    BY <1>1, <1>2, <1>3, <1>4, <1>5, <1>6, <1>7 DEF TypeOK, StartingCurrent
  <1>11. Attached'
    <2> SUFFICES ASSUME NEW v \in Watches,
                        watch[v].at \in {"starting", "startok", "startfail", "waiting", "finish", "open"},
                        closer'[v].at = "none"
                 PROVE  /\ watch[v].of \in Watches
                        /\ v \in topic'[watch[v].of].subs
                        /\ topic'[watch[v].of].err \/ current' = watch[v].of
      BY <1>7 DEF Attached
    <2>1. v # w
      BY <1>6
    <2>2. /\ watch[v].of \in Watches
          /\ v \in topic[watch[v].of].subs
          /\ topic[watch[v].of].err \/ current = watch[v].of
      BY <2>1, <1>5 DEF Attached
    <2>3. v \in topic'[watch[v].of].subs /\ topic'[watch[v].of].err = topic[watch[v].of].err
      BY <2>1, <2>2, <1>3
    <2>4. QED
      BY <2>1, <2>2, <2>3, <1>6
  <1>12. Unwanted'
    BY <1>1, <1>2, <1>3, <1>4, <1>5, <1>6, <1>7 DEF TypeOK, Unwanted
  <1>13. Opened'
    BY <1>1, <1>2, <1>3, <1>4, <1>5, <1>6, <1>7 DEF TypeOK, Opened
  <1>14. CurrentUsed'
    BY <1>1, <1>2, <1>3, <1>4, <1>5, <1>6, <1>7 DEF TypeOK, CurrentUsed
  <1>15. StopsTopic'
    BY <1>5, <1>6 DEF StopsTopic
  <1>16. FeedOwned'
    <2> SUFFICES ASSUME handler # None
                 PROVE  FeedOwned'
      BY <1>7 DEF FeedOwned
    <2>1. handler \in Watches
      BY DEF TypeOK
    <2>2. topic'[handler].leaked = topic[handler].leaked
      BY <2>1, <1>3
    <2>3. ASSUME NEW u \in Watches, closer[u].at = "stop"
          PROVE  closer'[u] = closer[u]
      BY <2>3, <1>5, <1>7
    <2>4. CASE current' = current
      BY <2>2, <2>3, <2>4, <1>7 DEF FeedOwned
    <2>5. CASE current' = None /\ closer'[w].at = "stop" /\ closer'[w].of = current
      BY <2>2, <2>3, <2>5, <1>7 DEF FeedOwned
    <2>6. QED
      BY <2>4, <2>5, <1>6
  <1>17. QED
    BY <1>8, <1>9, <1>10, <1>11, <1>12, <1>13, <1>14, <1>15, <1>16

\* Stop preserves the invariant.
LEMMA StopKeeps ==
  ASSUME IInv, NEW w \in Watches, Stop(w)
  PROVE  IInv'
  <1> USE TopicAssumption DEF IInv
  <1>1. \/ UNCHANGED topic /\ handler' = None
        \/ /\ topic' = [topic EXCEPT ![closer[w].of] = [topic[closer[w].of] EXCEPT !.leaked = TRUE]]
           /\ handler' = handler
    BY DEF Stop, Unsubscribe
  <1>2. /\ closer[w].at = "stop"
        /\ closer' = [closer EXCEPT ![w] = [at |-> "stopped", of |-> None]]
        /\ UNCHANGED <<closed, current, watch, shutdown>>
    BY DEF Stop, CloserAt
  <1>3. closer[w].of \in Watches
    BY <1>2 DEF StopsTopic
  <1>4. topic' \in [Watches -> Topic]
    BY <1>1, <1>3, TopicLeaks DEF TypeOK
  <1>5. \A v \in Watches : /\ topic'[v].subs = topic[v].subs
                           /\ topic'[v].starting = topic[v].starting
                           /\ topic'[v].err = topic[v].err
                           /\ topic[v].leaked => topic'[v].leaked
    <2>1. CASE UNCHANGED topic /\ handler' = None
      BY <2>1 DEF TypeOK
    <2>2. CASE /\ topic' = [topic EXCEPT ![closer[w].of] = [topic[closer[w].of] EXCEPT !.leaked = TRUE]]
               /\ handler' = handler
      <3>1. topic'[closer[w].of] = [topic[closer[w].of] EXCEPT !.leaked = TRUE]
        BY <2>2, <1>3, Zenon DEF TypeOK
      <3>2. \A v \in Watches : v # closer[w].of => topic'[v] = topic[v]
        BY <2>2, <1>3 DEF TypeOK
      <3>3. topic[closer[w].of] \in Topic
        BY <1>3 DEF TypeOK
      <3>4. QED
        BY <2>2, <3>1, <3>2, <3>3, TopicLeaks, <1>3
    <2>3. QED
      BY <1>1, <2>1, <2>2
  <1>6. handler' = None \/ (handler' = handler /\ topic'[closer[w].of].leaked)
    <2>1. CASE UNCHANGED topic /\ handler' = None
      BY <2>1 DEF TypeOK
    <2>2. CASE /\ topic' = [topic EXCEPT ![closer[w].of] = [topic[closer[w].of] EXCEPT !.leaked = TRUE]]
               /\ handler' = handler
      <3>1. topic'[closer[w].of] = [topic[closer[w].of] EXCEPT !.leaked = TRUE]
        BY <2>2, <1>3, Zenon DEF TypeOK
      <3>2. \A v \in Watches : v # closer[w].of => topic'[v] = topic[v]
        BY <2>2, <1>3 DEF TypeOK
      <3>3. topic[closer[w].of] \in Topic
        BY <1>3 DEF TypeOK
      <3>4. QED
        BY <2>2, <3>1, <3>2, <3>3, TopicLeaks, <1>3, Zenon
    <2>3. QED
      BY <1>1, <2>1, <2>2
  <1>7. TypeOK'
    BY <1>1, <1>2, <1>3, <1>4, <1>5, <1>6, Zenon DEF TypeOK, Watch, Closer
  <1>8. IdleUnused'
    BY <1>1, <1>2, <1>3, <1>4, <1>5, <1>6 DEF TypeOK, IdleUnused
  <1>9. StartingCurrent'
    BY <1>1, <1>2, <1>3, <1>4, <1>5, <1>6 DEF TypeOK, StartingCurrent
  <1>10. Attached'
    BY <1>1, <1>2, <1>3, <1>4, <1>5, <1>6 DEF TypeOK, Attached
  <1>11. Unwanted'
    BY <1>1, <1>2, <1>3, <1>4, <1>5, <1>6 DEF TypeOK, Unwanted
  <1>12. Opened'
    BY <1>1, <1>2, <1>3, <1>4, <1>5, <1>6 DEF TypeOK, Opened
  <1>13. CurrentUsed'
    BY <1>1, <1>2, <1>3, <1>4, <1>5, <1>6 DEF TypeOK, CurrentUsed
  <1>14. StopsTopic'
    BY <1>1, <1>2, <1>3, <1>4, <1>5, <1>6 DEF TypeOK, StopsTopic
  <1>15. FeedOwned'
    BY <1>1, <1>2, <1>3, <1>4, <1>5, <1>6 DEF TypeOK, FeedOwned
  <1>16. QED
    BY <1>7, <1>8, <1>9, <1>10, <1>11, <1>12, <1>13, <1>14, <1>15

\* CloseStreams preserves the invariant.
LEMMA CloseStreamsKeeps ==
  ASSUME IInv, NEW w \in Watches, CloseStreams(w)
  PROVE  IInv'
  <1> USE TopicAssumption DEF IInv
  <1>1. TypeOK'
    <2>1. closer' \in [Watches -> Closer]
      BY DEF TypeOK, Closer, CloseStreams, CloserAt
    <2>2. QED
      BY <2>1 DEF TypeOK, CloseStreams, CloserAt
  <1>2. IdleUnused'
    BY DEF TypeOK, IdleUnused, CloseStreams, CloserAt
  <1>3. StartingCurrent'
    BY DEF TypeOK, StartingCurrent, CloseStreams, CloserAt
  <1>4. Attached'
    BY DEF TypeOK, Attached, CloseStreams, CloserAt
  <1>5. Unwanted'
    BY DEF TypeOK, Unwanted, CloseStreams, CloserAt
  <1>6. Opened'
    BY DEF TypeOK, Opened, CloseStreams, CloserAt
  <1>7. CurrentUsed'
    BY DEF TypeOK, CurrentUsed, CloseStreams, CloserAt
  <1>8. StopsTopic'
    BY DEF TypeOK, StopsTopic, CloseStreams, CloserAt
  <1>9. FeedOwned'
    BY DEF TypeOK, FeedOwned, CloseStreams, CloserAt
  <1>10. QED
    BY <1>1, <1>2, <1>3, <1>4, <1>5, <1>6, <1>7, <1>8, <1>9

\* CloseNext preserves the invariant.
LEMMA CloseNextKeeps ==
  ASSUME IInv, NEW w \in Watches, CloseNext(w)
  PROVE  IInv'
  <1> USE TopicAssumption DEF IInv
  <1>1. closer' \in [Watches -> Closer]
    BY DEF TypeOK, Closer, CloseNext, CloserAt
  <1>2. \A v \in Watches : \/ closer'[v] = closer[v]
                           \/ v = w /\ closer[v].at = "none" /\ closer'[v].at = "begun"
    BY DEF TypeOK, Closer, CloseNext, CloserAt
  <1>3. shutdown' \in Shutdown /\ shutdown'.todo = shutdown.todo
    BY DEF TypeOK, Shutdown, CloseNext
  <1>4. /\ w \in shutdown.todo
        /\ UNCHANGED <<closed, current, topic, watch, handler>>
    BY DEF CloseNext
  <1>5. TypeOK'
    BY <1>1, <1>2, <1>3, <1>4 DEF TypeOK, Watch, Closer
  <1>6. IdleUnused'
    BY <1>1, <1>2, <1>3, <1>4 DEF TypeOK, IdleUnused
  <1>7. StartingCurrent'
    BY <1>1, <1>2, <1>3, <1>4 DEF TypeOK, StartingCurrent
  <1>8. Attached'
    BY <1>1, <1>2, <1>3, <1>4 DEF TypeOK, Attached
  <1>9. Unwanted'
    BY <1>1, <1>2, <1>3, <1>4 DEF TypeOK, Unwanted
  <1>10. Opened'
    BY <1>1, <1>2, <1>3, <1>4 DEF TypeOK, Opened
  <1>11. CurrentUsed'
    BY <1>1, <1>2, <1>3, <1>4 DEF TypeOK, CurrentUsed
  <1>12. StopsTopic'
    BY <1>1, <1>2, <1>3, <1>4 DEF TypeOK, StopsTopic
  <1>13. FeedOwned'
    BY <1>1, <1>2, <1>3, <1>4 DEF TypeOK, FeedOwned
  <1>14. QED
    BY <1>5, <1>6, <1>7, <1>8, <1>9, <1>10, <1>11, <1>12, <1>13

\* ClosedOne preserves the invariant.
LEMMA ClosedOneKeeps ==
  ASSUME IInv, NEW w \in Watches, ClosedOne(w)
  PROVE  IInv'
  <1> USE TopicAssumption DEF IInv
  <1>1. TypeOK'
    <2>1. shutdown' \in Shutdown
      BY Zenon DEF TypeOK, Shutdown, Topic, ClosedOne
    <2>2. QED
      BY <2>1 DEF TypeOK, ClosedOne
  <1>2. IdleUnused'
    BY DEF TypeOK, IdleUnused, ClosedOne
  <1>3. StartingCurrent'
    BY DEF TypeOK, StartingCurrent, ClosedOne
  <1>4. Attached'
    BY DEF TypeOK, Attached, ClosedOne
  <1>5. Unwanted'
    BY DEF TypeOK, Unwanted, ClosedOne
  <1>6. Opened'
    BY DEF TypeOK, Opened, ClosedOne
  <1>7. CurrentUsed'
    BY DEF TypeOK, CurrentUsed, ClosedOne
  <1>8. StopsTopic'
    BY DEF TypeOK, StopsTopic, ClosedOne
  <1>9. FeedOwned'
    BY DEF TypeOK, FeedOwned, ClosedOne
  <1>10. QED
    BY <1>1, <1>2, <1>3, <1>4, <1>5, <1>6, <1>7, <1>8, <1>9

\* CloseSocket preserves the invariant.
LEMMA CloseSocketKeeps ==
  ASSUME IInv, CloseSocket
  PROVE  IInv'
  <1> USE TopicAssumption DEF IInv
  <1>1. TypeOK'
    <2>1. shutdown' \in Shutdown
      BY DEF TypeOK, Shutdown, Topic, CloseSocket, subscriptionsLocked
    <2>2. QED
      BY <2>1 DEF TypeOK, CloseSocket, subscriptionsLocked
  <1>2. IdleUnused'
    BY DEF TypeOK, IdleUnused, CloseSocket, subscriptionsLocked
  <1>3. StartingCurrent'
    BY DEF TypeOK, StartingCurrent, CloseSocket, subscriptionsLocked
  <1>4. Attached'
    BY DEF TypeOK, Attached, CloseSocket, subscriptionsLocked
  <1>5. Unwanted'
    BY DEF TypeOK, Unwanted, CloseSocket, subscriptionsLocked
  <1>6. Opened'
    BY DEF TypeOK, Opened, CloseSocket, subscriptionsLocked
  <1>7. CurrentUsed'
    BY DEF TypeOK, CurrentUsed, CloseSocket, subscriptionsLocked
  <1>8. StopsTopic'
    BY DEF TypeOK, StopsTopic, CloseSocket, subscriptionsLocked
  <1>9. FeedOwned'
    BY DEF TypeOK, FeedOwned, CloseSocket, subscriptionsLocked
  <1>10. QED
    BY <1>1, <1>2, <1>3, <1>4, <1>5, <1>6, <1>7, <1>8, <1>9

\* CloseBackend preserves the invariant.
LEMMA CloseBackendKeeps ==
  ASSUME IInv, CloseBackend
  PROVE  IInv'
  <1> USE TopicAssumption DEF IInv
  <1>1. TypeOK'
    <2>1. shutdown' \in Shutdown
      BY DEF TypeOK, Shutdown, Topic, CloseBackend
    <2>2. QED
      BY <2>1 DEF TypeOK, CloseBackend
  <1>2. IdleUnused'
    BY DEF TypeOK, IdleUnused, CloseBackend
  <1>3. StartingCurrent'
    BY DEF TypeOK, StartingCurrent, CloseBackend
  <1>4. Attached'
    BY DEF TypeOK, Attached, CloseBackend
  <1>5. Unwanted'
    BY DEF TypeOK, Unwanted, CloseBackend
  <1>6. Opened'
    BY DEF TypeOK, Opened, CloseBackend
  <1>7. CurrentUsed'
    BY DEF TypeOK, CurrentUsed, CloseBackend
  <1>8. StopsTopic'
    BY DEF TypeOK, StopsTopic, CloseBackend
  <1>9. FeedOwned'
    BY DEF TypeOK, FeedOwned, CloseBackend
  <1>10. QED
    BY <1>1, <1>2, <1>3, <1>4, <1>5, <1>6, <1>7, <1>8, <1>9

\* The invariant holds in every reachable state.
THEOREM Invariance == Spec => []IInv
  <1>1. ASSUME IInv, NEW w \in Watches, WatchStep(w)
        PROVE  IInv'
    BY <1>1, WatchRefusedKeeps, WatchFirstKeeps, WatchJoinsKeeps, StartSucceedsKeeps,
       StartFailsKeeps, StartReturnsKeeps, StopAfterStartKeeps, ReadyKeeps, GiveUpKeeps,
       GaveUpKeeps, FinishKeeps DEF WatchStep
  <1>2. ASSUME IInv, NEW w \in Watches, CloseStep(w)
        PROVE  IInv'
    BY <1>2, CloseSubscriptionKeeps, RemoveKeeps, StopKeeps, CloseStreamsKeeps,
       CloseNextKeeps, ClosedOneKeeps DEF CloseStep
  <1>3. IInv /\ UNCHANGED vars => IInv'
    BY DEF vars, IInv, TypeOK, IdleUnused, StartingCurrent, Attached, Unwanted, Opened,
       CurrentUsed, StopsTopic, FeedOwned
  <1>4. IInv /\ [Next]_vars => IInv'
    BY <1>1, <1>2, <1>3, CloseSocketKeeps, CloseBackendKeeps DEF Next
  <1>5. QED
    BY InitIInv, <1>4, PTL DEF Spec

\* The state of the facet and its calls keeps its types.
THEOREM TypeCorrect == Spec => []TypeOK
  BY Invariance, PTL DEF IInv

\* A subscription that its consumer holds stays one of the topic in the map:
\* no failed start, Close or give-up of another call detaches it.
THEOREM OpenAlwaysAttached == Spec => []OpenIsAttached
  <1>1. IInv => OpenIsAttached
    BY TopicAssumption DEF IInv, Attached, Opened, OpenIsAttached
  <1>2. QED
    BY Invariance, <1>1, PTL

\* Two calls of Watch never start the native topic at the same time.
THEOREM OneStartAtATime == Spec => []OneStart
  <1>1. IInv => OneStart
    BY DEF IInv, StartingCurrent, OneStart
  <1>2. QED
    BY Invariance, <1>1, PTL

\* A native topic that nobody uses is about to be stopped, unless its stop
\* failed or the facet is being closed.
THEOREM FeedAlwaysHasOwner == Spec => []FeedHasOwner
  <1>1. IInv => FeedHasOwner
    BY TopicAssumption DEF IInv, TypeOK, CurrentUsed, FeedOwned, FeedHasOwner
  <1>2. QED
    BY Invariance, <1>1, PTL

=============================================================================
