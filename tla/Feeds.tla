------------------------------- MODULE Feeds -------------------------------
(***************************************************************************)
(* What the hub promises the source of one topic key: successive topic      *)
(* objects, at most one of them with a live context, and for each object    *)
(* one call of the source at a time, repeated while the context lives.      *)
(* The call of an object whose context has ended may still be on its way    *)
(* out while the next object's call runs.                                   *)
(*                                                                          *)
(* HubFeeds shows that gateway/hub/hub.go implements it; AccountStream uses *)
(* it as the environment of the account source.                             *)
(***************************************************************************)
CONSTANTS Topics, NoTopic

VARIABLES
    alive,  \* the topic object whose context is live, if any
    feed    \* the goroutine of each object: gone, between calls, in a call

feedVars == <<alive, feed>>

FeedTypeOK ==
    /\ alive \in Topics \cup {NoTopic}
    /\ feed \in [Topics -> {"none", "waiting", "source"}]

FeedInit ==
    /\ alive = NoTopic
    /\ feed = [g \in Topics |-> "none"]

\* The first subscriber comes.
Open(g) ==
    /\ alive = NoTopic
    /\ feed[g] = "none"
    /\ alive' = g
    /\ feed' = [feed EXCEPT ![g] = "waiting"]

\* The linger period ends, or the hub closes.
CancelTopic ==
    /\ alive # NoTopic
    /\ alive' = NoTopic
    /\ UNCHANGED feed

Call(g) ==
    /\ feed[g] = "waiting"
    /\ alive = g
    /\ feed' = [feed EXCEPT ![g] = "source"]
    /\ UNCHANGED alive

Return(g) ==
    /\ feed[g] = "source"
    /\ feed' = [feed EXCEPT ![g] = IF alive = g THEN "waiting" ELSE "none"]
    /\ UNCHANGED alive

Quit(g) ==
    /\ feed[g] = "waiting"
    /\ alive # g
    /\ feed' = [feed EXCEPT ![g] = "none"]
    /\ UNCHANGED alive

FeedNext ==
    \/ CancelTopic
    \/ \E g \in Topics : Open(g) \/ Call(g) \/ Return(g) \/ Quit(g)

FeedSpec == FeedInit /\ [][FeedNext]_feedVars
=============================================================================
