------------------------------ MODULE HubFeeds ------------------------------
(***************************************************************************)
(* The hub of gateway/hub/hub.go implements, for every key, the contract a  *)
(* source may rely on.                                                      *)
(***************************************************************************)
EXTENDS Hub

\* The goroutine of object g as the source of key k sees it.
FeedOf(k, g) ==
    IF topic[g].key # k \/ run[g].at = "none" THEN "none"
    ELSE IF run[g].at = "source" THEN "source"
    ELSE "waiting"

Contract(k) ==
    INSTANCE Feeds WITH Topics <- Objects,
                        alive <- topics[k],
                        feed <- [g \in Objects |-> FeedOf(k, g)]

\* For every key the source is called by one goroutine per topic object, one
\* call at a time, only under a live context, and by no second live object:
\* each step of the hub is a step of Feeds for each key, or none.
\* (FeedSpec of every key, its boxes drawn together into one.)
RefinesFeeds ==
    /\ \A k \in Keys : Contract(k)!FeedInit
    /\ [][\A k \in Keys : [Contract(k)!FeedNext]_(Contract(k)!feedVars)]_vars
=============================================================================
