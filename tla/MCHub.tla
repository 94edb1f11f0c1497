------------------------------- MODULE MCHub -------------------------------
(* Model-checking instance of Hub.                                          *)
EXTENDS HubFeeds, TLC

\* Sinks, objects, timers and payloads are interchangeable.
MCSymmetry ==
    Permutations(Sinks) \cup Permutations(Objects)
        \cup Permutations(Timers) \cup Permutations(Payloads)
=============================================================================
