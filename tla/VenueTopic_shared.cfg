\* Three calls of Watch for one key, and the Close of the facet.
SPECIFICATION FairSpec
CONSTANTS
    Watches = {w1, w2, w3}
    None = none
INVARIANTS OpenIsAttached FeedHasOwner
PROPERTIES WatchReturns 
CHECK_DEADLOCK FALSE
