\* Two overlapping calls of stream, for two topic objects, under the fairness of
\* goroutines.
SPECIFICATION FairSpec
CONSTANTS
    Topics = {g1, g2}
    NoTopic = noTopic
    Markets = {m1}
    Calls = {c1, c2}
    NoStatus = noStatus
INVARIANT DeadMarketFails
PROPERTIES  StatusSettles
