\* A topic is reopened while the old call of stream is on its way out.
SPECIFICATION Spec
CONSTANTS
    Topics = {g1, g2}
    NoTopic = noTopic
    Markets = {m1}
    Calls = {c1, c2}
    NoStatus = noStatus
INVARIANTS LiveStreamPublishes
