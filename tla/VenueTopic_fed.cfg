\* A subscription is made while the last one before it is being closed.
SPECIFICATION Spec
CONSTANTS
    Watches = {w1, w2}
    None = none
INVARIANTS ActiveMeansFed
SYMMETRY MCSymmetry
CHECK_DEADLOCK FALSE
