\* Two concurrent requests over two windows; answers ask for waits.
SPECIFICATION Spec
CONSTANTS
    Venue = venue
    Endpoints = {e1}
    VenueLimit = 5
    VenueInterval = 2
    EndpointLimit = 2
    EndpointInterval = 1
    Costs = {2, 5}
    Requests = {q1, q2}
    MaxTime = 3
    MaxBan = 2
INVARIANTS HeadroomKept AtMostTwiceTheLimit RetryAfterIsExact
PROPERTIES BansRespected RefusedIsFree
SYMMETRY MCSymmetry
CHECK_DEADLOCK FALSE
