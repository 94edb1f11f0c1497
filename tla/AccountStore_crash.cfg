\* Two accounts, two concurrent requests, crashes at every step, restarts.
SPECIFICATION FairSpec
CONSTANTS
    Ids = {i1, i2}
    Requests = {r1, r2}
    NoId = noId
    NoRequest = noRequest
INVARIANTS MemoryMatchesFile FileNeverTorn StoredIsActive
PROPERTIES Recovers RefinesDurable
