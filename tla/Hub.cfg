\* Topic lifecycle of a market-data key: reopened topics, late timer callbacks,
\* retries, under the fairness of timers and goroutines.
SPECIFICATION FairSpec
CONSTANTS
    Keys = {k1}
    Sinks = {s1}
    Channels = {book, status}
    SourceChannels = {book}
    RetainedChannels = {book}
    StatusChannel = status
    Payloads = {p1}
    Down = down
    NoPayload = noPayload
    Objects = {g1, g2}
    NoTopic = noTopic
    Timers = {t1, t2}
    NoTimer = noTimer
    MaxBackoff = 1
INVARIANTS  OneUpstream
PROPERTIES SubscribersKeepTopic ClosedHubIsSilent IdleTopicCloses FailedFeedRestarts RefinesFeeds
