SPECIFICATION FairSpec
CONSTANTS
    Workers = {w1, w2, w3}
    MaxVersion = 2
    MaxFaults = 1
    MaxExpiries = 1
    NoEvent = NoEvent
INVARIANTS PublishedIsDelivered
PROPERTIES CacheNeverRegresses EventuallyPublished
CHECK_DEADLOCK FALSE
