SPECIFICATION LastBodyBadFairSpec
CONSTANTS
    Authors = {a1}
    Readers = {r1}
    Bodies = {"tweet", "mistyped"}
    Failures = {"lookup", "lpush", "ltrim", "crash", "connection"}
    MaxMsgs = 2
    MaxTags = 4
    MaxFaults = 1
    Retries = 1
    FeedCap = 1
INVARIANTS FeedBounded DuplicatesNeedRedelivery
PROPERTIES EveryMessageSettles FeedListSpec
CHECK_DEADLOCK FALSE
