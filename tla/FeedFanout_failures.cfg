SPECIFICATION LastBodyBadSpec
CONSTANTS
    Authors = {a1}
    Readers = {r1, r2}
    Bodies = {"tweet", "garbage"}
    Failures = {"lookup", "lpush", "crash", "connection", "broker"}
    MaxMsgs = 2
    MaxTags = 3
    MaxFaults = 1
    Retries = 0
    FeedCap = 1
SYMMETRY ReaderSymmetry
INVARIANTS TypeOK OnePlace SteadyFollowersReached OnlyFollowersReached
INVARIANTS BadBodyNeverAcked
PROPERTIES DeliverySpec GoodBodiesKeepChannel
CHECK_DEADLOCK FALSE
