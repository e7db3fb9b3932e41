SPECIFICATION Spec
CONSTANTS
    Authors = {a1}
    Readers = {r1}
    Bodies = {"tweet"}
    Failures = {"lookup"}
    MaxMsgs = 1
    MaxTags = 1
    MaxFaults = 0
    Retries = 0
    FeedCap = 1
INVARIANTS NeverBlindlyAcked
CHECK_DEADLOCK FALSE
