SPECIFICATION Spec
CONSTANTS
    MaxPosts = 1
    MaxEvents = 1
    Slots = {q1}
    Failures = {}
    MaxFaults = 0
    Resends = 0
    OtherEvents <- NoOtherEvents
INVARIANTS FeedQueueFed
CHECK_DEADLOCK FALSE
