SPECIFICATION Spec
CONSTANTS
    MaxPosts = 1
    MaxEvents = 2
    Slots = {q1}
    Failures = {}
    MaxFaults = 0
    Resends = 0
    OtherEvents <- DeletesOnly
INVARIANTS DeletedUnsearchable
CHECK_DEADLOCK FALSE
