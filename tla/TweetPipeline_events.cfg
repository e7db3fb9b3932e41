SPECIFICATION FairSpec
CONSTANTS
    MaxPosts = 1
    MaxEvents = 2
    Slots = {q1}
    Failures = {"users", "db", "mq", "tweets", "es_index", "es_delete", "worker", "channel", "broker"}
    MaxFaults = 2
    Resends = 1
    OtherEvents <- EveryOtherEvent
INVARIANTS TypeOK NothingBeforeCommit OkMeansDone
INVARIANTS EventOnePlace DocumentsNeedDeliveries
PROPERTIES EventsSettle NothingDroppedWhileListening IndexDeliverySpec
CHECK_DEADLOCK FALSE
