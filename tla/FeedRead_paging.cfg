SPECIFICATION FairSpec
CONSTANTS
    Secrets = {"k1", "k2"}
    Lifetime = 1
    TweetIds = {t1}
    EmptyId = empty
    FeedCap = 2
    MaxLen = 4
    Limit = 2
    MaxClock = 1
    Deployments <- SomeDeployments
INVARIANTS TypeOK PagingComplete ServicesAgree RoutesReached
PROPERTIES PagingEnds
CHECK_DEADLOCK FALSE
