SPECIFICATION FairSpec
CONSTANTS
    Slots = {q1, q2, q3}
    Clients = {c1, c2}
    Accounts = {a1}
    PoolSize = 1
    DbErrors = TRUE
    None = None
INVARIANTS TypeOK StuckOnlyBehindTheLoop ConnectionsAccounted AnswerIsTrue
PROPERTIES EveryRequestEnds
CHECK_DEADLOCK FALSE
