SPECIFICATION Spec
CONSTANTS
    Slots = {q1, q2}
    Clients = {c1}
    Accounts = {a1}
    PoolSize = 2
    DbErrors = FALSE
    None = None
PROPERTIES LoginWorks
CHECK_DEADLOCK FALSE
