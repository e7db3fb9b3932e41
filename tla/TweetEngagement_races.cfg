SPECIFICATION Spec
CONSTANTS
    Users = {u1, u2}
    Tweets = {t1}
    Slots = {q1, q2}
    MaxRows = 3
    DbErrors = TRUE
SYMMETRY Symmetric
INVARIANTS TypeOK ExactUnlessRaced
PROPERTIES TableSpec GoneTweetsUntouched OnlyOwnersDelete
CHECK_DEADLOCK FALSE
