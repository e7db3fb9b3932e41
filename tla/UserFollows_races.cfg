SPECIFICATION Spec
CONSTANTS
    Users = {u1, u2}
    Slots = {q1, q2}
    Spellings = {"canonical", "other"}
    MaxFollows = 2
    MaxTweets = 2
    DbErrors = TRUE
SYMMETRY Symmetric
INVARIANTS TypeOK NeverOvercounted ExactUnlessRaced
PROPERTIES TableSpec
CHECK_DEADLOCK FALSE
