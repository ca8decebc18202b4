CONSTANTS
    Post = {p1, p2, p3}
    Counts = {1, 2}
    Seeds = {0, 2}
    MaxAccounts = 7
SPECIFICATION Spec
INVARIANTS TypeOK CountKept PoolBounded
PROPERTIES RobbedByRivals
CHECK_DEADLOCK FALSE
