CONSTANTS
    Worker = {w1, w2}
    Account <- MCAccount
    Group <- MCGroup
    Groupings <- MCGroupings
    Charge <- MCCharge
    Price <- MCPrice
    MaxOps = 3
CHECK_DEADLOCK FALSE
SPECIFICATION Spec
SYMMETRY Symmetry
INVARIANTS TypeOK Conserved
