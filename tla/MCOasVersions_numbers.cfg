CONSTANTS
    Api = {a1, a2, a3}
    MaxVersion = 4
CHECK_DEADLOCK FALSE
SPECIFICATION Spec
SYMMETRY Symmetry
INVARIANTS TypeOK OneApiPerNumber HistoryComplete
PROPERTY NumberKeptInOrder
