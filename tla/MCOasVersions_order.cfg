CONSTANTS
    Api = {a1, a2, a3}
    MaxVersion = 3
CHECK_DEADLOCK FALSE
SPECIFICATION Spec
PROPERTY NumberKept
