CONSTANTS
    Node = {1, 2, 3, 4, 5, 6}
    NoNode = 0
    Documents <- MCDocuments
    MaxCalls = 8
CHECK_DEADLOCK FALSE
SPECIFICATION SheetSpec
INVARIANTS SheetTypeOK MarksRight SheetComplete FieldsListed DiesForReason
