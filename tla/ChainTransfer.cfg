CONSTANTS
    Call = {c1, c2}
    NoCall = NoCall
    RetryCount = 2
    MaxNonce = 6
CHECK_DEADLOCK FALSE
SPECIFICATION FairSpec
INVARIANTS TypeOK NoNonceGap PaidAsReported ConflictsResolved CopiesBound
PROPERTY CallEnds
