\* One writer, rotation by size and by age and called directly.
CONSTANTS
    audit = audit
    w1 = w1
    w2 = w2
    Writers <- Solo
    LogOf <- SoloLog
    Logs <- OneLog
    RotateAt = 2
    RotateByAge = TRUE
    MaxAppends = 5
    MaxRotates = 1
    MaxCrashes = 0
SPECIFICATION FairSpec
INVARIANT RetentionVerifies
PROPERTY ImplementsTrail
PROPERTY EveryAppendReturns
CHECK_DEADLOCK FALSE
