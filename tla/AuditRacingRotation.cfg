\* Two writers on one log that is rotated.
CONSTANTS
    audit = audit
    w1 = w1
    w2 = w2
    Writers <- Pair
    LogOf <- PairLog
    Logs <- OneLog
    RotateAt = 1
    RotateByAge = FALSE
    MaxAppends = 3
    MaxRotates = 0
    MaxCrashes = 0
SPECIFICATION Spec
INVARIANT AckedDurable
CHECK_DEADLOCK FALSE
