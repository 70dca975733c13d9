\* Two writers on one log that is never rotated, one of which may crash.
CONSTANTS
    audit = audit
    w1 = w1
    w2 = w2
    Writers <- Pair
    LogOf <- PairLog
    Logs <- OneLog
    RotateAt = 0
    RotateByAge = FALSE
    MaxAppends = 3
    MaxRotates = 0
    MaxCrashes = 1
SPECIFICATION FairSpec
INVARIANT ActiveLogVerifies
INVARIANT DamageOnlyAtTail
PROPERTY EveryCallEnds
CHECK_DEADLOCK FALSE
