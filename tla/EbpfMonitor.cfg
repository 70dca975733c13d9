\* Two tasks, a ring buffer of two records, a map of two paths; a text of more
\* than six tokens is too long.
CONSTANTS
    t1 = t1
    t2 = t2
    Tasks <- TwoTasks
    Ways <- MCWays
    Works <- MCWorks
    Modes <- MCModes
    Policies <- MCPolicies
    TextSize = 6
    MaxPaths = 2
    RingSize = 2
    Faults <- MCFaults
SPECIFICATION FairSpec
INVARIANT Enforced
INVARIANT StartTells
INVARIANT EventsTell
PROPERTY EventsPrinted
PROPERTY LoaderEnds
CHECK_DEADLOCK FALSE
