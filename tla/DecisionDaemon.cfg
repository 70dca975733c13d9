\* A program under the shim and a caller of ask_daemon, two daemons, a backlog of one.
CONSTANTS
    c1 = c1
    c2 = c2
    MaxDaemons = 2
    Clients <- MCClients
    Targets <- MCTargets
    TargetsOf <- MCTargetsOf
    TypeOf <- MCTypeOf
    FallbackBlocks <- MCFallbackBlocks
    Kinds <- MCKinds
    Backlog = 1
    MaxCalls = 1
    AuditFails = TRUE
SPECIFICATION FairSpec
INVARIANTS TypeOK PassedIsAllowed Reachable
PROPERTY CallsEnd
CHECK_DEADLOCK FALSE
