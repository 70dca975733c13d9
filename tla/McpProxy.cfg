CONSTANTS
    Flags <- MCFlags
    Globbed <- MCGlobbed
    Home <- MCHome
    PathOf <- MCPathOf
    Labels <- MCLabels
    Bodies <- MCBodies
    Policies <- MCPolicies
    ServerName = "up"
    ReadTools <- MCReadTools
    WriteTools <- MCWriteTools
    MaxLines = 2
    Faults = {"audit", "server", "client", "large"}
SPECIFICATION FairSpec
INVARIANTS TypeOK ForwardsExactly AuditedFirst AnswersMatch
PROPERTIES SessionEnds RequestsAnswered
CHECK_DEADLOCK FALSE
