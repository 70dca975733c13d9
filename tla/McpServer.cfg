\* Every line but one may be read by a command that an earlier line starts.
CONSTANTS
    Flags <- MCFlags
    Globbed <- MCGlobbed
    Home <- MCHome
    PathOf <- MCPathOf
    Labels <- MCLabels
    Bodies <- MCBodies
    Policies <- MCPolicies
    Reading <- MCReading
    Draining <- MCDraining
    MaxLines = 3
    Faults = {"audit", "print", "tool", "client"}
SPECIFICATION FairSpec
INVARIANTS TypeOK EffectsObey AnswersTell
PROPERTIES RequestsAnswered ServerEnds
CHECK_DEADLOCK FALSE
