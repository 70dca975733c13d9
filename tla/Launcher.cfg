\* Every backend, with and without what it needs.
CONSTANTS
    Configs <- MCConfigs
    Environ <- MCEnviron
    MaxProcs = 2
    Faults = {"audit", "copy", "kernel", "docker", "interrupt"}
SPECIFICATION FairSpec
INVARIANTS StartedIsAllowed Confined EnvFiltered ExitTells CopyLives
PROPERTY LaunchEnds
CHECK_DEADLOCK FALSE
