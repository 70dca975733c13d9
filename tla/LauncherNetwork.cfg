\* --seccomp under a policy that denies the network, where nothing fails.
CONSTANTS
    Configs <- MCSeccompRun
    Environ <- MCEnviron
    MaxProcs = 1
    Faults = {}
SPECIFICATION Spec
INVARIANT NetworkDenied
CHECK_DEADLOCK FALSE
