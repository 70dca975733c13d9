\* One writer that rotates, a process that verifies and one that exports;
\* one of them may crash.
CONSTANTS
    audit = audit
    w1 = w1
    cli = cli
    Writers <- WriterAndVerifier
    Verifiers <- VerifierOnly
    LogOf <- AuditOnly
    Logs <- OneLog
    RotateAt = 2
    RotateByAge = TRUE
    MaxAppends = 3
    MaxRotates = 0
    MaxCrashes = 1
    VerifyAlone = TRUE
    MaxVerifies = 1
    MaxExports = 2
SPECIFICATION ExportSpec
INVARIANT AckedDurable
INVARIANT SegmentsLink
INVARIANT NoSilentLoss
INVARIANT ExportTells
PROPERTY NeverOverwritten
CHECK_DEADLOCK FALSE
