\* One writer that rotates and a process that verifies meanwhile.
CONSTANTS
    audit = audit
    w1 = w1
    cli = cli
    Writers <- WriterAndVerifier
    Verifiers <- VerifierOnly
    LogOf <- AuditOnly
    Logs <- OneLog
    RotateAt = 2
    RotateByAge = FALSE
    MaxAppends = 4
    MaxRotates = 0
    MaxCrashes = 0
    VerifyAlone = FALSE
    MaxVerifies = 1
    MaxExports = 0
SPECIFICATION ExportSpec
INVARIANT SegmentsLink
CHECK_DEADLOCK FALSE
