--------------------------- MODULE MCAuditExport ----------------------------
(* A writer of the log and a process that verifies the directory.          *)
EXTENDS AuditExport

CONSTANTS audit, w1, cli

OneLog == {audit}
WriterAndVerifier == {w1, cli}
AuditOnly == [w \in WriterAndVerifier |-> audit]
VerifierOnly == {cli}
=============================================================================
