----------------------------- MODULE MCAuditLog -----------------------------
(* Small audit directories: who writes to which log.                       *)
EXTENDS AuditLog

CONSTANTS audit, w1, w2

OneLog == {audit}

\* One process that writes to .runeguard/audit.jsonl.
Solo == {w1}
SoloLog == [w \in Solo |-> audit]

\* Threads and processes that share .runeguard/audit.jsonl.
Pair == {w1, w2}
PairLog == [w \in Pair |-> audit]
=============================================================================
