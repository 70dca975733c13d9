-------------------------- MODULE MCDecisionDaemon --------------------------
(* Two daemons, one after the other or both at once, and two clients.      *)
EXTENDS DecisionDaemon

CONSTANTS c1, c2

MCClients == {c1, c2}

\* A program under the shim, fail-closed or not, and a caller of ask_daemon.
MCKinds == {[c \in MCClients |-> IF c = c1 THEN k[1] ELSE k[2]] :
               k \in {<<"closed", "ask">>, <<"fallback", "ask">>}}

\* A path that is allowed and one that is protected and in the shim's own
\* list.
MCTargets == {"doc", "key"}
MCTargetsOf == [c \in MCClients |-> IF c = c1 THEN {"doc"} ELSE {"key"}]
MCTypeOf == [t \in MCTargets |-> IF t = "doc" THEN "ALLOW" ELSE "BLOCK"]
MCFallbackBlocks == {"key"}
=============================================================================
