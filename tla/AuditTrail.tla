----------------------------- MODULE AuditTrail -----------------------------
(***************************************************************************)
(* What the audit writer promises its callers, whatever the number of      *)
(* writers and of files: one chain of records that only grows, each record *)
(* written in one step behind the last one, and returned to the caller     *)
(* only when it is there.                                                  *)
(***************************************************************************)
EXTENDS AuditChain

CONSTANT Payload      \* redacted audit records

VARIABLES trail,      \* every record of the directory, in chain order
          returned    \* the envelopes returned to callers

Init == trail = <<>> /\ returned = {}

\* A call of append() takes effect: no call writes its record twice.
Record(payload) ==
    /\ \A i \in 1..Len(trail) : trail[i].payload # payload
    /\ trail' = Append(trail, MakeEnvelope(NoKey, Len(trail),
                                           NextPrev(trail, GenesisPrev),
                                           payload, NoStamp))
    /\ UNCHANGED returned

\* A call of append() returns the envelope it has written.
Return ==
    /\ \E i \in 1..Len(trail) :
          /\ trail[i] \notin returned
          /\ returned' = returned \union {trail[i]}
    /\ UNCHANGED trail

Next == Return \/ \E payload \in Payload : Record(payload)

Spec == Init /\ [][Next]_<<trail, returned>>
=============================================================================
