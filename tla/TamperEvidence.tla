--------------------------- MODULE TamperEvidence ---------------------------
(***************************************************************************)
(* What verify_log detects.  An honest writer fills a log through          *)
(* TamperEvidentLog.append, possibly after records of the older format;    *)
(* then the file is edited offline in the ways                             *)
(* docs/tamper-evident-audit-spec.md lists (a payload changed, a record    *)
(* deleted, records reordered, the tail cut off) and in those of           *)
(* tests/test_integrity.py (a line that is no JSON, a changed prev_hash, a *)
(* continuation written without the key).  The properties relate what      *)
(* VerifyLog says of the edited file to the log as it was written.         *)
(***************************************************************************)
EXTENDS AuditChain, SequencesExt

CONSTANTS Payload,      \* redacted audit records
          Stamp,        \* envelope timestamps
          Key,          \* the sealing keys an installation may use
          MaxRecords,   \* bound on the records written
          MaxEdits      \* bound on the edits

VARIABLES key,          \* NoKey, or the key of this installation
          written,      \* the log as append() left it
          file,         \* the file now
          edits         \* how many edits it has had

vars == <<key, written, file, edits>>

Init ==
    /\ key \in Key \union {NoKey}
    /\ written = <<>>
    /\ file = <<>>
    /\ edits = 0

-----------------------------------------------------------------------------
(* The writer.                                                             *)

\* append() of a log at path, without rotation: the head is the tail of the
\* file, or genesis for an empty one.
AppendRecord ==
    /\ edits = 0
    /\ Len(written) < MaxRecords
    /\ TailReadable(written)
    /\ \E payload \in Payload, ts \in Stamp :
          written' = Append(written,
                        MakeEnvelope(key, NextSeq(written, 0),
                                     NextPrev(written, GenesisPrev),
                                     payload, ts))
    /\ file' = written'
    /\ UNCHANGED <<key, edits>>

\* A record of the release before ts and mode were hashed: no current code
\* writes one, verify_log still reads it.
AppendOldRecord ==
    /\ edits = 0
    /\ Len(written) < MaxRecords
    /\ \A i \in 1..Len(written) : written[i].mode = NoMode
    /\ \E payload \in Payload :
          LET seq == NextSeq(written, 0)
              prev == NextPrev(written, GenesisPrev)
          IN  written' = Append(written,
                 [kind |-> "envelope", seq |-> seq, ts |-> NoStamp,
                  prev_hash |-> prev, payload |-> payload, mode |-> NoMode,
                  hash |-> LegacyDigest(key, seq, prev, payload)])
    /\ file' = written'
    /\ UNCHANGED <<key, edits>>

-----------------------------------------------------------------------------
(* The environment: edits of the file.                                     *)

Edit(log) ==
    /\ Len(written) > 0
    /\ edits < MaxEdits
    /\ log # file
    /\ file' = log
    /\ edits' = edits + 1
    /\ UNCHANGED <<key, written>>

ChangePayload ==
    \E i \in 1..Len(file), payload \in Payload :
        IsEnvelope(file[i]) /\ Edit([file EXCEPT ![i].payload = payload])

\* The timestamp or the mode is changed or removed.
ChangeStamp ==
    \E i \in 1..Len(file), ts \in Stamp \union {NoStamp},
       mode \in {"chain", "sealed", NoMode} :
        /\ IsEnvelope(file[i])
        /\ Edit([file EXCEPT ![i].ts = ts, ![i].mode = mode])

Relink ==
    \E i \in 1..Len(file), j \in 1..Len(file) :
        /\ IsEnvelope(file[i]) /\ IsEnvelope(file[j])
        /\ Edit([file EXCEPT ![i].prev_hash = file[j].hash])

Renumber ==
    \E i \in 1..Len(file), seq \in 0..MaxRecords :
        IsEnvelope(file[i]) /\ Edit([file EXCEPT ![i].seq = seq])

Delete == \E i \in 1..Len(file) : Edit(RemoveAt(file, i))

Reorder ==
    \E i, j \in 1..Len(file) :
        Edit([file EXCEPT ![i] = file[j], ![j] = file[i]])

TruncateTail == \E n \in 0..Len(file) : Edit(SubSeq(file, 1, n))

Garble == \E i \in 1..Len(file) : Edit([file EXCEPT ![i] = TornLine])

\* TamperEvidentLog.append run on the file by someone who has no key.
ContinueWithoutKey ==
    /\ TailReadable(file)
    /\ \E payload \in Payload, ts \in Stamp :
          Edit(Append(file, MakeEnvelope(NoKey, NextSeq(file, 0),
                                         NextPrev(file, GenesisPrev),
                                         payload, ts)))

Next ==
    \/ AppendRecord \/ AppendOldRecord
    \/ ChangePayload \/ ChangeStamp \/ Relink \/ Renumber \/ Delete
    \/ Reorder \/ TruncateTail \/ Garble \/ ContinueWithoutKey

Spec == Init /\ [][Next]_vars

-----------------------------------------------------------------------------
(* Properties.                                                             *)

Verdict(expectedHead) == VerifyLog(key, file, expectedHead, 0, GenesisPrev)

WrittenHead == IF written = <<>> THEN NoHash ELSE Last(written).hash

\* What the writer wrote always verifies: no false alarm on an unedited
\* file, old records included.
HonestLogVerifies ==
    VerifyLog(key, written, WrittenHead, 0, GenesisPrev).ok

\* A file that verifies in sealed mode is an initial part of what was
\* written: without the key, only cutting the tail goes unnoticed.
SealedFileIsPrefix ==
    key # NoKey /\ Verdict(NoHash).ok => IsPrefix(file, written)

\* With the head kept elsewhere (--expected-head), a file that verifies is
\* the written log, in both modes and whatever was recomputed.
AnchoredFileIsWhole ==
    written # <<>> /\ Verdict(WrittenHead).ok => file = written

=============================================================================
