----------------------------- MODULE AuditChain -----------------------------
(***************************************************************************)
(* The hash-chained record format of runeguard/integrity.py, as operators  *)
(* on sequences of lines: how the writer builds an envelope from the tail  *)
(* of a log, and how verify_log walks a log from its first line.           *)
(*                                                                         *)
(* SHA-256 and HMAC-SHA-256 are symbolic: the digest of some material IS   *)
(* that material, so two digests are equal exactly when everything they    *)
(* cover is.  The material is joined with NUL bytes from fields that hold  *)
(* none, so the join loses nothing.  Payloads and timestamps are values    *)
(* with no structure.                                                      *)
(***************************************************************************)
EXTENDS Integers, Sequences

-----------------------------------------------------------------------------
(* Null values.  NoKey: no RUNEGUARD_AUDIT_KEY is set.                     *)

NoKey == "no-key"
NoStamp == "no-ts"
NoMode == "no-mode"
NoHash == [form |-> "none"]
NoSeq == -1

\* GENESIS_PREV, the prev_hash of the first record of a log.
GenesisPrev == [form |-> "genesis"]

-----------------------------------------------------------------------------
(* Digests.                                                                *)

\* What _digest covers.  A missing ts or mode enters as the empty string.
Digest(key, seq, prev, payload, ts, mode) ==
    [form |-> "full", key |-> key, seq |-> seq, prev |-> prev,
     payload |-> payload, ts |-> ts, mode |-> mode]

\* What records written before ts and mode existed were hashed over.
LegacyDigest(key, seq, prev, payload) ==
    [form |-> "legacy", key |-> key, seq |-> seq, prev |-> prev,
     payload |-> payload, ts |-> NoStamp, mode |-> NoMode]

-----------------------------------------------------------------------------
(* Lines.  A line of the file is an integrity envelope or text that        *)
(* json.loads refuses.  A "cut" line is an envelope that has lost its      *)
(* newline: it still parses as long as nothing is written after it.        *)

TornLine == [kind |-> "torn"]

IsEnvelope(line) == line.kind \in {"envelope", "cut"}

\* The lines of the file once the text of line is written at its end: what
\* follows an unfinished line joins it.
Extend(log, line) ==
    IF log # <<>> /\ log[Len(log)].kind # "envelope"
    THEN [log EXCEPT ![Len(log)] = TornLine]
    ELSE Append(log, line)

ModeOf(key) == IF key = NoKey THEN "chain" ELSE "sealed"

\* The envelope append() writes after a head with this seq and hash.
MakeEnvelope(key, seq, prev, payload, ts) ==
    [kind |-> "envelope", seq |-> seq, ts |-> ts, prev_hash |-> prev,
     payload |-> payload, mode |-> ModeOf(key),
     hash |-> Digest(key, seq, prev, payload, ts, ModeOf(key))]

-----------------------------------------------------------------------------
(* Reading a log.                                                          *)

\* The seq and prev_hash of the record that follows the last line of log;
\* start and prev are those of an empty log.  Only the last line is read.
NextSeq(log, start) == IF log = <<>> THEN start ELSE log[Len(log)].seq + 1
NextPrev(log, prev) == IF log = <<>> THEN prev ELSE log[Len(log)].hash

\* _tail_head raises unless the last line is an envelope.
TailReadable(log) == log # <<>> => IsEnvelope(log[Len(log)])

\* What line i must link to.
PrevHashAt(log, i, prev) == IF i = 1 THEN prev ELSE log[i - 1].hash

\* Mutant of HashMatches: records of the older format are not known.
FullDigestMatches(key, line) ==
    line.hash = Digest(key, line.seq, line.prev_hash, line.payload,
                       line.ts, line.mode)

\* Mutant of HashMatches: the older format is accepted with any ts and mode.
EitherDigestMatches(key, line) ==
    \/ FullDigestMatches(key, line)
    \/ line.hash = LegacyDigest(key, line.seq, line.prev_hash, line.payload)

\* The hash check of verify_log: the digest of what the line holds, or the
\* legacy digest for a line with neither ts nor mode.
HashMatches(key, line) ==
    \/ line.hash = Digest(key, line.seq, line.prev_hash, line.payload,
                          line.ts, line.mode)
    \/ /\ line.ts = NoStamp
       /\ line.mode = NoMode
       /\ line.hash = LegacyDigest(key, line.seq, line.prev_hash, line.payload)

\* Line i passes every check of the loop of verify_log.
LineVerifies(key, log, i, start, prev) ==
    /\ IsEnvelope(log[i])
    /\ log[i].seq = start + i - 1
    /\ log[i].prev_hash = PrevHashAt(log, i, prev)
    /\ HashMatches(key, log[i])

ChainVerifies(key, log, start, prev) ==
    \A i \in 1..Len(log) : LineVerifies(key, log, i, start, prev)

\* The first line verify_log stops at; Len(log) + 1 when it reaches the end.
FirstBreak(key, log, start, prev) ==
    CHOOSE i \in 1..(Len(log) + 1) :
        /\ \A j \in 1..(i - 1) : LineVerifies(key, log, j, start, prev)
        /\ i <= Len(log) => ~LineVerifies(key, log, i, start, prev)

\* Mutant of VerifyLog: the expected head is not compared for an empty log.
VerifyLogOrEmpty(key, log, expectedHead, start, prev) ==
    LET stop == FirstBreak(key, log, start, prev)
    IN  [ok |-> /\ stop = Len(log) + 1
                /\ stop > 1 /\ expectedHead # NoHash
                       => log[stop - 1].hash = expectedHead]

\* verify_log(path, key, expected_head, expected_start_seq,
\* expected_prev_hash); expected_head = NoHash is None.  break_seq is None
\* for a line that is not an envelope.
VerifyLog(key, log, expectedHead, start, prev) ==
    LET stop == FirstBreak(key, log, start, prev)
        count == stop - 1
        head == IF count = 0 THEN NoHash ELSE log[count].hash
    IN  [ok |-> /\ stop = Len(log) + 1
                /\ expectedHead = NoHash \/ head = expectedHead,
         count |-> count,
         head |-> head,
         break_seq |-> IF stop <= Len(log) /\ IsEnvelope(log[stop])
                       THEN start + count
                       ELSE NoSeq]
=============================================================================
