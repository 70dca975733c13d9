------------------------ MODULE TamperEvidence_proofs ------------------------
(***************************************************************************)
(* What verify_log detects, for logs of any length, any number of edits    *)
(* and any payloads, timestamps and keys.                                  *)
(***************************************************************************)
EXTENDS TamperEvidence, AuditChain_proofs

-----------------------------------------------------------------------------
(* The invariant.                                                          *)

\* A hash under the key of the installation is the hash of a written
\* record: nobody else can compute one.
Genuine(line) == IsEnvelope(line) =>
    /\ EnvelopeForm(line)
    /\ key # NoKey /\ line.hash.key = key
          => \E j \in 1..Len(written) : written[j].hash = line.hash

Formed(log) == \E S : log \in Seq(S) /\ \A line \in S : Genuine(line)

Inv == /\ Formed(written) /\ Formed(file)
       /\ ChainVerifies(key, written, 0, GenesisPrev)

LEMMA FormedFacts ==
  ASSUME NEW log, Formed(log)
  PROVE  /\ IsLog(log)
         /\ Len(log) \in Nat
         /\ \A i \in 1..Len(log) : Genuine(log[i])
<1>1. PICK S : log \in Seq(S) /\ \A line \in S : Genuine(line)
  BY DEF Formed
<1>2. Len(log) \in Nat /\ \A i \in 1..Len(log) : log[i] \in S
  BY <1>1, LenProperties, ElementOfSeq
<1> QED
  BY <1>1, <1>2, SeqIsLog

-----------------------------------------------------------------------------
(* Edits keep the form of the lines.                                       *)

LEMMA FormedExcept ==
  ASSUME NEW log, Formed(log), NEW i \in 1..Len(log), NEW line, Genuine(line)
  PROVE  Formed([log EXCEPT ![i] = line])
<1>1. PICK S : log \in Seq(S) /\ \A e \in S : Genuine(e)
  BY DEF Formed
<1>2. PICK T : T = S \union {line}
  OBVIOUS
<1>3. log \in Seq(T) /\ line \in T /\ \A e \in T : Genuine(e)
  BY <1>1, <1>2, SeqMonotonic
<1>4. [log EXCEPT ![i] = line] \in Seq(T)
  BY <1>3, ExceptSeq
<1> QED
  BY <1>3, <1>4 DEF Formed

LEMMA FormedAppend ==
  ASSUME NEW log, Formed(log), NEW line, Genuine(line)
  PROVE  Formed(Append(log, line))
<1>1. PICK S : log \in Seq(S) /\ \A e \in S : Genuine(e)
  BY DEF Formed
<1>2. PICK T : T = S \union {line}
  OBVIOUS
<1>3. log \in Seq(T) /\ line \in T /\ \A e \in T : Genuine(e)
  BY <1>1, <1>2, SeqMonotonic
<1>4. Append(log, line) \in Seq(T)
  BY <1>3, AppendProperties
<1> QED
  BY <1>3, <1>4 DEF Formed

LEMMA FormedSubSeq ==
  ASSUME NEW log, Formed(log), NEW m \in Int, NEW n \in Int, 1 <= m, n <= Len(log)
  PROVE  Formed(SubSeq(log, m, n))
<1>1. PICK S : log \in Seq(S) /\ \A e \in S : Genuine(e)
  BY DEF Formed
<1>2. Len(log) \in Nat /\ \A i \in 1..Len(log) : log[i] \in S
  BY <1>1, LenProperties, ElementOfSeq
<1>3. \A i \in m..n : log[i] \in S
  BY <1>2
<1>4. SubSeq(log, m, n) \in Seq(S)
  BY <1>3, SubSeqProperties
<1> QED
  BY <1>1, <1>4 DEF Formed

LEMMA FormedConcat ==
  ASSUME NEW a, NEW b, Formed(a), Formed(b)
  PROVE  Formed(a \o b)
<1>1. PICK S : a \in Seq(S) /\ \A e \in S : Genuine(e)
  BY DEF Formed
<1>2. PICK T : b \in Seq(T) /\ \A e \in T : Genuine(e)
  BY DEF Formed
<1>3. PICK U : U = S \union T
  OBVIOUS
<1>4. a \in Seq(U) /\ b \in Seq(U) /\ \A e \in U : Genuine(e)
  BY <1>1, <1>2, <1>3, SeqMonotonic
<1>5. a \o b \in Seq(U)
  BY <1>4, ConcatProperties
<1> QED
  BY <1>4, <1>5 DEF Formed

\* An envelope with another timestamp and mode, field by field.
LEMMA OneStamp ==
  ASSUME NEW line, EnvelopeForm(line), NEW ts, NEW mode
  PROVE  [line EXCEPT !.ts = ts, !.mode = mode]
           = [kind |-> "envelope", seq |-> line.seq, ts |-> ts,
              prev_hash |-> line.prev_hash, payload |-> line.payload,
              mode |-> mode, hash |-> line.hash]
<1>1. PICK seq, prev, payload, hash, t, m :
         /\ line = [kind |-> "envelope", seq |-> seq, ts |-> t, prev_hash |-> prev,
                     payload |-> payload, mode |-> m, hash |-> hash]
         /\ line.seq = seq /\ line.prev_hash = prev /\ line.payload = payload
         /\ line.hash = hash
  BY DEF EnvelopeForm
<1>2. PICK one : one = [line EXCEPT !.ts = ts]
  OBVIOUS
<1>3. one = [kind |-> "envelope", seq |-> seq, ts |-> ts, prev_hash |-> prev,
             payload |-> payload, mode |-> m, hash |-> hash]
  BY <1>1, <1>2
<1>4. [one EXCEPT !.mode = mode]
        = [kind |-> "envelope", seq |-> seq, ts |-> ts, prev_hash |-> prev,
           payload |-> payload, mode |-> mode, hash |-> hash]
  BY <1>3
<1>5. [line EXCEPT !.ts = ts, !.mode = mode] = [one EXCEPT !.mode = mode]
  BY <1>2
<1> QED
  BY <1>1, <1>4, <1>5

\* What any of the edits leaves in the file.
LEMMA EditFormed ==
  ASSUME Formed(file),
         \/ ChangePayload \/ ChangeStamp \/ Relink \/ Renumber \/ Delete
         \/ Reorder \/ TruncateTail \/ Garble \/ ContinueWithoutKey
  PROVE  UNCHANGED <<key, written>> /\ \E log : Formed(log) /\ file' = log
<1>0. Len(file) \in Nat /\ \A i \in 1..Len(file) : Genuine(file[i])
  BY FormedFacts
<1>1. CASE ChangePayload
  <2>1. PICK i \in 1..Len(file), payload \in Payload :
           IsEnvelope(file[i]) /\ Edit([file EXCEPT ![i].payload = payload])
    BY <1>1 DEF ChangePayload
  <2>2. PICK line : line = [file[i] EXCEPT !.payload = payload]
    OBVIOUS
  <2>3. Genuine(file[i])
    BY <1>0
  <2>4. Genuine(line)
    BY <2>1, <2>2, <2>3 DEF Genuine, IsEnvelope, EnvelopeForm
  <2>5. [file EXCEPT ![i].payload = payload] = [file EXCEPT ![i] = line]
    BY <2>2
  <2> QED
    BY <2>1, <2>4, <2>5, FormedExcept DEF Edit
<1>2. CASE ChangeStamp
  <2>1. PICK i \in 1..Len(file), ts \in Stamp \union {NoStamp},
             mode \in {"chain", "sealed", NoMode} :
           /\ IsEnvelope(file[i])
           /\ Edit([file EXCEPT ![i].ts = ts, ![i].mode = mode])
    BY <1>2 DEF ChangeStamp
  <2>2. PICK line : line = [file[i] EXCEPT !.ts = ts, !.mode = mode]
    OBVIOUS
  <2>3. Genuine(file[i]) /\ EnvelopeForm(file[i])
    BY <1>0, <2>1 DEF Genuine
  <2>4. Genuine(line)
    <3>1. line = [kind |-> "envelope", seq |-> file[i].seq, ts |-> ts,
                  prev_hash |-> file[i].prev_hash, payload |-> file[i].payload,
                  mode |-> mode, hash |-> file[i].hash]
      BY <2>2, <2>3, OneStamp
    <3>2. EnvelopeForm(line) /\ line.hash = file[i].hash
      BY <3>1 DEF EnvelopeForm
    <3> QED
      BY <2>1, <2>3, <3>2 DEF Genuine, IsEnvelope
  <2>5. [file EXCEPT ![i].ts = ts, ![i].mode = mode] = [file EXCEPT ![i] = line]
    BY <2>2
  <2> QED
    BY <2>1, <2>4, <2>5, FormedExcept DEF Edit
<1>3. CASE Relink
  <2>1. PICK i \in 1..Len(file), j \in 1..Len(file) :
           /\ IsEnvelope(file[i])
           /\ Edit([file EXCEPT ![i].prev_hash = file[j].hash])
    BY <1>3 DEF Relink
  <2>2. PICK line : line = [file[i] EXCEPT !.prev_hash = file[j].hash]
    OBVIOUS
  <2>3. Genuine(file[i])
    BY <1>0
  <2>4. Genuine(line)
    BY <2>1, <2>2, <2>3 DEF Genuine, IsEnvelope, EnvelopeForm
  <2>5. [file EXCEPT ![i].prev_hash = file[j].hash] = [file EXCEPT ![i] = line]
    BY <2>2
  <2> QED
    BY <2>1, <2>4, <2>5, FormedExcept DEF Edit
<1>4. CASE Renumber
  <2>1. PICK i \in 1..Len(file), seq \in 0..MaxRecords :
           IsEnvelope(file[i]) /\ Edit([file EXCEPT ![i].seq = seq])
    BY <1>4 DEF Renumber
  <2>2. PICK line : line = [file[i] EXCEPT !.seq = seq]
    OBVIOUS
  <2>3. Genuine(file[i])
    BY <1>0
  <2>4. Genuine(line)
    BY <2>1, <2>2, <2>3 DEF Genuine, IsEnvelope, EnvelopeForm
  <2>5. [file EXCEPT ![i].seq = seq] = [file EXCEPT ![i] = line]
    BY <2>2
  <2> QED
    BY <2>1, <2>4, <2>5, FormedExcept DEF Edit
<1>5. CASE Delete
  <2>1. PICK i \in 1..Len(file) : Edit(RemoveAt(file, i))
    BY <1>5 DEF Delete
  <2>2. Formed(SubSeq(file, 1, i - 1)) /\ Formed(SubSeq(file, i + 1, Len(file)))
    BY <1>0, FormedSubSeq
  <2> QED
    BY <2>1, <2>2, FormedConcat DEF Edit, RemoveAt
<1>6. CASE Reorder
  <2>1. PICK i \in 1..Len(file), j \in 1..Len(file) :
           Edit([file EXCEPT ![i] = file[j], ![j] = file[i]])
    BY <1>6 DEF Reorder
  <2>2. PICK once : once = [file EXCEPT ![i] = file[j]]
    OBVIOUS
  <2>3. Formed(once) /\ Len(once) = Len(file)
    <3>1. Formed(once)
      BY <1>0, <2>2, FormedExcept
    <3>2. PICK S : file \in Seq(S) /\ \A e \in S : Genuine(e)
      BY DEF Formed
    <3>3. file[j] \in S
      BY <3>2, ElementOfSeq
    <3>4. Len(once) = Len(file)
      BY <2>2, <3>2, <3>3, ExceptSeq
    <3> QED
      BY <3>1, <3>4
  <2>4. Formed([once EXCEPT ![j] = file[i]])
    BY <1>0, <2>3, FormedExcept
  <2> QED
    BY <2>1, <2>2, <2>4 DEF Edit
<1>7. CASE TruncateTail
  <2>1. PICK n \in 0..Len(file) : Edit(SubSeq(file, 1, n))
    BY <1>7 DEF TruncateTail
  <2>2. Formed(SubSeq(file, 1, n))
    BY <1>0, FormedSubSeq
  <2> QED
    BY <2>1, <2>2 DEF Edit
<1>8. CASE Garble
  <2>1. PICK i \in 1..Len(file) : Edit([file EXCEPT ![i] = TornLine])
    BY <1>8 DEF Garble
  <2>2. Genuine(TornLine)
    BY DEF Genuine, IsEnvelope, TornLine
  <2> QED
    BY <2>1, <2>2, FormedExcept DEF Edit
<1>9. CASE ContinueWithoutKey
  <2>1. PICK payload \in Payload, ts \in Stamp :
           Edit(Append(file, MakeEnvelope(NoKey, NextSeq(file, 0),
                                          NextPrev(file, GenesisPrev),
                                          payload, ts)))
    BY <1>9 DEF ContinueWithoutKey
  <2>2. PICK line : line = MakeEnvelope(NoKey, NextSeq(file, 0),
                                        NextPrev(file, GenesisPrev), payload, ts)
    OBVIOUS
  <2>3. Genuine(line)
    BY <2>2 DEF Genuine, MakeEnvelope, EnvelopeForm, Digest
  <2> QED
    BY <2>1, <2>2, <2>3, FormedAppend DEF Edit
<1> QED
  BY <1>1, <1>2, <1>3, <1>4, <1>5, <1>6, <1>7, <1>8, <1>9

-----------------------------------------------------------------------------
(* The invariant is inductive.                                             *)

LEMMA InvInit == Init => Inv
<1> SUFFICES ASSUME Init PROVE Inv
  OBVIOUS
<1>1. written = <<>> /\ file = <<>>
  BY DEF Init
<1>2. PICK S : S = {}
  OBVIOUS
<1>3. Formed(<<>>)
  <2>1. <<>> \in Seq(S)
    BY EmptySeq
  <2>2. \A line \in S : Genuine(line)
    BY <1>2
  <2> QED
    BY <2>1, <2>2 DEF Formed
<1>4. ChainVerifies(key, <<>>, 0, GenesisPrev)
  BY EmptySeq DEF ChainVerifies
<1> QED
  BY <1>1, <1>3, <1>4 DEF Inv

\* A genuine record appended by the holder of the key keeps the invariant.
LEMMA AppendStep ==
  ASSUME Inv, NEW line, written' = Append(written, line), file' = written',
         key' = key, EnvelopeForm(line), HashMatches(key, line),
         line.seq = NextSeq(written, 0),
         line.prev_hash = NextPrev(written, GenesisPrev)
  PROVE  Inv'
<1>1. IsLog(written) /\ Len(written) \in Nat
  BY FormedFacts DEF Inv
<1>2. /\ Len(written') = Len(written) + 1
      /\ \A i \in 1..Len(written) : written'[i] = written[i]
      /\ written'[Len(written) + 1] = line
  BY <1>1, AppendLog
<1>3. ASSUME NEW e, Genuine(e) PROVE Genuine(e)'
  BY <1>1, <1>2, <1>3 DEF Genuine
<1>4. Genuine(line)'
  <2>1. Len(written) + 1 \in 1..Len(written')
    BY <1>1, <1>2
  <2> QED
    BY <1>2, <2>1 DEF Genuine
<1>5. Formed(written)'
  <2>1. PICK S : written \in Seq(S) /\ \A e \in S : Genuine(e)
    BY DEF Inv, Formed
  <2>2. PICK T : T = S \union {line}
    OBVIOUS
  <2>3. written \in Seq(T) /\ line \in T
    BY <2>1, <2>2, SeqMonotonic
  <2>4. Append(written, line) \in Seq(T)
    BY <2>3, AppendProperties
  <2>5. \A e \in T : Genuine(e)'
    BY <1>3, <1>4, <2>1, <2>2
  <2> QED
    BY <2>4, <2>5 DEF Formed
<1>6. ChainVerifies(key, written, 0, GenesisPrev)'
  <2>1. IsEnvelope(line)
    BY DEF EnvelopeForm, IsEnvelope
  <2>2. ChainVerifies(key, Append(written, line), 0, GenesisPrev)
    BY <1>1, <2>1, AppendLineKeepsChain DEF Inv
  <2> QED
    BY <2>2 DEF ChainVerifies, LineVerifies, PrevHashAt
<1> QED
  BY <1>5, <1>6 DEF Inv, Formed

LEMMA InvStep == Inv /\ [Next]_vars => Inv'
<1> SUFFICES ASSUME Inv, [Next]_vars PROVE Inv'
  OBVIOUS
<1>1. CASE AppendRecord
  <2>1. PICK payload \in Payload, ts \in Stamp :
           written' = Append(written,
                        MakeEnvelope(key, NextSeq(written, 0),
                                     NextPrev(written, GenesisPrev),
                                     payload, ts))
    BY <1>1 DEF AppendRecord
  <2>2. PICK line : line = MakeEnvelope(key, NextSeq(written, 0),
                                        NextPrev(written, GenesisPrev), payload, ts)
    OBVIOUS
  <2>3. EnvelopeForm(line) /\ line.seq = NextSeq(written, 0)
        /\ line.prev_hash = NextPrev(written, GenesisPrev)
        /\ HashMatches(key, line)
    BY <2>2 DEF MakeEnvelope, EnvelopeForm, HashMatches
  <2> QED
    BY <1>1, <2>1, <2>2, <2>3, AppendStep DEF AppendRecord
<1>2. CASE AppendOldRecord
  <2>1. PICK payload \in Payload :
           written' = Append(written,
             [kind |-> "envelope", seq |-> NextSeq(written, 0), ts |-> NoStamp,
              prev_hash |-> NextPrev(written, GenesisPrev),
              payload |-> payload, mode |-> NoMode,
              hash |-> LegacyDigest(key, NextSeq(written, 0),
                                    NextPrev(written, GenesisPrev), payload)])
    BY <1>2 DEF AppendOldRecord
  <2>2. PICK line : line =
             [kind |-> "envelope", seq |-> NextSeq(written, 0), ts |-> NoStamp,
              prev_hash |-> NextPrev(written, GenesisPrev),
              payload |-> payload, mode |-> NoMode,
              hash |-> LegacyDigest(key, NextSeq(written, 0),
                                    NextPrev(written, GenesisPrev), payload)]
    OBVIOUS
  <2>3. EnvelopeForm(line) /\ line.seq = NextSeq(written, 0)
        /\ line.prev_hash = NextPrev(written, GenesisPrev)
        /\ HashMatches(key, line)
    BY <2>2 DEF EnvelopeForm, HashMatches
  <2> QED
    BY <1>2, <2>1, <2>2, <2>3, AppendStep DEF AppendOldRecord
<1>3. CASE \/ ChangePayload \/ ChangeStamp \/ Relink \/ Renumber \/ Delete
           \/ Reorder \/ TruncateTail \/ Garble \/ ContinueWithoutKey
  <2>1. UNCHANGED <<key, written>> /\ \E log : Formed(log) /\ file' = log
    BY <1>3, EditFormed DEF Inv
  <2>2. \A e : Genuine(e)' <=> Genuine(e)
    BY <2>1 DEF Genuine
  <2>3. Formed(file)' /\ Formed(written)'
    BY <2>1, <2>2 DEF Inv, Formed
  <2>4. ChainVerifies(key, written, 0, GenesisPrev)'
    BY <2>1 DEF Inv, ChainVerifies, LineVerifies, PrevHashAt
  <2> QED
    BY <2>3, <2>4 DEF Inv
<1>4. CASE UNCHANGED vars
  <2>1. UNCHANGED <<key, written, file>>
    BY <1>4 DEF vars
  <2>2. \A e : Genuine(e)' <=> Genuine(e)
    BY <2>1 DEF Genuine
  <2>3. Formed(file)' /\ Formed(written)'
    BY <2>1, <2>2 DEF Inv, Formed
  <2>4. ChainVerifies(key, written, 0, GenesisPrev)'
    BY <2>1 DEF Inv, ChainVerifies, LineVerifies, PrevHashAt
  <2> QED
    BY <2>3, <2>4 DEF Inv
<1> QED
  BY <1>1, <1>2, <1>3, <1>4 DEF Next

LEMMA InvHolds == Spec => []Inv
BY InvInit, InvStep, PTL DEF Spec

-----------------------------------------------------------------------------
(* What the invariant gives.                                               *)

LEMMA HeadIsWrittenHead == WrittenHead = HeadOf(written)
BY DEF WrittenHead, HeadOf, Last

\* verify_log raises no false alarm: the log as append() left it verifies
\* against its own head, whatever key sealed it and however many records of
\* the older format it begins with.
THEOREM NoFalseAlarm == Spec => []HonestLogVerifies
<1>1. Inv => HonestLogVerifies
  <2> SUFFICES ASSUME Inv PROVE HonestLogVerifies
    OBVIOUS
  <2>1. IsLog(written) /\ ChainVerifies(key, written, 0, GenesisPrev)
    BY FormedFacts DEF Inv
  <2> QED
    BY <2>1, VerifyLogOK, HeadIsWrittenHead DEF HonestLogVerifies
<1> QED
  BY <1>1, InvHolds, PTL

\* Both logs hold envelopes with no field but the known ones.
LEMMA BothLogs ==
  ASSUME Inv
  PROVE  /\ IsLog(written) /\ Len(written) \in Nat
         /\ IsLog(file) /\ Len(file) \in Nat
         /\ \A i \in 1..Len(written) : Genuine(written[i])
         /\ \A i \in 1..Len(file) : Genuine(file[i])
BY FormedFacts DEF Inv

\* A file that verifies against the head kept elsewhere is the written log,
\* with or without a key.
THEOREM AnchorDetectsEdits == Spec => []AnchoredFileIsWhole
<1>1. Inv => AnchoredFileIsWhole
  <2> SUFFICES ASSUME Inv, written # <<>>, Verdict(WrittenHead).ok
               PROVE  file = written
    BY DEF AnchoredFileIsWhole
  <2>1. /\ IsLog(written) /\ IsLog(file)
        /\ \A i \in 1..Len(written) : IsEnvelope(written[i]) => EnvelopeForm(written[i])
        /\ \A i \in 1..Len(file) : IsEnvelope(file[i]) => EnvelopeForm(file[i])
    BY BothLogs DEF Genuine
  <2>2. ChainVerifies(key, written, 0, GenesisPrev)
    BY DEF Inv
  <2>3. /\ ChainVerifies(key, file, 0, GenesisPrev)
        /\ WrittenHead = NoHash \/ HeadOf(file) = WrittenHead
    BY <2>1, VerifyLogOK DEF Verdict
  <2>4. WrittenHead # NoHash
    <3>1. Len(written) \in 1..Len(written)
      BY <2>1, LogFacts
    <3>2. HashMatches(key, written[Len(written)])
      BY <2>2, <3>1 DEF ChainVerifies, LineVerifies
    <3> QED
      BY <3>2, HashIsSome DEF WrittenHead, Last
  <2> QED
    BY <2>1, <2>2, <2>3, <2>4, SameHeadSameLog, HeadIsWrittenHead
<1> QED
  BY <1>1, InvHolds, PTL

LEMMA PrefixByLines ==
  ASSUME NEW a, IsLog(a), NEW b, IsLog(b), Len(a) <= Len(b),
         \A i \in 1..Len(a) : a[i] = b[i]
  PROVE  IsPrefix(a, b)
<1>1. Len(a) \in Nat /\ DOMAIN a = 1..Len(a) /\ Len(b) \in Nat
  BY LogFacts
<1>2. \A i \in 1..Len(a) : a[i] \in Elements(a) /\ b[i] \in Elements(a)
  BY <1>1 DEF Elements
<1>3. /\ SubSeq(a, 1, Len(a)) \in Seq(Elements(a))
      /\ Len(SubSeq(a, 1, Len(a))) = Len(a)
      /\ \A i \in 1..Len(a) : SubSeq(a, 1, Len(a))[i] = a[i]
  BY <1>1, <1>2, SubSeqProperties
<1>4. /\ SubSeq(b, 1, Len(a)) \in Seq(Elements(a))
      /\ Len(SubSeq(b, 1, Len(a))) = Len(a)
      /\ \A i \in 1..Len(a) : SubSeq(b, 1, Len(a))[i] = b[i]
  BY <1>1, <1>2, SubSeqProperties
<1>5. SubSeq(a, 1, Len(a)) = SubSeq(b, 1, Len(a))
  BY <1>3, <1>4, SeqEqual
<1> QED
  BY <1>5 DEF IsPrefix

\* In sealed mode only a cut of the tail goes unnoticed: every line of a file
\* that verifies is the written record of its place.
THEOREM SealDetectsEdits == Spec => []SealedFileIsPrefix
<1>1. Inv => SealedFileIsPrefix
  <2> SUFFICES ASSUME Inv, key # NoKey, Verdict(NoHash).ok
               PROVE  IsPrefix(file, written)
    BY DEF SealedFileIsPrefix
  <2>1. /\ IsLog(written) /\ Len(written) \in Nat
        /\ IsLog(file) /\ Len(file) \in Nat
        /\ \A i \in 1..Len(written) : Genuine(written[i])
        /\ \A i \in 1..Len(file) : Genuine(file[i])
    BY BothLogs
  <2>2. \A i \in 1..Len(file) : LineVerifies(key, file, i, 0, GenesisPrev)
    BY <2>1, VerifyLogOK DEF Verdict, ChainVerifies
  <2>3. \A i \in 1..Len(written) : LineVerifies(key, written, i, 0, GenesisPrev)
    BY DEF Inv, ChainVerifies
  <2>4. ASSUME NEW i \in 1..Len(file)
        PROVE  i \in 1..Len(written) /\ file[i] = written[i]
    <3>1. /\ IsEnvelope(file[i]) /\ EnvelopeForm(file[i])
          /\ HashMatches(key, file[i]) /\ file[i].seq = i - 1
      BY <2>1, <2>2 DEF LineVerifies, Genuine
    <3>2. file[i].hash.key = key
      BY <3>1 DEF HashMatches, Digest, LegacyDigest
    <3>3. PICK j \in 1..Len(written) : written[j].hash = file[i].hash
      BY <2>1, <3>1, <3>2 DEF Genuine
    <3>4. /\ EnvelopeForm(written[j]) /\ HashMatches(key, written[j])
          /\ written[j].seq = j - 1
      BY <2>1, <2>3 DEF LineVerifies, Genuine
    <3>5. written[j] = file[i]
      BY <3>1, <3>3, <3>4, SameHashSameLine
    <3>6. j = i
      BY <3>1, <3>4, <3>5
    <3> QED
      BY <3>5, <3>6
  <2>5. Len(file) <= Len(written)
    <3>1. CASE Len(file) = 0
      BY <2>1, <3>1
    <3>2. CASE Len(file) > 0
      <4>1. Len(file) \in 1..Len(file)
        BY <2>1, <3>2
      <4> QED
        BY <2>1, <2>4, <4>1
    <3> QED
      BY <2>1, <3>1, <3>2
  <2> QED
    BY <2>1, <2>4, <2>5, PrefixByLines
<1> QED
  BY <1>1, InvHolds, PTL
=============================================================================
