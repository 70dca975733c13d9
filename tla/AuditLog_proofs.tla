--------------------------- MODULE AuditLog_proofs ---------------------------
(***************************************************************************)
(* Theorems about the audit writer and the export, for every set of        *)
(* writers and verifiers and every number of calls and crashes:            *)
(* - types;                                                                *)
(* - what the flock of TamperEvidentLog.append is worth in a log that is   *)
(*   never rotated, whoever appends to it: its records stay, form one      *)
(*   chain, and are the abstract trail;                                    *)
(* - what rotation and the manifest keep true for a writer that has the log*)
(*   to itself and does not crash: every segment verifies and links, and   *)
(*   the directory is the trail;                                           *)
(* - what the export destination promises;                                 *)
(* - what is left with one process that appends and rotates while others   *)
(*   verify and export and any of them crashes: no returned record is lost,*)
(*   receipts tell the truth, and a verification at rest that says OK has  *)
(*   seen every returned record.                                           *)
(***************************************************************************)
EXTENDS AuditExport, AuditChain_proofs, FiniteSetTheorems, FunctionTheorems

-----------------------------------------------------------------------------
(* Types.                                                                  *)

\* A step that gives one writer a new local state and takes no file away.
LEMMA TypeUpdate ==
  ASSUME TypeOK, NEW w \in Writers, NEW s, WriterTyped(s),
         writer' = [writer EXCEPT ![w] = s],
         DOMAIN files \subseteq DOMAIN files',
         s.fd \in DOMAIN files' \union {NoFile, Unlinked},
         files' = [name \in DOMAIN files' |-> files'[name]],
         manifest'.state \in {"absent", "empty", "garbled", "saved"},
         tmp'.state \in {"absent", "empty", "garbled", "saved"},
         appends' \in 0..MaxAppends, rotates' \in 0..MaxRotates,
         crashes' \in 0..MaxCrashes
  PROVE  TypeOK'
<1>1. writer = [v \in Writers |-> writer[v]]
  BY DEF TypeOK
<1>2. writer'[w] = s /\ \A v \in Writers \ {w} : writer'[v] = writer[v]
  BY <1>1
<1>3. writer' = [v \in Writers |-> writer'[v]]
  BY <1>1
<1>4. ASSUME NEW v \in Writers
      PROVE  /\ WriterTyped(writer'[v])
             /\ writer'[v].fd \in DOMAIN files' \union {NoFile, Unlinked}
  BY <1>2 DEF TypeOK
<1> QED
  BY <1>3, <1>4 DEF TypeOK

\* What a writer's local state is.
LEMMA WriterFacts ==
  ASSUME TypeOK, NEW w \in Writers
  PROVE  /\ WriterTyped(writer[w])
         /\ writer[w].fd \in DOMAIN files \union {NoFile, Unlinked}
BY DEF TypeOK

\* A step that touches nothing but the local state of one writer, and leaves
\* its descriptor as it was or closes it.
LEMMA TypeLocal ==
  ASSUME TypeOK, NEW w \in Writers, NEW s, WriterTyped(s),
         s.fd \in {writer[w].fd, NoFile},
         writer' = [writer EXCEPT ![w] = s],
         UNCHANGED <<directory, counters>>
  PROVE  TypeOK'
<1>1. UNCHANGED <<files, manifest, tmp, appends, rotates, crashes>>
  BY DEF directory, counters
<1>2. s.fd \in DOMAIN files \union {NoFile, Unlinked}
  BY WriterFacts
<1> QED
  BY <1>1, <1>2, TypeUpdate DEF TypeOK

LEMMA IdleTyped ==
  /\ WriterTyped(IdleWriter)
  /\ IdleWriter.fd = NoFile
BY BoundAssumption DEF WriterTyped, IdleWriter, PC

\* A call that ends leaves the writer idle.
LEMMA TypeFinish ==
  ASSUME TypeOK, NEW w \in Writers, Finish(w), UNCHANGED <<directory, counters>>
  PROVE  TypeOK'
BY IdleTyped, TypeLocal DEF Finish

\* A step that moves one writer to another place of the code.
LEMMA TypeGoto ==
  ASSUME TypeOK, NEW w \in Writers, NEW pc \in PC, Goto(w, pc),
         UNCHANGED <<directory, counters>>
  PROVE  TypeOK'
<1>0. WriterTyped(writer[w])
  BY WriterFacts
<1>1. PICK s : s = [writer[w] EXCEPT !.pc = pc]
  OBVIOUS
<1>2. WriterTyped(s) /\ s.fd = writer[w].fd
  BY <1>0, <1>1 DEF WriterTyped
<1>3. writer' = [writer EXCEPT ![w] = s]
  BY <1>1 DEF Goto
<1> QED
  BY <1>2, <1>3, TypeLocal

LEMMA TypeInit == Init => TypeOK
<1> SUFFICES ASSUME Init PROVE TypeOK
  OBVIOUS
<1>1. PICK touched \in SUBSET Logs : files = [log \in touched |-> <<>>]
  BY DEF Init
<1>2. files = [name \in DOMAIN files |-> files[name]]
  BY <1>1
<1> QED
  BY <1>2, BoundAssumption, IdleTyped DEF Init, TypeOK, Absent

-----------------------------------------------------------------------------
(* Types: calls and rotation.                                              *)

LEMMA TypeCalls ==
  ASSUME TypeOK, NEW w \in Writers, CallAppend(w) \/ CallRotate(w) PROVE TypeOK'
<1> USE BoundAssumption
<1>1. CASE CallAppend(w)
  <2>0. WriterTyped(writer[w])
    BY WriterFacts
  <2>1. PICK s : s = [writer[w] EXCEPT !.pc = "rotate_if_needed",
                                       !.call = appends + 1]
    OBVIOUS
  <2>2. appends' \in 0..MaxAppends /\ appends + 1 \in 0..MaxAppends
    BY <1>1 DEF CallAppend, TypeOK
  <2>3. WriterTyped(s) /\ s.fd = writer[w].fd
    BY <2>0, <2>1, <2>2 DEF WriterTyped, PC
  <2>4. writer' = [writer EXCEPT ![w] = s]
    BY <1>1, <2>1 DEF CallAppend
  <2>5. UNCHANGED <<files, manifest, tmp, rotates, crashes>>
    BY <1>1 DEF CallAppend, directory
  <2>6. s.fd \in DOMAIN files \union {NoFile, Unlinked}
    BY <2>3, WriterFacts
  <2> QED
    BY <2>2, <2>3, <2>4, <2>5, <2>6, TypeUpdate DEF TypeOK
<1>2. CASE CallRotate(w)
  <2>0. WriterTyped(writer[w])
    BY WriterFacts
  <2>1. PICK s : s = [writer[w] EXCEPT !.pc = "rotate_read"]
    OBVIOUS
  <2>2. rotates' \in 0..MaxRotates
    BY <1>2 DEF CallRotate, TypeOK
  <2>3. WriterTyped(s) /\ s.fd = writer[w].fd
    BY <2>0, <2>1 DEF WriterTyped, PC
  <2>4. writer' = [writer EXCEPT ![w] = s]
    BY <1>2, <2>1 DEF CallRotate, Goto
  <2>5. UNCHANGED <<files, manifest, tmp, appends, crashes>>
    BY <1>2 DEF CallRotate, directory
  <2>6. s.fd \in DOMAIN files \union {NoFile, Unlinked}
    BY <2>3, WriterFacts
  <2> QED
    BY <2>2, <2>3, <2>4, <2>5, <2>6, TypeUpdate DEF TypeOK
<1> QED
  BY <1>1, <1>2

LEMMA TypeHashFile ==
  ASSUME TypeOK, NEW w \in Writers, NEW from, NEW to \in PC, HashFile(w, from, to)
  PROVE  TypeOK'
<1>1. CASE Finish(w)
  BY <1>1, TypeFinish DEF HashFile
<1>2. CASE ~Finish(w)
  <2>1. PICK hash : writer' = [writer EXCEPT ![w].pc = to, ![w].seg.file_sha256 = hash]
    BY <1>2 DEF HashFile
  <2>0. WriterTyped(writer[w])
    BY WriterFacts
  <2>2. PICK s : s = [writer[w] EXCEPT !.pc = to,
                        !.seg = [writer[w].seg EXCEPT !.file_sha256 = hash]]
    OBVIOUS
  <2>3. WriterTyped(s) /\ s.fd = writer[w].fd
    BY <2>0, <2>2 DEF WriterTyped
  <2>4. writer' = [writer EXCEPT ![w] = s]
    BY <2>0, <2>1, <2>2 DEF WriterTyped
  <2>5. UNCHANGED <<directory, counters>>
    BY DEF HashFile
  <2> QED
    BY <2>3, <2>4, <2>5, TypeLocal
<1> QED
  BY <1>1, <1>2

LEMMA TypeAfterRotate ==
  ASSUME TypeOK, NEW w \in Writers, AfterRotate(w), UNCHANGED <<directory, counters>>
  PROVE  TypeOK'
<1>1. CASE Finish(w)
  BY <1>1, TypeFinish
<1>2. CASE ~Finish(w)
  <2>0. WriterTyped(writer[w])
    BY WriterFacts
  <2>1. PICK s : s = [writer[w] EXCEPT !.pc = "chain_start", !.seg = NoSegment,
                                       !.segs = <<>>]
    OBVIOUS
  <2>2. WriterTyped(s) /\ s.fd = writer[w].fd
    BY <2>0, <2>1 DEF WriterTyped, PC
  <2>3. writer' = [writer EXCEPT ![w] = s]
    BY <1>2, <2>1 DEF AfterRotate
  <2> QED
    BY <2>2, <2>3, TypeLocal
<1> QED
  BY <1>1, <1>2

LEMMA TypeRotateRead ==
  ASSUME TypeOK, NEW w \in Writers, RotateRead(w) PROVE TypeOK'
<1>1. UNCHANGED <<directory, counters>>
  BY DEF RotateRead
<1>2. CASE Finish(w) \/ AfterRotate(w)
  BY <1>1, <1>2, TypeFinish, TypeAfterRotate
<1>3. CASE ~(Finish(w) \/ AfterRotate(w))
  <2>1. PICK seg : writer' = [writer EXCEPT ![w].pc = "rotate_hash", ![w].seg = seg]
    BY <1>3 DEF RotateRead
  <2>0. WriterTyped(writer[w])
    BY WriterFacts
  <2>2. PICK s : s = [writer[w] EXCEPT !.pc = "rotate_hash", !.seg = seg]
    OBVIOUS
  <2>3. WriterTyped(s) /\ s.fd = writer[w].fd
    BY <2>0, <2>2 DEF WriterTyped, PC
  <2>4. writer' = [writer EXCEPT ![w] = s]
    BY <2>1, <2>2
  <2> QED
    BY <1>1, <2>3, <2>4, TypeLocal
<1> QED
  BY <1>2, <1>3

LEMMA TypeRotateReplace ==
  ASSUME TypeOK, NEW w \in Writers, RotateReplace(w) PROVE TypeOK'
<1> DEFINE path == LogOf[w]
           closed == IdOf(writer[w].seg)
           moved(fd) == IF fd = closed THEN Unlinked
                        ELSE IF fd = path THEN closed ELSE fd
<1>1. UNCHANGED <<manifest, tmp, appends, rotates, crashes>>
  BY DEF RotateReplace, counters
<1>2. CASE ~Exists(path)
  BY <1>1, <1>2, TypeFinish DEF RotateReplace, directory, counters
<1>3. CASE Exists(path)
  <2>1. /\ files' = [name \in (DOMAIN files \ {path}) \union {closed} |->
                        IF name = closed THEN files[path] ELSE files[name]]
        /\ writer' = [v \in Writers |->
              IF v = w THEN [writer[w] EXCEPT !.pc = "manifest_load",
                                              !.seg.path = closed,
                                              !.fd = moved(@)]
              ELSE [writer[v] EXCEPT !.fd = moved(@)]]
    BY <1>3 DEF RotateReplace
  <2> HIDE DEF closed
  <2>2. /\ DOMAIN files' = (DOMAIN files \ {path}) \union {closed}
        /\ files' = [name \in DOMAIN files' |-> files'[name]]
    BY <2>1
  <2>3. ASSUME NEW v \in Writers
        PROVE  /\ WriterTyped(writer'[v])
               /\ writer'[v].fd \in DOMAIN files' \union {NoFile, Unlinked}
    <3>1. WriterTyped(writer[v]) /\ writer[v].fd \in DOMAIN files \union {NoFile, Unlinked}
      BY WriterFacts
    <3>2. moved(writer[v].fd) \in DOMAIN files' \union {NoFile, Unlinked}
      BY <2>2, <3>1
    <3>3. CASE v = w
      <4>1. PICK s : s = [writer[w] EXCEPT !.pc = "manifest_load",
                             !.seg = [writer[w].seg EXCEPT !.path = closed],
                             !.fd = moved(writer[w].fd)]
        OBVIOUS
      <4> HIDE DEF moved
      <4>2. WriterTyped(s) /\ s.fd = moved(writer[w].fd)
        BY <3>1, <3>3, <4>1 DEF WriterTyped, PC
      <4>3. writer'[v] = s
        BY <2>1, <3>1, <3>3, <4>1 DEF WriterTyped
      <4> QED
        BY <3>2, <3>3, <4>2, <4>3
    <3>4. CASE v # w
      <4>1. PICK s : s = [writer[v] EXCEPT !.fd = moved(writer[v].fd)]
        OBVIOUS
      <4> HIDE DEF moved
      <4>2. WriterTyped(s) /\ s.fd = moved(writer[v].fd)
        BY <3>1, <4>1 DEF WriterTyped
      <4>3. writer'[v] = s
        BY <2>1, <3>4, <4>1
      <4> QED
        BY <3>2, <4>2, <4>3
    <3> QED
      BY <3>3, <3>4
  <2>4. writer' = [v \in Writers |-> writer'[v]]
    BY <2>1
  <2> QED
    BY <1>1, <2>2, <2>3, <2>4 DEF TypeOK
<1> QED
  BY <1>2, <1>3

-----------------------------------------------------------------------------
(* Types: the append itself.                                               *)

LEMMA TypeRotateIfNeeded ==
  ASSUME TypeOK, NEW w \in Writers, RotateIfNeeded(w) \/ RotateCheck(w) \/ LockLog(w)
  PROVE  TypeOK'
<1>1. UNCHANGED <<directory, counters>>
  BY DEF RotateIfNeeded, RotateCheck, LockLog
<1>2. \/ Finish(w)
      \/ \E pc \in {"rotate_read", "chain_start", "rotate_replace", "read_tail"} :
            Goto(w, pc)
  BY DEF RotateIfNeeded, RotateCheck, LockLog
<1>3. {"rotate_read", "chain_start", "rotate_replace", "read_tail"} \subseteq PC
  BY DEF PC
<1> QED
  BY <1>1, <1>2, <1>3, TypeFinish, TypeGoto

LEMMA TypeChainStart ==
  ASSUME TypeOK, NEW w \in Writers, ChainStart(w) PROVE TypeOK'
<1>1. UNCHANGED <<directory, counters>>
  BY DEF ChainStart
<1>2. CASE Finish(w)
  BY <1>1, <1>2, TypeFinish
<1>3. CASE ~Finish(w)
  <2>0. WriterTyped(writer[w])
    BY WriterFacts
  <2>1. PICK start : writer' = [writer EXCEPT ![w].pc = "open_log", ![w].start = start]
    BY <1>3 DEF ChainStart
  <2>2. PICK s : s = [writer[w] EXCEPT !.pc = "open_log", !.start = start]
    OBVIOUS
  <2>3. WriterTyped(s) /\ s.fd = writer[w].fd
    BY <2>0, <2>2 DEF WriterTyped, PC
  <2>4. writer' = [writer EXCEPT ![w] = s]
    BY <2>1, <2>2
  <2> QED
    BY <1>1, <2>3, <2>4, TypeLocal
<1> QED
  BY <1>2, <1>3

LEMMA TypeOpenLog ==
  ASSUME TypeOK, NEW w \in Writers, OpenLog(w) PROVE TypeOK'
<1> DEFINE path == LogOf[w]
<1>0. WriterTyped(writer[w])
  BY WriterFacts
<1>1. PICK s : s = [writer[w] EXCEPT !.pc = "lock_log", !.fd = path]
  OBVIOUS
<1>2. WriterTyped(s) /\ s.fd = path
  BY <1>0, <1>1 DEF WriterTyped, PC
<1>3. writer' = [writer EXCEPT ![w] = s]
  BY <1>1 DEF OpenLog
<1>4. /\ DOMAIN files' = DOMAIN files \union {path}
      /\ files' = [name \in DOMAIN files' |-> files'[name]]
  BY DEF OpenLog
<1>5. UNCHANGED <<manifest, tmp, appends, rotates, crashes>>
  BY DEF OpenLog, counters
<1>6. DOMAIN files \subseteq DOMAIN files' /\ s.fd \in DOMAIN files'
  BY <1>2, <1>4
<1> QED
  BY <1>2, <1>3, <1>4, <1>5, <1>6, TypeUpdate DEF TypeOK

LEMMA TypeReadTail ==
  ASSUME TypeOK, NEW w \in Writers, ReadTail(w) PROVE TypeOK'
<1>1. UNCHANGED <<directory, counters>>
  BY DEF ReadTail
<1>2. CASE Finish(w)
  BY <1>1, <1>2, TypeFinish
<1>3. CASE ~Finish(w)
  <2>0. WriterTyped(writer[w])
    BY WriterFacts
  <2>1. PICK rec : writer' = [writer EXCEPT ![w].pc = "write_record", ![w].rec = rec]
    BY <1>3 DEF ReadTail
  <2>2. PICK s : s = [writer[w] EXCEPT !.pc = "write_record", !.rec = rec]
    OBVIOUS
  <2>3. WriterTyped(s) /\ s.fd = writer[w].fd
    BY <2>0, <2>2 DEF WriterTyped, PC
  <2>4. writer' = [writer EXCEPT ![w] = s]
    BY <2>1, <2>2
  <2> QED
    BY <1>1, <2>3, <2>4, TypeLocal
<1> QED
  BY <1>2, <1>3

LEMMA TypeWriteRecord ==
  ASSUME TypeOK, NEW w \in Writers, WriteRecord(w) PROVE TypeOK'
<1>0. WriterTyped(writer[w])
  BY WriterFacts
<1>1. PICK s : s = [writer[w] EXCEPT !.pc = "record_read", !.fd = NoFile]
  OBVIOUS
<1>2. WriterTyped(s) /\ s.fd = NoFile
  BY <1>0, <1>1 DEF WriterTyped, PC
<1>3. writer' = [writer EXCEPT ![w] = s]
  BY <1>1 DEF WriteRecord
<1>4. /\ DOMAIN files' = DOMAIN files
      /\ files' = [name \in DOMAIN files' |-> files'[name]]
  BY DEF WriteRecord, Written
<1>5. UNCHANGED <<manifest, tmp, appends, rotates, crashes>>
  BY DEF WriteRecord, counters
<1> QED
  BY <1>2, <1>3, <1>4, <1>5, TypeUpdate DEF TypeOK

LEMMA TypeRecordRead ==
  ASSUME TypeOK, NEW w \in Writers, RecordRead(w) PROVE TypeOK'
<1>1. UNCHANGED <<directory, counters>>
  BY DEF RecordRead
<1>2. CASE Finish(w)
  BY <1>1, <1>2, TypeFinish
<1>3. CASE ~Finish(w)
  <2>0. WriterTyped(writer[w])
    BY WriterFacts
  <2>1. PICK seg : writer' = [writer EXCEPT ![w].pc = "record_hash", ![w].seg = seg]
    BY <1>3 DEF RecordRead
  <2>2. PICK s : s = [writer[w] EXCEPT !.pc = "record_hash", !.seg = seg]
    OBVIOUS
  <2>3. WriterTyped(s) /\ s.fd = writer[w].fd
    BY <2>0, <2>2 DEF WriterTyped, PC
  <2>4. writer' = [writer EXCEPT ![w] = s]
    BY <2>1, <2>2
  <2> QED
    BY <1>1, <2>3, <2>4, TypeLocal
<1> QED
  BY <1>2, <1>3

-----------------------------------------------------------------------------
(* Types: the manifest, crashes.                                           *)

LEMMA TypeManifestLoad ==
  ASSUME TypeOK, NEW w \in Writers, ManifestLoad(w) PROVE TypeOK'
<1>1. UNCHANGED <<directory, counters>>
  BY DEF ManifestLoad
<1>2. CASE Finish(w)
  BY <1>1, <1>2, TypeFinish
<1>3. CASE ~Finish(w)
  <2>0. WriterTyped(writer[w])
    BY WriterFacts
  <2>1. PICK segs : writer' = [writer EXCEPT ![w].pc = "manifest_open", ![w].segs = segs]
    BY <1>3 DEF ManifestLoad
  <2>2. PICK s : s = [writer[w] EXCEPT !.pc = "manifest_open", !.segs = segs]
    OBVIOUS
  <2>3. WriterTyped(s) /\ s.fd = writer[w].fd
    BY <2>0, <2>2 DEF WriterTyped, PC
  <2>4. writer' = [writer EXCEPT ![w] = s]
    BY <2>1, <2>2
  <2> QED
    BY <1>1, <2>3, <2>4, TypeLocal
<1> QED
  BY <1>2, <1>3

LEMMA TypeManifestOpen ==
  ASSUME TypeOK, NEW w \in Writers, ManifestOpen(w) PROVE TypeOK'
<1>0. WriterTyped(writer[w])
  BY WriterFacts
<1>1. PICK s : s = [writer[w] EXCEPT !.pc = "manifest_write", !.mfd = TmpFd]
  OBVIOUS
<1>2. WriterTyped(s) /\ s.fd = writer[w].fd
  BY <1>0, <1>1 DEF WriterTyped, PC
<1>3. writer' = [writer EXCEPT ![w] = s]
  BY <1>1 DEF ManifestOpen
<1>4. tmp'.state = "empty" /\ UNCHANGED <<files, manifest, appends, rotates, crashes>>
  BY DEF ManifestOpen, Empty, counters
<1>5. s.fd \in DOMAIN files \union {NoFile, Unlinked}
  BY <1>2, WriterFacts
<1> QED
  BY <1>2, <1>3, <1>4, <1>5, TypeUpdate DEF TypeOK

LEMMA TypeManifestWrite ==
  ASSUME TypeOK, NEW w \in Writers, ManifestWrite(w) PROVE TypeOK'
<1>0. WriterTyped(writer[w])
  BY WriterFacts
<1>1. PICK s : s = [writer[w] EXCEPT !.pc = "manifest_replace", !.mfd = NoFile]
  OBVIOUS
<1>2. WriterTyped(s) /\ s.fd = writer[w].fd
  BY <1>0, <1>1 DEF WriterTyped, PC
<1>3. writer' = [writer EXCEPT ![w] = s]
  BY <1>1 DEF ManifestWrite
<1>4. Saved(writer[w].segs).state = "saved" /\ Garbled.state = "garbled"
  BY DEF Saved, Garbled
<1>5. /\ tmp' = tmp \/ tmp' \in {Saved(writer[w].segs), Garbled}
      /\ manifest' = manifest \/ manifest' \in {Saved(writer[w].segs), Garbled}
  BY DEF ManifestWrite
<1>6. UNCHANGED <<files, appends, rotates, crashes>>
  BY DEF ManifestWrite, counters
<1>7. s.fd \in DOMAIN files \union {NoFile, Unlinked}
  BY <1>2, WriterFacts
<1> QED
  BY <1>2, <1>3, <1>4, <1>5, <1>6, <1>7, TypeUpdate DEF TypeOK

LEMMA TypeManifestReplace ==
  ASSUME TypeOK, NEW w \in Writers, ManifestReplace(w) PROVE TypeOK'
<1> DEFINE moved(fd) == IF fd = ManifestFd THEN Unlinked
                        ELSE IF fd = TmpFd THEN ManifestFd ELSE fd
           returns == writer[w].seg.status = "open"
           next == IF returns \/ writer[w].call = 0
                   THEN IdleWriter
                   ELSE [writer[w] EXCEPT !.pc = "chain_start", !.seg = NoSegment,
                                          !.segs = <<>>]
<1>1. UNCHANGED <<files, appends, rotates, crashes>>
  BY DEF ManifestReplace, counters
<1>2. CASE tmp = Absent
  BY <1>1, <1>2, TypeFinish DEF ManifestReplace, directory, counters
<1>3. CASE tmp # Absent
  <2>1. /\ manifest' = tmp /\ tmp' = Absent
        /\ writer' = [v \in Writers |->
              IF v = w THEN next ELSE [writer[v] EXCEPT !.mfd = moved(@)]]
    BY <1>3 DEF ManifestReplace
  <2>2. WriterTyped(next) /\ next.fd \in DOMAIN files \union {NoFile, Unlinked}
    <3>1. WriterTyped(writer[w]) /\ writer[w].fd \in DOMAIN files \union {NoFile, Unlinked}
      BY WriterFacts
    <3>2. PICK s : s = [writer[w] EXCEPT !.pc = "chain_start", !.seg = NoSegment,
                                         !.segs = <<>>]
      OBVIOUS
    <3>3. WriterTyped(s) /\ s.fd = writer[w].fd
      BY <3>1, <3>2 DEF WriterTyped, PC
    <3>4. next = IdleWriter \/ next = s
      BY <3>2
    <3> QED
      BY <3>1, <3>3, <3>4, IdleTyped
  <2> HIDE DEF next
  <2>3. ASSUME NEW v \in Writers
        PROVE  /\ WriterTyped(writer'[v])
               /\ writer'[v].fd \in DOMAIN files \union {NoFile, Unlinked}
    <3>1. CASE v = w
      BY <2>1, <2>2, <3>1
    <3>2. CASE v # w
      <4>1. WriterTyped(writer[v]) /\ writer[v].fd \in DOMAIN files \union {NoFile, Unlinked}
        BY WriterFacts
      <4>2. moved(writer[v].mfd) \in {NoFile, Unlinked, TmpFd, ManifestFd}
        BY <4>1 DEF WriterTyped
      <4>3. PICK s : s = [writer[v] EXCEPT !.mfd = moved(writer[v].mfd)]
        OBVIOUS
      <4> HIDE DEF moved
      <4>4. WriterTyped(s) /\ s.fd = writer[v].fd
        BY <4>1, <4>2, <4>3 DEF WriterTyped
      <4>5. writer'[v] = s
        BY <2>1, <3>2, <4>3
      <4> QED
        BY <4>1, <4>4, <4>5
    <3> QED
      BY <3>1, <3>2
  <2>4. writer' = [v \in Writers |-> writer'[v]]
    BY <2>1
  <2>5. manifest'.state = tmp.state /\ tmp'.state = "absent"
    BY <2>1 DEF Absent
  <2> QED
    BY <1>1, <2>3, <2>4, <2>5 DEF TypeOK
<1> QED
  BY <1>2, <1>3

LEMMA TypeCrash ==
  ASSUME TypeOK, NEW w \in Writers, Crash(w) PROVE TypeOK'
<1>1. writer' = [writer EXCEPT ![w] = IdleWriter]
  BY DEF Crash, Finish
<1>2. crashes' \in 0..MaxCrashes /\ UNCHANGED <<manifest, tmp, appends, rotates>>
  BY BoundAssumption DEF Crash, TypeOK
<1>3. /\ DOMAIN files' = DOMAIN files
      /\ files' = [name \in DOMAIN files' |-> files'[name]]
  BY DEF Crash, Written, TypeOK
<1> QED
  BY <1>1, <1>2, <1>3, IdleTyped, TypeUpdate DEF TypeOK

LEMMA TypeStep == TypeOK /\ [Next]_vars => TypeOK'
<1> SUFFICES ASSUME TypeOK, [Next]_vars PROVE TypeOK'
  OBVIOUS
<1>1. CASE UNCHANGED vars
  BY <1>1 DEF TypeOK, vars
<1>2. ASSUME NEW w \in Writers, CallAppend(w) \/ CallRotate(w) \/ Step(w) \/ Crash(w)
      PROVE  TypeOK'
  <2>1. CASE CallAppend(w) \/ CallRotate(w)
    BY <2>1, TypeCalls
  <2>2. CASE RotateHash(w) \/ RecordHash(w)
    BY <2>2, TypeHashFile DEF RotateHash, RecordHash, PC
  <2>3. CASE RotateIfNeeded(w) \/ RotateCheck(w) \/ LockLog(w)
    BY <2>3, TypeRotateIfNeeded
  <2>4. CASE RotateRead(w) \/ RotateReplace(w)
    BY <2>4, TypeRotateRead, TypeRotateReplace
  <2>5. CASE ChainStart(w) \/ OpenLog(w) \/ ReadTail(w) \/ WriteRecord(w)
    BY <2>5, TypeChainStart, TypeOpenLog, TypeReadTail, TypeWriteRecord
  <2>6. CASE RecordRead(w) \/ ManifestLoad(w) \/ ManifestOpen(w)
    BY <2>6, TypeRecordRead, TypeManifestLoad, TypeManifestOpen
  <2>7. CASE ManifestWrite(w) \/ ManifestReplace(w) \/ Crash(w)
    BY <2>7, TypeManifestWrite, TypeManifestReplace, TypeCrash
  <2> QED
    BY <1>2, <2>1, <2>2, <2>3, <2>4, <2>5, <2>6, <2>7 DEF Step
<1> QED
  BY <1>1, <1>2 DEF Next

\* Whatever the writers, the logs and the rotation settings, every writer is
\* at a place of the code and every descriptor is closed, or that of a file
\* that is there, or that of a file another one replaced.
THEOREM TypeCorrect == Spec => []TypeOK
BY TypeInit, TypeStep, PTL DEF Spec

-----------------------------------------------------------------------------
(* Logs that are never rotated.                                            *)

\* No rotation is configured and none is asked for.
NoRotation == RotateAt = 0 /\ ~RotateByAge /\ MaxRotates = 0

RotatePC == {"rotate_read", "rotate_hash", "rotate_check", "rotate_replace"}
OpenPC == {"lock_log", "read_tail", "write_record"}
RecordedPC == {"record_hash", "manifest_load", "manifest_open",
               "manifest_write", "manifest_replace"}

NeverRotates == \A w \in Writers : writer[w].pc \notin RotatePC

-----------------------------------------------------------------------------
(* What a step of writer w does to the logs, to the records returned and   *)
(* to what the invariants below say of a writer.                           *)

Others(w) == \A v \in Writers \ {w} :
    /\ writer'[v].pc = writer[v].pc
    /\ writer'[v].fd = writer[v].fd
    /\ writer'[v].rec = writer[v].rec
    /\ writer'[v].start = writer[v].start

Leaves(w) == /\ writer'[w].pc \in {"idle", "rotate_if_needed", "chain_start"}
             /\ UNCHANGED <<files, acked>>

Starts(w) == /\ writer'[w].pc = "open_log"
             /\ Lines(LogOf[w]) = <<>> /\ manifest = Absent
                    => writer'[w].start = Start(0, GenesisPrev)
             /\ UNCHANGED <<files, acked>>

Opens(w) == /\ writer[w].pc = "open_log" /\ writer'[w].pc = "lock_log"
            /\ writer'[w].fd = LogOf[w]
            /\ writer'[w].start = writer[w].start
            /\ DOMAIN files' = DOMAIN files \union {LogOf[w]}
            /\ \A name \in DOMAIN files' : files'[name] = Lines(name)
            /\ UNCHANGED acked

Locks(w) == /\ writer[w].pc = "lock_log" /\ writer'[w].pc = "read_tail"
            /\ \A v \in Writers : HoldsLock(v) => writer[v].fd # writer[w].fd
            /\ writer'[w].fd = writer[w].fd
            /\ writer'[w].start = writer[w].start
            /\ UNCHANGED <<files, acked>>

Reads(w) == /\ writer[w].pc = "read_tail" /\ writer'[w].pc = "write_record"
            /\ TailReadable(Lines(LogOf[w]))
            /\ writer'[w].fd = writer[w].fd
            /\ \E n : writer'[w].rec =
                  MakeEnvelope(NoKey,
                               NextSeq(Lines(LogOf[w]), writer[w].start.seq),
                               NextPrev(Lines(LogOf[w]), writer[w].start.prev),
                               n, NoStamp)
            /\ UNCHANGED <<files, acked>>

Writes(w) == /\ writer[w].pc = "write_record" /\ writer'[w].pc = "record_read"
             /\ writer'[w].rec = writer[w].rec
             /\ files' = Written(writer[w].fd, writer[w].rec)
             /\ UNCHANGED acked

Finds(w) == /\ writer[w].pc = "record_read" /\ writer'[w].pc = "record_hash"
            /\ Readable(LogOf[w])
            /\ Lines(LogOf[w]) # <<>>
            /\ writer'[w].rec = writer[w].rec
            /\ UNCHANGED <<files, acked>>

Records(w) == /\ writer[w].pc \in RecordedPC /\ writer'[w].pc \in RecordedPC
              /\ writer'[w].rec = writer[w].rec
              /\ UNCHANGED <<files, acked>>

Returns(w) == /\ writer[w].pc = "manifest_replace"
              /\ writer'[w].pc \in {"idle", "chain_start"}
              /\ acked' \in {acked, acked \union {writer[w].rec}}
              /\ UNCHANGED files

Dies(w) == /\ writer[w].pc = "write_record" /\ writer'[w].pc = "idle"
           /\ \E line \in {TornLine, [writer[w].rec EXCEPT !.kind = "cut"]} :
                 files' = Written(writer[w].fd, line)
           /\ UNCHANGED acked

Effect(w) == \/ Leaves(w) \/ Starts(w) \/ Opens(w) \/ Locks(w) \/ Reads(w)
             \/ Writes(w) \/ Finds(w) \/ Records(w) \/ Returns(w) \/ Dies(w)

\* The manifest stays absent until a writer has a segment to record.
ManifestEffect(w) ==
    manifest' # Absent \/ tmp' # Absent
        => \/ manifest # Absent \/ tmp # Absent
           \/ writer[w].pc \in RecordedPC

Described(w) == Others(w) /\ Effect(w) /\ ManifestEffect(w)

\* A step that gives only w a new local state.
LEMMA OneWriter ==
  ASSUME TypeOK, NEW w \in Writers, NEW s, writer' = [writer EXCEPT ![w] = s]
  PROVE  writer'[w] = s /\ Others(w)
<1>1. writer = [v \in Writers |-> writer[v]]
  BY DEF TypeOK
<1>2. writer'[w] = s /\ \A v \in Writers \ {w} : writer'[v] = writer[v]
  BY <1>1
<1> QED
  BY <1>2 DEF Others

LEMMA FinishEffect ==
  ASSUME TypeOK, NEW w \in Writers, Finish(w), UNCHANGED <<directory, acked>>
  PROVE  Described(w)
<1>1. writer'[w] = IdleWriter /\ Others(w)
  BY OneWriter DEF Finish
<1> QED
  BY <1>1 DEF Described, Effect, Leaves, ManifestEffect, directory, IdleWriter

LEMMA GotoEffect ==
  ASSUME TypeOK, NEW w \in Writers, NEW pc, Goto(w, pc)
  PROVE  /\ Others(w) /\ writer'[w].pc = pc
         /\ writer'[w].fd = writer[w].fd /\ writer'[w].rec = writer[w].rec
         /\ writer'[w].start = writer[w].start
<1>0. WriterTyped(writer[w])
  BY WriterFacts
<1>1. PICK s : s = [writer[w] EXCEPT !.pc = pc]
  OBVIOUS
<1>2. s.pc = pc /\ s.fd = writer[w].fd /\ s.rec = writer[w].rec
      /\ s.start = writer[w].start
  BY <1>0, <1>1 DEF WriterTyped
<1>3. writer' = [writer EXCEPT ![w] = s]
  BY <1>1 DEF Goto
<1> QED
  BY <1>2, <1>3, OneWriter

-----------------------------------------------------------------------------
(* The effect of each action.                                              *)

LEMMA CallEffect ==
  ASSUME TypeOK, NoRotation, NEW w \in Writers, CallAppend(w) \/ CallRotate(w)
  PROVE  Described(w)
<1>0. WriterTyped(writer[w])
  BY WriterFacts
<1>1. CallAppend(w)
  BY BoundAssumption DEF NoRotation, CallRotate, TypeOK
<1>2. PICK s : s = [writer[w] EXCEPT !.pc = "rotate_if_needed",
                                     !.call = appends + 1]
  OBVIOUS
<1>3. s.pc = "rotate_if_needed"
  BY <1>0, <1>2 DEF WriterTyped
<1>4. writer' = [writer EXCEPT ![w] = s]
  BY <1>1, <1>2 DEF CallAppend
<1>5. writer'[w] = s /\ Others(w)
  BY <1>4, OneWriter
<1> QED
  BY <1>1, <1>3, <1>5
     DEF Described, Effect, Leaves, ManifestEffect, CallAppend, directory

LEMMA RotateIfNeededEffect ==
  ASSUME TypeOK, NoRotation, NEW w \in Writers, RotateIfNeeded(w)
  PROVE  Described(w)
<1>1. Goto(w, "chain_start") /\ UNCHANGED <<directory, acked>>
  BY DEF NoRotation, RotateIfNeeded
<1> QED
  BY <1>1, GotoEffect DEF Described, Effect, Leaves, ManifestEffect, directory

LEMMA ChainStartEffect ==
  ASSUME TypeOK, NEW w \in Writers, ChainStart(w)
  PROVE  Described(w)
<1>0. WriterTyped(writer[w]) /\ UNCHANGED <<directory, acked>>
  BY WriterFacts DEF ChainStart
<1>1. CASE Finish(w)
  BY <1>0, <1>1, FinishEffect
<1>2. CASE ~Finish(w)
  <2>1. PICK start :
           /\ writer' = [writer EXCEPT ![w].pc = "open_log", ![w].start = start]
           /\ Lines(LogOf[w]) = <<>> /\ manifest = Absent
                => start = Start(0, GenesisPrev)
    BY <1>2 DEF ChainStart, LoadedSegments
  <2>2. PICK s : s = [writer[w] EXCEPT !.pc = "open_log", !.start = start]
    OBVIOUS
  <2>3. s.pc = "open_log" /\ s.start = start
    BY <1>0, <2>2 DEF WriterTyped
  <2>4. writer' = [writer EXCEPT ![w] = s]
    BY <2>1, <2>2
  <2>5. writer'[w] = s /\ Others(w)
    BY <2>4, OneWriter
  <2> QED
    BY <1>0, <2>1, <2>3, <2>5
       DEF Described, Effect, Starts, ManifestEffect, directory
<1> QED
  BY <1>1, <1>2

LEMMA OpenLogEffect ==
  ASSUME TypeOK, NEW w \in Writers, OpenLog(w)
  PROVE  Described(w)
<1>0. WriterTyped(writer[w])
  BY WriterFacts
<1>1. PICK s : s = [writer[w] EXCEPT !.pc = "lock_log", !.fd = LogOf[w]]
  OBVIOUS
<1>2. s.pc = "lock_log" /\ s.fd = LogOf[w] /\ s.start = writer[w].start
  BY <1>0, <1>1 DEF WriterTyped
<1>3. writer' = [writer EXCEPT ![w] = s]
  BY <1>1 DEF OpenLog
<1>4. writer'[w] = s /\ Others(w)
  BY <1>3, OneWriter
<1>5. writer[w].pc = "open_log" /\ UNCHANGED <<manifest, tmp, acked>>
  BY DEF OpenLog, At
<1>6. DOMAIN files' = DOMAIN files \union {LogOf[w]}
      /\ \A name \in DOMAIN files' : files'[name] = Lines(name)
  BY DEF OpenLog
<1> QED
  BY <1>2, <1>4, <1>5, <1>6 DEF Described, Effect, Opens, ManifestEffect

LEMMA LockLogEffect ==
  ASSUME TypeOK, NEW w \in Writers, LockLog(w)
  PROVE  Described(w)
<1>1. /\ writer[w].pc = "lock_log"
      /\ \A v \in Writers : HoldsLock(v) => writer[v].fd # writer[w].fd
      /\ Goto(w, "read_tail")
      /\ UNCHANGED <<files, manifest, tmp, acked>>
  BY DEF LockLog, At, directory
<1>2. Locks(w) /\ Others(w)
  BY <1>1, GotoEffect DEF Locks
<1> QED
  BY <1>1, <1>2 DEF Described, Effect, ManifestEffect

LEMMA ReadTailEffect ==
  ASSUME TypeOK, NEW w \in Writers, ReadTail(w)
  PROVE  Described(w)
<1>0. /\ WriterTyped(writer[w]) /\ writer[w].pc = "read_tail"
      /\ UNCHANGED <<directory, acked>>
  BY WriterFacts DEF ReadTail, At
<1>1. CASE ~TailReadable(Lines(LogOf[w]))
  BY <1>0, <1>1, FinishEffect DEF ReadTail
<1>2. CASE TailReadable(Lines(LogOf[w]))
  <2>1. PICK rec :
           rec = MakeEnvelope(NoKey,
                              NextSeq(Lines(LogOf[w]), writer[w].start.seq),
                              NextPrev(Lines(LogOf[w]), writer[w].start.prev),
                              writer[w].call, NoStamp)
    OBVIOUS
  <2>2. PICK s : s = [writer[w] EXCEPT !.pc = "write_record", !.rec = rec]
    OBVIOUS
  <2>3. s.pc = "write_record" /\ s.rec = rec /\ s.fd = writer[w].fd
    BY <1>0, <2>2 DEF WriterTyped
  <2>4. writer' = [writer EXCEPT ![w] = s]
    BY <1>2, <2>1, <2>2 DEF ReadTail
  <2>5. writer'[w] = s /\ Others(w)
    BY <2>4, OneWriter
  <2>6. Reads(w)
    BY <1>0, <1>2, <2>1, <2>3, <2>5 DEF Reads, directory
  <2> QED
    BY <1>0, <2>5, <2>6 DEF Described, Effect, ManifestEffect, directory
<1> QED
  BY <1>1, <1>2

LEMMA WriteRecordEffect ==
  ASSUME TypeOK, NEW w \in Writers, WriteRecord(w)
  PROVE  Described(w) /\ ~Dies(w)
<1>0. WriterTyped(writer[w])
  BY WriterFacts
<1>1. PICK s : s = [writer[w] EXCEPT !.pc = "record_read", !.fd = NoFile]
  OBVIOUS
<1>2. s.pc = "record_read" /\ s.rec = writer[w].rec
  BY <1>0, <1>1 DEF WriterTyped
<1>3. writer' = [writer EXCEPT ![w] = s]
  BY <1>1 DEF WriteRecord
<1>4. writer'[w] = s /\ Others(w)
  BY <1>3, OneWriter
<1>5. /\ writer[w].pc = "write_record" /\ UNCHANGED <<manifest, tmp, acked>>
      /\ files' = Written(writer[w].fd, writer[w].rec)
  BY DEF WriteRecord, At
<1> QED
  BY <1>2, <1>4, <1>5 DEF Described, Effect, Writes, Dies, ManifestEffect

LEMMA RecordReadEffect ==
  ASSUME TypeOK, NEW w \in Writers, RecordRead(w)
  PROVE  Described(w)
<1>0. /\ WriterTyped(writer[w]) /\ writer[w].pc = "record_read"
      /\ UNCHANGED <<directory, acked>>
  BY WriterFacts DEF RecordRead, At
<1>1. CASE Finish(w)
  BY <1>0, <1>1, FinishEffect
<1>2. CASE ~Finish(w)
  <2>1. /\ Lines(LogOf[w]) # <<>> /\ Readable(LogOf[w])
        /\ \E seg : writer' = [writer EXCEPT ![w].pc = "record_hash", ![w].seg = seg]
    BY <1>2 DEF RecordRead
  <2>2. PICK seg : writer' = [writer EXCEPT ![w].pc = "record_hash", ![w].seg = seg]
    BY <2>1
  <2>3. PICK s : s = [writer[w] EXCEPT !.pc = "record_hash", !.seg = seg]
    OBVIOUS
  <2>4. s.pc = "record_hash" /\ s.rec = writer[w].rec
    BY <1>0, <2>3 DEF WriterTyped
  <2>5. writer' = [writer EXCEPT ![w] = s]
    BY <2>2, <2>3
  <2>6. writer'[w] = s /\ Others(w)
    BY <2>5, OneWriter
  <2> QED
    BY <1>0, <2>1, <2>4, <2>6 DEF Described, Effect, Finds, ManifestEffect, directory
<1> QED
  BY <1>1, <1>2

LEMMA RecordHashEffect ==
  ASSUME TypeOK, NEW w \in Writers, RecordHash(w)
  PROVE  Described(w)
<1>0. /\ WriterTyped(writer[w]) /\ writer[w].pc = "record_hash"
      /\ UNCHANGED <<directory, acked>>
  BY WriterFacts DEF RecordHash, HashFile, At
<1>1. CASE Finish(w)
  BY <1>0, <1>1, FinishEffect
<1>2. CASE ~Finish(w)
  <2>1. PICK hash : writer' = [writer EXCEPT ![w].pc = "manifest_load",
                                             ![w].seg.file_sha256 = hash]
    BY <1>2 DEF RecordHash, HashFile
  <2>2. PICK s : s = [writer[w] EXCEPT !.pc = "manifest_load",
                        !.seg = [writer[w].seg EXCEPT !.file_sha256 = hash]]
    OBVIOUS
  <2>3. s.pc = "manifest_load" /\ s.rec = writer[w].rec
    BY <1>0, <2>2 DEF WriterTyped
  <2>4. writer' = [writer EXCEPT ![w] = s]
    BY <1>0, <2>1, <2>2 DEF WriterTyped
  <2>5. writer'[w] = s /\ Others(w)
    BY <2>4, OneWriter
  <2> QED
    BY <1>0, <2>3, <2>5
       DEF Described, Effect, Records, RecordedPC, ManifestEffect, directory
<1> QED
  BY <1>1, <1>2

LEMMA ManifestLoadEffect ==
  ASSUME TypeOK, NEW w \in Writers, ManifestLoad(w)
  PROVE  Described(w)
<1>0. /\ WriterTyped(writer[w]) /\ writer[w].pc = "manifest_load"
      /\ UNCHANGED <<directory, acked>>
  BY WriterFacts DEF ManifestLoad, At
<1>1. CASE Finish(w)
  BY <1>0, <1>1, FinishEffect
<1>2. CASE ~Finish(w)
  <2>1. PICK segs : writer' = [writer EXCEPT ![w].pc = "manifest_open",
                                             ![w].segs = segs]
    BY <1>2 DEF ManifestLoad
  <2>2. PICK s : s = [writer[w] EXCEPT !.pc = "manifest_open", !.segs = segs]
    OBVIOUS
  <2>3. s.pc = "manifest_open" /\ s.rec = writer[w].rec
    BY <1>0, <2>2 DEF WriterTyped
  <2>4. writer' = [writer EXCEPT ![w] = s]
    BY <2>1, <2>2
  <2>5. writer'[w] = s /\ Others(w)
    BY <2>4, OneWriter
  <2> QED
    BY <1>0, <2>3, <2>5
       DEF Described, Effect, Records, RecordedPC, ManifestEffect, directory
<1> QED
  BY <1>1, <1>2

LEMMA ManifestOpenEffect ==
  ASSUME TypeOK, NEW w \in Writers, ManifestOpen(w)
  PROVE  Described(w)
<1>0. WriterTyped(writer[w])
  BY WriterFacts
<1>1. PICK s : s = [writer[w] EXCEPT !.pc = "manifest_write", !.mfd = TmpFd]
  OBVIOUS
<1>2. s.pc = "manifest_write" /\ s.rec = writer[w].rec
  BY <1>0, <1>1 DEF WriterTyped
<1>3. writer' = [writer EXCEPT ![w] = s]
  BY <1>1 DEF ManifestOpen
<1>4. writer'[w] = s /\ Others(w)
  BY <1>3, OneWriter
<1>5. writer[w].pc = "manifest_open" /\ UNCHANGED <<files, acked>>
  BY DEF ManifestOpen, At
<1> QED
  BY <1>2, <1>4, <1>5 DEF Described, Effect, Records, RecordedPC, ManifestEffect

LEMMA ManifestWriteEffect ==
  ASSUME TypeOK, NEW w \in Writers, ManifestWrite(w)
  PROVE  Described(w)
<1>0. WriterTyped(writer[w])
  BY WriterFacts
<1>1. PICK s : s = [writer[w] EXCEPT !.pc = "manifest_replace", !.mfd = NoFile]
  OBVIOUS
<1>2. s.pc = "manifest_replace" /\ s.rec = writer[w].rec
  BY <1>0, <1>1 DEF WriterTyped
<1>3. writer' = [writer EXCEPT ![w] = s]
  BY <1>1 DEF ManifestWrite
<1>4. writer'[w] = s /\ Others(w)
  BY <1>3, OneWriter
<1>5. writer[w].pc = "manifest_write" /\ UNCHANGED <<files, acked>>
  BY DEF ManifestWrite, At
<1> QED
  BY <1>2, <1>4, <1>5 DEF Described, Effect, Records, RecordedPC, ManifestEffect

LEMMA ManifestReplaceEffect ==
  ASSUME TypeOK, NEW w \in Writers, ManifestReplace(w)
  PROVE  Described(w)
<1> DEFINE moved(fd) == IF fd = ManifestFd THEN Unlinked
                        ELSE IF fd = TmpFd THEN ManifestFd ELSE fd
           next == IF writer[w].seg.status = "open" \/ writer[w].call = 0
                   THEN IdleWriter
                   ELSE [writer[w] EXCEPT !.pc = "chain_start", !.seg = NoSegment,
                                          !.segs = <<>>]
<1>0. writer[w].pc = "manifest_replace" /\ UNCHANGED files
  BY DEF ManifestReplace, At
<1>1. CASE tmp = Absent
  BY <1>0, <1>1, FinishEffect DEF ManifestReplace, directory
<1>2. CASE tmp # Absent
  <2>1. /\ acked' \in {acked, acked \union {writer[w].rec}}
        /\ writer' = [v \in Writers |->
              IF v = w THEN next ELSE [writer[v] EXCEPT !.mfd = moved(@)]]
    BY <1>2 DEF ManifestReplace
  <2>2. next.pc \in {"idle", "chain_start"}
    <3>1. WriterTyped(writer[w])
      BY WriterFacts
    <3> QED
      BY <3>1 DEF IdleWriter, WriterTyped
  <2> HIDE DEF next, moved
  <2>3. writer'[w] = next
    BY <2>1
  <2>4. ASSUME NEW v \in Writers \ {w}
        PROVE  /\ writer'[v].pc = writer[v].pc
               /\ writer'[v].fd = writer[v].fd
               /\ writer'[v].rec = writer[v].rec
               /\ writer'[v].start = writer[v].start
    <3>1. WriterTyped(writer[v])
      BY WriterFacts
    <3>2. PICK s : s = [writer[v] EXCEPT !.mfd = moved(writer[v].mfd)]
      OBVIOUS
    <3>3. writer'[v] = s
      BY <2>1, <3>2
    <3> QED
      BY <3>1, <3>2, <3>3 DEF WriterTyped
  <2>5. Others(w) /\ Returns(w)
    BY <1>0, <2>1, <2>2, <2>3, <2>4 DEF Others, Returns
  <2> QED
    BY <1>0, <1>2, <2>5 DEF Described, Effect, ManifestEffect
<1> QED
  BY <1>1, <1>2

LEMMA CrashEffect ==
  ASSUME TypeOK, NEW w \in Writers, Crash(w)
  PROVE  Described(w)
<1>1. Finish(w) /\ UNCHANGED <<manifest, tmp, acked>>
  BY DEF Crash
<1>2. CASE UNCHANGED files
  BY <1>1, <1>2, FinishEffect DEF directory
<1>3. CASE ~UNCHANGED files
  <2>1. /\ writer[w].pc = "write_record"
        /\ \E line \in {TornLine, [writer[w].rec EXCEPT !.kind = "cut"]} :
              files' = Written(writer[w].fd, line)
    BY <1>3 DEF Crash, At
  <2>2. writer'[w] = IdleWriter /\ Others(w)
    BY <1>1, OneWriter DEF Finish
  <2>3. IdleWriter.pc = "idle"
    BY DEF IdleWriter
  <2>4. Dies(w)
    BY <1>1, <2>1, <2>2, <2>3 DEF Dies
  <2> QED
    BY <1>1, <2>2, <2>4 DEF Described, Effect, ManifestEffect
<1> QED
  BY <1>2, <1>3

\* Every step is one of them.
LEMMA WriterEffect ==
  ASSUME TypeOK, NoRotation, NeverRotates, NEW w \in Writers,
         CallAppend(w) \/ CallRotate(w) \/ Step(w) \/ Crash(w)
  PROVE  Described(w) /\ (crashes' = 0 => crashes = 0 /\ ~Dies(w))
<1>1. ~ (RotateRead(w) \/ RotateHash(w) \/ RotateCheck(w) \/ RotateReplace(w))
  BY DEF NeverRotates, RotatePC, RotateRead, RotateHash, HashFile, RotateCheck,
         RotateReplace, At
<1>2. CASE CallAppend(w) \/ CallRotate(w) \/ RotateIfNeeded(w)
  BY <1>2, CallEffect, RotateIfNeededEffect
     DEF CallAppend, CallRotate, RotateIfNeeded, At, Dies, counters
<1>3. CASE ChainStart(w) \/ OpenLog(w) \/ LockLog(w) \/ ReadTail(w)
  BY <1>3, ChainStartEffect, OpenLogEffect, LockLogEffect, ReadTailEffect
     DEF ChainStart, OpenLog, LockLog, ReadTail, At, Dies, counters
<1>4. CASE RecordRead(w) \/ RecordHash(w) \/ ManifestLoad(w)
  BY <1>4, RecordReadEffect, RecordHashEffect, ManifestLoadEffect
     DEF RecordRead, RecordHash, HashFile, ManifestLoad, At, Dies, counters
<1>5. CASE ManifestOpen(w) \/ ManifestWrite(w) \/ ManifestReplace(w)
  BY <1>5, ManifestOpenEffect, ManifestWriteEffect, ManifestReplaceEffect
     DEF ManifestOpen, ManifestWrite, ManifestReplace, At, Dies, counters
<1>6. CASE WriteRecord(w)
  BY <1>6, WriteRecordEffect DEF WriteRecord, counters
<1>7. CASE Crash(w)
  <2>1. crashes' # 0
    BY <1>7, BoundAssumption DEF Crash, TypeOK
  <2> QED
    BY <1>7, <2>1, CrashEffect
<1> QED
  BY <1>1, <1>2, <1>3, <1>4, <1>5, <1>6, <1>7 DEF Step

LEMMA StepEffect ==
  ASSUME TypeOK, NoRotation, NeverRotates, [Next]_vars
  PROVE  \/ UNCHANGED vars
         \/ \E w \in Writers : Described(w) /\ (crashes' = 0 => crashes = 0 /\ ~Dies(w))
BY WriterEffect DEF Next

-----------------------------------------------------------------------------
(* What the writers keep.                                                  *)

\* The complete lines of all logs, and the logs that hold a line which does
\* not parse.
Envelopes == {env \in UNION {Elements(Lines(log)) : log \in Logs} :
                 env.kind = "envelope"}
Broken == {log \in Logs : ~Readable(log)}

LogsInv == \A log \in Logs : IsLog(Lines(log))

\* A descriptor in use is that of the log, under its own name.
OpenInv == \A w \in Writers : writer[w].pc \in OpenPC =>
              writer[w].fd = LogOf[w] /\ LogOf[w] \in DOMAIN files

\* A record that was written is a line of its log, unless it ran into an
\* unfinished line, which no reader of the log misses.
RecordInv == \A w \in Writers :
    /\ writer[w].pc = "write_record" => writer[w].rec.kind = "envelope"
    /\ writer[w].pc = "record_read" =>
          writer[w].rec \in Envelopes \/ LogOf[w] \in Broken
    /\ writer[w].pc \in RecordedPC => writer[w].rec \in Envelopes

AckedInv == acked \subseteq Envelopes

KeepInv == LogsInv /\ NeverRotates /\ OpenInv /\ RecordInv /\ AckedInv

\* The text written to a descriptor reaches the log it was opened for.
LEMMA WrittenLines ==
  ASSUME OpenInv, NEW w \in Writers, writer[w].pc = "write_record",
         NEW line, files' = Written(writer[w].fd, line)
  PROVE  /\ DOMAIN files' = DOMAIN files
         /\ \A log : Lines(log)' = IF log = LogOf[w]
                                   THEN Extend(Lines(log), line)
                                   ELSE Lines(log)
BY DEF OpenInv, OpenPC, Written, Lines, Exists

\* Logs only grow.
Grows == \A log \in Logs : \/ Lines(log)' = Lines(log)
                           \/ \E line : Lines(log)' = Extend(Lines(log), line)

LEMMA EffectGrows ==
  ASSUME OpenInv, NEW w \in Writers, Effect(w)
  PROVE  Grows /\ DOMAIN files \subseteq DOMAIN files'
<1>1. CASE Writes(w) \/ Dies(w)
  <2>1. writer[w].pc = "write_record" /\ \E line : files' = Written(writer[w].fd, line)
    BY <1>1 DEF Writes, Dies
  <2> QED
    BY <2>1, WrittenLines DEF Grows
<1>2. CASE Opens(w)
  BY <1>2 DEF Opens, Grows, Lines, Exists
<1>3. CASE UNCHANGED files
  BY <1>3 DEF Grows, Lines, Exists
<1> QED
  BY <1>1, <1>2, <1>3 DEF Effect, Leaves, Starts, Locks, Reads, Finds, Records, Returns

\* A growing log loses no complete line and no unreadable one.
LEMMA GrowsKeeps ==
  ASSUME LogsInv, Grows
  PROVE  LogsInv' /\ Envelopes \subseteq Envelopes' /\ Broken \subseteq Broken'
<1>1. ASSUME NEW log \in Logs
      PROVE  /\ IsLog(Lines(log)')
             /\ \A env \in Elements(Lines(log)) :
                   env.kind = "envelope" => env \in Elements(Lines(log)')
             /\ ~Readable(log) => ~Readable(log)'
  <2> DEFINE old == Lines(log)
             new == Lines(log)'
  <2>1. IsLog(old) /\ Len(old) \in Nat /\ DOMAIN old = 1..Len(old)
    BY LogFacts DEF LogsInv
  <2>2. CASE new = old
    BY <2>1, <2>2 DEF Readable
  <2>3. CASE new # old
    <3>1. PICK line : new = Extend(old, line)
      BY <2>3 DEF Grows
    <3> HIDE DEF new, old
    <3>2. /\ IsLog(new) /\ Len(new) >= Len(old)
          /\ \A i \in 1..Len(old) :
                /\ old[i].kind = "envelope" => new[i] = old[i]
                /\ ~IsEnvelope(old[i]) => ~IsEnvelope(new[i])
      BY <2>1, <3>1, ExtendFacts
    <3>3. Len(new) \in Nat /\ DOMAIN new = 1..Len(new)
      BY <3>2, LogFacts
    <3>4. \A i \in 1..Len(old) : i \in 1..Len(new)
      BY <2>1, <3>2, <3>3
    <3>5. \A env \in Elements(old) : env.kind = "envelope" => env \in Elements(new)
      BY <2>1, <3>2, <3>3, <3>4 DEF Elements
    <3>6. ~Readable(log) => ~Readable(log)'
      BY <3>2, <3>4 DEF Readable, old, new
    <3> QED
      BY <3>2, <3>5, <3>6 DEF old, new
  <2> QED
    BY <2>2, <2>3
<1>2. LogsInv'
  BY <1>1 DEF LogsInv
<1>3. Envelopes \subseteq Envelopes'
  BY <1>1 DEF Envelopes
<1>4. Broken \subseteq Broken'
  BY <1>1 DEF Broken
<1> QED
  BY <1>2, <1>3, <1>4

LEMMA KeepInit == Init => KeepInv
<1> SUFFICES ASSUME Init PROVE KeepInv
  OBVIOUS
<1>1. PICK touched \in SUBSET Logs : files = [log \in touched |-> <<>>]
  BY DEF Init
<1>2. \A log \in Logs : Lines(log) = <<>>
  BY <1>1 DEF Lines, Exists
<1>3. \A w \in Writers : writer[w].pc = "idle"
  BY DEF Init, IdleWriter
<1> QED
  BY <1>2, <1>3, EmptyIsLog
     DEF Init, KeepInv, LogsInv, NeverRotates, RotatePC, OpenInv, OpenPC,
         RecordInv, RecordedPC, AckedInv

\* After a write the record is in the log, or the log is broken.
LEMMA WriteFound ==
  ASSUME KeepInv, NEW w \in Writers, Writes(w)
  PROVE  writer[w].rec \in Envelopes' \/ LogOf[w] \in Broken'
<1> DEFINE old == Lines(LogOf[w])
           new == Lines(LogOf[w])'
           rec == writer[w].rec
<1>1. LogOf[w] \in Logs /\ IsLog(old) /\ rec.kind = "envelope"
  BY LogOfAssumption DEF KeepInv, LogsInv, RecordInv, Writes
<1>2. new = Extend(old, rec)
  BY WrittenLines DEF KeepInv, Writes
<1>3. Len(old) \in Nat
  BY <1>1, LogFacts
<1> HIDE DEF old, new, rec
<1>4. IsLog(new) /\ new # <<>>
  BY <1>1, <1>2, ExtendFacts
<1>5. Len(new) \in Nat /\ DOMAIN new = 1..Len(new)
  BY <1>4, LogFacts
<1>6. CASE old = <<>> \/ old[Len(old)].kind = "envelope"
  <2>1. new = Append(old, rec)
    BY <1>1, <1>2, <1>6, ExtendFacts
  <2>2. Len(new) = Len(old) + 1 /\ new[Len(old) + 1] = rec
    BY <1>1, <2>1, AppendLog
  <2>3. rec \in Elements(new)
    BY <1>3, <1>5, <2>2 DEF Elements
  <2>4. rec \in Envelopes'
    BY <1>1, <2>3 DEF Envelopes, new
  <2> QED
    BY <2>4 DEF rec
<1>7. CASE ~(old = <<>> \/ old[Len(old)].kind = "envelope")
  <2>1. Len(new) = Len(old) /\ new[Len(old)] = TornLine /\ Len(old) # 0
    BY <1>1, <1>2, <1>7, ExtendFacts, LogFacts
  <2>2. ~IsEnvelope(new[Len(old)]) /\ Len(old) \in 1..Len(new)
    BY <1>3, <2>1 DEF IsEnvelope, TornLine
  <2>3. ~Readable(LogOf[w])'
    BY <2>2 DEF Readable, new
  <2> QED
    BY <1>1, <2>3 DEF Broken
<1> QED
  BY <1>6, <1>7

\* Reading the log again finds the record.
LEMMA FindsRecord ==
  ASSUME KeepInv, NEW w \in Writers, Finds(w)
  PROVE  writer[w].rec \in Envelopes
BY DEF KeepInv, RecordInv, Finds, Broken

LEMMA KeepOpen ==
  ASSUME KeepInv, NEW w \in Writers, Described(w)
  PROVE  OpenInv'
<1>1. DOMAIN files \subseteq DOMAIN files'
  BY EffectGrows DEF KeepInv, Described
<1>2. ASSUME NEW v \in Writers \ {w}, writer'[v].pc \in OpenPC
      PROVE  writer'[v].fd = LogOf[v] /\ LogOf[v] \in DOMAIN files'
  BY <1>1, <1>2 DEF KeepInv, OpenInv, Described, Others
<1>3. ASSUME writer'[w].pc \in OpenPC
      PROVE  writer'[w].fd = LogOf[w] /\ LogOf[w] \in DOMAIN files'
  <2>1. Opens(w) \/ Locks(w) \/ Reads(w)
    BY <1>3 DEF Described, Effect, OpenPC, Leaves, Starts, Writes, Finds,
       Records, RecordedPC, Returns, Dies
  <2>2. CASE Opens(w)
    BY <2>2 DEF Opens
  <2>3. CASE Locks(w) \/ Reads(w)
    BY <1>1, <2>3 DEF KeepInv, OpenInv, OpenPC, Locks, Reads
  <2> QED
    BY <2>1, <2>2, <2>3
<1> QED
  BY <1>2, <1>3 DEF OpenInv

LEMMA KeepRecord ==
  ASSUME KeepInv, NEW w \in Writers, Described(w)
  PROVE  RecordInv'
<1>1. Envelopes \subseteq Envelopes' /\ Broken \subseteq Broken'
  BY EffectGrows, GrowsKeeps DEF KeepInv, Described
<1> DEFINE fine(v) ==
      /\ writer'[v].pc = "write_record" => writer'[v].rec.kind = "envelope"
      /\ writer'[v].pc = "record_read" =>
            writer'[v].rec \in Envelopes' \/ LogOf[v] \in Broken'
      /\ writer'[v].pc \in RecordedPC => writer'[v].rec \in Envelopes'
<1>2. ASSUME NEW v \in Writers \ {w} PROVE fine(v)
  BY <1>1 DEF KeepInv, RecordInv, Described, Others
<1>3. fine(w)
  <2>1. CASE Reads(w)
    <3>1. PICK n : writer'[w].rec =
                     MakeEnvelope(NoKey,
                        NextSeq(Lines(LogOf[w]), writer[w].start.seq),
                        NextPrev(Lines(LogOf[w]), writer[w].start.prev),
                        n, NoStamp)
      BY <2>1 DEF Reads
    <3>2. writer'[w].rec.kind = "envelope"
      BY <3>1 DEF MakeEnvelope
    <3> QED
      BY <2>1, <3>2 DEF Reads, RecordedPC
  <2>2. CASE Writes(w)
    BY <2>2, WriteFound DEF Writes, RecordedPC
  <2>3. CASE Finds(w)
    BY <1>1, <2>3, FindsRecord DEF Finds, RecordedPC
  <2>4. CASE Records(w)
    BY <1>1, <2>4 DEF KeepInv, RecordInv, Records, RecordedPC
  <2>5. CASE Leaves(w) \/ Starts(w) \/ Opens(w) \/ Locks(w) \/ Returns(w) \/ Dies(w)
    BY <2>5 DEF Leaves, Starts, Opens, Locks, Returns, Dies, RecordedPC
  <2> QED
    BY <2>1, <2>2, <2>3, <2>4, <2>5 DEF Described, Effect
<1> QED
  BY <1>2, <1>3 DEF RecordInv

LEMMA KeepStep ==
  ASSUME TypeOK, NoRotation, KeepInv, [Next]_vars
  PROVE  KeepInv'
<1>1. CASE UNCHANGED vars
  BY <1>1 DEF vars, KeepInv, LogsInv, NeverRotates, OpenInv, RecordInv, AckedInv,
     Envelopes, Broken, Readable, Lines, Exists
<1>2. ASSUME NEW w \in Writers, Described(w) PROVE KeepInv'
  <2>1. LogsInv' /\ Envelopes \subseteq Envelopes'
    BY <1>2, EffectGrows, GrowsKeeps DEF KeepInv, Described
  <2>2. NeverRotates'
    <3>1. ASSUME NEW v \in Writers \ {w} PROVE writer'[v].pc \notin RotatePC
      BY <1>2 DEF KeepInv, NeverRotates, Described, Others
    <3>2. writer'[w].pc \notin RotatePC
      BY <1>2 DEF Described, Effect, RotatePC, Leaves, Starts, Opens, Locks, Reads,
         Writes, Finds, Records, RecordedPC, Returns, Dies
    <3> QED
      BY <3>1, <3>2 DEF NeverRotates
  <2>3. OpenInv' /\ RecordInv'
    BY <1>2, KeepOpen, KeepRecord
  <2>4. AckedInv'
    <3>1. acked' = acked \/ Returns(w)
      BY <1>2 DEF Described, Effect, Leaves, Starts, Opens, Locks, Reads, Writes,
         Finds, Records, Dies
    <3>2. acked' \subseteq Envelopes
      BY <3>1 DEF KeepInv, AckedInv, RecordInv, Returns, RecordedPC
    <3> QED
      BY <2>1, <3>2 DEF AckedInv
  <2> QED
    BY <2>1, <2>2, <2>3, <2>4 DEF KeepInv
<1> QED
  BY <1>1, <1>2, StepEffect DEF KeepInv

LEMMA KeepImplies == KeepInv => AckedDurable
<1> SUFFICES ASSUME KeepInv, NEW rec \in acked
             PROVE  \E name \in DOMAIN files : Holds(name, rec)
  BY DEF AckedDurable
<1>1. PICK log \in Logs : rec \in Elements(Lines(log)) /\ rec.kind = "envelope"
  BY DEF KeepInv, AckedInv, Envelopes
<1>2. IsLog(Lines(log))
  BY DEF KeepInv, LogsInv
<1>3. PICK i \in 1..Len(Lines(log)) : Lines(log)[i] = rec
  BY <1>1, <1>2, LogFacts DEF Elements
<1>4. log \in DOMAIN files /\ Lines(log) = files[log]
  <2>1. Len(<<>>) = 0
    BY EmptyIsLog, LogFacts
  <2> QED
    BY <1>3, <2>1 DEF Lines, Exists
<1> QED
  BY <1>1, <1>3, <1>4 DEF Holds, IsEnvelope

\* Without rotation a record that append() returned stays in a file of the
\* directory: whatever the number of writers and of logs, and whichever
\* writers crash, in or between their writes.
THEOREM AcknowledgedStays == NoRotation => (Spec => []AckedDurable)
<1> SUFFICES ASSUME NoRotation PROVE Spec => []AckedDurable
  OBVIOUS
<1>1. Init => TypeOK /\ KeepInv
  BY TypeInit, KeepInit
<1>2. TypeOK /\ KeepInv /\ [Next]_vars => (TypeOK /\ KeepInv)'
  BY TypeStep, KeepStep
<1>3. TypeOK /\ KeepInv => AckedDurable
  BY KeepImplies
<1> QED
  BY <1>1, <1>2, <1>3, PTL DEF Spec

-----------------------------------------------------------------------------
(* One log: the lock makes the read of the tail and the write one step, so *)
(* the lines form a chain.                                                 *)

SingleLog == \E log : Logs = {log}

ChainedInv == \A log \in Logs : Chained(Lines(log))

LockInv == \A v, w \in Writers : HoldsLock(v) /\ HoldsLock(w) => v = w

TailInv == \A w \in Writers :
    writer[w].pc = "write_record" => Follows(Lines(LogOf[w]), writer[w].rec)

\* While the log is empty nothing is recorded of it, and the start found
\* before the lock is still that of a chain.
EmptyInv == \A log \in Logs : Lines(log) = <<>> =>
    /\ manifest = Absent /\ tmp = Absent
    /\ \A w \in Writers :
          /\ writer[w].pc \notin RecordedPC
          /\ writer[w].pc \in {"open_log", "lock_log", "read_tail"}
                => writer[w].start = Start(0, GenesisPrev)

ChainInv == ChainedInv /\ LockInv /\ TailInv /\ EmptyInv

LEMMA SingleLogOf ==
  ASSUME NEW log, Logs = {log}, NEW w \in Writers
  PROVE  LogOf[w] = log
BY LogOfAssumption

LEMMA ChainInit == Init => ChainInv
<1> SUFFICES ASSUME Init PROVE ChainInv
  OBVIOUS
<1>1. PICK touched \in SUBSET Logs : files = [log \in touched |-> <<>>]
  BY DEF Init
<1>2. \A log \in Logs : Lines(log) = <<>>
  BY <1>1 DEF Lines, Exists
<1>3. \A w \in Writers : writer[w].pc = "idle"
  BY DEF Init, IdleWriter
<1>4. Len(<<>>) = 0
  BY EmptyIsLog, LogFacts
<1>5. ChainedInv
  BY <1>2, <1>4 DEF ChainedInv, Chained
<1> QED
  BY <1>3, <1>5 DEF Init, ChainInv, LockInv, HoldsLock, TailInv, EmptyInv, RecordedPC

\* Only the holder of the lock changes the log.
LEMMA LogStep ==
  ASSUME KeepInv, NEW log, Logs = {log}, NEW w \in Writers, Described(w)
  PROVE  \/ Lines(log)' = Lines(log)
         \/ /\ writer[w].pc = "write_record"
            /\ \/ Writes(w) /\ Lines(log)' = Extend(Lines(log), writer[w].rec)
               \/ Dies(w) /\ \E line \in {TornLine, [writer[w].rec EXCEPT !.kind = "cut"]} :
                                Lines(log)' = Extend(Lines(log), line)
<1>0. LogOf[w] = log /\ OpenInv
  BY SingleLogOf DEF KeepInv
<1>1. CASE Writes(w)
  BY <1>0, <1>1, WrittenLines DEF Writes
<1>2. CASE Dies(w)
  <2>1. PICK line \in {TornLine, [writer[w].rec EXCEPT !.kind = "cut"]} :
           files' = Written(writer[w].fd, line)
    BY <1>2 DEF Dies
  <2> HIDE DEF Dies
  <2>2. writer[w].pc = "write_record"
    BY <1>2 DEF Dies
  <2>3. Lines(log)' = Extend(Lines(log), line)
    BY <1>0, <2>1, <2>2, WrittenLines
  <2> QED
    BY <1>2, <2>2, <2>3
<1>3. CASE Opens(w)
  BY <1>3 DEF Opens, Lines, Exists
<1>4. CASE UNCHANGED files
  BY <1>4 DEF Lines, Exists
<1> QED
  BY <1>1, <1>2, <1>3, <1>4
     DEF Described, Effect, Leaves, Starts, Locks, Reads, Finds, Records, Returns

LEMMA ChainedStep ==
  ASSUME KeepInv, ChainInv, NEW log, Logs = {log}, NEW w \in Writers, Described(w)
  PROVE  ChainedInv'
<1> DEFINE old == Lines(log)
           rec == writer[w].rec
<1>1. IsLog(old) /\ Chained(old)
  BY DEF KeepInv, LogsInv, ChainInv, ChainedInv
<1>2. CASE Lines(log)' = old
  BY <1>1, <1>2 DEF ChainedInv
<1>3. CASE Lines(log)' # old
  <2>1. writer[w].pc = "write_record"
    BY <1>3, LogStep
  <2>2. Follows(old, rec)
    BY <2>1, SingleLogOf DEF ChainInv, TailInv
  <2>3. PICK n : rec = MakeEnvelope(NoKey, NextSeq(old, 0),
                                    NextPrev(old, GenesisPrev), n, NoStamp)
    BY <2>2 DEF Follows
  <2>4. TailReadable(old)
    BY <2>2 DEF Follows
  <2>5. PICK line : /\ line \in {TornLine, rec, [rec EXCEPT !.kind = "cut"]}
                    /\ Lines(log)' = Extend(old, line)
    BY <1>3, LogStep
  <2> HIDE DEF old, rec
  <2>6. IsEnvelope(line) => /\ HashMatches(NoKey, line)
                            /\ line.seq = NextSeq(old, 0)
                            /\ line.prev_hash = NextPrev(old, GenesisPrev)
    <3>1. ~IsEnvelope(TornLine)
      BY DEF IsEnvelope, TornLine
    <3>2. CASE line = rec
      BY <2>3, <3>2 DEF MakeEnvelope, HashMatches, Digest
    <3>3. CASE line = [rec EXCEPT !.kind = "cut"]
      <4>1. PICK env : env = MakeEnvelope(NoKey, NextSeq(old, 0),
                                          NextPrev(old, GenesisPrev), n, NoStamp)
        OBVIOUS
      <4>2. line = [env EXCEPT !.kind = "cut"]
        BY <2>3, <3>3, <4>1
      <4> QED
        BY <4>1, <4>2 DEF MakeEnvelope, HashMatches, Digest
    <3> QED
      BY <2>5, <3>1, <3>2, <3>3
  <2>7. Chained(Extend(old, line))
    BY <1>1, <2>4, <2>6, ChainedExtend
  <2> QED
    BY <2>5, <2>7 DEF ChainedInv
<1> QED
  BY <1>2, <1>3

LEMMA LockStep ==
  ASSUME KeepInv, ChainInv, NEW log, Logs = {log}, NEW w \in Writers, Described(w)
  PROVE  LockInv'
<1>1. \A v \in Writers \ {w} : HoldsLock(v)' <=> HoldsLock(v)
  BY DEF Described, Others, HoldsLock
<1>2. HoldsLock(w)' => HoldsLock(w) \/ Locks(w)
  BY DEF Described, Effect, HoldsLock, Leaves, Starts, Opens, Reads, Writes, Finds,
     Records, RecordedPC, Returns, Dies
<1>3. Locks(w) => \A v \in Writers : ~HoldsLock(v)
  <2> SUFFICES ASSUME Locks(w), NEW v \in Writers, HoldsLock(v) PROVE FALSE
    OBVIOUS
  <2>1. writer[v].fd = log /\ writer[w].fd = log
    BY SingleLogOf DEF KeepInv, OpenInv, OpenPC, HoldsLock, Locks
  <2> QED
    BY <2>1 DEF Locks
<1> QED
  BY <1>1, <1>2, <1>3 DEF ChainInv, LockInv

LEMMA TailStep ==
  ASSUME KeepInv, ChainInv, NEW log, Logs = {log}, NEW w \in Writers, Described(w)
  PROVE  TailInv'
<1>1. ASSUME NEW v \in Writers \ {w}, writer'[v].pc = "write_record"
      PROVE  Follows(Lines(LogOf[v]), writer[v].rec)'
  <2>1. writer[v].pc = "write_record" /\ writer'[v].rec = writer[v].rec
    BY <1>1 DEF Described, Others
  <2>2. Follows(Lines(log), writer[v].rec)
    BY <2>1, SingleLogOf DEF ChainInv, TailInv
  <2>3. Lines(log)' = Lines(log)
    BY <2>1, LogStep DEF ChainInv, LockInv, HoldsLock
  <2> QED
    BY <2>1, <2>2, <2>3, SingleLogOf DEF Follows
<1>2. ASSUME writer'[w].pc = "write_record"
      PROVE  Follows(Lines(LogOf[w]), writer[w].rec)'
  <2>1. Reads(w)
    BY <1>2 DEF Described, Effect, Leaves, Starts, Opens, Locks, Writes, Finds,
       Records, RecordedPC, Returns, Dies
  <2>2. Lines(log)' = Lines(log) /\ LogOf[w] = log
    BY <2>1, SingleLogOf DEF Reads, Lines, Exists
  <2>3. PICK n : writer'[w].rec =
                   MakeEnvelope(NoKey, NextSeq(Lines(log), writer[w].start.seq),
                                NextPrev(Lines(log), writer[w].start.prev),
                                n, NoStamp)
    BY <2>1, <2>2 DEF Reads
  <2>4. /\ NextSeq(Lines(log), writer[w].start.seq) = NextSeq(Lines(log), 0)
        /\ NextPrev(Lines(log), writer[w].start.prev)
              = NextPrev(Lines(log), GenesisPrev)
    <3>1. Lines(log) = <<>> => writer[w].start = Start(0, GenesisPrev)
      BY <2>1 DEF ChainInv, EmptyInv, Reads
    <3> QED
      BY <3>1 DEF NextSeq, NextPrev, Start
  <2>5. TailReadable(Lines(log))
    BY <2>1, <2>2 DEF Reads
  <2> QED
    BY <2>2, <2>3, <2>4, <2>5 DEF Follows
<1> QED
  BY <1>1, <1>2 DEF TailInv

LEMMA EmptyStep ==
  ASSUME KeepInv, ChainInv, NEW log, Logs = {log}, NEW w \in Writers, Described(w)
  PROVE  EmptyInv'
<1> SUFFICES ASSUME Lines(log)' = <<>>
             PROVE  /\ manifest' = Absent /\ tmp' = Absent
                    /\ \A v \in Writers :
                          /\ writer'[v].pc \notin RecordedPC
                          /\ writer'[v].pc \in {"open_log", "lock_log", "read_tail"}
                                => writer'[v].start = Start(0, GenesisPrev)
  BY DEF EmptyInv
<1>1. Lines(log) = <<>> /\ Lines(log)' = Lines(log)
  <2>1. IsLog(Lines(log))
    BY DEF KeepInv, LogsInv
  <2>2. \A line : Extend(Lines(log), line) # <<>>
    BY <2>1, ExtendFacts
  <2> QED
    BY <2>2, LogStep
<1>2. /\ manifest = Absent /\ tmp = Absent
      /\ \A v \in Writers :
            /\ writer[v].pc \notin RecordedPC
            /\ writer[v].pc \in {"open_log", "lock_log", "read_tail"}
                  => writer[v].start = Start(0, GenesisPrev)
  BY <1>1 DEF ChainInv, EmptyInv
<1>3. manifest' = Absent /\ tmp' = Absent
  BY <1>2 DEF Described, ManifestEffect
<1>4. ASSUME NEW v \in Writers \ {w}
      PROVE  /\ writer'[v].pc \notin RecordedPC
             /\ writer'[v].pc \in {"open_log", "lock_log", "read_tail"}
                   => writer'[v].start = Start(0, GenesisPrev)
  BY <1>2 DEF Described, Others
<1>5. LogOf[w] = log
  BY SingleLogOf
<1>6. /\ writer'[w].pc \notin RecordedPC
      /\ writer'[w].pc \in {"open_log", "lock_log", "read_tail"}
            => writer'[w].start = Start(0, GenesisPrev)
  <2>1. CASE Starts(w)
    BY <1>1, <1>2, <1>5, <2>1 DEF Starts, RecordedPC
  <2>2. CASE Opens(w) \/ Locks(w)
    BY <1>2, <2>2 DEF Opens, Locks, RecordedPC
  <2>3. CASE Finds(w) \/ Records(w) \/ Returns(w)
    <3>1. Lines(LogOf[w]) = <<>> /\ writer[w].pc \notin RecordedPC
      BY <1>1, <1>2, <1>5
    <3> QED
      BY <2>3, <3>1 DEF Finds, Records, Returns, RecordedPC
  <2>4. CASE Leaves(w) \/ Reads(w) \/ Writes(w) \/ Dies(w)
    BY <2>4 DEF Leaves, Reads, Writes, Dies, RecordedPC
  <2> QED
    BY <2>1, <2>2, <2>3, <2>4 DEF Described, Effect
<1> QED
  BY <1>3, <1>4, <1>6

LEMMA ChainStep ==
  ASSUME TypeOK, NoRotation, SingleLog, KeepInv, ChainInv, [Next]_vars
  PROVE  ChainInv'
<1>1. PICK log : Logs = {log}
  BY DEF SingleLog
<1>2. CASE UNCHANGED vars
  BY <1>2 DEF vars, ChainInv, ChainedInv, LockInv, HoldsLock, TailInv, Follows,
     EmptyInv, Lines, Exists
<1>3. ASSUME NEW w \in Writers, Described(w)
      PROVE  ChainInv'
  BY <1>1, <1>3, ChainedStep, LockStep, TailStep, EmptyStep DEF ChainInv
<1> QED
  BY <1>2, <1>3, StepEffect DEF KeepInv

LEMMA ChainImplies ==
  ASSUME KeepInv, ChainedInv
  PROVE  DamageOnlyAtTail
<1> SUFFICES ASSUME NEW log \in Logs,
                    NEW i \in 1..(IF Len(Lines(log)) > 0
                                     /\ ~IsEnvelope(Lines(log)[Len(Lines(log))])
                                  THEN Len(Lines(log)) - 1
                                  ELSE Len(Lines(log)))
             PROVE  LineVerifies(NoKey, Lines(log), i, 0, GenesisPrev)
  BY DEF DamageOnlyAtTail
<1>1. IsLog(Lines(log)) /\ Chained(Lines(log))
  BY DEF KeepInv, LogsInv, ChainedInv
<1>2. Len(Lines(log)) \in Nat
  BY <1>1, LogFacts
<1>3. i \in 1..Len(Lines(log)) /\ (i < Len(Lines(log)) \/ IsEnvelope(Lines(log)[i]))
  BY <1>2
<1> QED
  BY <1>1, <1>3 DEF Chained, IsEnvelope

\* On a single log that is not rotated, damage never gets behind the last
\* line: the lines before it form a chain from the genesis record, however
\* many writers append to it and whichever of them crash.
THEOREM DamageStaysAtTail ==
  NoRotation /\ SingleLog => (Spec => []DamageOnlyAtTail)
<1> SUFFICES ASSUME NoRotation, SingleLog PROVE Spec => []DamageOnlyAtTail
  OBVIOUS
<1>1. Init => TypeOK /\ KeepInv /\ ChainInv
  BY TypeInit, KeepInit, ChainInit
<1>2. TypeOK /\ KeepInv /\ ChainInv /\ [Next]_vars => (TypeOK /\ KeepInv /\ ChainInv)'
  BY TypeStep, KeepStep, ChainStep
<1>3. TypeOK /\ KeepInv /\ ChainInv => DamageOnlyAtTail
  BY ChainImplies DEF ChainInv
<1> QED
  BY <1>1, <1>2, <1>3, PTL DEF Spec

-----------------------------------------------------------------------------
(* No crash: every line is complete, and verify_log accepts the log.       *)

Unbroken == crashes = 0 => \A log \in Logs : \A i \in 1..Len(Lines(log)) :
                              Lines(log)[i].kind = "envelope"

LEMMA UnbrokenInit == Init => Unbroken
<1> SUFFICES ASSUME Init PROVE Unbroken
  OBVIOUS
<1>1. PICK touched \in SUBSET Logs : files = [log \in touched |-> <<>>]
  BY DEF Init
<1>2. \A log \in Logs : Lines(log) = <<>>
  BY <1>1 DEF Lines, Exists
<1>3. Len(<<>>) = 0
  BY EmptyIsLog, LogFacts
<1> QED
  BY <1>2, <1>3 DEF Unbroken

LEMMA UnbrokenStep ==
  ASSUME TypeOK, NoRotation, SingleLog, KeepInv, ChainInv, Unbroken,
         [Next]_vars
  PROVE  Unbroken'
<1>1. PICK log : Logs = {log}
  BY DEF SingleLog
<1>2. CASE UNCHANGED vars
  BY <1>2 DEF vars, Unbroken, Lines, Exists
<1>3. ASSUME NEW w \in Writers, Described(w),
             crashes' = 0 => crashes = 0 /\ ~Dies(w)
      PROVE  Unbroken'
  <2> SUFFICES ASSUME crashes = 0, crashes' = 0, ~Dies(w)
               PROVE  Unbroken'
    BY <1>3 DEF Unbroken
  <2>1. CASE Lines(log)' = Lines(log)
    BY <1>1, <2>1 DEF Unbroken
  <2>2. CASE Lines(log)' # Lines(log)
    <3> DEFINE old == Lines(log)
               new == Lines(log)'
               rec == writer[w].rec
    <3>1. writer[w].pc = "write_record" /\ new = Extend(old, rec)
      BY <1>1, <1>3, <2>2, LogStep
    <3>2. IsLog(old) /\ rec.kind = "envelope"
      BY <1>1, <3>1 DEF KeepInv, LogsInv, RecordInv
    <3>3. Len(old) \in Nat /\ (old = <<>> <=> Len(old) = 0)
      BY <3>2, LogFacts
    <3>4. \A i \in 1..Len(old) : old[i].kind = "envelope"
      BY <1>1 DEF Unbroken
    <3> HIDE DEF old, new, rec
    <3>5. old = <<>> \/ old[Len(old)].kind = "envelope"
      BY <3>3, <3>4
    <3>6. new = Append(old, rec)
      BY <3>1, <3>2, <3>5, ExtendFacts
    <3>7. /\ Len(new) = Len(old) + 1
          /\ \A i \in 1..Len(old) : new[i] = old[i]
          /\ new[Len(old) + 1] = rec
      BY <3>2, <3>6, AppendLog
    <3>8. \A i \in 1..Len(new) : new[i].kind = "envelope"
      BY <3>2, <3>3, <3>4, <3>7
    <3> QED
      BY <1>1, <3>8 DEF Unbroken, new
  <2> QED
    BY <2>1, <2>2
<1> QED
  BY <1>2, <1>3, StepEffect DEF KeepInv

LEMMA UnbrokenVerifies ==
  ASSUME KeepInv, ChainedInv, Unbroken
  PROVE  ActiveLogVerifies
<1> SUFFICES ASSUME crashes = 0, NEW log \in Logs
             PROVE  VerifyLog(NoKey, Lines(log), NoHash, 0, GenesisPrev).ok
  BY DEF ActiveLogVerifies, AuditVerifies
<1>1. IsLog(Lines(log)) /\ Chained(Lines(log))
  BY DEF KeepInv, LogsInv, ChainedInv
<1>2. ChainVerifies(NoKey, Lines(log), 0, GenesisPrev)
  BY <1>1 DEF Unbroken, Chained, ChainVerifies, IsEnvelope
<1> QED
  BY <1>1, <1>2, VerifyLogOK

\* Any number of writers can share a log that is not rotated: as long as none
\* has crashed, `runeguard audit verify` accepts it at every moment.
THEOREM SharedLogVerifies ==
  NoRotation /\ SingleLog => (Spec => []ActiveLogVerifies)
<1> SUFFICES ASSUME NoRotation, SingleLog
             PROVE  Spec => []ActiveLogVerifies
  OBVIOUS
<1> DEFINE Inv == TypeOK /\ KeepInv /\ ChainInv /\ Unbroken
<1>1. Init => Inv
  BY TypeInit, KeepInit, ChainInit, UnbrokenInit
<1>2. Inv /\ [Next]_vars => Inv'
  BY TypeStep, KeepStep, ChainStep, UnbrokenStep
<1>3. Inv => ActiveLogVerifies
  BY UnbrokenVerifies DEF ChainInv
<1> QED
  BY <1>1, <1>2, <1>3, PTL DEF Spec

-----------------------------------------------------------------------------
(* The refinement of AuditTrail: the log and the trail.                    *)

\* The only log, which is the one the refinement mapping looks at.
TheLog == CHOOSE log \in Logs : TRUE

NoneClosed == DOMAIN files \subseteq Logs

\* What Whole makes of a log.
LEMMA WholeFacts ==
  ASSUME NEW log, IsLog(log)
  PROVE  /\ IsLog(Whole(log))
         /\ log = <<>> \/ log[Len(log)].kind = "envelope" => Whole(log) = log
         /\ log # <<>> /\ log[Len(log)].kind # "envelope"
              => /\ Len(Whole(log)) = Len(log) - 1
                 /\ \A i \in 1..(Len(log) - 1) : Whole(log)[i] = log[i]
<1>1. Len(log) \in Nat /\ (log = <<>> <=> Len(log) = 0)
  BY LogFacts
<1>2. CASE log = <<>> \/ log[Len(log)].kind = "envelope"
  BY <1>2 DEF Whole
<1>3. CASE ~(log = <<>> \/ log[Len(log)].kind = "envelope")
  <2> DEFINE S == Elements(log)
             n == Len(log) - 1
  <2>1. log \in Seq(S) /\ n \in 0..Len(log) /\ n \in Nat
    BY <1>1, <1>3 DEF IsLog
  <2>2. Whole(log) = SubSeq(log, 1, n)
    BY <1>3 DEF Whole, Front
  <2> HIDE DEF S
  <2>3. /\ SubSeq(log, 1, n) \in Seq(S)
        /\ Len(SubSeq(log, 1, n)) = n
        /\ \A i \in 1..n : SubSeq(log, 1, n)[i] = log[i]
    <3> HIDE DEF n
    <3>1. \A i \in 1..n : i \in 1..Len(log)
      BY <1>1, <2>1
    <3>2. \A i \in 1..n : log[i] \in S
      BY <2>1, <3>1, ElementOfSeq
    <3>3. (IF 1 <= n THEN n - 1 + 1 ELSE 0) = n
      BY <2>1
    <3>4. n - 1 + 1 = n /\ 1 \in Int /\ n \in Int /\ \A i \in 1..n : 1 + i - 1 = i
      BY <2>1
    <3> QED
      BY <3>2, <3>3, <3>4, SubSeqProperties
  <2> QED
    BY <1>3, <2>2, <2>3, SeqIsLog
<1> QED
  BY <1>2, <1>3

\* Without closed files the records are those of the one log.
LEMMA TrailIsLog == SingleLog /\ LogsInv /\ NoneClosed => Trail = Whole(Lines(TheLog))
<1> SUFFICES ASSUME SingleLog, LogsInv, NoneClosed
             PROVE  Trail = Whole(Lines(TheLog))
  OBVIOUS
<1> DEFINE log == Whole(Lines(TheLog))
           segments == [i \in 1..Cardinality(Closed) |-> Whole(files[ClosedInOrder[i]])]
<1>1. segments = <<>>
  <2>1. Cardinality(Closed) = 0
    BY FS_EmptySet DEF NoneClosed, Closed
  <2>2. 1..0 = {}
    OBVIOUS
  <2> HIDE DEF Closed
  <2> QED
    BY <2>1, <2>2
<1>2. FlattenSeq(segments) = <<>>
  <2>1. Len(<<>>) = 0
    OBVIOUS
  <2> HIDE DEF segments
  <2> QED
    BY <1>1, <2>1 DEF FlattenSeq
<1>3. TheLog \in Logs
  BY DEF SingleLog, TheLog
<1>4. IsLog(log)
  BY <1>3, WholeFacts DEF LogsInv
<1>5. <<>> \o log = log
  <2> DEFINE S == Elements(log)
  <2>1. log \in Seq(S)
    BY <1>4 DEF IsLog
  <2> HIDE DEF S, log
  <2> QED
    BY <2>1, ConcatEmptySeq
<1>6. Trail = FlattenSeq(segments) \o log
  BY DEF Trail, TheLog
<1> HIDE DEF segments, log
<1> QED
  BY <1>2, <1>5, <1>6 DEF log

LEMMA SameLog ==
  ASSUME NEW a, IsLog(a), NEW b, IsLog(b), Len(a) = Len(b),
         \A i \in 1..Len(a) : a[i] = b[i]
  PROVE  a = b
<1> DEFINE S == Elements(a) \union Elements(b)
<1>1. a \in Seq(S) /\ b \in Seq(S)
  <2>1. Elements(a) \subseteq S /\ Elements(b) \subseteq S
    OBVIOUS
  <2>2. a \in Seq(Elements(a)) /\ b \in Seq(Elements(b))
    BY DEF IsLog
  <2> HIDE DEF S
  <2> QED
    BY <2>1, <2>2, SeqMonotonic
<1> HIDE DEF S
<1> QED
  BY <1>1, SeqEqual

\* What writing a line does to the whole records.
LEMMA ExtendWhole ==
  ASSUME NEW log, IsLog(log), NEW line
  PROVE  IF (log = <<>> \/ log[Len(log)].kind = "envelope") /\ line.kind = "envelope"
         THEN Whole(log) = log /\ Whole(Extend(log, line)) = Append(log, line)
         ELSE Whole(Extend(log, line)) = Whole(log)
<1> DEFINE n == Len(log)
           new == Extend(log, line)
<1>1. n \in Nat /\ (log = <<>> <=> n = 0)
  BY LogFacts
<1>2. IsLog(new) /\ new # <<>>
  BY ExtendFacts
<1>3. CASE log = <<>> \/ log[n].kind = "envelope"
  <2>1. new = Append(log, line) /\ Whole(log) = log
    BY <1>3, WholeFacts DEF Extend
  <2>2. /\ Len(new) = n + 1
        /\ \A i \in 1..n : new[i] = log[i]
        /\ new[n + 1] = line
    BY <2>1, AppendLog
  <2> HIDE DEF new
  <2>3. CASE line.kind = "envelope"
    <3>1. new[Len(new)].kind = "envelope"
      BY <2>2, <2>3
    <3>2. Whole(new) = new
      BY <1>2, <3>1, WholeFacts
    <3> QED
      BY <1>3, <2>1, <2>3, <3>2 DEF new
  <2>4. CASE line.kind # "envelope"
    <3>1. /\ IsLog(Whole(new))
          /\ Len(Whole(new)) = n
          /\ \A i \in 1..n : Whole(new)[i] = log[i]
      <4>1. new[Len(new)].kind # "envelope" /\ Len(new) - 1 = n
        BY <1>1, <2>2, <2>4
      <4> QED
        BY <1>2, <2>2, <4>1, WholeFacts
    <3>2. Whole(new) = log
      BY <3>1, SameLog
    <3> QED
      BY <2>1, <2>4, <3>2 DEF new
  <2> QED
    BY <2>3, <2>4
<1>4. CASE ~(log = <<>> \/ log[n].kind = "envelope")
  <2>1. /\ Len(new) = n
        /\ new[n] = TornLine
        /\ \A i \in 1..(n - 1) : new[i] = log[i]
    BY <1>4, ReplaceLast DEF Extend
  <2>2. TornLine.kind # "envelope"
    BY DEF TornLine
  <2> HIDE DEF new
  <2>3. /\ IsLog(Whole(new)) /\ IsLog(Whole(log))
        /\ Len(Whole(new)) = n - 1 /\ Len(Whole(log)) = n - 1
        /\ \A i \in 1..(n - 1) : Whole(new)[i] = log[i] /\ Whole(log)[i] = log[i]
    BY <1>2, <1>4, <2>1, <2>2, WholeFacts
  <2>4. Whole(new) = Whole(log)
    BY <2>3, SameLog
  <2> QED
    BY <1>4, <2>4 DEF new
<1> QED
  BY <1>3, <1>4

-----------------------------------------------------------------------------
(* A call of append() from its number to the record returned.              *)

BeforePC == {"rotate_if_needed", "chain_start", "open_log", "lock_log",
             "read_tail", "write_record"}
AfterPC == {"record_read"} \union RecordedPC

OpenSegment(seg) == "status" \in DOMAIN seg /\ seg.status = "open"

OtherCalls(w) == \A v \in Writers \ {w} :
    /\ writer'[v].pc = writer[v].pc
    /\ writer'[v].call = writer[v].call
    /\ writer'[v].rec = writer[v].rec
    /\ writer'[v].seg = writer[v].seg

Begins(w) == /\ writer[w].pc = "idle" /\ writer'[w].pc = "rotate_if_needed"
             /\ writer'[w].call = appends + 1 /\ appends' = appends + 1
             /\ UNCHANGED <<files, acked>>

Stops(w) == writer'[w].pc = "idle" /\ UNCHANGED <<appends, acked>>

Prepares(w) == /\ writer[w].pc \in BeforePC /\ writer'[w].pc \in BeforePC
               /\ writer'[w].call = writer[w].call
               /\ writer'[w].pc = "write_record"
                     => writer'[w].rec.payload = writer[w].call
               /\ UNCHANGED <<appends, acked>>

Stores(w) == /\ writer[w].pc = "write_record" /\ writer'[w].pc = "record_read"
             /\ writer'[w].call = writer[w].call
             /\ writer'[w].rec = writer[w].rec
             /\ files' = Written(writer[w].fd, writer[w].rec)
             /\ UNCHANGED <<appends, acked>>

Notes(w) == /\ writer[w].pc \in AfterPC /\ writer'[w].pc \in RecordedPC
            /\ writer'[w].call = writer[w].call
            /\ writer'[w].rec = writer[w].rec
            /\ OpenSegment(writer'[w].seg)
            /\ UNCHANGED <<files, appends, acked>>

Gives(w) == /\ writer[w].pc = "manifest_replace" /\ writer'[w].pc = "idle"
            /\ acked' = acked \union {writer[w].rec}
            /\ UNCHANGED <<files, appends>>

Proceeds(w) == \/ Begins(w) \/ Stops(w) \/ Prepares(w)
               \/ Stores(w) \/ Notes(w) \/ Gives(w)

RecordsOpen == \A w \in Writers : writer[w].pc \in RecordedPC => OpenSegment(writer[w].seg)

LEMMA OneCall ==
  ASSUME TypeOK, NEW w \in Writers, NEW s, writer' = [writer EXCEPT ![w] = s]
  PROVE  writer'[w] = s /\ OtherCalls(w)
<1>1. writer = [v \in Writers |-> writer[v]]
  BY DEF TypeOK
<1>2. writer'[w] = s /\ \A v \in Writers \ {w} : writer'[v] = writer[v]
  BY <1>1
<1> QED
  BY <1>2 DEF OtherCalls

LEMMA FinishStops ==
  ASSUME TypeOK, NEW w \in Writers, Finish(w), UNCHANGED <<appends, acked>>
  PROVE  OtherCalls(w) /\ Stops(w)
<1>1. writer'[w] = IdleWriter /\ OtherCalls(w)
  BY OneCall DEF Finish
<1> QED
  BY <1>1 DEF Stops, IdleWriter

LEMMA GotoCall ==
  ASSUME TypeOK, NEW w \in Writers, NEW pc, Goto(w, pc)
  PROVE  /\ OtherCalls(w) /\ writer'[w].pc = pc
         /\ writer'[w].call = writer[w].call /\ writer'[w].rec = writer[w].rec
         /\ writer'[w].seg = writer[w].seg
<1>0. WriterTyped(writer[w])
  BY WriterFacts
<1>1. PICK s : s = [writer[w] EXCEPT !.pc = pc]
  OBVIOUS
<1>2. s.pc = pc /\ s.call = writer[w].call /\ s.rec = writer[w].rec
      /\ s.seg = writer[w].seg
  BY <1>0, <1>1 DEF WriterTyped
<1>3. writer' = [writer EXCEPT ![w] = s]
  BY <1>1 DEF Goto
<1> QED
  BY <1>2, <1>3, OneCall

LEMMA CallBegins ==
  ASSUME TypeOK, NEW w \in Writers, CallAppend(w)
  PROVE  OtherCalls(w) /\ Begins(w)
<1>0. WriterTyped(writer[w])
  BY WriterFacts
<1>1. PICK s : s = [writer[w] EXCEPT !.pc = "rotate_if_needed",
                                     !.call = appends + 1]
  OBVIOUS
<1>2. s.pc = "rotate_if_needed" /\ s.call = appends + 1
  BY <1>0, <1>1 DEF WriterTyped
<1>3. writer' = [writer EXCEPT ![w] = s]
  BY <1>1 DEF CallAppend
<1> QED
  BY <1>2, <1>3, OneCall DEF CallAppend, Begins, At, directory

LEMMA ChainStartPrepares ==
  ASSUME TypeOK, NEW w \in Writers, ChainStart(w)
  PROVE  OtherCalls(w) /\ (Stops(w) \/ Prepares(w))
<1>0. WriterTyped(writer[w]) /\ writer[w].pc = "chain_start"
      /\ UNCHANGED <<appends, acked>>
  BY WriterFacts DEF ChainStart, At, counters
<1>1. CASE Finish(w)
  BY <1>0, <1>1, FinishStops
<1>2. CASE ~Finish(w)
  <2>1. PICK start : writer' = [writer EXCEPT ![w].pc = "open_log", ![w].start = start]
    BY <1>2 DEF ChainStart
  <2>2. PICK s : s = [writer[w] EXCEPT !.pc = "open_log", !.start = start]
    OBVIOUS
  <2>3. s.pc = "open_log" /\ s.call = writer[w].call
    BY <1>0, <2>2 DEF WriterTyped
  <2>4. writer' = [writer EXCEPT ![w] = s]
    BY <2>1, <2>2
  <2> QED
    BY <1>0, <2>3, <2>4, OneCall DEF Prepares, BeforePC
<1> QED
  BY <1>1, <1>2

LEMMA OpenLogPrepares ==
  ASSUME TypeOK, NEW w \in Writers, OpenLog(w)
  PROVE  OtherCalls(w) /\ Prepares(w)
<1>0. WriterTyped(writer[w])
  BY WriterFacts
<1>1. PICK s : s = [writer[w] EXCEPT !.pc = "lock_log", !.fd = LogOf[w]]
  OBVIOUS
<1>2. s.pc = "lock_log" /\ s.call = writer[w].call
  BY <1>0, <1>1 DEF WriterTyped
<1>3. writer' = [writer EXCEPT ![w] = s]
  BY <1>1 DEF OpenLog
<1> QED
  BY <1>2, <1>3, OneCall DEF OpenLog, Prepares, BeforePC, At, counters

LEMMA ReadTailPrepares ==
  ASSUME TypeOK, NEW w \in Writers, ReadTail(w)
  PROVE  OtherCalls(w) /\ (Stops(w) \/ Prepares(w))
<1>0. WriterTyped(writer[w]) /\ writer[w].pc = "read_tail"
      /\ UNCHANGED <<appends, acked>>
  BY WriterFacts DEF ReadTail, At, counters
<1>1. CASE Finish(w)
  BY <1>0, <1>1, FinishStops
<1>2. CASE ~Finish(w)
  <2>1. PICK rec : /\ writer' = [writer EXCEPT ![w].pc = "write_record", ![w].rec = rec]
                   /\ rec.payload = writer[w].call
    <3>1. \A seq, prev :
             MakeEnvelope(NoKey, seq, prev, writer[w].call, NoStamp).payload = writer[w].call
      BY DEF MakeEnvelope
    <3> QED
      BY <1>2, <3>1 DEF ReadTail
  <2>2. PICK s : s = [writer[w] EXCEPT !.pc = "write_record", !.rec = rec]
    OBVIOUS
  <2>3. s.pc = "write_record" /\ s.call = writer[w].call /\ s.rec = rec
    BY <1>0, <2>2 DEF WriterTyped
  <2>4. writer' = [writer EXCEPT ![w] = s]
    BY <2>1, <2>2
  <2> QED
    BY <1>0, <2>1, <2>3, <2>4, OneCall DEF Prepares, BeforePC
<1> QED
  BY <1>1, <1>2

LEMMA WriteStores ==
  ASSUME TypeOK, NEW w \in Writers, WriteRecord(w)
  PROVE  OtherCalls(w) /\ Stores(w)
<1>0. WriterTyped(writer[w])
  BY WriterFacts
<1>1. PICK s : s = [writer[w] EXCEPT !.pc = "record_read", !.fd = NoFile]
  OBVIOUS
<1>2. s.pc = "record_read" /\ s.call = writer[w].call /\ s.rec = writer[w].rec
  BY <1>0, <1>1 DEF WriterTyped
<1>3. writer' = [writer EXCEPT ![w] = s]
  BY <1>1 DEF WriteRecord
<1> QED
  BY <1>2, <1>3, OneCall DEF WriteRecord, Stores, At, counters

LEMMA ReadNotes ==
  ASSUME TypeOK, NEW w \in Writers, RecordRead(w)
  PROVE  OtherCalls(w) /\ (Stops(w) \/ Notes(w))
<1>0. WriterTyped(writer[w]) /\ writer[w].pc = "record_read"
      /\ UNCHANGED <<files, appends, acked>>
  BY WriterFacts DEF RecordRead, At, counters, directory
<1>1. CASE Finish(w)
  BY <1>0, <1>1, FinishStops
<1>2. CASE ~Finish(w)
  <2>1. PICK seg : /\ writer' = [writer EXCEPT ![w].pc = "record_hash", ![w].seg = seg]
                   /\ OpenSegment(seg)
    <3>1. \A path, log : OpenSegment(SegmentOf(path, log, "open"))
      BY DEF SegmentOf, OpenSegment
    <3> QED
      BY <1>2, <3>1 DEF RecordRead
  <2>2. PICK s : s = [writer[w] EXCEPT !.pc = "record_hash", !.seg = seg]
    OBVIOUS
  <2>3. s.pc = "record_hash" /\ s.call = writer[w].call /\ s.rec = writer[w].rec
        /\ s.seg = seg
    BY <1>0, <2>2 DEF WriterTyped
  <2>4. writer' = [writer EXCEPT ![w] = s]
    BY <2>1, <2>2
  <2> QED
    BY <1>0, <2>1, <2>3, <2>4, OneCall DEF Notes, AfterPC, RecordedPC
<1> QED
  BY <1>1, <1>2

LEMMA HashNotes ==
  ASSUME TypeOK, RecordsOpen, NEW w \in Writers, RecordHash(w)
  PROVE  OtherCalls(w) /\ (Stops(w) \/ Notes(w))
<1>0. /\ WriterTyped(writer[w]) /\ writer[w].pc = "record_hash"
      /\ OpenSegment(writer[w].seg)
      /\ UNCHANGED <<files, appends, acked>>
  BY WriterFacts DEF RecordHash, HashFile, At, counters, directory, RecordsOpen, RecordedPC
<1>1. CASE Finish(w)
  BY <1>0, <1>1, FinishStops
<1>2. CASE ~Finish(w)
  <2>1. PICK hash : writer' = [writer EXCEPT ![w].pc = "manifest_load",
                                             ![w].seg.file_sha256 = hash]
    BY <1>2 DEF RecordHash, HashFile
  <2>2. PICK seg : seg = [writer[w].seg EXCEPT !.file_sha256 = hash]
    OBVIOUS
  <2>3. OpenSegment(seg)
    BY <1>0, <2>2 DEF OpenSegment
  <2>4. PICK s : s = [writer[w] EXCEPT !.pc = "manifest_load", !.seg = seg]
    OBVIOUS
  <2>5. s.pc = "manifest_load" /\ s.call = writer[w].call /\ s.rec = writer[w].rec
        /\ s.seg = seg
    BY <1>0, <2>4 DEF WriterTyped
  <2>6. writer' = [writer EXCEPT ![w] = s]
    <3>1. [writer[w] EXCEPT !.pc = "manifest_load", !.seg.file_sha256 = hash] = s
      BY <1>0, <2>2, <2>4 DEF WriterTyped
    <3> QED
      BY <2>1, <3>1
  <2> QED
    BY <1>0, <2>3, <2>5, <2>6, OneCall DEF Notes, AfterPC, RecordedPC
<1> QED
  BY <1>1, <1>2

LEMMA LoadNotes ==
  ASSUME TypeOK, RecordsOpen, NEW w \in Writers, ManifestLoad(w)
  PROVE  OtherCalls(w) /\ (Stops(w) \/ Notes(w))
<1>0. /\ WriterTyped(writer[w]) /\ writer[w].pc = "manifest_load"
      /\ OpenSegment(writer[w].seg)
      /\ UNCHANGED <<files, appends, acked>>
  BY WriterFacts DEF ManifestLoad, At, counters, directory, RecordsOpen, RecordedPC
<1>1. CASE Finish(w)
  BY <1>0, <1>1, FinishStops
<1>2. CASE ~Finish(w)
  <2>1. PICK segs : writer' = [writer EXCEPT ![w].pc = "manifest_open", ![w].segs = segs]
    BY <1>2 DEF ManifestLoad
  <2>2. PICK s : s = [writer[w] EXCEPT !.pc = "manifest_open", !.segs = segs]
    OBVIOUS
  <2>3. s.pc = "manifest_open" /\ s.call = writer[w].call /\ s.rec = writer[w].rec
        /\ s.seg = writer[w].seg
    BY <1>0, <2>2 DEF WriterTyped
  <2>4. writer' = [writer EXCEPT ![w] = s]
    BY <2>1, <2>2
  <2> QED
    BY <1>0, <2>3, <2>4, OneCall DEF Notes, AfterPC, RecordedPC
<1> QED
  BY <1>1, <1>2

LEMMA ManifestOpenNotes ==
  ASSUME TypeOK, RecordsOpen, NEW w \in Writers, ManifestOpen(w)
  PROVE  OtherCalls(w) /\ Notes(w)
<1>0. /\ WriterTyped(writer[w]) /\ writer[w].pc = "manifest_open"
      /\ OpenSegment(writer[w].seg)
      /\ UNCHANGED <<files, appends, acked>>
  BY WriterFacts DEF ManifestOpen, At, counters, RecordsOpen, RecordedPC
<1>1. PICK s : s = [writer[w] EXCEPT !.pc = "manifest_write", !.mfd = TmpFd]
  OBVIOUS
<1>2. s.pc = "manifest_write" /\ s.call = writer[w].call /\ s.rec = writer[w].rec
      /\ s.seg = writer[w].seg
  BY <1>0, <1>1 DEF WriterTyped
<1>3. writer' = [writer EXCEPT ![w] = s]
  BY <1>1 DEF ManifestOpen
<1> QED
  BY <1>0, <1>2, <1>3, OneCall DEF Notes, AfterPC, RecordedPC

LEMMA ManifestWriteNotes ==
  ASSUME TypeOK, RecordsOpen, NEW w \in Writers, ManifestWrite(w)
  PROVE  OtherCalls(w) /\ Notes(w)
<1>0. /\ WriterTyped(writer[w]) /\ writer[w].pc = "manifest_write"
      /\ OpenSegment(writer[w].seg)
      /\ UNCHANGED <<files, appends, acked>>
  BY WriterFacts DEF ManifestWrite, At, counters, RecordsOpen, RecordedPC
<1>1. PICK s : s = [writer[w] EXCEPT !.pc = "manifest_replace", !.mfd = NoFile]
  OBVIOUS
<1>2. s.pc = "manifest_replace" /\ s.call = writer[w].call /\ s.rec = writer[w].rec
      /\ s.seg = writer[w].seg
  BY <1>0, <1>1 DEF WriterTyped
<1>3. writer' = [writer EXCEPT ![w] = s]
  BY <1>1 DEF ManifestWrite
<1> QED
  BY <1>0, <1>2, <1>3, OneCall DEF Notes, AfterPC, RecordedPC

LEMMA ManifestReplaceGives ==
  ASSUME TypeOK, RecordsOpen, NEW w \in Writers, ManifestReplace(w)
  PROVE  OtherCalls(w) /\ (Stops(w) \/ Gives(w))
<1> DEFINE moved(fd) == IF fd = ManifestFd THEN Unlinked
                        ELSE IF fd = TmpFd THEN ManifestFd ELSE fd
<1>0. /\ writer[w].pc = "manifest_replace" /\ writer[w].seg.status = "open"
      /\ UNCHANGED <<files, appends>>
  BY DEF ManifestReplace, At, counters, RecordsOpen, RecordedPC, OpenSegment
<1>1. CASE tmp = Absent
  BY <1>0, <1>1, FinishStops DEF ManifestReplace
<1>2. CASE tmp # Absent
  <2>1. /\ acked' = acked \union {writer[w].rec}
        /\ writer' = [v \in Writers |->
              IF v = w THEN IdleWriter ELSE [writer[v] EXCEPT !.mfd = moved(@)]]
    BY <1>0, <1>2 DEF ManifestReplace
  <2> HIDE DEF moved
  <2>2. writer'[w].pc = "idle"
    BY <2>1 DEF IdleWriter
  <2>3. ASSUME NEW v \in Writers \ {w}
        PROVE  /\ writer'[v].pc = writer[v].pc
               /\ writer'[v].call = writer[v].call
               /\ writer'[v].rec = writer[v].rec
               /\ writer'[v].seg = writer[v].seg
    <3>1. WriterTyped(writer[v])
      BY WriterFacts
    <3>2. PICK s : s = [writer[v] EXCEPT !.mfd = moved(writer[v].mfd)]
      OBVIOUS
    <3>3. writer'[v] = s
      BY <2>1, <3>2
    <3> QED
      BY <3>1, <3>2, <3>3 DEF WriterTyped
  <2> QED
    BY <1>0, <2>1, <2>2, <2>3 DEF OtherCalls, Gives
<1> QED
  BY <1>1, <1>2

LEMMA StepProceeds ==
  ASSUME TypeOK, NoRotation, NeverRotates, RecordsOpen, NEW w \in Writers,
         CallAppend(w) \/ CallRotate(w) \/ Step(w) \/ Crash(w)
  PROVE  OtherCalls(w) /\ Proceeds(w)
<1>1. ~ (CallRotate(w) \/ RotateRead(w) \/ RotateHash(w) \/ RotateCheck(w) \/ RotateReplace(w))
  BY BoundAssumption
     DEF NeverRotates, RotatePC, RotateRead, RotateHash, HashFile, RotateCheck,
         RotateReplace, At, NoRotation, CallRotate, TypeOK
<1>2. CASE RotateIfNeeded(w)
  <2>1. /\ writer[w].pc = "rotate_if_needed" /\ Goto(w, "chain_start")
        /\ UNCHANGED <<appends, acked>>
    BY <1>2 DEF NoRotation, RotateIfNeeded, At, counters
  <2> QED
    BY <2>1, GotoCall DEF Proceeds, Prepares, BeforePC
<1>3. CASE LockLog(w)
  <2>1. /\ writer[w].pc = "lock_log" /\ Goto(w, "read_tail")
        /\ UNCHANGED <<appends, acked>>
    BY <1>3 DEF LockLog, At, counters
  <2> QED
    BY <2>1, GotoCall DEF Proceeds, Prepares, BeforePC
<1>4. CASE CallAppend(w) \/ ChainStart(w) \/ OpenLog(w) \/ ReadTail(w) \/ WriteRecord(w)
  BY <1>4, CallBegins, ChainStartPrepares, OpenLogPrepares, ReadTailPrepares, WriteStores
     DEF Proceeds
<1>5. CASE RecordRead(w) \/ RecordHash(w) \/ ManifestLoad(w)
  BY <1>5, ReadNotes, HashNotes, LoadNotes DEF Proceeds
<1>6. CASE ManifestOpen(w) \/ ManifestWrite(w) \/ ManifestReplace(w)
  BY <1>6, ManifestOpenNotes, ManifestWriteNotes, ManifestReplaceGives DEF Proceeds
<1>7. CASE Crash(w)
  BY <1>7, FinishStops DEF Crash, Proceeds
<1> QED
  BY <1>1, <1>2, <1>3, <1>4, <1>5, <1>6, <1>7 DEF Step

-----------------------------------------------------------------------------
(* No two calls have the same number, and each writes one record.          *)

CallsInv ==
    /\ \A w \in Writers : writer[w].pc # "idle" => writer[w].call \in 1..appends
    /\ \A v, w \in Writers :
          writer[v].pc # "idle" /\ writer[w].pc # "idle" /\ writer[v].call = writer[w].call
             => v = w
    /\ \A w \in Writers : writer[w].pc \in {"write_record"} \union AfterPC
             => writer[w].rec.payload = writer[w].call

\* The records written are those of calls begun, and not of one still before
\* its write; those returned are not of a call that is running.
FreshInv ==
    /\ \A env \in Envelopes :
          /\ env.payload \in 1..appends
          /\ \A w \in Writers : writer[w].pc \in BeforePC => writer[w].call # env.payload
    /\ \A env \in acked : \A w \in Writers :
          writer[w].pc # "idle" => writer[w].call # env.payload

NumberInv == NoneClosed /\ RecordsOpen /\ CallsInv /\ FreshInv

LEMMA NumberInit == Init => NumberInv
<1> SUFFICES ASSUME Init PROVE NumberInv
  OBVIOUS
<1>1. PICK touched \in SUBSET Logs : files = [log \in touched |-> <<>>]
  BY DEF Init
<1>2. \A log \in Logs : Lines(log) = <<>>
  BY <1>1 DEF Lines, Exists
<1>3. \A w \in Writers : writer[w].pc = "idle"
  BY DEF Init, IdleWriter
<1>4. Elements(<<>>) = {}
  BY DEF Elements
<1>5. Envelopes = {} /\ acked = {}
  BY <1>2, <1>4 DEF Envelopes, Init
<1> QED
  BY <1>1, <1>3, <1>5
     DEF NumberInv, NoneClosed, RecordsOpen, RecordedPC, CallsInv, AfterPC, FreshInv, BeforePC

\* Only a write adds a record to the log.
LEMMA EnvelopesStep ==
  ASSUME KeepInv, ChainInv, NEW log, Logs = {log}, NEW w \in Writers, Described(w)
  PROVE  \/ Envelopes' \subseteq Envelopes
         \/ Writes(w) /\ Envelopes' \subseteq Envelopes \union {writer[w].rec}
<1> DEFINE old == Lines(log)
<1>1. /\ Envelopes = {env \in Elements(old) : env.kind = "envelope"}
      /\ Envelopes' = {env \in Elements(old') : env.kind = "envelope"}
  BY DEF Envelopes
<1>2. ASSUME NEW line
      PROVE  Elements(Extend(old, line)) \subseteq Elements(old) \union {line, TornLine}
  <2>1. IsLog(old)
    BY DEF KeepInv, LogsInv
  <2>2. IsLog(Extend(old, line))
    BY <2>1, ExtendFacts
  <2>3. DOMAIN old = 1..Len(old) /\ Len(old) \in Nat /\ (old = <<>> <=> Len(old) = 0)
        /\ DOMAIN Extend(old, line) = 1..Len(Extend(old, line))
    BY <2>1, <2>2, LogFacts
  <2> HIDE DEF old
  <2>4. CASE old = <<>> \/ old[Len(old)].kind = "envelope"
    <3>1. Extend(old, line) = Append(old, line)
      BY <2>4 DEF Extend
    <3>2. /\ Len(Append(old, line)) = Len(old) + 1
          /\ \A i \in 1..Len(old) : Append(old, line)[i] = old[i]
          /\ Append(old, line)[Len(old) + 1] = line
      BY <2>1, AppendLog
    <3>3. \A i \in 1..(Len(old) + 1) : i \in 1..Len(old) \/ i = Len(old) + 1
      BY <2>3
    <3> QED
      BY <2>3, <3>1, <3>2, <3>3 DEF Elements
  <2>5. CASE ~(old = <<>> \/ old[Len(old)].kind = "envelope")
    <3>1. Extend(old, line) = [old EXCEPT ![Len(old)] = TornLine]
      BY <2>5 DEF Extend
    <3> QED
      BY <2>3, <3>1 DEF Elements
  <2> QED
    BY <2>4, <2>5
<1> HIDE DEF old
<1>3. CASE old' = old
  BY <1>1, <1>3
<1>4. CASE Writes(w) /\ old' = Extend(old, writer[w].rec)
  BY <1>1, <1>2, <1>4 DEF TornLine
<1>5. CASE writer[w].pc = "write_record" /\ Dies(w)
           /\ \E line \in {TornLine, [writer[w].rec EXCEPT !.kind = "cut"]} :
                 old' = Extend(old, line)
  <2>1. PICK line \in {TornLine, [writer[w].rec EXCEPT !.kind = "cut"]} :
           old' = Extend(old, line)
    BY <1>5
  <2>2. line.kind # "envelope"
    <3>1. PICK n : writer[w].rec = MakeEnvelope(NoKey, NextSeq(old, 0),
                                                NextPrev(old, GenesisPrev), n, NoStamp)
      BY <1>5, SingleLogOf DEF ChainInv, TailInv, Follows, old
    <3>2. PICK env : env = MakeEnvelope(NoKey, NextSeq(old, 0),
                                        NextPrev(old, GenesisPrev), n, NoStamp)
      OBVIOUS
    <3>3. line \in {TornLine, [env EXCEPT !.kind = "cut"]}
      BY <2>1, <3>1, <3>2
    <3> QED
      BY <3>2, <3>3 DEF TornLine, MakeEnvelope
  <2> QED
    BY <1>1, <1>2, <2>1, <2>2 DEF TornLine
<1>6. \/ old' = old
      \/ Writes(w) /\ old' = Extend(old, writer[w].rec)
      \/ writer[w].pc = "write_record" /\ Dies(w)
           /\ \E line \in {TornLine, [writer[w].rec EXCEPT !.kind = "cut"]} :
                 old' = Extend(old, line)
  BY LogStep DEF old
<1> QED
  BY <1>3, <1>4, <1>5, <1>6

LEMMA NoneClosedStep ==
  ASSUME KeepInv, NoneClosed, NEW w \in Writers, Described(w)
  PROVE  NoneClosed'
<1>1. DOMAIN files' \subseteq DOMAIN files \union {LogOf[w]}
  <2>1. CASE Writes(w) \/ Dies(w)
    <3>1. \E line : files' = Written(writer[w].fd, line)
      BY <2>1 DEF Writes, Dies
    <3> QED
      BY <3>1 DEF Written
  <2>2. CASE Opens(w)
    BY <2>2 DEF Opens
  <2>3. CASE UNCHANGED files
    BY <2>3
  <2> QED
    BY <2>1, <2>2, <2>3
       DEF Described, Effect, Leaves, Starts, Locks, Reads, Finds, Records, Returns
<1> QED
  BY <1>1, LogOfAssumption DEF NoneClosed

LEMMA RecordsOpenStep ==
  ASSUME RecordsOpen, NEW w \in Writers, OtherCalls(w), Proceeds(w)
  PROVE  RecordsOpen'
<1> SUFFICES ASSUME NEW v \in Writers, writer'[v].pc \in RecordedPC
             PROVE  OpenSegment(writer'[v].seg)
  BY DEF RecordsOpen
<1>1. CASE v # w
  BY <1>1 DEF RecordsOpen, OtherCalls
<1>2. CASE v = w
  BY <1>2 DEF Proceeds, Begins, Stops, Prepares, Stores, Notes, Gives, BeforePC, RecordedPC
<1> QED
  BY <1>1, <1>2

LEMMA CallsStep ==
  ASSUME TypeOK, CallsInv, NEW w \in Writers, OtherCalls(w), Proceeds(w)
  PROVE  CallsInv'
<1>1. /\ \A v \in Writers \ {w} : /\ writer'[v].pc = writer[v].pc
                                  /\ writer'[v].call = writer[v].call
                                  /\ writer'[v].rec = writer[v].rec
      /\ appends \in Nat /\ appends' \in {appends, appends + 1}
  BY BoundAssumption
     DEF TypeOK, OtherCalls, Proceeds, Begins, Stops, Prepares, Stores, Notes, Gives
<1>2. \/ writer'[w].pc = "idle"
      \/ writer'[w].call = appends + 1 /\ appends' = appends + 1
         /\ writer'[w].pc \notin {"write_record"} \union AfterPC
      \/ /\ writer'[w].call = writer[w].call /\ writer[w].pc # "idle"
         /\ writer'[w].pc \in {"write_record"} \union AfterPC
              => writer'[w].rec.payload = writer[w].call
  BY DEF CallsInv, Proceeds, Begins, Stops, Prepares, Stores, Notes, Gives, BeforePC,
         AfterPC, RecordedPC
<1>3. \A v \in Writers : writer'[v].pc # "idle" => writer'[v].call \in 1..appends'
  BY <1>1, <1>2 DEF CallsInv
<1>4. \A v \in Writers \ {w} : writer'[v].pc # "idle" /\ writer'[w].pc # "idle"
         => writer'[v].call # writer'[w].call
  BY <1>1, <1>2 DEF CallsInv
<1>5. \A u, v \in Writers :
         writer'[u].pc # "idle" /\ writer'[v].pc # "idle" /\ writer'[u].call = writer'[v].call
            => u = v
  BY <1>1, <1>4 DEF CallsInv
<1>6. \A v \in Writers : writer'[v].pc \in {"write_record"} \union AfterPC
         => writer'[v].rec.payload = writer'[v].call
  BY <1>1, <1>2 DEF CallsInv, AfterPC, RecordedPC
<1> QED
  BY <1>3, <1>5, <1>6 DEF CallsInv

LEMMA FreshStep ==
  ASSUME TypeOK, KeepInv, ChainInv, CallsInv, FreshInv, NEW log, Logs = {log},
         NEW w \in Writers, Described(w), OtherCalls(w), Proceeds(w)
  PROVE  FreshInv'
<1>0. /\ \A v \in Writers \ {w} : /\ writer'[v].pc = writer[v].pc
                                  /\ writer'[v].call = writer[v].call
      /\ appends \in Nat /\ appends' \in {appends, appends + 1}
  BY BoundAssumption
     DEF TypeOK, OtherCalls, Proceeds, Begins, Stops, Prepares, Stores, Notes, Gives
<1>1. ASSUME NEW env \in Envelopes'
      PROVE  /\ env.payload \in 1..appends'
             /\ \A v \in Writers : writer'[v].pc \in BeforePC => writer'[v].call # env.payload
  <2>1. CASE env \in Envelopes
    <3>1. \/ writer'[w].pc \notin BeforePC
          \/ writer'[w].call = appends + 1
          \/ writer'[w].call = writer[w].call /\ writer[w].pc \in BeforePC
      BY DEF Proceeds, Begins, Stops, Prepares, Stores, Notes, Gives, BeforePC,
             AfterPC, RecordedPC
    <3>2. env.payload \in 1..appends
          /\ \A v \in Writers : writer[v].pc \in BeforePC => writer[v].call # env.payload
      BY <2>1 DEF FreshInv
    <3> QED
      BY <1>0, <3>1, <3>2
  <2>2. CASE env = writer[w].rec /\ Writes(w)
    <3>1. writer[w].pc = "write_record" /\ writer'[w].pc = "record_read"
      BY <2>2 DEF Writes
    <3>2. env.payload = writer[w].call /\ writer[w].call \in 1..appends
      BY <2>2, <3>1 DEF CallsInv
    <3>3. \A v \in Writers \ {w} : writer[v].pc # "idle" => writer[v].call # writer[w].call
      BY <3>1 DEF CallsInv
    <3>4. "record_read" \notin BeforePC /\ "idle" \notin BeforePC
      BY DEF BeforePC
    <3> QED
      BY <1>0, <3>1, <3>2, <3>3, <3>4
  <2> QED
    BY <2>1, <2>2, EnvelopesStep
<1>2. ASSUME NEW env \in acked'
      PROVE  \A v \in Writers : writer'[v].pc # "idle" => writer'[v].call # env.payload
  <2>1. CASE env \in acked
    <3>1. \/ writer'[w].pc = "idle"
          \/ writer'[w].call = appends + 1
          \/ writer'[w].call = writer[w].call /\ writer[w].pc # "idle"
      BY DEF Proceeds, Begins, Stops, Prepares, Stores, Notes, Gives, BeforePC,
             AfterPC, RecordedPC
    <3>2. env.payload \in 1..appends
          /\ \A v \in Writers : writer[v].pc # "idle" => writer[v].call # env.payload
      BY <2>1 DEF FreshInv, KeepInv, AckedInv
    <3> QED
      BY <1>0, <3>1, <3>2
  <2>2. CASE env = writer[w].rec /\ Gives(w)
    <3>1. writer[w].pc = "manifest_replace" /\ writer'[w].pc = "idle"
      BY <2>2 DEF Gives
    <3>2. env.payload = writer[w].call
      BY <2>2, <3>1 DEF CallsInv, AfterPC, RecordedPC
    <3>3. \A v \in Writers \ {w} : writer[v].pc # "idle" => writer[v].call # writer[w].call
      BY <3>1 DEF CallsInv
    <3> QED
      BY <1>0, <3>1, <3>2, <3>3
  <2> QED
    BY <2>1, <2>2 DEF Proceeds, Begins, Stops, Prepares, Stores, Notes, Gives
<1> QED
  BY <1>1, <1>2 DEF FreshInv

LEMMA NumberStep ==
  ASSUME TypeOK, NoRotation, KeepInv, ChainInv, NumberInv, NEW log, Logs = {log},
         [Next]_vars
  PROVE  NumberInv'
<1>1. NeverRotates
  BY DEF KeepInv
<1>2. CASE UNCHANGED vars
  BY <1>2 DEF vars, NumberInv, NoneClosed, RecordsOpen, CallsInv, FreshInv, Envelopes,
              Lines, Exists
<1>3. CASE Next
  <2>1. PICK w \in Writers : CallAppend(w) \/ CallRotate(w) \/ Step(w) \/ Crash(w)
    BY <1>3 DEF Next
  <2>2. Described(w) /\ OtherCalls(w) /\ Proceeds(w)
    BY <1>1, <2>1, WriterEffect, StepProceeds DEF NumberInv
  <2> QED
    BY <2>2, NoneClosedStep, RecordsOpenStep, CallsStep, FreshStep DEF NumberInv
<1> QED
  BY <1>2, <1>3

-----------------------------------------------------------------------------
(* The refinement: a write appends to the trail, a return is one of it.    *)

\* The trail goes on where the chain of the log does.
LEMMA TrailGoesOn ==
  ASSUME NEW log, IsLog(log), Chained(log), TailReadable(log)
  PROVE  log = <<>> \/ log[Len(log)].kind = "envelope" => NextSeq(log, 0) = Len(log)
<1>1. Len(log) \in Nat /\ (log = <<>> <=> Len(log) = 0)
  BY LogFacts
<1>2. CASE log = <<>>
  BY <1>1, <1>2 DEF NextSeq
<1>3. CASE log # <<>>
  <2>1. Len(log) \in 1..Len(log)
    BY <1>1, <1>3
  <2>2. log[Len(log)].seq = 0 + Len(log) - 1
    BY <1>3, <2>1 DEF Chained, TailReadable, LineVerifies
  <2> QED
    BY <1>1, <1>3, <2>2 DEF NextSeq
<1> QED
  BY <1>2, <1>3

\* A call writes its record.
LEMMA WriteIsRecord ==
  ASSUME TypeOK, KeepInv, ChainInv, NumberInv, NEW log, Logs = {log}, TheLog = log,
         Trail = Whole(Lines(log)), Trail' = Whole(Lines(log)'),
         NEW w \in Writers, Writes(w), Lines(log)' = Extend(Lines(log), writer[w].rec)
  PROVE  Abstract!Record(writer[w].call) \/ UNCHANGED <<Trail, acked>>
<1> DEFINE old == Lines(log)
           rec == writer[w].rec
           call == writer[w].call
<1>1. IsLog(old) /\ Chained(old) /\ LogOf[w] = log /\ acked' = acked
  BY SingleLogOf DEF KeepInv, LogsInv, ChainInv, ChainedInv, Writes
<1>2. writer[w].pc = "write_record" /\ rec.kind = "envelope" /\ rec.payload = call
  BY DEF Writes, KeepInv, RecordInv, NumberInv, CallsInv
<1>3. TailReadable(old) /\ rec = MakeEnvelope(NoKey, NextSeq(old, 0),
                              NextPrev(old, GenesisPrev), call, NoStamp)
  <2>1. Follows(old, rec)
    BY <1>1, <1>2 DEF ChainInv, TailInv
  <2>2. PICK n : rec = MakeEnvelope(NoKey, NextSeq(old, 0),
                                    NextPrev(old, GenesisPrev), n, NoStamp)
    BY <2>1 DEF Follows
  <2>3. \A seq, prev : MakeEnvelope(NoKey, seq, prev, n, NoStamp).payload = n
    BY DEF MakeEnvelope
  <2>4. n = call
    BY <1>2, <2>2, <2>3
  <2> QED
    BY <2>1, <2>2, <2>4 DEF Follows
<1>4. \A i \in 1..Len(old) : old[i].kind = "envelope" => old[i] \in Envelopes
  <2>1. DOMAIN old = 1..Len(old)
    BY <1>1, LogFacts
  <2> QED
    BY <2>1 DEF Envelopes, Elements
<1> HIDE DEF old, rec
<1>5. CASE old = <<>> \/ old[Len(old)].kind = "envelope"
  <2>1. Trail = old /\ Trail' = Append(old, rec)
    BY <1>1, <1>2, <1>5, ExtendWhole DEF old, rec
  <2>2. NextSeq(old, 0) = Len(old)
    BY <1>1, <1>3, <1>5, TrailGoesOn
  <2>3. \A i \in 1..Len(old) : old[i].payload # call
    <3>1. \A i \in 1..Len(old) : old[i].kind = "envelope"
      <4>1. Len(old) \in Nat /\ (old = <<>> <=> Len(old) = 0)
        BY <1>1, LogFacts
      <4>2. \A i \in 1..Len(old) : i < Len(old) \/ (i = Len(old) /\ old # <<>>)
        BY <4>1
      <4> QED
        BY <1>1, <1>5, <4>2 DEF Chained
    <3> QED
      BY <1>2, <1>4, <3>1 DEF NumberInv, FreshInv, BeforePC
  <2>4. Trail' = Append(Trail, MakeEnvelope(NoKey, Len(Trail),
                                            NextPrev(Trail, GenesisPrev), call, NoStamp))
    BY <1>3, <2>1, <2>2
  <2>5. \A seq, prev, payload :
           Abstract!MakeEnvelope(Abstract!NoKey, seq, prev, payload, Abstract!NoStamp)
             = MakeEnvelope(NoKey, seq, prev, payload, NoStamp)
    BY DEF Abstract!MakeEnvelope, Abstract!NoKey, Abstract!NoStamp, Abstract!ModeOf,
           Abstract!Digest, MakeEnvelope, NoKey, NoStamp, ModeOf, Digest
  <2>6. \A lines : Abstract!NextPrev(lines, Abstract!GenesisPrev) = NextPrev(lines, GenesisPrev)
    BY DEF Abstract!NextPrev, Abstract!GenesisPrev, NextPrev, GenesisPrev
  <2>7. \A i \in 1..Len(Trail) : Trail[i].payload # call
    BY <2>1, <2>3
  <2> HIDE DEF call
  <2> QED
    BY <1>1, <2>4, <2>5, <2>6, <2>7 DEF Abstract!Record, call
<1>6. CASE ~(old = <<>> \/ old[Len(old)].kind = "envelope")
  BY <1>1, <1>6, ExtendWhole DEF old
<1> QED
  BY <1>5, <1>6

\* A call returns a record of the trail.
LEMMA GiveIsReturn ==
  ASSUME TypeOK, KeepInv, ChainInv, NumberInv, NEW log, Logs = {log}, TheLog = log,
         Trail = Whole(Lines(log)), Trail' = Trail,
         NEW w \in Writers, Gives(w)
  PROVE  Abstract!Return
<1> DEFINE old == Lines(log)
           rec == writer[w].rec
<1>1. writer[w].pc = "manifest_replace" /\ acked' = acked \union {rec}
  BY DEF Gives
<1>2. rec \in Envelopes /\ rec \notin acked
  BY <1>1 DEF KeepInv, RecordInv, RecordedPC, NumberInv, CallsInv, FreshInv, AfterPC
<1>3. PICK i \in 1..Len(old) : old[i] = rec
  <2>1. DOMAIN old = 1..Len(old)
    BY LogFacts DEF KeepInv, LogsInv
  <2> QED
    BY <1>2, <2>1 DEF Envelopes, Elements
<1>4. \E j \in 1..Len(Trail) : Trail[j] = rec
  <2>1. rec.kind = "envelope"
    BY <1>2 DEF Envelopes
  <2>2. IsLog(old)
    BY DEF KeepInv, LogsInv
  <2>3. Len(old) \in Nat
    BY <2>2, LogFacts
  <2> HIDE DEF old, rec
  <2>4. CASE old = <<>> \/ old[Len(old)].kind = "envelope"
    BY <1>3, <2>2, <2>4, WholeFacts DEF old
  <2>5. CASE ~(old = <<>> \/ old[Len(old)].kind = "envelope")
    <3>1. i # Len(old)
      BY <1>3, <2>1, <2>5
    <3>2. i \in 1..(Len(old) - 1)
      BY <2>3, <3>1
    <3>3. Len(Trail) = Len(old) - 1 /\ Trail[i] = old[i]
      BY <2>2, <2>5, <3>2, WholeFacts DEF old
    <3> QED
      BY <1>3, <3>2, <3>3
  <2> QED
    BY <2>4, <2>5
<1> QED
  BY <1>1, <1>2, <1>4 DEF Abstract!Return

LEMMA TrailStep ==
  ASSUME TypeOK, NoRotation, KeepInv, ChainInv, NumberInv,
         NEW log, Logs = {log}, TheLog = log,
         Trail = Whole(Lines(log)), Trail' = Whole(Lines(log)'), [Next]_vars
  PROVE  [Abstract!Next]_<<Trail, acked>>
<1>1. NeverRotates
  BY DEF KeepInv
<1>2. CASE UNCHANGED vars
  <2>1. Lines(log)' = Lines(log)
    BY <1>2 DEF vars, Lines, Exists
  <2> QED
    BY <1>2, <2>1 DEF vars
<1>3. CASE Next
  <2>1. PICK w \in Writers : CallAppend(w) \/ CallRotate(w) \/ Step(w) \/ Crash(w)
    BY <1>3 DEF Next
  <2>2. Described(w) /\ Proceeds(w)
    BY <1>1, <2>1, WriterEffect, StepProceeds DEF NumberInv
  <2>3. CASE Writes(w) /\ Lines(log)' = Extend(Lines(log), writer[w].rec)
    <3>1. Abstract!Record(writer[w].call) \/ UNCHANGED <<Trail, acked>>
      BY <2>3, WriteIsRecord
    <3>2. writer[w].call \in 1..MaxAppends
      <4>1. writer[w].call \in 1..appends
        BY <2>3 DEF Writes, NumberInv, CallsInv
      <4> QED
        BY <4>1, BoundAssumption DEF TypeOK
    <3> QED
      BY <3>1, <3>2 DEF Abstract!Next
  <2>4. CASE Lines(log)' = Lines(log)
    <3>1. Trail' = Trail
      BY <2>4
    <3>2. acked' = acked \/ Gives(w)
      BY <2>2 DEF Proceeds, Begins, Stops, Prepares, Stores, Notes
    <3> QED
      BY <3>1, <3>2, GiveIsReturn DEF Abstract!Next
  <2>5. CASE Dies(w) /\ \E line \in {TornLine, [writer[w].rec EXCEPT !.kind = "cut"]} :
                           Lines(log)' = Extend(Lines(log), line)
    <3>1. PICK line \in {TornLine, [writer[w].rec EXCEPT !.kind = "cut"]} :
             Lines(log)' = Extend(Lines(log), line)
      BY <2>5
    <3>2. line.kind # "envelope"
      <4>1. writer[w].pc = "write_record"
        BY <2>5 DEF Dies
      <4>2. PICK n : writer[w].rec = MakeEnvelope(NoKey, NextSeq(Lines(log), 0),
                                                  NextPrev(Lines(log), GenesisPrev), n, NoStamp)
        BY <4>1, SingleLogOf DEF ChainInv, TailInv, Follows
      <4>3. PICK env : env = MakeEnvelope(NoKey, NextSeq(Lines(log), 0),
                                          NextPrev(Lines(log), GenesisPrev), n, NoStamp)
        OBVIOUS
      <4>4. line \in {TornLine, [env EXCEPT !.kind = "cut"]}
        BY <3>1, <4>2, <4>3
      <4> QED
        BY <4>3, <4>4 DEF TornLine, MakeEnvelope
    <3>3. IsLog(Lines(log))
      BY DEF KeepInv, LogsInv
    <3>4. Trail' = Trail
      BY <3>1, <3>2, <3>3, ExtendWhole
    <3> QED
      BY <2>5, <3>4 DEF Dies
  <2> QED
    BY <2>2, <2>3, <2>4, <2>5, LogStep
<1> QED
  BY <1>2, <1>3

LEMMA TrailInit ==
  ASSUME Init, Trail = Whole(Lines(TheLog)), TheLog \in Logs
  PROVE  Abstract!Init
<1>1. PICK touched \in SUBSET Logs : files = [log \in touched |-> <<>>]
  BY DEF Init
<1>2. Lines(TheLog) = <<>>
  BY <1>1 DEF Lines, Exists
<1> QED
  BY <1>2 DEF Init, Abstract!Init, Whole

\* With one log that is never rotated, any number of writers on it and any
\* number of crashes implement the append-only trail: each call that writes
\* does so in one step behind the last record, each record is written once,
\* and what append() returns is in the trail (the flock and the tail read of
\* runeguard/integrity.py:196-232).
THEOREM SharedLogIsTrail ==
  ASSUME NoRotation, SingleLog
  PROVE  Spec => ImplementsTrail
<1>0. PICK log : Logs = {log} /\ TheLog = log
  BY DEF SingleLog, TheLog
<1> DEFINE Inv == TypeOK /\ KeepInv /\ ChainInv /\ NumberInv
<1>1. Inv => Trail = Whole(Lines(TheLog))
  BY TrailIsLog DEF KeepInv, NumberInv
<1>2. Init => Inv
  BY TypeInit, KeepInit, ChainInit, NumberInit
<1>3. Inv /\ [Next]_vars => Inv'
  BY <1>0, TypeStep, KeepStep, ChainStep, NumberStep
<1>4. Init => Abstract!Init
  BY <1>0, <1>1, <1>2, TrailInit
<1>5. Inv /\ Inv' /\ [Next]_vars => [Abstract!Next]_<<Trail, acked>>
  <2>1. Inv' => (Trail = Whole(Lines(TheLog)))'
    BY <1>1, PTL
  <2> QED
    BY <1>0, <1>1, <2>1, TrailStep
<1> HIDE DEF Inv
<1> QED
  BY <1>2, <1>3, <1>4, <1>5, PTL DEF Spec, ImplementsTrail, Abstract!Spec

-----------------------------------------------------------------------------
(* A lone writer that rotates as it likes and never crashes: the manifest  *)
(* describes the files of the directory, or is one entry behind them.      *)

\* An entry of the manifest that tells the truth about its own content.
SoundSegment(seg) ==
    LET lines == seg.file_sha256 IN
    /\ seg = [path |-> seg.path, status |-> seg.status,
              first_seq |-> seg.first_seq, last_seq |-> seg.last_seq,
              prev_segment_head |-> seg.prev_segment_head, head_hash |-> seg.head_hash,
              file_sha256 |-> seg.file_sha256, deletion_status |-> seg.deletion_status]
    /\ IsLog(lines) /\ lines # <<>>
    /\ \A i \in 1..Len(lines) : lines[i].kind = "envelope"
    /\ ChainVerifies(NoKey, lines, seg.first_seq, seg.prev_segment_head)
    /\ seg.first_seq \in Nat /\ seg.last_seq = seg.first_seq + Len(lines) - 1
    /\ seg.head_hash = lines[Len(lines)].hash

\* Entries that continue one another; only the last can be that of the log.
SoundSegments(segs, log) ==
    /\ IsLog(segs)
    /\ \A i \in 1..Len(segs) :
          /\ SoundSegment(segs[i])
          /\ segs[i].first_seq = IF i = 1 THEN 0 ELSE segs[i - 1].last_seq + 1
          /\ segs[i].prev_segment_head
               = IF i = 1 THEN GenesisPrev ELSE segs[i - 1].head_hash
          /\ \/ segs[i].status = "open" /\ segs[i].path = log /\ i = Len(segs)
             \/ segs[i].status = "closed" /\ segs[i].path = IdOf(segs[i])
    /\ \A i, j \in 1..Len(segs) : i < j => segs[i].last_seq < segs[j].first_seq

EndsOpen(segs) == segs # <<>> /\ segs[Len(segs)].status = "open"

\* The lines of a file in a directory.
LinesIn(dir, path) == IF path \in DOMAIN dir THEN dir[path] ELSE <<>>

\* The entries describe the files of the directory, each of them and no others.
Describes(segs, dir, log) ==
    /\ SoundSegments(segs, log)
    /\ \A i \in 1..Len(segs) :
          /\ segs[i].path \in DOMAIN dir
          /\ dir[segs[i].path] = segs[i].file_sha256
    /\ EndsOpen(segs) <=> LinesIn(dir, log) # <<>>
    /\ DOMAIN dir \subseteq {log} \union {segs[i].path : i \in 1..Len(segs)}

\* The entries once seg is recorded: it takes the place of the open one.
Succ(segs, seg) == IF EndsOpen(segs) THEN [segs EXCEPT ![Len(segs)] = seg]
                                     ELSE Append(segs, seg)

\* Where the chain goes on behind the entries.
NextStart(segs) == IF segs = <<>> THEN Start(0, GenesisPrev)
                   ELSE Start(segs[Len(segs)].last_seq + 1, segs[Len(segs)].head_hash)

LEMMA SegmentFacts ==
  ASSUME NEW seg, SoundSegment(seg)
  PROVE  LET lines == seg.file_sha256 IN
         /\ Len(lines) \in Nat /\ Len(lines) > 0
         /\ lines[1].seq = seg.first_seq /\ lines[1].prev_hash = seg.prev_segment_head
         /\ lines[Len(lines)].seq = seg.last_seq
         /\ seg.first_seq \in Nat /\ seg.last_seq \in Nat /\ seg.first_seq <= seg.last_seq
<1> DEFINE lines == seg.file_sha256
<1>1. /\ IsLog(lines) /\ lines # <<>>
      /\ ChainVerifies(NoKey, lines, seg.first_seq, seg.prev_segment_head)
      /\ seg.first_seq \in Nat /\ seg.last_seq = seg.first_seq + Len(lines) - 1
  BY DEF SoundSegment
<1>2. Len(lines) \in Nat /\ Len(lines) # 0
  BY <1>1, LogFacts
<1> HIDE DEF lines
<1>3. 1 \in 1..Len(lines) /\ Len(lines) \in 1..Len(lines)
  BY <1>2
<1>4. /\ lines[1].seq = seg.first_seq + 1 - 1
      /\ lines[1].prev_hash = seg.prev_segment_head
      /\ lines[Len(lines)].seq = seg.first_seq + Len(lines) - 1
  BY <1>1, <1>3 DEF ChainVerifies, LineVerifies, PrevHashAt
<1> QED
  BY <1>1, <1>2, <1>4 DEF lines

LEMMA SortedIsSame ==
  ASSUME NEW segs, IsLog(segs), \A i \in 1..Len(segs) : segs[i].first_seq \in Nat,
         \A i, j \in 1..Len(segs) : i < j => segs[i].first_seq < segs[j].first_seq
  PROVE  SortedBySeq(segs) = segs
<1> DEFINE D == DOMAIN segs
           before(i, j) == \/ segs[i].first_seq < segs[j].first_seq
                           \/ segs[i].first_seq = segs[j].first_seq /\ i < j
           rank(i) == Cardinality({j \in D : before(j, i)}) + 1
<1>1. D = 1..Len(segs) /\ Len(segs) \in Nat
  BY LogFacts
<1>2. \A i \in D : rank(i) = i
  <2> SUFFICES ASSUME NEW i \in D PROVE rank(i) = i
    OBVIOUS
  <2>1. {j \in D : before(j, i)} = 1..(i - 1)
    <3>1. \A j \in D : before(j, i) <=> j < i
      <4> SUFFICES ASSUME NEW j \in D PROVE before(j, i) <=> j < i
        OBVIOUS
      <4>1. i \in 1..Len(segs) /\ j \in 1..Len(segs)
        BY <1>1
      <4> HIDE DEF D
      <4> QED
        BY <4>1
    <3> HIDE DEF D, before
    <3> QED
      BY <1>1, <3>1
  <2>2. Cardinality(1..(i - 1)) = i - 1
    <3>1. i \in 1..Len(segs)
      BY <1>1
    <3>2. PICK m \in Nat : m = i - 1
      BY <1>1, <3>1
    <3>3. Cardinality(1..m) = IF 1 > m THEN 0 ELSE m - 1 + 1
      BY FS_Interval
    <3> QED
      BY <3>2, <3>3
  <2>3. i \in 1..Len(segs) /\ rank(i) = i - 1 + 1
    BY <1>1, <2>1, <2>2
  <2> HIDE DEF rank
  <2> QED
    BY <1>1, <2>3
<1>3. \A k \in D : (CHOOSE i \in D : rank(i) = k) = k
  <2> HIDE DEF D, rank
  <2> QED
    BY <1>2
<1>4. SortedBySeq(segs) = [k \in D |-> segs[CHOOSE i \in D : rank(i) = k]]
  BY DEF SortedBySeq
<1>5. segs = [k \in D |-> segs[k]]
  BY DEF IsLog
<1> HIDE DEF D, rank
<1> QED
  BY <1>3, <1>4, <1>5

LEMMA SuccFacts ==
  ASSUME NEW segs, IsLog(segs), NEW seg
  PROVE  LET n == IF EndsOpen(segs) THEN Len(segs) - 1 ELSE Len(segs) IN
         /\ n \in Nat /\ (EndsOpen(segs) => Len(segs) = n + 1)
         /\ IsLog(Succ(segs, seg)) /\ Succ(segs, seg) # <<>>
         /\ Len(Succ(segs, seg)) = n + 1
         /\ \A i \in 1..n : Succ(segs, seg)[i] = segs[i]
         /\ Succ(segs, seg)[n + 1] = seg
<1>1. Len(segs) \in Nat /\ (segs = <<>> <=> Len(segs) = 0)
  BY LogFacts
<1>2. CASE EndsOpen(segs)
  <2>1. segs # <<>>
    BY <1>2 DEF EndsOpen
  <2> DEFINE new == [segs EXCEPT ![Len(segs)] = seg]
  <2>2. Succ(segs, seg) = new
    BY <1>2 DEF Succ
  <2>3. /\ IsLog(new) /\ new # <<>> /\ Len(new) = Len(segs)
        /\ \A i \in 1..(Len(segs) - 1) : new[i] = segs[i]
        /\ new[Len(segs)] = seg
    BY <2>1, ReplaceLast
  <2> HIDE DEF new
  <2> QED
    BY <1>1, <1>2, <2>1, <2>2, <2>3
<1>3. CASE ~EndsOpen(segs)
  BY <1>1, <1>3, AppendLog DEF Succ
<1> QED
  BY <1>2, <1>3

LEMMA SoundFacts ==
  ASSUME NEW segs, NEW log, SoundSegments(segs, log)
  PROVE  /\ IsLog(segs) /\ Len(segs) \in Nat /\ (segs = <<>> <=> Len(segs) = 0)
         /\ DOMAIN segs = 1..Len(segs)
         /\ \A i \in 1..Len(segs) : /\ segs[i].first_seq \in Nat
                                    /\ segs[i].last_seq \in Nat
                                    /\ segs[i].first_seq <= segs[i].last_seq
         /\ \A i, j \in 1..Len(segs) :
               i < j => /\ segs[i].first_seq < segs[j].first_seq
                        /\ segs[i].last_seq < segs[j].last_seq
         /\ \A i \in 1..Len(segs) : segs[i].status = "open"
               => EndsOpen(segs) /\ i = Len(segs)
         /\ ~EndsOpen(segs) => \A i \in 1..Len(segs) : segs[i].status # "open"
<1>1. /\ IsLog(segs) /\ Len(segs) \in Nat /\ (segs = <<>> <=> Len(segs) = 0)
      /\ DOMAIN segs = 1..Len(segs)
  BY LogFacts DEF SoundSegments
<1>2. \A i \in 1..Len(segs) : /\ segs[i].first_seq \in Nat
                              /\ segs[i].last_seq \in Nat
                              /\ segs[i].first_seq <= segs[i].last_seq
  BY SegmentFacts DEF SoundSegments
<1>3. \A i, j \in 1..Len(segs) : i < j => segs[i].last_seq < segs[j].first_seq
  BY DEF SoundSegments
<1>4. \A i, j \in 1..Len(segs) :
               i < j => /\ segs[i].first_seq < segs[j].first_seq
                        /\ segs[i].last_seq < segs[j].last_seq
  BY <1>2, <1>3
<1>5. \A i \in 1..Len(segs) : segs[i].status = "open" => EndsOpen(segs) /\ i = Len(segs)
  <2>1. \A i \in 1..Len(segs) : segs[i].status = "open" => i = Len(segs)
    BY DEF SoundSegments
  <2>2. \A i \in 1..Len(segs) : segs # <<>>
    BY <1>1
  <2> QED
    BY <2>1, <2>2 DEF EndsOpen
<1> QED
  BY <1>1, <1>2, <1>4, <1>5

\* The newest entry is the last one.
LEMMA NewestIsLast ==
  ASSUME NEW segs, NEW log, SoundSegments(segs, log), segs # <<>>
  PROVE  NewestOf(segs) = segs[Len(segs)]
<1> DEFINE n == Len(segs)
           newest(i) == \A j \in 1..n :
                           \/ segs[j].last_seq < segs[i].last_seq
                           \/ segs[j].last_seq = segs[i].last_seq /\ j <= i
<1>1. /\ n \in Nat /\ n # 0 /\ DOMAIN segs = 1..n
      /\ \A i \in 1..n : segs[i].last_seq \in Nat
      /\ \A i, j \in 1..n : i < j => segs[i].last_seq < segs[j].last_seq
  BY SoundFacts
<1> HIDE DEF n
<1>2. n \in 1..n /\ newest(n)
  <2>1. n \in 1..n /\ \A j \in 1..n : j < n \/ j = n
    BY <1>1
  <2> QED
    BY <1>1, <2>1
<1>3. \A i \in 1..n : newest(i) => i = n
  <2> SUFFICES ASSUME NEW i \in 1..n, newest(i), i # n PROVE FALSE
    OBVIOUS
  <2>1. i < n
    BY <1>1
  <2>2. segs[i].last_seq < segs[n].last_seq
    BY <1>1, <1>2, <2>1
  <2>3. \/ segs[n].last_seq < segs[i].last_seq
        \/ segs[n].last_seq = segs[i].last_seq
    BY <1>2
  <2> QED
    BY <1>1, <1>2, <2>2, <2>3
<1>4. NewestOf(segs) = segs[CHOOSE i \in 1..n : newest(i)]
  BY <1>1 DEF NewestOf
<1> HIDE DEF newest
<1> QED
  BY <1>2, <1>3, <1>4 DEF n

\* Recording the next entry replaces the open one, or adds one at the end.
LEMMA UpsertIsSucc ==
  ASSUME NEW segs, NEW log, SoundSegments(segs, log), NEW seg,
         SoundSegments(Succ(segs, seg), log),
         EndsOpen(segs) => Replaces(seg, segs[Len(segs)])
  PROVE  Upsert(segs, seg) = Succ(segs, seg)
<1> DEFINE n == IF EndsOpen(segs) THEN Len(segs) - 1 ELSE Len(segs)
           matches == {i \in DOMAIN segs : Replaces(seg, segs[i])}
           new == Succ(segs, seg)
<1>1. /\ n \in Nat /\ (EndsOpen(segs) => Len(segs) = n + 1)
      /\ IsLog(new) /\ Len(new) = n + 1
      /\ \A i \in 1..n : new[i] = segs[i]
      /\ new[n + 1] = seg
  BY SuccFacts DEF SoundSegments
<1>2. DOMAIN segs = 1..Len(segs) /\ (~EndsOpen(segs) => Len(segs) = n)
  BY SoundFacts
<1>3. \A i \in 1..n : ~Replaces(seg, segs[i])
  <2> SUFFICES ASSUME NEW i \in 1..n PROVE ~Replaces(seg, segs[i])
    OBVIOUS
  <2>1. i \in 1..(n + 1) /\ n + 1 \in 1..(n + 1) /\ i < n + 1 /\ i # n + 1
    BY <1>1
  <2>2. new[i].first_seq \in Nat /\ new[i].first_seq < new[n + 1].first_seq
        /\ new[n + 1].first_seq \in Nat
    BY <1>1, <2>1, SoundFacts
  <2>3. segs[i].first_seq # seg.first_seq
    BY <1>1, <2>2
  <2>4. new[i].status # "open"
    BY <1>1, <2>1, SoundFacts
  <2>5. IdOf(segs[i]) # IdOf(seg)
    BY <2>3 DEF IdOf, SegmentName
  <2> QED
    BY <1>1, <2>4, <2>5 DEF Replaces
<1>4. matches = IF EndsOpen(segs) THEN {n + 1} ELSE {}
  <2>1. CASE EndsOpen(segs)
    <3>1. \A i \in 1..Len(segs) : Replaces(seg, segs[i]) <=> i = n + 1
      <4>1. \A i \in 1..(n + 1) : i \in 1..n \/ i = n + 1
        BY <1>1
      <4> QED
        BY <1>1, <1>3, <2>1, <4>1
    <3>2. n + 1 \in 1..Len(segs)
      BY <1>1, <2>1
    <3> HIDE DEF n
    <3> QED
      BY <1>2, <2>1, <3>1, <3>2
  <2>2. CASE ~EndsOpen(segs)
    BY <1>2, <1>3, <2>2
  <2> QED
    BY <2>1, <2>2
<1>5. SortedBySeq(new) = new
  <2>1. /\ \A i \in 1..Len(new) : new[i].first_seq \in Nat
        /\ \A i, j \in 1..Len(new) : i < j => new[i].first_seq < new[j].first_seq
    BY SoundFacts
  <2> HIDE DEF new
  <2> QED
    BY <1>1, <2>1, SortedIsSame
<1>6. CASE EndsOpen(segs)
  <2> DEFINE first == CHOOSE i \in matches : \A j \in matches : i <= j
  <2>1. first = n + 1
    <3> HIDE DEF matches, n
    <3>1. n + 1 <= n + 1
      BY <1>1
    <3> QED
      BY <1>4, <1>6, <3>1
  <2>2. Upsert(segs, seg) = SortedBySeq([segs EXCEPT ![first] = seg])
    <3>1. matches # {}
      BY <1>4, <1>6
    <3> QED
      BY <3>1 DEF Upsert
  <2> HIDE DEF first, matches, n
  <2>3. [segs EXCEPT ![first] = seg] = new
    BY <1>1, <1>6, <2>1 DEF Succ
  <2> QED
    BY <1>5, <2>2, <2>3
<1>7. CASE ~EndsOpen(segs)
  <2>1. Upsert(segs, seg) = SortedBySeq(Append(segs, seg))
    BY <1>4, <1>7 DEF Upsert
  <2>2. new = Append(segs, seg)
    BY <1>7 DEF Succ
  <2> HIDE DEF new
  <2> QED
    BY <1>5, <2>1, <2>2 DEF new
<1> QED
  BY <1>6, <1>7

\* Where the file of the log starts.
StartOf(segs) == IF EndsOpen(segs)
                 THEN Start(segs[Len(segs)].first_seq, segs[Len(segs)].prev_segment_head)
                 ELSE NextStart(segs)

LEMMA SuccIsSound ==
  ASSUME NEW segs, NEW log, SoundSegments(segs, log), NEW seg, SoundSegment(seg),
         seg.first_seq = StartOf(segs).seq, seg.prev_segment_head = StartOf(segs).prev,
         \/ seg.status = "open" /\ seg.path = log
         \/ seg.status = "closed" /\ seg.path = IdOf(seg)
  PROVE  SoundSegments(Succ(segs, seg), log)
<1> DEFINE n == IF EndsOpen(segs) THEN Len(segs) - 1 ELSE Len(segs)
           new == Succ(segs, seg)
<1>1. /\ n \in Nat /\ (EndsOpen(segs) => Len(segs) = n + 1)
      /\ IsLog(new) /\ Len(new) = n + 1
      /\ \A i \in 1..n : new[i] = segs[i]
      /\ new[n + 1] = seg
  BY SuccFacts DEF SoundSegments
<1>2. /\ ~EndsOpen(segs) => Len(segs) = n
      /\ segs = <<>> <=> Len(segs) = 0
      /\ \A i \in 1..Len(segs) : segs[i].last_seq \in Nat /\ segs[i].first_seq \in Nat
      /\ \A i, j \in 1..Len(segs) : i < j => segs[i].last_seq < segs[j].last_seq
      /\ \A i \in 1..Len(segs) : segs[i].status = "open" => EndsOpen(segs) /\ i = Len(segs)
  BY SoundFacts
<1>3. \A i \in 1..Len(segs) :
         /\ SoundSegment(segs[i])
         /\ segs[i].first_seq = IF i = 1 THEN 0 ELSE segs[i - 1].last_seq + 1
         /\ segs[i].prev_segment_head = IF i = 1 THEN GenesisPrev ELSE segs[i - 1].head_hash
         /\ \/ segs[i].status = "open" /\ segs[i].path = log /\ i = Len(segs)
            \/ segs[i].status = "closed" /\ segs[i].path = IdOf(segs[i])
  BY DEF SoundSegments
<1>4. \A i, j \in 1..Len(segs) : i < j => segs[i].last_seq < segs[j].first_seq
  BY DEF SoundSegments
<1> HIDE DEF n, new
<1>5. ASSUME NEW i \in 1..n
      PROVE  /\ i \in 1..Len(segs) /\ new[i] = segs[i] /\ i # n + 1 /\ new[i].status = "closed"
             /\ i # 1 => i - 1 \in 1..n
  <2>1. i \in 1..Len(segs) /\ i # n + 1 /\ (i # 1 => i - 1 \in 1..n)
    BY <1>1, <1>2
  <2>2. ~(EndsOpen(segs) /\ i = Len(segs))
    BY <1>1, <2>1
  <2>3. segs[i].status = "closed"
    BY <1>2, <1>3, <2>1, <2>2
  <2> QED
    BY <1>1, <2>1, <2>3
<1>6. /\ seg.first_seq = IF n = 0 THEN 0 ELSE segs[n].last_seq + 1
      /\ seg.prev_segment_head = IF n = 0 THEN GenesisPrev ELSE segs[n].head_hash
  <2>1. CASE EndsOpen(segs)
    <3>1. n + 1 \in 1..Len(segs) /\ n + 1 - 1 = n /\ (n + 1 = 1 <=> n = 0)
      BY <1>1, <2>1
    <3>2. StartOf(segs) = Start(segs[n + 1].first_seq, segs[n + 1].prev_segment_head)
      BY <1>1, <2>1 DEF StartOf
    <3>3. PICK m \in 1..Len(segs) : m = n + 1
      BY <3>1
    <3>4. /\ segs[m].first_seq = IF m = 1 THEN 0 ELSE segs[m - 1].last_seq + 1
          /\ segs[m].prev_segment_head = IF m = 1 THEN GenesisPrev ELSE segs[m - 1].head_hash
      BY <1>3
    <3>5. m - 1 = n /\ (m = 1 <=> n = 0)
      BY <1>1, <3>3
    <3>6. /\ segs[m].first_seq = IF n = 0 THEN 0 ELSE segs[n].last_seq + 1
          /\ segs[m].prev_segment_head = IF n = 0 THEN GenesisPrev ELSE segs[n].head_hash
      BY <3>4, <3>5
    <3>7. /\ StartOf(segs).seq = segs[m].first_seq
          /\ StartOf(segs).prev = segs[m].prev_segment_head
      BY <3>2, <3>3 DEF Start
    <3> QED
      BY <3>6, <3>7
  <2>2. CASE ~EndsOpen(segs)
    BY <1>2, <2>2 DEF StartOf, NextStart, Start
  <2> QED
    BY <2>1, <2>2
<1>7. \A i \in 1..n : segs[i].last_seq < seg.first_seq
  <2> SUFFICES ASSUME NEW i \in 1..n PROVE segs[i].last_seq < seg.first_seq
    OBVIOUS
  <2>1. n \in 1..Len(segs) /\ i \in 1..Len(segs) /\ n # 0 /\ (i = n \/ i < n)
    BY <1>1, <1>2
  <2>2. segs[i].last_seq <= segs[n].last_seq
    BY <1>2, <2>1
  <2> QED
    BY <1>2, <1>6, <2>1, <2>2
<1>8. ASSUME NEW i \in 1..(n + 1)
      PROVE  /\ SoundSegment(new[i])
             /\ new[i].first_seq = IF i = 1 THEN 0 ELSE new[i - 1].last_seq + 1
             /\ new[i].prev_segment_head = IF i = 1 THEN GenesisPrev ELSE new[i - 1].head_hash
             /\ \/ new[i].status = "open" /\ new[i].path = log /\ i = n + 1
                \/ new[i].status = "closed" /\ new[i].path = IdOf(new[i])
  <2>1. CASE i \in 1..n
    <3>1. new[i] = segs[i] /\ new[i].status = "closed" /\ i \in 1..Len(segs)
      BY <1>5, <2>1
    <3>2. i # 1 => new[i - 1] = segs[i - 1]
      BY <1>5, <2>1
    <3> QED
      BY <1>3, <3>1, <3>2
  <2>2. CASE i = n + 1
    <3>1. (i = 1 <=> n = 0) /\ i - 1 = n
      BY <1>1, <2>2
    <3>2. n # 0 => new[n] = segs[n]
      BY <1>1
    <3> QED
      BY <1>1, <1>6, <2>2, <3>1, <3>2
  <2>3. i \in 1..n \/ i = n + 1
    BY <1>1
  <2> QED
    BY <2>1, <2>2, <2>3
<1>9. ASSUME NEW i \in 1..(n + 1), NEW j \in 1..(n + 1), i < j
      PROVE  new[i].last_seq < new[j].first_seq
  <2>1. i \in 1..n /\ (j \in 1..n \/ j = n + 1)
    BY <1>1, <1>9
  <2> QED
    BY <1>1, <1>4, <1>5, <1>7, <1>9, <2>1
<1> QED
  BY <1>1, <1>8, <1>9 DEF SoundSegments, new

-----------------------------------------------------------------------------
(* Entries and files.                                                      *)

\* What _segment_from_file makes of a file with these lines.
FileSegment(path, lines, status) ==
    [path |-> path, status |-> status,
     first_seq |-> lines[1].seq, last_seq |-> lines[Len(lines)].seq,
     prev_segment_head |-> lines[1].prev_hash, head_hash |-> lines[Len(lines)].hash,
     file_sha256 |-> lines, deletion_status |-> "present"]

\* A log with these lines is a part of the chain that starts there.
Continues(lines, start) ==
    /\ IsLog(lines)
    /\ \A i \in 1..Len(lines) : lines[i].kind = "envelope"
    /\ start.seq \in Nat /\ ChainVerifies(NoKey, lines, start.seq, start.prev)

LEMMA FileIsSound ==
  ASSUME NEW lines, lines # <<>>, NEW start, Continues(lines, start), NEW path, NEW status
  PROVE  /\ SoundSegment(FileSegment(path, lines, status))
         /\ FileSegment(path, lines, status).first_seq = start.seq
         /\ FileSegment(path, lines, status).prev_segment_head = start.prev
<1>1. Len(lines) \in Nat /\ Len(lines) # 0
  BY LogFacts DEF Continues
<1>2. 1 \in 1..Len(lines) /\ Len(lines) \in 1..Len(lines)
  BY <1>1
<1>3. /\ lines[1].seq = start.seq + 1 - 1
      /\ lines[1].prev_hash = start.prev
      /\ lines[Len(lines)].seq = start.seq + Len(lines) - 1
  BY <1>2 DEF Continues, ChainVerifies, LineVerifies, PrevHashAt
<1>4. PICK seg : seg = FileSegment(path, lines, status)
  OBVIOUS
<1>5. /\ seg.path = path /\ seg.status = status
      /\ seg.first_seq = start.seq
      /\ seg.last_seq = start.seq + Len(lines) - 1
      /\ seg.prev_segment_head = start.prev /\ seg.head_hash = lines[Len(lines)].hash
      /\ seg.file_sha256 = lines
  BY <1>3, <1>4 DEF FileSegment, Continues
<1>6. seg = [path |-> seg.path, status |-> seg.status,
              first_seq |-> seg.first_seq, last_seq |-> seg.last_seq,
              prev_segment_head |-> seg.prev_segment_head, head_hash |-> seg.head_hash,
              file_sha256 |-> seg.file_sha256, deletion_status |-> seg.deletion_status]
  BY <1>4 DEF FileSegment
<1>7. SoundSegment(seg)
  BY <1>5, <1>6 DEF SoundSegment, Continues
<1> QED
  BY <1>4, <1>5, <1>7

\* The file of the log continues the entries before it.
LEMMA LogContinues ==
  ASSUME NEW segs, NEW dir, NEW log, Describes(segs, dir, log)
  PROVE  LET lines == LinesIn(dir, log) IN
         /\ Continues(lines, StartOf(segs))
         /\ lines # <<>> => /\ EndsOpen(segs) /\ log \in DOMAIN dir
                            /\ Len(segs) \in 1..Len(segs)
                            /\ segs[Len(segs)].path = log
                            /\ segs[Len(segs)].file_sha256 = lines
                            /\ segs[Len(segs)].first_seq = lines[1].seq
                            /\ segs[Len(segs)].last_seq = lines[Len(lines)].seq
                            /\ segs[Len(segs)].head_hash = lines[Len(lines)].hash
         /\ NextSeq(lines, StartOf(segs).seq) = NextStart(segs).seq
         /\ NextPrev(lines, StartOf(segs).prev) = NextStart(segs).prev
<1> DEFINE lines == LinesIn(dir, log)
           n == Len(segs)
           e == segs[n]
<1>1. /\ n \in Nat /\ (segs = <<>> <=> n = 0)
      /\ SoundSegments(segs, log) /\ (EndsOpen(segs) <=> lines # <<>>)
  BY SoundFacts DEF Describes
<1>2. CASE lines # <<>>
  <2>1. EndsOpen(segs) /\ n \in 1..n /\ segs # <<>> /\ e.status = "open"
    BY <1>1, <1>2 DEF EndsOpen
  <2>2. /\ SoundSegment(e) /\ e.path = log
        /\ log \in DOMAIN dir /\ e.file_sha256 = lines
    BY <2>1 DEF Describes, SoundSegments, LinesIn
  <2> HIDE DEF lines, e
  <2>3. /\ e.first_seq = lines[1].seq /\ e.last_seq = lines[Len(lines)].seq
        /\ e.first_seq \in Nat
    BY <2>2, SegmentFacts
  <2>4. /\ IsLog(lines) /\ \A i \in 1..Len(lines) : lines[i].kind = "envelope"
        /\ ChainVerifies(NoKey, lines, e.first_seq, e.prev_segment_head)
        /\ e.head_hash = lines[Len(lines)].hash
    BY <2>2 DEF SoundSegment
  <2>5. StartOf(segs).seq = e.first_seq /\ StartOf(segs).prev = e.prev_segment_head
    BY <2>1 DEF StartOf, Start, e
  <2>6. NextStart(segs).seq = e.last_seq + 1 /\ NextStart(segs).prev = e.head_hash
    BY <2>1 DEF NextStart, Start, e
  <2>7. Continues(lines, StartOf(segs))
    BY <2>3, <2>4, <2>5 DEF Continues
  <2> QED
    BY <1>2, <2>1, <2>2, <2>3, <2>4, <2>6, <2>7 DEF NextSeq, NextPrev, lines, e
<1>3. CASE lines = <<>>
  <2>1. StartOf(segs) = NextStart(segs)
    BY <1>1, <1>3 DEF StartOf
  <2>2. NextStart(segs).seq \in Nat
    <3>1. CASE segs = <<>>
      BY <3>1 DEF NextStart, Start
    <3>2. CASE segs # <<>>
      <4>1. n \in 1..n
        BY <1>1, <3>2
      <4>2. e.last_seq \in Nat
        BY <1>1, <4>1, SoundFacts
      <4> QED
        BY <3>2, <4>2 DEF NextStart, Start
    <3> QED
      BY <3>1, <3>2
  <2>3. Len(<<>>) = 0
    BY EmptyIsLog, LogFacts
  <2>4. Continues(<<>>, NextStart(segs))
    BY <2>2, <2>3, EmptyIsLog DEF Continues, ChainVerifies
  <2> QED
    BY <1>3, <2>1, <2>4 DEF NextSeq, NextPrev
<1> QED
  BY <1>2, <1>3

\* The entries are one behind: recording seg makes them describe the files.
CatchesUp(segs, seg, dir, log) ==
    /\ SoundSegments(segs, log)
    /\ EndsOpen(segs) => Replaces(seg, segs[Len(segs)])
    /\ Describes(Succ(segs, seg), dir, log)

\* No log has the name of a closed segment.
PlainName(log) == \A first, last, head : log # SegmentName(first, last, head)

LEMMA EntryIsClosed ==
  ASSUME NEW segs, NEW log, SoundSegments(segs, log), PlainName(log), NEW i \in 1..Len(segs),
         ~(EndsOpen(segs) /\ i = Len(segs))
  PROVE  segs[i].status = "closed" /\ segs[i].path # log
<1>1. segs[i].status # "open"
  BY SoundFacts
<1> QED
  BY <1>1 DEF SoundSegments, PlainName, IdOf

\* A record behind the last one leaves the entries one behind.
LEMMA WriteCatchesUp ==
  ASSUME NEW segs, NEW dir, NEW log, Describes(segs, dir, log), PlainName(log),
         log \in DOMAIN dir, NEW payload, NEW rec,
         rec = MakeEnvelope(NoKey, NextStart(segs).seq, NextStart(segs).prev, payload, NoStamp),
         NEW next, DOMAIN next = DOMAIN dir, next[log] = Extend(dir[log], rec),
         \A name \in DOMAIN dir : name # log => next[name] = dir[name]
  PROVE  /\ next[log] # <<>>
         /\ CatchesUp(segs, FileSegment(log, next[log], "open"), next, log)
<1> DEFINE lines == dir[log]
           new == Append(lines, rec)
           seg == FileSegment(log, new, "open")
           start == StartOf(segs)
<1>1. /\ lines = LinesIn(dir, log) /\ Continues(lines, start)
      /\ rec = MakeEnvelope(NoKey, NextSeq(lines, start.seq), NextPrev(lines, start.prev),
                            payload, NoStamp)
      /\ lines # <<>> => /\ EndsOpen(segs) /\ Len(segs) \in 1..Len(segs)
                         /\ segs[Len(segs)].path = log
      /\ lines = <<>> => ~EndsOpen(segs)
  <2>1. lines = LinesIn(dir, log)
    BY DEF LinesIn
  <2>2. EndsOpen(segs) <=> lines # <<>>
    BY <2>1 DEF Describes
  <2> HIDE DEF lines, start
  <2> QED
    BY <2>1, <2>2, LogContinues DEF start
<1>2. Len(lines) \in Nat /\ (lines = <<>> <=> Len(lines) = 0)
  BY <1>1, LogFacts DEF Continues
<1> HIDE DEF start, lines
<1>3. next[log] = new
  <2>1. lines = <<>> \/ lines[Len(lines)].kind = "envelope"
    BY <1>1, <1>2 DEF Continues
  <2> QED
    BY <2>1 DEF Extend, lines
<1>4. rec.kind = "envelope"
  BY <1>1 DEF MakeEnvelope
<1>5. /\ IsLog(new) /\ new # <<>> /\ Len(new) = Len(lines) + 1
      /\ \A i \in 1..Len(lines) : new[i] = lines[i]
      /\ new[Len(lines) + 1] = rec
  BY <1>1, AppendLog DEF Continues
<1>6. ChainVerifies(NoKey, new, start.seq, start.prev)
  <2>1. start.seq \in Int
    BY <1>1 DEF Continues
  <2> QED
    BY <1>1, <2>1, AppendKeepsChain DEF Continues
<1> HIDE DEF new
<1>7. Continues(new, start)
  <2>1. \A i \in 1..(Len(lines) + 1) : i \in 1..Len(lines) \/ i = Len(lines) + 1
    BY <1>2
  <2>2. \A i \in 1..Len(new) : new[i].kind = "envelope"
    BY <1>1, <1>4, <1>5, <2>1 DEF Continues
  <2> QED
    BY <1>1, <1>5, <1>6, <2>2 DEF Continues
<1>8. /\ SoundSegment(seg)
      /\ seg.first_seq = start.seq /\ seg.prev_segment_head = start.prev
      /\ seg.status = "open" /\ seg.path = log /\ seg.file_sha256 = new
  BY <1>5, <1>7, FileIsSound DEF FileSegment
<1> HIDE DEF seg
<1>9. SoundSegments(segs, log)
  BY DEF Describes
<1>10. SoundSegments(Succ(segs, seg), log)
  BY <1>8, <1>9, SuccIsSound DEF start
<1>11. EndsOpen(segs) => Replaces(seg, segs[Len(segs)])
  BY <1>1, <1>8 DEF Replaces, EndsOpen
<1>12. Describes(Succ(segs, seg), next, log)
  <2> DEFINE n == IF EndsOpen(segs) THEN Len(segs) - 1 ELSE Len(segs)
             succ == Succ(segs, seg)
  <2>1. /\ n \in Nat /\ (EndsOpen(segs) => Len(segs) = n + 1)
        /\ succ # <<>> /\ Len(succ) = n + 1
        /\ \A i \in 1..n : succ[i] = segs[i]
        /\ succ[n + 1] = seg
    BY <1>9, SuccFacts DEF SoundSegments
  <2>2. ~EndsOpen(segs) => Len(segs) = n
    OBVIOUS
  <2> HIDE DEF n, succ
  <2>3. \A i \in 1..n : i \in 1..Len(segs) /\ ~(EndsOpen(segs) /\ i = Len(segs))
    BY <2>1, <2>2
  <2>4. \A i \in 1..n : succ[i].path # log /\ succ[i].path \in DOMAIN next
                        /\ next[succ[i].path] = succ[i].file_sha256
    BY <1>9, <2>1, <2>3, EntryIsClosed DEF Describes
  <2>5. seg.path \in DOMAIN next /\ next[seg.path] = seg.file_sha256
    BY <1>3, <1>8
  <2>6. \A i \in 1..(n + 1) : i \in 1..n \/ i = n + 1
    BY <2>1
  <2>7. EndsOpen(succ) /\ LinesIn(next, log) # <<>>
    BY <1>3, <1>5, <1>8, <2>1 DEF EndsOpen, LinesIn
  <2>8. DOMAIN next \subseteq {log} \union {succ[i].path : i \in 1..Len(succ)}
    <3> SUFFICES ASSUME NEW name \in DOMAIN dir, name # log
                 PROVE  \E i \in 1..Len(succ) : name = succ[i].path
      OBVIOUS
    <3>1. PICK i \in 1..Len(segs) : name = segs[i].path
      BY DEF Describes
    <3>2. i \in 1..n
      <4>1. CASE EndsOpen(segs)
        <5>1. segs[Len(segs)].path = log
          BY <1>1, <4>1
        <5> QED
          BY <2>1, <3>1, <4>1, <5>1
      <4> QED
        BY <2>2, <4>1
    <3>3. i \in 1..Len(succ)
      BY <2>1, <3>2
    <3> QED
      BY <2>1, <3>1, <3>2, <3>3
  <2> QED
    BY <1>10, <2>1, <2>4, <2>5, <2>6, <2>7, <2>8 DEF Describes, succ
<1> QED
  BY <1>3, <1>5, <1>9, <1>11, <1>12 DEF CatchesUp, seg

\* A renamed log leaves the entries one behind.
LEMMA RenameCatchesUp ==
  ASSUME NEW segs, NEW dir, NEW log, Describes(segs, dir, log), PlainName(log),
         LinesIn(dir, log) # <<>>,
         NEW closed, closed = IdOf(FileSegment(log, dir[log], "closed")),
         closed \notin DOMAIN dir,
         NEW next, DOMAIN next = (DOMAIN dir \ {log}) \union {closed},
         next[closed] = dir[log],
         \A name \in DOMAIN dir : name # log => next[name] = dir[name]
  PROVE  CatchesUp(segs, FileSegment(closed, dir[log], "closed"), next, log)
<1> DEFINE lines == dir[log]
           seg == FileSegment(closed, lines, "closed")
           start == StartOf(segs)
           n == Len(segs) - 1
           succ == Succ(segs, seg)
<1>1. SoundSegments(segs, log)
  BY DEF Describes
<1>2. /\ lines = LinesIn(dir, log) /\ lines # <<>> /\ log \in DOMAIN dir
  BY EmptyIsLog DEF LinesIn
<1>3. /\ Continues(lines, start) /\ EndsOpen(segs)
      /\ segs[Len(segs)].path = log
      /\ segs[Len(segs)].first_seq = lines[1].seq
      /\ segs[Len(segs)].last_seq = lines[Len(lines)].seq
      /\ segs[Len(segs)].head_hash = lines[Len(lines)].hash
  <2> HIDE DEF lines, start
  <2> QED
    BY <1>2, LogContinues DEF start
<1> HIDE DEF lines, start
<1>4. /\ SoundSegment(seg)
      /\ seg.first_seq = start.seq /\ seg.prev_segment_head = start.prev
  BY <1>2, <1>3, FileIsSound
<1>5. /\ seg.status = "closed" /\ seg.path = closed /\ seg.file_sha256 = lines
      /\ seg.first_seq = lines[1].seq /\ seg.last_seq = lines[Len(lines)].seq
      /\ seg.head_hash = lines[Len(lines)].hash
  BY DEF FileSegment
<1>6. closed = SegmentName(lines[1].seq, lines[Len(lines)].seq, lines[Len(lines)].hash)
  BY DEF IdOf, FileSegment, lines
<1> HIDE DEF seg
<1>7. closed = IdOf(seg) /\ closed # log
  BY <1>5, <1>6 DEF IdOf, PlainName
<1>8. IdOf(segs[Len(segs)]) = IdOf(seg)
  BY <1>3, <1>5 DEF IdOf
<1>9. SoundSegments(succ, log)
  BY <1>1, <1>4, <1>5, <1>7, SuccIsSound DEF start
<1>10. /\ n \in Nat /\ Len(segs) = n + 1
       /\ succ # <<>> /\ Len(succ) = n + 1
       /\ \A i \in 1..n : succ[i] = segs[i]
       /\ succ[n + 1] = seg
  BY <1>1, <1>3, SuccFacts DEF SoundSegments
<1> HIDE DEF n, succ
<1>11. \A i \in 1..n : i \in 1..Len(segs) /\ ~(EndsOpen(segs) /\ i = Len(segs))
  BY <1>10
<1>12. ASSUME NEW i \in 1..n
       PROVE  /\ succ[i].path \in DOMAIN next
              /\ next[succ[i].path] = succ[i].file_sha256
  <2>1. segs[i].path # log /\ segs[i].path \in DOMAIN dir
        /\ dir[segs[i].path] = segs[i].file_sha256
    BY <1>1, <1>11, EntryIsClosed DEF Describes
  <2> QED
    BY <1>10, <2>1
<1>13. seg.path \in DOMAIN next /\ next[seg.path] = seg.file_sha256
  BY <1>5 DEF lines
<1>14. \A i \in 1..(n + 1) : i \in 1..n \/ i = n + 1
  BY <1>10
<1>15. ~EndsOpen(succ)
  BY <1>5, <1>10 DEF EndsOpen
<1>16. LinesIn(next, log) = <<>>
  BY <1>7 DEF LinesIn
<1>17. DOMAIN next \subseteq {log} \union {succ[i].path : i \in 1..Len(succ)}
  <2>1. ASSUME NEW name \in DOMAIN dir, name # log
        PROVE  \E i \in 1..Len(succ) : name = succ[i].path
    <3>1. PICK i \in 1..Len(segs) : name = segs[i].path
      BY <2>1 DEF Describes
    <3>2. i # n + 1
      BY <1>3, <1>10, <2>1, <3>1
    <3>3. i \in 1..n /\ i \in 1..Len(succ)
      BY <1>10, <3>2
    <3> QED
      BY <1>10, <3>1, <3>3
  <2>2. n + 1 \in 1..Len(succ) /\ succ[n + 1].path = closed
    BY <1>5, <1>10
  <2> QED
    BY <2>1, <2>2
<1>18. Describes(succ, next, log)
  BY <1>9, <1>10, <1>12, <1>13, <1>14, <1>15, <1>16, <1>17 DEF Describes
<1> QED
  BY <1>1, <1>8, <1>18 DEF CatchesUp, Replaces, succ, seg, lines

-----------------------------------------------------------------------------
(* A lone writer, step by step.                                            *)

Alone(w, log) == Writers = {w} /\ Logs = {log} /\ MaxCrashes = 0 /\ PlainName(log)

RestPC == {"idle", "rotate_if_needed", "rotate_read", "rotate_hash", "rotate_check",
           "rotate_replace", "chain_start", "open_log", "lock_log", "read_tail",
           "write_record"}

\* The writer s over the directory dir, the entries segs of the manifest and
\* the temporary file t.  Between calls, and until something is renamed or
\* written, the entries describe the files; then they are one behind, until
\* the manifest with the next entry has replaced the old one.
Consistent(s, dir, segs, t, log) ==
    LET lines == LinesIn(dir, log) IN
    /\ s.pc \in RestPC => Describes(segs, dir, log)
    /\ s.pc \in {"rotate_hash", "rotate_check", "rotate_replace"} => lines # <<>>
    /\ s.pc = "rotate_hash" => s.seg = SegmentOf(log, lines, "closed")
    /\ s.pc \in {"rotate_check", "rotate_replace"}
          => s.seg = FileSegment(log, lines, "closed")
    /\ s.pc = "rotate_replace" => IdOf(s.seg) \notin DOMAIN dir
    /\ s.pc \in {"open_log", "lock_log", "read_tail"} => s.start = NextStart(segs)
    /\ s.pc \in {"lock_log", "read_tail", "write_record"}
          => s.fd = log /\ log \in DOMAIN dir
    /\ s.pc = "write_record" => \E payload : s.rec =
          MakeEnvelope(NoKey, NextStart(segs).seq, NextStart(segs).prev, payload, NoStamp)
    /\ s.pc \in {"record_read", "record_hash"}
          => lines # <<>> /\ CatchesUp(segs, FileSegment(log, lines, "open"), dir, log)
    /\ s.pc = "record_hash" => s.seg = SegmentOf(log, lines, "open")
    /\ s.pc = "manifest_load" => CatchesUp(segs, s.seg, dir, log)
    /\ s.pc \in {"manifest_open", "manifest_write", "manifest_replace"}
          => Describes(s.segs, dir, log)
    /\ s.pc = "manifest_write" => t = Empty /\ s.mfd = TmpFd
    /\ s.pc = "manifest_replace" => t = Saved(s.segs)

SoloInv(w, log) ==
    /\ Loadable
    /\ acked # {} => manifest.state = "saved"
    /\ Consistent(writer[w], files, LoadedSegments, tmp, log)

\* A step that only the local state of the writer shows.
LEMMA SoloLocal ==
  ASSUME NEW w, NEW log, SoloInv(w, log), UNCHANGED <<files, manifest, acked>>,
         Consistent(writer'[w], files, LoadedSegments, tmp', log)
  PROVE  SoloInv(w, log)'
BY DEF SoloInv, Loadable, LoadedSegments

\* A writer at rest that goes to a place of which nothing is said.
CalmPC == {"idle", "rotate_if_needed", "rotate_read", "chain_start"}

LEMMA SoloCalm ==
  ASSUME NEW w, NEW log, SoloInv(w, log), UNCHANGED <<files, manifest, acked>>,
         writer[w].pc \in RestPC, writer'[w].pc \in CalmPC
  PROVE  SoloInv(w, log)'
<1>1. Describes(LoadedSegments, files, log)
  BY DEF SoloInv, Consistent
<1>2. Consistent(writer'[w], files, LoadedSegments, tmp', log)
  BY <1>1 DEF Consistent, CalmPC
<1> QED
  BY <1>2, SoloLocal

LEMMA SoloFinish ==
  ASSUME TypeOK, NEW w \in Writers, NEW log, SoloInv(w, log),
         UNCHANGED <<files, manifest, acked>>, writer[w].pc \in RestPC, Finish(w)
  PROVE  SoloInv(w, log)'
<1>1. writer'[w] = IdleWriter
  BY OneCall DEF Finish
<1> QED
  BY <1>1, SoloCalm DEF IdleWriter, CalmPC

LEMMA SoloCalls ==
  ASSUME TypeOK, NEW w \in Writers, NEW log, SoloInv(w, log),
         CallAppend(w) \/ CallRotate(w)
  PROVE  SoloInv(w, log)'
<1>1. CASE CallAppend(w)
  BY <1>1, CallBegins, SoloCalm
     DEF CallAppend, Begins, At, directory, RestPC, CalmPC
<1>2. CASE CallRotate(w)
  BY <1>2, GotoCall, SoloCalm DEF CallRotate, At, directory, RestPC, CalmPC
<1> QED
  BY <1>1, <1>2

LEMMA SoloAfterRotate ==
  ASSUME TypeOK, NEW w \in Writers, NEW log, SoloInv(w, log),
         UNCHANGED <<files, manifest, acked>>, writer[w].pc \in RestPC, AfterRotate(w)
  PROVE  SoloInv(w, log)'
<1>1. CASE Finish(w)
  BY <1>1, SoloFinish
<1>2. CASE ~Finish(w)
  <2>1. PICK s : s = [writer[w] EXCEPT !.pc = "chain_start", !.seg = NoSegment, !.segs = <<>>]
    OBVIOUS
  <2>2. s.pc = "chain_start"
    BY <2>1, WriterFacts DEF WriterTyped
  <2>3. writer' = [writer EXCEPT ![w] = s]
    BY <1>2, <2>1 DEF AfterRotate
  <2>4. writer'[w] = s
    BY <2>3, OneCall
  <2> QED
    BY <2>2, <2>4, SoloCalm DEF CalmPC
<1> QED
  BY <1>1, <1>2

LEMMA SoloRotateIfNeeded ==
  ASSUME TypeOK, NEW w \in Writers, NEW log, SoloInv(w, log), RotateIfNeeded(w)
  PROVE  SoloInv(w, log)'
<1>1. /\ writer[w].pc \in RestPC /\ UNCHANGED <<files, manifest, acked>>
      /\ Finish(w) \/ Goto(w, "rotate_read") \/ Goto(w, "chain_start")
  BY DEF RotateIfNeeded, At, RestPC, directory
<1> QED
  BY <1>1, SoloFinish, SoloCalm, GotoCall DEF CalmPC

LEMMA SoloRotateRead ==
  ASSUME TypeOK, NEW w \in Writers, NEW log, LogOf[w] = log, SoloInv(w, log), RotateRead(w)
  PROVE  SoloInv(w, log)'
<1>0. writer[w].pc \in RestPC /\ UNCHANGED <<files, manifest, acked>>
  BY DEF RotateRead, At, RestPC, directory
<1>1. CASE AfterRotate(w) \/ Finish(w)
  BY <1>0, <1>1, SoloAfterRotate, SoloFinish
<1>2. CASE /\ Lines(log) # <<>>
           /\ writer' = [writer EXCEPT ![w].pc = "rotate_hash",
                                       ![w].seg = SegmentOf(log, Lines(log), "closed")]
  <2>1. PICK s : s = [writer[w] EXCEPT !.pc = "rotate_hash",
                                       !.seg = SegmentOf(log, Lines(log), "closed")]
    OBVIOUS
  <2>2. s.pc = "rotate_hash" /\ s.seg = SegmentOf(log, Lines(log), "closed")
    BY <2>1, WriterFacts DEF WriterTyped
  <2>3. writer' = [writer EXCEPT ![w] = s]
    BY <1>2, <2>1
  <2>4. writer'[w] = s
    BY <2>3, OneCall
  <2>5. Lines(log) = LinesIn(files, log)
    BY DEF Lines, Exists, LinesIn
  <2>6. Describes(LoadedSegments, files, log)
    BY <1>0 DEF SoloInv, Consistent
  <2>7. Consistent(s, files, LoadedSegments, tmp', log)
    BY <1>2, <2>2, <2>5, <2>6 DEF Consistent
  <2> QED
    BY <1>0, <2>4, <2>7, SoloLocal
<1> QED
  BY <1>1, <1>2 DEF RotateRead

LEMMA HashedSegment ==
  ASSUME NEW path, NEW lines, NEW status
  PROVE  [SegmentOf(path, lines, status) EXCEPT !.file_sha256 = lines]
            = FileSegment(path, lines, status)
BY DEF SegmentOf, FileSegment

LEMMA SoloRotateHash ==
  ASSUME TypeOK, NEW w \in Writers, NEW log, LogOf[w] = log, SoloInv(w, log), RotateHash(w)
  PROVE  SoloInv(w, log)'
<1>0. /\ writer[w].pc = "rotate_hash" /\ writer[w].pc \in RestPC
      /\ UNCHANGED <<files, manifest, acked>>
  BY DEF RotateHash, HashFile, At, RestPC, directory
<1>1. /\ Describes(LoadedSegments, files, log) /\ LinesIn(files, log) # <<>>
      /\ writer[w].seg = SegmentOf(log, LinesIn(files, log), "closed")
  BY <1>0 DEF SoloInv, Consistent
<1>2. Exists(log) /\ files[log] = LinesIn(files, log)
  BY <1>1 DEF LinesIn, Exists
<1>3. PICK s : s = [writer[w] EXCEPT !.pc = "rotate_check",
                       !.seg = FileSegment(log, LinesIn(files, log), "closed")]
  OBVIOUS
<1>4. s.pc = "rotate_check" /\ s.seg = FileSegment(log, LinesIn(files, log), "closed")
  BY <1>3, WriterFacts DEF WriterTyped
<1>5. writer' = [writer EXCEPT ![w] = s]
  <2>1. writer' = [writer EXCEPT ![w].pc = "rotate_check", ![w].seg.file_sha256 = files[log]]
    BY <1>2 DEF RotateHash, HashFile
  <2>2. [writer[w] EXCEPT !.pc = "rotate_check", !.seg.file_sha256 = files[log]] = s
    <3>1. [writer[w].seg EXCEPT !.file_sha256 = files[log]]
            = FileSegment(log, LinesIn(files, log), "closed")
      BY <1>1, <1>2, HashedSegment
    <3> QED
      BY <1>3, <3>1, WriterFacts DEF WriterTyped
  <2> QED
    BY <2>1, <2>2
<1>6. writer'[w] = s
  BY <1>5, OneCall
<1>7. Consistent(s, files, LoadedSegments, tmp', log)
  BY <1>1, <1>4 DEF Consistent
<1> QED
  BY <1>0, <1>6, <1>7, SoloLocal

LEMMA SoloRotateCheck ==
  ASSUME TypeOK, NEW w \in Writers, NEW log, SoloInv(w, log), RotateCheck(w)
  PROVE  SoloInv(w, log)'
<1>0. /\ writer[w].pc = "rotate_check" /\ writer[w].pc \in RestPC
      /\ UNCHANGED <<files, manifest, acked>>
  BY DEF RotateCheck, At, RestPC, directory
<1>1. CASE Finish(w)
  BY <1>0, <1>1, SoloFinish
<1>2. CASE ~Finish(w)
  <2>1. Goto(w, "rotate_replace") /\ ~Exists(IdOf(writer[w].seg))
    BY <1>2 DEF RotateCheck
  <2>2. writer'[w].pc = "rotate_replace" /\ writer'[w].seg = writer[w].seg
    BY <2>1, GotoCall
  <2>3. Consistent(writer'[w], files, LoadedSegments, tmp', log)
    <3>1. Consistent(writer[w], files, LoadedSegments, tmp, log)
      BY DEF SoloInv
    <3> QED
      BY <1>0, <2>1, <2>2, <3>1 DEF Consistent, Exists, RestPC
  <2> QED
    BY <1>0, <2>3, SoloLocal
<1> QED
  BY <1>1, <1>2

\* A step that leaves the manifest alone.
LEMMA SoloFiles ==
  ASSUME NEW w, NEW log, SoloInv(w, log), UNCHANGED <<manifest, acked>>,
         Consistent(writer'[w], files', LoadedSegments, tmp', log)
  PROVE  SoloInv(w, log)'
BY DEF SoloInv, Loadable, LoadedSegments

\* A rename takes the log's lines to a file of their own, one entry ahead.
LEMMA SoloRenames ==
  ASSUME NEW w \in Writers, NEW log, LogOf[w] = log, PlainName(log),
         SoloInv(w, log), RotateReplace(w)
  PROVE  LET closed == IdOf(writer[w].seg)
             lines == LinesIn(files, log)
         IN  /\ Describes(LoadedSegments, files, log) /\ lines # <<>>
             /\ CatchesUp(LoadedSegments, FileSegment(closed, lines, "closed"), files', log)
             /\ LinesIn(files', log) = <<>>
<1> DEFINE closed == IdOf(writer[w].seg)
           lines == LinesIn(files, log)
<1>0. /\ writer[w].pc = "rotate_replace" /\ writer[w].pc \in RestPC
  BY DEF RotateReplace, At, RestPC
<1>1. /\ Describes(LoadedSegments, files, log) /\ lines # <<>>
      /\ writer[w].seg = FileSegment(log, lines, "closed")
      /\ closed \notin DOMAIN files
  BY <1>0 DEF SoloInv, Consistent
<1>2. Exists(log) /\ files[log] = lines
  BY <1>1 DEF LinesIn, Exists
<1>3. files' = [name \in (DOMAIN files \ {log}) \union {closed} |->
                     IF name = closed THEN files[log] ELSE files[name]]
  BY <1>2 DEF RotateReplace
<1> HIDE DEF closed, lines
<1>4. /\ DOMAIN files' = (DOMAIN files \ {log}) \union {closed}
      /\ files'[closed] = files[log]
      /\ \A name \in DOMAIN files : name # log => files'[name] = files[name]
  BY <1>1, <1>3
<1>5. CatchesUp(LoadedSegments, FileSegment(closed, files[log], "closed"), files', log)
  <2>1. closed = IdOf(FileSegment(log, files[log], "closed"))
    BY <1>1, <1>2 DEF closed
  <2>2. LinesIn(files, log) # <<>>
    BY <1>1 DEF lines
  <2>3. PICK next : next = files'
    OBVIOUS
  <2> QED
    BY <1>1, <1>4, <2>1, <2>2, <2>3, RenameCatchesUp
<1>6. LinesIn(files', log) = <<>>
  <2>1. closed # log
    BY DEF closed, IdOf, PlainName
  <2> QED
    BY <1>4, <2>1 DEF LinesIn
<1> QED
  BY <1>1, <1>2, <1>5, <1>6 DEF closed, lines

LEMMA SoloRotateReplace ==
  ASSUME TypeOK, NEW w \in Writers, NEW log, LogOf[w] = log, PlainName(log),
         SoloInv(w, log), RotateReplace(w)
  PROVE  SoloInv(w, log)'
<1> DEFINE closed == IdOf(writer[w].seg)
           lines == LinesIn(files, log)
           moved(fd) == IF fd = closed THEN Unlinked
                        ELSE IF fd = log THEN closed ELSE fd
<1>0. writer[w].pc = "rotate_replace" /\ UNCHANGED <<manifest, acked>>
  BY DEF RotateReplace, At
<1>1. lines # <<>> /\ writer[w].seg = FileSegment(log, lines, "closed")
  BY <1>0 DEF SoloInv, Consistent
<1>2. CatchesUp(LoadedSegments, FileSegment(closed, lines, "closed"), files', log)
  BY SoloRenames
<1>3. writer' = [v \in Writers |->
            IF v = w THEN [writer[w] EXCEPT !.pc = "manifest_load",
                                            !.seg.path = closed,
                                            !.fd = moved(@)]
            ELSE [writer[v] EXCEPT !.fd = moved(@)]]
  BY <1>1 DEF RotateReplace, LinesIn, Exists
<1> HIDE DEF closed, lines
<1>4. writer'[w].pc = "manifest_load" /\ writer'[w].seg = FileSegment(closed, lines, "closed")
  <2>1. PICK s : s = [writer[w] EXCEPT !.pc = "manifest_load",
                         !.seg = [writer[w].seg EXCEPT !.path = closed],
                         !.fd = moved(writer[w].fd)]
    OBVIOUS
  <2> HIDE DEF moved
  <2>2. s.pc = "manifest_load" /\ s.seg = [writer[w].seg EXCEPT !.path = closed]
    BY <2>1, WriterFacts DEF WriterTyped
  <2>3. [writer[w].seg EXCEPT !.path = closed] = FileSegment(closed, lines, "closed")
    BY <1>1 DEF FileSegment
  <2>4. writer'[w] = s
    BY <1>3, <2>1, WriterFacts DEF WriterTyped
  <2> QED
    BY <2>2, <2>3, <2>4
<1>5. Consistent(writer'[w], files', LoadedSegments, tmp', log)
  BY <1>2, <1>4 DEF Consistent, RestPC
<1> QED
  BY <1>0, <1>5, SoloFiles

LEMMA SoloChainStart ==
  ASSUME TypeOK, NEW w \in Writers, NEW log, LogOf[w] = log, SoloInv(w, log), ChainStart(w)
  PROVE  SoloInv(w, log)'
<1> DEFINE segs == LoadedSegments
<1>0. /\ writer[w].pc = "chain_start" /\ writer[w].pc \in RestPC
      /\ UNCHANGED <<files, manifest, acked>> /\ Loadable
  BY DEF ChainStart, At, RestPC, directory, SoloInv
<1>1. Describes(segs, files, log) /\ Lines(log) = LinesIn(files, log)
  BY <1>0 DEF SoloInv, Consistent, Lines, Exists, LinesIn
<1> HIDE DEF segs
<1>2. CASE Finish(w)
  BY <1>0, <1>2, SoloFinish
<1>3. CASE ~Finish(w)
  <2>1. PICK start : /\ writer' = [writer EXCEPT ![w].pc = "open_log", ![w].start = start]
                     /\ start = NextStart(segs)
    <3>1. CASE Lines(log) # <<>>
      <4>1. writer' = [writer EXCEPT ![w].pc = "open_log",
                ![w].start = Start(NextSeq(Lines(log), 0), NextPrev(Lines(log), GenesisPrev))]
        BY <1>3, <3>1 DEF ChainStart
      <4>2. /\ NextSeq(Lines(log), 0) = NextStart(segs).seq
            /\ NextPrev(Lines(log), GenesisPrev) = NextStart(segs).prev
        <5>1. /\ NextSeq(Lines(log), StartOf(segs).seq) = NextStart(segs).seq
              /\ NextPrev(Lines(log), StartOf(segs).prev) = NextStart(segs).prev
          BY <1>1, LogContinues
        <5> QED
          BY <3>1, <5>1 DEF NextSeq, NextPrev
      <4>3. NextStart(segs) = Start(NextStart(segs).seq, NextStart(segs).prev)
        BY DEF NextStart, Start
      <4> QED
        BY <4>1, <4>2, <4>3
    <3>2. CASE Lines(log) = <<>> /\ segs = <<>>
      BY <1>0, <1>3, <3>2 DEF ChainStart, NextStart, segs
    <3>3. CASE Lines(log) = <<>> /\ segs # <<>>
      <4>1. writer' = [writer EXCEPT ![w].pc = "open_log",
                ![w].start = Start(NewestOf(segs).last_seq + 1, NewestOf(segs).head_hash)]
        BY <1>0, <1>3, <3>3 DEF ChainStart, segs
      <4>2. NewestOf(segs) = segs[Len(segs)]
        BY <1>1, <3>3, NewestIsLast DEF Describes
      <4> QED
        BY <3>3, <4>1, <4>2 DEF NextStart
    <3> QED
      BY <3>1, <3>2, <3>3
  <2>2. PICK s : s = [writer[w] EXCEPT !.pc = "open_log", !.start = start]
    OBVIOUS
  <2>3. s.pc = "open_log" /\ s.start = start
    BY <2>2, WriterFacts DEF WriterTyped
  <2>4. writer' = [writer EXCEPT ![w] = s]
    BY <2>1, <2>2
  <2>5. writer'[w] = s
    BY <2>4, OneCall
  <2>6. Consistent(s, files, segs, tmp', log)
    BY <1>1, <2>1, <2>3 DEF Consistent
  <2> QED
    BY <1>0, <2>5, <2>6, SoloLocal DEF segs
<1> QED
  BY <1>2, <1>3

\* Opening the log adds an empty file at most.
LEMMA OpenedDescribed ==
  ASSUME NEW segs, NEW dir, NEW log, Describes(segs, dir, log),
         NEW next, DOMAIN next = DOMAIN dir \union {log},
         \A name \in DOMAIN next : next[name] = LinesIn(dir, name)
  PROVE  Describes(segs, next, log)
<1>1. LinesIn(next, log) = LinesIn(dir, log)
  BY DEF LinesIn
<1>2. \A name \in DOMAIN dir : name \in DOMAIN next /\ next[name] = dir[name]
  BY DEF LinesIn
<1> QED
  BY <1>1, <1>2 DEF Describes

LEMMA SoloOpenLog ==
  ASSUME TypeOK, NEW w \in Writers, NEW log, LogOf[w] = log, SoloInv(w, log), OpenLog(w)
  PROVE  SoloInv(w, log)'
<1>0. /\ writer[w].pc = "open_log" /\ writer[w].pc \in RestPC
      /\ UNCHANGED <<manifest, acked>>
  BY DEF OpenLog, At, RestPC
<1>1. Describes(LoadedSegments, files, log) /\ writer[w].start = NextStart(LoadedSegments)
  BY <1>0 DEF SoloInv, Consistent
<1>2. /\ DOMAIN files' = DOMAIN files \union {log}
      /\ \A name \in DOMAIN files' : files'[name] = LinesIn(files, name)
  BY DEF OpenLog, Lines, Exists, LinesIn
<1>3. Describes(LoadedSegments, files', log)
  BY <1>1, <1>2, OpenedDescribed
<1>4. PICK s : s = [writer[w] EXCEPT !.pc = "lock_log", !.fd = log]
  OBVIOUS
<1>5. s.pc = "lock_log" /\ s.fd = log /\ s.start = writer[w].start
  BY <1>4, WriterFacts DEF WriterTyped
<1>6. writer' = [writer EXCEPT ![w] = s]
  BY <1>4 DEF OpenLog
<1>7. writer'[w] = s
  BY <1>6, OneCall
<1>8. Consistent(s, files', LoadedSegments, tmp', log)
  BY <1>1, <1>2, <1>3, <1>5 DEF Consistent
<1> QED
  BY <1>0, <1>7, <1>8, SoloFiles

LEMMA SoloLockLog ==
  ASSUME TypeOK, NEW w \in Writers, NEW log, SoloInv(w, log), LockLog(w)
  PROVE  SoloInv(w, log)'
<1>0. /\ writer[w].pc = "lock_log" /\ UNCHANGED <<files, manifest, acked>>
  BY DEF LockLog, At, directory
<1>1. /\ Describes(LoadedSegments, files, log) /\ writer[w].start = NextStart(LoadedSegments)
      /\ writer[w].fd = log /\ log \in DOMAIN files
  BY <1>0 DEF SoloInv, Consistent, RestPC
<1>2. PICK s : s = [writer[w] EXCEPT !.pc = "read_tail"]
  OBVIOUS
<1>3. s.pc = "read_tail" /\ s.fd = writer[w].fd /\ s.start = writer[w].start
  BY <1>2, WriterFacts DEF WriterTyped
<1>4. writer' = [writer EXCEPT ![w] = s]
  BY <1>2 DEF LockLog, Goto
<1>5. writer'[w] = s
  BY <1>4, OneCall
<1>6. Consistent(s, files, LoadedSegments, tmp', log)
  BY <1>1, <1>3 DEF Consistent
<1> QED
  BY <1>0, <1>5, <1>6, SoloLocal

LEMMA SoloReadTail ==
  ASSUME TypeOK, NEW w \in Writers, NEW log, LogOf[w] = log, SoloInv(w, log), ReadTail(w)
  PROVE  SoloInv(w, log)'
<1> DEFINE segs == LoadedSegments
           rec == MakeEnvelope(NoKey, NextSeq(Lines(log), writer[w].start.seq),
                               NextPrev(Lines(log), writer[w].start.prev),
                               writer[w].call, NoStamp)
<1>0. /\ writer[w].pc = "read_tail" /\ writer[w].pc \in RestPC
      /\ UNCHANGED <<files, manifest, acked>>
  BY DEF ReadTail, At, directory, RestPC
<1>1. /\ Describes(segs, files, log) /\ writer[w].start = NextStart(segs)
      /\ writer[w].fd = log /\ log \in DOMAIN files /\ Lines(log) = LinesIn(files, log)
  BY <1>0 DEF SoloInv, Consistent, RestPC, Lines, Exists, LinesIn
<1>2. CASE Finish(w)
  BY <1>0, <1>2, SoloFinish
<1>3. CASE ~Finish(w)
  <2>1. writer' = [writer EXCEPT ![w].pc = "write_record", ![w].rec = rec]
    BY <1>3 DEF ReadTail
  <2>2. rec = MakeEnvelope(NoKey, NextStart(segs).seq, NextStart(segs).prev,
                           writer[w].call, NoStamp)
    <3>1. /\ NextSeq(Lines(log), StartOf(segs).seq) = NextStart(segs).seq
          /\ NextPrev(Lines(log), StartOf(segs).prev) = NextStart(segs).prev
      BY <1>1, LogContinues
    <3>2. /\ NextSeq(Lines(log), NextStart(segs).seq) = NextStart(segs).seq
          /\ NextPrev(Lines(log), NextStart(segs).prev) = NextStart(segs).prev
      BY <3>1 DEF NextSeq, NextPrev
    <3> QED
      BY <1>1, <3>2
  <2> HIDE DEF rec
  <2>3. PICK s : s = [writer[w] EXCEPT !.pc = "write_record", !.rec = rec]
    OBVIOUS
  <2>4. s.pc = "write_record" /\ s.rec = rec /\ s.fd = writer[w].fd
    BY <2>3, WriterFacts DEF WriterTyped
  <2>5. writer' = [writer EXCEPT ![w] = s]
    BY <2>1, <2>3
  <2>6. writer'[w] = s
    BY <2>5, OneCall
  <2> HIDE DEF segs
  <2>7. Consistent(s, files, segs, tmp', log)
    BY <1>1, <2>2, <2>4 DEF Consistent
  <2> QED
    BY <1>0, <2>6, <2>7, SoloLocal DEF segs
<1> QED
  BY <1>2, <1>3

\* A write adds its record to the log, one entry ahead.
LEMMA SoloWrites ==
  ASSUME NEW w \in Writers, NEW log, PlainName(log), SoloInv(w, log), WriteRecord(w)
  PROVE  LET lines == LinesIn(files', log)
         IN  /\ Describes(LoadedSegments, files, log) /\ lines # <<>>
             /\ CatchesUp(LoadedSegments, FileSegment(log, lines, "open"), files', log)
             /\ lines = Extend(LinesIn(files, log), writer[w].rec)
             /\ \E payload : writer[w].rec =
                   MakeEnvelope(NoKey, NextStart(LoadedSegments).seq,
                                NextStart(LoadedSegments).prev, payload, NoStamp)
<1> DEFINE segs == LoadedSegments
<1>0. writer[w].pc = "write_record"
  BY DEF WriteRecord, At
<1>1. /\ Describes(segs, files, log)
      /\ writer[w].fd = log /\ log \in DOMAIN files
      /\ \E payload : writer[w].rec =
            MakeEnvelope(NoKey, NextStart(segs).seq, NextStart(segs).prev, payload, NoStamp)
  BY <1>0 DEF SoloInv, Consistent, RestPC
<1>2. PICK next : next = files'
  OBVIOUS
<1>3. /\ DOMAIN next = DOMAIN files /\ next[log] = Extend(files[log], writer[w].rec)
      /\ \A name \in DOMAIN files : name # log => next[name] = files[name]
  BY <1>1, <1>2 DEF WriteRecord, Written
<1> HIDE DEF segs
<1>4. /\ next[log] # <<>>
      /\ CatchesUp(segs, FileSegment(log, next[log], "open"), next, log)
  BY <1>1, <1>3, WriteCatchesUp
<1>5. LinesIn(next, log) = next[log] /\ LinesIn(files, log) = files[log]
  BY <1>1, <1>3 DEF LinesIn
<1> QED
  BY <1>1, <1>2, <1>3, <1>4, <1>5 DEF segs

LEMMA SoloWriteRecord ==
  ASSUME TypeOK, NEW w \in Writers, NEW log, PlainName(log), SoloInv(w, log), WriteRecord(w)
  PROVE  SoloInv(w, log)'
<1> DEFINE segs == LoadedSegments
<1>0. writer[w].pc = "write_record" /\ UNCHANGED <<manifest, acked>>
  BY DEF WriteRecord, At
<1>1. PICK next : next = files'
  OBVIOUS
<1>2. /\ LinesIn(next, log) # <<>>
      /\ CatchesUp(segs, FileSegment(log, LinesIn(next, log), "open"), next, log)
  BY <1>1, SoloWrites
<1> HIDE DEF segs
<1>3. writer'[w].pc = "record_read"
  <2>1. PICK s : s = [writer[w] EXCEPT !.pc = "record_read", !.fd = NoFile]
    OBVIOUS
  <2>2. s.pc = "record_read"
    BY <2>1, WriterFacts DEF WriterTyped
  <2>3. writer' = [writer EXCEPT ![w] = s]
    BY <2>1 DEF WriteRecord
  <2> QED
    BY <2>2, <2>3, OneCall
<1>4. Consistent(writer'[w], next, segs, tmp', log)
  BY <1>2, <1>3 DEF Consistent, RestPC
<1> QED
  BY <1>0, <1>1, <1>4, SoloFiles DEF segs

\* What the next entry shows of the log that is still open.
LEMMA OpenIsReadable ==
  ASSUME NEW segs, NEW dir, NEW log, LinesIn(dir, log) # <<>>,
         CatchesUp(segs, FileSegment(log, LinesIn(dir, log), "open"), dir, log)
  PROVE  \A i \in 1..Len(LinesIn(dir, log)) : IsEnvelope(LinesIn(dir, log)[i])
<1> DEFINE seg == FileSegment(log, LinesIn(dir, log), "open")
           n == IF EndsOpen(segs) THEN Len(segs) - 1 ELSE Len(segs)
           succ == Succ(segs, seg)
<1>1. /\ SoundSegments(succ, log) /\ IsLog(segs)
  BY DEF CatchesUp, Describes, SoundSegments
<1> HIDE DEF seg
<1>2. n \in Nat /\ Len(succ) = n + 1 /\ succ[n + 1] = seg
  BY <1>1, SuccFacts
<1>3. n + 1 \in 1..Len(succ)
  BY <1>2
<1>4. SoundSegment(seg)
  BY <1>1, <1>2, <1>3 DEF SoundSegments
<1>5. seg.file_sha256 = LinesIn(dir, log)
  BY DEF seg, FileSegment
<1> QED
  BY <1>4, <1>5 DEF SoundSegment, IsEnvelope

LEMMA SoloRecordRead ==
  ASSUME TypeOK, NEW w \in Writers, NEW log, LogOf[w] = log, SoloInv(w, log), RecordRead(w)
  PROVE  SoloInv(w, log)'
<1> DEFINE lines == LinesIn(files, log)
<1>0. writer[w].pc = "record_read" /\ UNCHANGED <<files, manifest, acked>>
  BY DEF RecordRead, At, directory
<1>1. /\ lines # <<>> /\ Lines(log) = lines
      /\ CatchesUp(LoadedSegments, FileSegment(log, lines, "open"), files, log)
  BY <1>0 DEF SoloInv, Consistent, Lines, Exists, LinesIn
<1>2. Readable(log)
  BY <1>1, OpenIsReadable DEF Readable
<1>3. PICK s : s = [writer[w] EXCEPT !.pc = "record_hash",
                                     !.seg = SegmentOf(log, Lines(log), "open")]
  OBVIOUS
<1>4. s.pc = "record_hash" /\ s.seg = SegmentOf(log, Lines(log), "open")
  BY <1>3, WriterFacts DEF WriterTyped
<1>5. writer' = [writer EXCEPT ![w] = s]
  BY <1>1, <1>2, <1>3 DEF RecordRead
<1>6. writer'[w] = s
  BY <1>5, OneCall
<1>7. Consistent(s, files, LoadedSegments, tmp', log)
  BY <1>1, <1>4 DEF Consistent, RestPC
<1> QED
  BY <1>0, <1>6, <1>7, SoloLocal

LEMMA SoloRecordHash ==
  ASSUME TypeOK, NEW w \in Writers, NEW log, LogOf[w] = log, SoloInv(w, log), RecordHash(w)
  PROVE  SoloInv(w, log)'
<1> DEFINE lines == LinesIn(files, log)
<1>0. writer[w].pc = "record_hash" /\ UNCHANGED <<files, manifest, acked>>
  BY DEF RecordHash, HashFile, At, directory
<1>1. /\ lines # <<>> /\ writer[w].seg = SegmentOf(log, lines, "open")
      /\ CatchesUp(LoadedSegments, FileSegment(log, lines, "open"), files, log)
  BY <1>0 DEF SoloInv, Consistent
<1>2. Exists(log) /\ files[log] = lines
  BY <1>1 DEF LinesIn, Exists
<1> HIDE DEF lines
<1>3. PICK s : s = [writer[w] EXCEPT !.pc = "manifest_load",
                                     !.seg = FileSegment(log, lines, "open")]
  OBVIOUS
<1>4. s.pc = "manifest_load" /\ s.seg = FileSegment(log, lines, "open")
  BY <1>3, WriterFacts DEF WriterTyped
<1>5. writer' = [writer EXCEPT ![w] = s]
  <2>1. writer' = [writer EXCEPT ![w].pc = "manifest_load", ![w].seg.file_sha256 = files[log]]
    BY <1>2 DEF RecordHash, HashFile
  <2>2. [writer[w] EXCEPT !.pc = "manifest_load", !.seg.file_sha256 = files[log]] = s
    <3>1. [writer[w].seg EXCEPT !.file_sha256 = files[log]] = FileSegment(log, lines, "open")
      BY <1>1, <1>2, HashedSegment
    <3> QED
      BY <1>3, <3>1, WriterFacts DEF WriterTyped
  <2> QED
    BY <2>1, <2>2
<1>6. writer'[w] = s
  BY <1>5, OneCall
<1>7. Consistent(s, files, LoadedSegments, tmp', log)
  BY <1>1, <1>4 DEF Consistent, RestPC
<1> QED
  BY <1>0, <1>6, <1>7, SoloLocal

LEMMA SoloManifestLoad ==
  ASSUME TypeOK, NEW w \in Writers, NEW log, SoloInv(w, log), ManifestLoad(w)
  PROVE  SoloInv(w, log)'
<1> DEFINE segs == LoadedSegments
           next == Upsert(segs, writer[w].seg)
<1>0. writer[w].pc = "manifest_load" /\ UNCHANGED <<files, manifest, acked>> /\ Loadable
  BY DEF ManifestLoad, At, directory, SoloInv
<1>1. CatchesUp(segs, writer[w].seg, files, log)
  BY <1>0 DEF SoloInv, Consistent
<1>2. Describes(next, files, log)
  <2> HIDE DEF segs
  <2>1. next = Succ(segs, writer[w].seg)
    BY <1>1, UpsertIsSucc DEF CatchesUp, Describes
  <2> QED
    BY <1>1, <2>1 DEF CatchesUp
<1>3. writer' = [writer EXCEPT ![w].pc = "manifest_open", ![w].segs = next]
  BY <1>0 DEF ManifestLoad
<1> HIDE DEF next
<1>4. PICK s : s = [writer[w] EXCEPT !.pc = "manifest_open", !.segs = next]
  OBVIOUS
<1>5. s.pc = "manifest_open" /\ s.segs = next
  BY <1>4, WriterFacts DEF WriterTyped
<1>6. writer' = [writer EXCEPT ![w] = s]
  BY <1>3, <1>4
<1>7. writer'[w] = s
  BY <1>6, OneCall
<1>8. Consistent(s, files, segs, tmp', log)
  BY <1>2, <1>5 DEF Consistent, RestPC
<1> QED
  BY <1>0, <1>7, <1>8, SoloLocal

LEMMA SoloManifestOpen ==
  ASSUME TypeOK, NEW w \in Writers, NEW log, SoloInv(w, log), ManifestOpen(w)
  PROVE  SoloInv(w, log)'
<1>0. /\ writer[w].pc = "manifest_open" /\ UNCHANGED <<files, manifest, acked>>
      /\ tmp' = Empty
  BY DEF ManifestOpen, At
<1>1. Describes(writer[w].segs, files, log)
  BY <1>0 DEF SoloInv, Consistent
<1>2. PICK s : s = [writer[w] EXCEPT !.pc = "manifest_write", !.mfd = TmpFd]
  OBVIOUS
<1>3. s.pc = "manifest_write" /\ s.mfd = TmpFd /\ s.segs = writer[w].segs
  BY <1>2, WriterFacts DEF WriterTyped
<1>4. writer' = [writer EXCEPT ![w] = s]
  BY <1>2 DEF ManifestOpen
<1>5. writer'[w] = s
  BY <1>4, OneCall
<1>6. Consistent(s, files, LoadedSegments, tmp', log)
  BY <1>0, <1>1, <1>3 DEF Consistent, RestPC
<1> QED
  BY <1>0, <1>5, <1>6, SoloLocal

LEMMA SoloManifestWrite ==
  ASSUME TypeOK, NEW w \in Writers, NEW log, SoloInv(w, log), ManifestWrite(w)
  PROVE  SoloInv(w, log)'
<1>0. writer[w].pc = "manifest_write" /\ UNCHANGED <<files, acked>>
  BY DEF ManifestWrite, At
<1>1. Describes(writer[w].segs, files, log) /\ tmp = Empty /\ writer[w].mfd = TmpFd
  BY <1>0 DEF SoloInv, Consistent
<1>2. tmp' = Saved(writer[w].segs) /\ manifest' = manifest
  <2>1. TmpFd # ManifestFd
    BY DEF TmpFd, ManifestFd
  <2> QED
    BY <1>1, <2>1 DEF ManifestWrite
<1>3. PICK s : s = [writer[w] EXCEPT !.pc = "manifest_replace", !.mfd = NoFile]
  OBVIOUS
<1>4. s.pc = "manifest_replace" /\ s.segs = writer[w].segs
  BY <1>3, WriterFacts DEF WriterTyped
<1>5. writer' = [writer EXCEPT ![w] = s]
  BY <1>3 DEF ManifestWrite
<1>6. writer'[w] = s
  BY <1>5, OneCall
<1>7. Consistent(s, files, LoadedSegments, tmp', log)
  BY <1>1, <1>2, <1>4 DEF Consistent, RestPC
<1> QED
  BY <1>0, <1>2, <1>6, <1>7, SoloLocal

LEMMA SoloManifestReplace ==
  ASSUME TypeOK, NEW w \in Writers, NEW log, SoloInv(w, log), ManifestReplace(w)
  PROVE  SoloInv(w, log)'
<1> DEFINE moved(fd) == IF fd = ManifestFd THEN Unlinked
                        ELSE IF fd = TmpFd THEN ManifestFd ELSE fd
           chain == [writer[w] EXCEPT !.pc = "chain_start", !.seg = NoSegment, !.segs = <<>>]
           next == IF writer[w].seg.status = "open" \/ writer[w].call = 0
                   THEN IdleWriter ELSE chain
<1>0. writer[w].pc = "manifest_replace" /\ UNCHANGED files
  BY DEF ManifestReplace, At
<1>1. Describes(writer[w].segs, files, log) /\ tmp = Saved(writer[w].segs)
  BY <1>0 DEF SoloInv, Consistent
<1>2. tmp.state = "saved" /\ tmp.segments = writer[w].segs /\ tmp # Absent
  BY <1>1 DEF Saved, Absent
<1>3. /\ manifest' = tmp
      /\ writer' = [v \in Writers |->
             IF v = w THEN next ELSE [writer[v] EXCEPT !.mfd = moved(@)]]
  BY <1>2 DEF ManifestReplace
<1>4. writer'[w].pc \in RestPC \cap CalmPC
  <2>1. writer'[w] = next
    BY <1>3
  <2>2. PICK s : s = chain
    OBVIOUS
  <2>3. s.pc = "chain_start"
    BY <2>2, WriterFacts DEF WriterTyped
  <2>4. next.pc \in {"chain_start", "idle"}
    <3> HIDE DEF chain
    <3> QED
      BY <2>2, <2>3 DEF IdleWriter
  <2> QED
    BY <2>1, <2>4 DEF RestPC, CalmPC
<1>5. Loadable' /\ manifest'.state = "saved" /\ LoadedSegments' = writer[w].segs
  BY <1>2, <1>3 DEF Loadable, LoadedSegments
<1>6. Describes(LoadedSegments', files', log)
  BY <1>0, <1>1, <1>5
<1>7. Consistent(writer'[w], files', LoadedSegments', tmp', log)
  BY <1>4, <1>6 DEF Consistent, CalmPC
<1> QED
  BY <1>5, <1>7 DEF SoloInv

LEMMA SoloInit ==
  ASSUME NEW w, NEW log, Alone(w, log), Init
  PROVE  SoloInv(w, log)
<1>1. /\ \E touched \in SUBSET Logs : files = [name \in touched |-> <<>>]
      /\ manifest = Absent /\ writer = [v \in Writers |-> IdleWriter] /\ acked = {}
  BY DEF Init
<1>2. writer[w] = IdleWriter /\ writer[w].pc = "idle"
  BY <1>1 DEF Alone, IdleWriter
<1>3. DOMAIN files \subseteq {log} /\ LinesIn(files, log) = <<>>
  BY <1>1 DEF Alone, LinesIn
<1>4. Loadable /\ LoadedSegments = <<>>
  BY <1>1 DEF Loadable, LoadedSegments, Absent
<1>5. IsLog(<<>>) /\ Len(<<>>) = 0
  BY EmptyIsLog, LogFacts
<1>6. Describes(<<>>, files, log)
  BY <1>3, <1>5 DEF Describes, SoundSegments, EndsOpen
<1>7. Consistent(writer[w], files, <<>>, tmp, log)
  BY <1>2, <1>6 DEF Consistent
<1> QED
  BY <1>1, <1>4, <1>7 DEF SoloInv

LEMMA SoloStep ==
  ASSUME NEW w, NEW log, Alone(w, log), TypeOK, SoloInv(w, log), [Next]_vars
  PROVE  SoloInv(w, log)'
<1>0. w \in Writers /\ PlainName(log) /\ LogOf[w] = log
  BY LogOfAssumption DEF Alone
<1>1. CASE CallAppend(w) \/ CallRotate(w)
  BY <1>0, <1>1, SoloCalls
<1>2. CASE Step(w)
  <2>1. CASE \/ RotateIfNeeded(w) \/ RotateRead(w) \/ RotateHash(w)
             \/ RotateCheck(w) \/ RotateReplace(w)
    BY <1>0, <2>1, SoloRotateIfNeeded, SoloRotateRead, SoloRotateHash, SoloRotateCheck,
       SoloRotateReplace
  <2>2. CASE ChainStart(w) \/ OpenLog(w) \/ LockLog(w) \/ ReadTail(w) \/ WriteRecord(w)
    BY <1>0, <2>2, SoloChainStart, SoloOpenLog, SoloLockLog, SoloReadTail, SoloWriteRecord
  <2>3. CASE \/ RecordRead(w) \/ RecordHash(w) \/ ManifestLoad(w)
             \/ ManifestOpen(w) \/ ManifestWrite(w) \/ ManifestReplace(w)
    BY <1>0, <2>3, SoloRecordRead, SoloRecordHash, SoloManifestLoad, SoloManifestOpen,
       SoloManifestWrite, SoloManifestReplace
  <2> QED
    BY <1>2, <2>1, <2>2, <2>3 DEF Step
<1>3. CASE Crash(w)
  <2>1. crashes \in 0..MaxCrashes /\ crashes < MaxCrashes /\ MaxCrashes = 0
    BY <1>3 DEF Crash, TypeOK, Alone
  <2> QED
    BY <2>1
<1>4. CASE UNCHANGED vars
  BY <1>4 DEF vars, SoloInv, Loadable, LoadedSegments
<1> QED
  BY <1>0, <1>1, <1>2, <1>3, <1>4 DEF Next, Alone

LEMMA SoloVerifies ==
  ASSUME NEW w, NEW log, Alone(w, log), TypeOK, SoloInv(w, log)
  PROVE  RetentionVerifies
<1> SUFFICES ASSUME Settled PROVE RetentionOK
  BY DEF RetentionVerifies
<1> DEFINE segs == manifest.segments
<1>1. writer[w].pc = "idle" /\ manifest.state = "saved"
  BY DEF Settled, Quiet, At, SoloInv, Alone
<1>2. LoadedSegments = segs
  BY <1>1 DEF LoadedSegments, Absent
<1>3. Describes(segs, files, log)
  BY <1>1, <1>2 DEF SoloInv, Consistent, RestPC
<1>4. SoundSegments(segs, log) /\ DOMAIN segs = 1..Len(segs)
  BY <1>3, SoundFacts DEF Describes
<1>5. ASSUME NEW i \in 1..Len(segs) PROVE SegmentOK(segs, i)
  <2> DEFINE lines == segs[i].file_sha256
  <2>1. /\ SoundSegment(segs[i])
        /\ Exists(segs[i].path) /\ Lines(segs[i].path) = lines
        /\ segs[i].first_seq = IF i = 1 THEN 0 ELSE segs[i - 1].last_seq + 1
        /\ segs[i].prev_segment_head = IF i = 1 THEN GenesisPrev ELSE segs[i - 1].head_hash
    BY <1>3, <1>4 DEF Describes, SoundSegments, Exists, Lines
  <2>2. /\ IsLog(lines) /\ lines # <<>>
        /\ ChainVerifies(NoKey, lines, segs[i].first_seq, segs[i].prev_segment_head)
        /\ segs[i].head_hash = lines[Len(lines)].hash
    BY <2>1 DEF SoundSegment
  <2>3. HeadOf(lines) = segs[i].head_hash
    BY <2>2, LogFacts DEF HeadOf
  <2>4. VerifyLog(NoKey, lines, segs[i].head_hash, segs[i].first_seq,
                  segs[i].prev_segment_head).ok
    BY <2>2, <2>3, VerifyLogOK
  <2> QED
    BY <2>1, <2>4 DEF SegmentOK
<1> QED
  BY <1>1, <1>4, <1>5 DEF RetentionOK

\* A single writer that never crashes leaves a directory that
\* verify-retention accepts, whatever the rotation policy: after every call
\* that returned or raised, the manifest lists the files, in order, with their
\* hashes, each continuing the one before.
THEOREM LoneWriterRetention ==
  ASSUME NEW w, NEW log, Alone(w, log)
  PROVE  Spec => []RetentionVerifies
<1>1. Init => SoloInv(w, log)
  BY SoloInit
<1>2. TypeOK /\ SoloInv(w, log) /\ [Next]_vars => SoloInv(w, log)'
  BY SoloStep
<1>3. TypeOK /\ SoloInv(w, log) => RetentionVerifies
  BY SoloVerifies
<1> QED
  BY <1>1, <1>2, <1>3, TypeCorrect, PTL DEF Spec

-----------------------------------------------------------------------------
(* What the entries say of the files, at every moment.                     *)

\* Whether or not the manifest has caught up, some entries describe the files.
HasEntries(log) == \E segs : Describes(segs, files, log)

LEMMA SoloDescribed ==
  ASSUME TypeOK, NEW w \in Writers, NEW log, SoloInv(w, log)
  PROVE  HasEntries(log)
<1>1. writer[w].pc \in PC
  BY WriterFacts DEF WriterTyped
<1>2. Consistent(writer[w], files, LoadedSegments, tmp, log)
  BY DEF SoloInv
<1>3. CASE writer[w].pc \in RestPC
  BY <1>2, <1>3 DEF Consistent, HasEntries
<1>4. CASE writer[w].pc \in {"record_read", "record_hash", "manifest_load"}
  BY <1>2, <1>4 DEF Consistent, CatchesUp, HasEntries
<1>5. CASE writer[w].pc \in {"manifest_open", "manifest_write", "manifest_replace"}
  BY <1>2, <1>5 DEF Consistent, HasEntries
<1> QED
  BY <1>1, <1>3, <1>4, <1>5 DEF PC, RestPC

\* Where an entry starts tells which one it is.
LEMMA SameStartSameSegment ==
  ASSUME NEW segs, NEW log, SoundSegments(segs, log),
         NEW i \in 1..Len(segs), NEW j \in 1..Len(segs), i < j
  PROVE  segs[i].prev_segment_head # segs[j].prev_segment_head
<1>1. Len(segs) \in Nat
  BY SoundFacts
<1>2. j - 1 \in 1..Len(segs) /\ j # 1
  BY <1>1
<1>3. ASSUME NEW k \in 1..Len(segs)
      PROVE  /\ segs[k].head_hash # GenesisPrev
             /\ segs[k].head_hash.seq = segs[k].last_seq
  <2> DEFINE lines == segs[k].file_sha256
             last == lines[Len(lines)]
  <2>1. SoundSegment(segs[k])
    BY DEF SoundSegments
  <2>2. Len(lines) \in 1..Len(lines) /\ last.seq = segs[k].last_seq
    BY <2>1, SegmentFacts
  <2>3. HashMatches(NoKey, last) /\ segs[k].head_hash = last.hash
    BY <2>1, <2>2 DEF SoundSegment, ChainVerifies, LineVerifies
  <2> HIDE DEF last
  <2>4. last.hash.seq = last.seq /\ last.hash.form \in {"full", "legacy"}
    BY <2>3 DEF HashMatches, Digest, LegacyDigest
  <2> QED
    BY <2>2, <2>3, <2>4 DEF GenesisPrev
<1>4. /\ segs[j].prev_segment_head = segs[j - 1].head_hash
      /\ segs[i].prev_segment_head = IF i = 1 THEN GenesisPrev ELSE segs[i - 1].head_hash
  BY <1>2 DEF SoundSegments
<1>5. CASE i = 1
  BY <1>2, <1>3, <1>4, <1>5
<1>6. CASE i # 1
  <2>1. i - 1 \in 1..Len(segs) /\ i - 1 < j - 1
    BY <1>1, <1>6
  <2>2. segs[i - 1].last_seq < segs[j - 1].last_seq
        /\ segs[i - 1].last_seq \in Nat /\ segs[j - 1].last_seq \in Nat
    BY <1>2, <2>1, SoundFacts
  <2> QED
    BY <1>2, <1>3, <1>4, <1>6, <2>1, <2>2
<1> QED
  BY <1>5, <1>6

LEMMA DescribedLinks ==
  ASSUME NEW w, NEW log, Alone(w, log), HasEntries(log)
  PROVE  SegmentsLink
<1>1. PICK segs : Describes(segs, files, log)
  BY DEF HasEntries
<1>2. SoundSegments(segs, log) /\ Len(segs) \in Nat /\ PlainName(log) /\ Logs = {log}
  BY <1>1, SoundFacts DEF Describes, Alone
<1>3. ASSUME NEW name \in DOMAIN files, Lines(name) # <<>>
      PROVE  \E i \in 1..Len(segs) : name = segs[i].path
  <2>1. CASE name = log
    <3>1. EndsOpen(segs) /\ segs # <<>>
      BY <1>1, <1>3, <2>1 DEF Describes, Lines, Exists, LinesIn, EndsOpen
    <3>2. Len(segs) \in 1..Len(segs)
      BY <1>2, <3>1, SoundFacts
    <3>3. segs[Len(segs)].path = log
      BY <1>1, <1>3, <2>1, LogContinues DEF Lines, Exists, LinesIn
    <3> QED
      BY <2>1, <3>2, <3>3
  <2>2. CASE name # log
    BY <1>1, <2>2 DEF Describes
  <2> QED
    BY <2>1, <2>2
<1>4. ASSUME NEW i \in 1..Len(segs)
      PROVE  /\ segs[i].path \in DOMAIN files
             /\ files[segs[i].path][1].prev_hash = segs[i].prev_segment_head
             /\ Len(files[segs[i].path]) \in 1..Len(files[segs[i].path])
             /\ files[segs[i].path][Len(files[segs[i].path])].hash = segs[i].head_hash
  <2>1. SoundSegment(segs[i])
    BY <1>2 DEF SoundSegments
  <2>2. segs[i].path \in DOMAIN files /\ files[segs[i].path] = segs[i].file_sha256
    BY <1>1 DEF Describes
  <2> QED
    BY <2>1, <2>2, SegmentFacts DEF SoundSegment
<1>5. ASSUME NEW a \in DOMAIN files, Lines(a) # <<>>, NEW b \in DOMAIN files, Lines(b) # <<>>,
             files[a][1].prev_hash = files[b][1].prev_hash
      PROVE  a = b
  <2>1. PICK i \in 1..Len(segs) : a = segs[i].path
    BY <1>3, <1>5
  <2>2. PICK j \in 1..Len(segs) : b = segs[j].path
    BY <1>3, <1>5
  <2>3. segs[i].prev_segment_head = segs[j].prev_segment_head
    BY <1>4, <1>5, <2>1, <2>2
  <2>4. ~(i < j) /\ ~(j < i)
    BY <1>2, <2>3, SameStartSameSegment
  <2>5. i = j
    BY <1>2, <2>4
  <2> QED
    BY <2>1, <2>2, <2>5
<1>6. ASSUME NEW a \in DOMAIN files, Lines(a) # <<>>, files[a][1].prev_hash # GenesisPrev
      PROVE  \E b \in Closed : \E k \in 1..Len(files[b]) :
                k = Len(files[b]) /\ files[b][k].hash = files[a][1].prev_hash
  <2>1. PICK i \in 1..Len(segs) : a = segs[i].path
    BY <1>3, <1>6
  <2>2. files[a][1].prev_hash = segs[i].prev_segment_head
    BY <1>4, <2>1
  <2>3. i # 1 /\ segs[i].prev_segment_head = segs[i - 1].head_hash
    BY <1>2, <1>6, <2>2 DEF SoundSegments
  <2>4. PICK j \in 1..Len(segs) : j = i - 1
    BY <1>2, <2>3
  <2>5. segs[j].path # log
    <3>1. ~(EndsOpen(segs) /\ j = Len(segs))
      BY <1>2, <2>4
    <3> QED
      BY <1>2, <3>1, EntryIsClosed
  <2>6. segs[j].path \in Closed
    BY <1>2, <1>4, <2>5 DEF Closed
  <2> QED
    BY <1>4, <2>2, <2>3, <2>4, <2>6
<1> QED
  BY <1>5, <1>6 DEF SegmentsLink

\* The files of a single writer that never crashes link up at every moment,
\* also between the rename of a full log and the manifest that lists it: each
\* starts where another one ends, and no two start at the same record.
THEOREM LoneWriterLinks ==
  ASSUME NEW w, NEW log, Alone(w, log)
  PROVE  Spec => []SegmentsLink
<1>1. Init => SoloInv(w, log)
  BY SoloInit
<1>2. TypeOK /\ SoloInv(w, log) /\ [Next]_vars => SoloInv(w, log)'
  BY SoloStep
<1>3. TypeOK /\ SoloInv(w, log) => SegmentsLink
  BY SoloDescribed, DescribedLinks DEF Alone
<1> QED
  BY <1>1, <1>2, <1>3, TypeCorrect, PTL DEF Spec

-----------------------------------------------------------------------------
(* The order of the closed files is that of the entries.                   *)

\* How many of the entries are of closed segments.
ClosedCount(segs) == IF EndsOpen(segs) THEN Len(segs) - 1 ELSE Len(segs)

LEMMA OrderOfClosed ==
  ASSUME NEW w, NEW log, Alone(w, log), NEW segs, Describes(segs, files, log)
  PROVE  /\ ClosedCount(segs) \in Nat /\ \A i \in 1..ClosedCount(segs) : i \in 1..Len(segs)
         /\ Cardinality(Closed) = ClosedCount(segs)
         /\ ClosedInOrder = [i \in 1..ClosedCount(segs) |-> segs[i].path]
<1> DEFINE m == ClosedCount(segs)
           ref == [i \in 1..m |-> segs[i].path]
<1>1. SoundSegments(segs, log) /\ Len(segs) \in Nat /\ PlainName(log) /\ Logs = {log}
      /\ (segs = <<>> <=> Len(segs) = 0)
  BY SoundFacts DEF Describes, Alone
<1>2. m \in Nat /\ (EndsOpen(segs) => Len(segs) = m + 1) /\ (~EndsOpen(segs) => Len(segs) = m)
  BY <1>1 DEF EndsOpen, ClosedCount
<1> HIDE DEF m
<1>3. ASSUME NEW i \in 1..m
      PROVE  /\ i \in 1..Len(segs) /\ segs[i].status = "closed"
             /\ segs[i].path \in Closed /\ segs[i].path.first = segs[i].first_seq
  <2>1. i \in 1..Len(segs) /\ ~(EndsOpen(segs) /\ i = Len(segs))
    BY <1>2
  <2>2. segs[i].status = "closed" /\ segs[i].path # log /\ segs[i].path \in DOMAIN files
    BY <1>1, <2>1, EntryIsClosed DEF Describes
  <2>3. segs[i].path = IdOf(segs[i])
    BY <1>1, <2>1, <2>2 DEF SoundSegments
  <2> QED
    BY <1>1, <2>1, <2>2, <2>3 DEF Closed, IdOf, SegmentName
<1>4. ASSUME NEW x \in Closed PROVE \E i \in 1..m : segs[i].path = x
  <2>1. x # log /\ x \in DOMAIN files
    BY <1>1 DEF Closed
  <2>2. PICK i \in 1..Len(segs) : x = segs[i].path
    BY <2>1 DEF Describes
  <2>3. ~(EndsOpen(segs) /\ i = Len(segs))
    BY <1>1, <2>1, <2>2 DEF SoundSegments, EndsOpen
  <2>4. i \in 1..m
    BY <1>2, <2>3
  <2> QED
    BY <2>2, <2>4
<1>5. \A i, j \in 1..m : i < j => segs[i].path.first < segs[j].path.first
  BY <1>1, <1>3, SoundFacts
<1>6. \A i \in 1..m : segs[i].path.first \in Nat
  BY <1>1, <1>3, SoundFacts
<1>7. /\ ref \in [1..m -> Closed]
      /\ \A x \in Closed : \E i \in 1..m : ref[i] = x
      /\ \A i \in 1..m : ref[i].first \in Nat
      /\ \A i, j \in 1..m : i < j => ref[i].first < ref[j].first
  BY <1>3, <1>4, <1>5, <1>6
<1> HIDE DEF ref
<1>8. Cardinality(Closed) = m /\ ClosedInOrder = ref
  <2>1. /\ Cardinality(Closed) = m /\ FirstsAscend(ref)
        /\ \A order \in [1..m -> Closed] : FirstsAscend(order) => order = ref
    BY <1>2, <1>7, OnlyOrder
  <2>2. ClosedInOrder = CHOOSE order \in [1..m -> Closed] : FirstsAscend(order)
    BY <2>1 DEF ClosedInOrder, FirstsAscend
  <2> QED
    BY <1>7, <2>1, <2>2
<1> QED
  BY <1>2, <1>3, <1>8 DEF m, ref

-----------------------------------------------------------------------------
(* The trail and the entries.                                              *)

\* The lines of the closed segments, one log each.
ClosedParts(segs) == [i \in 1..ClosedCount(segs) |-> segs[i].file_sha256]

TrailOf(segs, lines) == FlattenSeq(ClosedParts(segs)) \o lines

TrailFits(log) == \A segs : Describes(segs, files, log)
                              => Trail = TrailOf(segs, LinesIn(files, log))

LEMMA PartsAreLogs ==
  ASSUME NEW segs, NEW log, SoundSegments(segs, log)
  PROVE  /\ AreLogs(ClosedParts(segs)) /\ Len(ClosedParts(segs)) = ClosedCount(segs)
         /\ ClosedCount(segs) \in Nat
         /\ \A i \in 1..ClosedCount(segs) : ClosedParts(segs)[i] = segs[i].file_sha256
<1>1. Len(segs) \in Nat /\ (segs = <<>> <=> Len(segs) = 0)
  BY SoundFacts
<1>2. /\ ClosedCount(segs) \in Nat
      /\ \A i \in 1..ClosedCount(segs) : i \in 1..Len(segs)
  BY <1>1 DEF ClosedCount, EndsOpen
<1> DEFINE m == ClosedCount(segs)
           parts == ClosedParts(segs)
           S == {segs[i].file_sha256 : i \in 1..m}
<1> HIDE DEF m
<1>3. parts = [i \in 1..m |-> segs[i].file_sha256]
  BY DEF ClosedParts, m
<1>4. parts \in Seq(S) /\ Len(parts) = m
  BY <1>2, <1>3 DEF m
<1>5. IsLog(parts)
  BY <1>4, SeqIsLog
<1>6. \A i \in 1..m : IsLog(segs[i].file_sha256)
  BY <1>2 DEF SoundSegments, SoundSegment, m
<1> HIDE DEF parts
<1> QED
  BY <1>2, <1>3, <1>4, <1>5, <1>6 DEF AreLogs, m, parts

LEMMA TrailIsOf ==
  ASSUME NEW w, NEW log, Alone(w, log)
  PROVE  TrailFits(log)
<1> SUFFICES ASSUME NEW segs, Describes(segs, files, log)
             PROVE  Trail = TrailOf(segs, LinesIn(files, log))
  BY DEF TrailFits
<1> DEFINE m == ClosedCount(segs)
<1>1. SoundSegments(segs, log) /\ Logs = {log}
  BY DEF Describes, Alone
<1>2. /\ m \in Nat /\ \A i \in 1..m : i \in 1..Len(segs)
      /\ Cardinality(Closed) = m
      /\ ClosedInOrder = [i \in 1..m |-> segs[i].path]
  BY OrderOfClosed
<1> HIDE DEF m
<1>3. (CHOOSE l \in Logs : TRUE) = log
  BY <1>1
<1>4. ASSUME NEW i \in 1..m
      PROVE  Whole(files[ClosedInOrder[i]]) = segs[i].file_sha256
  <2> DEFINE lines == segs[i].file_sha256
  <2>1. i \in 1..Len(segs) /\ ClosedInOrder[i] = segs[i].path
    BY <1>2
  <2>2. SoundSegment(segs[i]) /\ files[segs[i].path] = lines
    BY <1>1, <2>1 DEF Describes, SoundSegments
  <2>3. IsLog(lines) /\ Len(lines) \in 1..Len(lines) /\ lines[Len(lines)].kind = "envelope"
    BY <2>2, SegmentFacts DEF SoundSegment
  <2>4. Whole(lines) = lines
    BY <2>3, WholeFacts
  <2> QED
    BY <2>1, <2>2, <2>4
<1>5. [i \in 1..m |-> Whole(files[ClosedInOrder[i]])] = ClosedParts(segs)
  BY <1>4 DEF ClosedParts, m
<1>6. Whole(LinesIn(files, log)) = LinesIn(files, log)
  <2> DEFINE lines == LinesIn(files, log)
  <2>1. Continues(lines, StartOf(segs))
    BY LogContinues
  <2>2. Len(lines) \in Nat /\ (lines = <<>> <=> Len(lines) = 0)
    BY <2>1, LogFacts DEF Continues
  <2>3. lines = <<>> \/ lines[Len(lines)].kind = "envelope"
    BY <2>1, <2>2 DEF Continues
  <2> QED
    BY <2>1, <2>3, WholeFacts DEF Continues
<1>7. Lines(log) = LinesIn(files, log)
  BY DEF Lines, Exists, LinesIn
<1> QED
  BY <1>2, <1>3, <1>5, <1>6, <1>7 DEF Trail, TrailOf

\* Entries of the same files go on at the same place.
LEMMA SameNextStart ==
  ASSUME NEW dir, NEW log, PlainName(log),
         NEW a, Describes(a, dir, log), NEW b, Describes(b, dir, log)
  PROVE  NextStart(a) = NextStart(b)
<1> DEFINE lines == LinesIn(dir, log)
<1>1. CASE lines # <<>>
  <2>1. a # <<>> /\ b # <<>>
    BY <1>1 DEF Describes, EndsOpen
  <2>2. /\ a[Len(a)].last_seq = b[Len(b)].last_seq
        /\ a[Len(a)].head_hash = b[Len(b)].head_hash
    BY <1>1, LogContinues
  <2> QED
    BY <2>1, <2>2 DEF NextStart
<1>2. CASE lines = <<>>
  <2>1. ASSUME NEW x, Describes(x, dir, log), NEW y, Describes(y, dir, log), x # <<>>
        PROVE  /\ Len(x) \in 1..Len(x)
               /\ \E j \in 1..Len(y) : /\ y[j].last_seq = x[Len(x)].last_seq
                                       /\ y[j].head_hash = x[Len(x)].head_hash
    <3>1. /\ SoundSegments(x, log) /\ ~EndsOpen(x)
          /\ SoundSegments(y, log) /\ ~EndsOpen(y)
      BY <1>2, <2>1 DEF Describes
    <3>2. Len(x) \in Nat /\ Len(x) # 0
      BY <2>1, <3>1, SoundFacts
    <3>3. Len(x) \in 1..Len(x)
      BY <3>2
    <3>4. x[Len(x)].path # log /\ x[Len(x)].path = IdOf(x[Len(x)])
      BY <3>1, <3>3, EntryIsClosed DEF SoundSegments
    <3>5. PICK j \in 1..Len(y) : x[Len(x)].path = y[j].path
      BY <2>1, <3>3, <3>4 DEF Describes
    <3>6. y[j].path = IdOf(y[j])
      BY <3>1, EntryIsClosed DEF SoundSegments
    <3> QED
      BY <3>3, <3>4, <3>5, <3>6 DEF IdOf, SegmentName
  <2>2. CASE a = <<>>
    <3>1. Len(a) = 0 /\ 1..0 = {}
      BY <2>2, SoundFacts DEF Describes
    <3>2. b = <<>>
      BY <2>1, <3>1
    <3> QED
      BY <2>2, <3>2
  <2>3. CASE b = <<>>
    <3>1. Len(b) = 0 /\ 1..0 = {}
      BY <2>3, SoundFacts DEF Describes
    <3>2. a = <<>>
      BY <2>1, <3>1
    <3> QED
      BY <2>3, <3>2
  <2>4. CASE a # <<>> /\ b # <<>>
    <3> DEFINE n == Len(a)
               m == Len(b)
    <3>0. SoundSegments(a, log) /\ SoundSegments(b, log)
      BY DEF Describes
    <3>1. PICK j \in 1..m : b[j].last_seq = a[n].last_seq /\ b[j].head_hash = a[n].head_hash
      BY <2>1, <2>4
    <3>2. PICK i \in 1..n : a[i].last_seq = b[m].last_seq /\ a[i].head_hash = b[m].head_hash
      BY <2>1, <2>4
    <3>3. n \in 1..n /\ m \in 1..m /\ n \in Nat /\ m \in Nat
      BY <2>1, <2>4, <3>0, SoundFacts
    <3> HIDE DEF n, m
    <3>4. /\ \A k \in 1..n : a[k].last_seq \in Nat
          /\ \A k \in 1..m : b[k].last_seq \in Nat
          /\ i < n => a[i].last_seq < a[n].last_seq
          /\ j < m => b[j].last_seq < b[m].last_seq
      BY <3>0, <3>3, SoundFacts DEF n, m
    <3>5. j = m
      <4>1. a[i].last_seq <= a[n].last_seq
        BY <3>3, <3>4
      <4>2. ~(j < m)
        BY <3>1, <3>2, <3>3, <3>4, <4>1
      <4> QED
        BY <3>3, <4>2
    <3> QED
      BY <2>4, <3>1, <3>5 DEF NextStart, n, m
  <2> QED
    BY <2>2, <2>3, <2>4
<1> QED
  BY <1>1, <1>2

-----------------------------------------------------------------------------
(* What a step of the lone writer does to the trail.                       *)

\* The records of the directory go on where the entries say.
Positioned(log) ==
    \E segs : /\ Describes(segs, files, log) /\ IsLog(Trail)
              /\ Len(Trail) = NextStart(segs).seq
              /\ NextPrev(Trail, GenesisPrev) = NextStart(segs).prev

LEMMA TrailRests ==
  ASSUME NEW log, TrailFits(log), TrailFits(log)', Positioned(log), files' = files
  PROVE  Trail' = Trail /\ Positioned(log)'
<1>1. PICK segs : /\ Describes(segs, files, log) /\ IsLog(Trail)
                  /\ Len(Trail) = NextStart(segs).seq
                  /\ NextPrev(Trail, GenesisPrev) = NextStart(segs).prev
  BY DEF Positioned
<1>2. Trail = TrailOf(segs, LinesIn(files, log)) /\ Trail' = TrailOf(segs, LinesIn(files', log))
  BY <1>1 DEF TrailFits
<1>3. Trail' = Trail
  BY <1>2
<1> QED
  BY <1>1, <1>3 DEF Positioned

LEMMA TrailAtOpen ==
  ASSUME NEW w \in Writers, NEW log, LogOf[w] = log, PlainName(log),
         SoloInv(w, log), TrailFits(log), TrailFits(log)', Positioned(log), OpenLog(w)
  PROVE  Trail' = Trail /\ Positioned(log)'
<1>1. PICK segs : /\ Describes(segs, files, log) /\ IsLog(Trail)
                  /\ Len(Trail) = NextStart(segs).seq
                  /\ NextPrev(Trail, GenesisPrev) = NextStart(segs).prev
  BY DEF Positioned
<1>2. /\ DOMAIN files' = DOMAIN files \union {log}
      /\ \A name \in DOMAIN files' : files'[name] = LinesIn(files, name)
  BY DEF OpenLog, Lines, Exists, LinesIn
<1>3. Describes(segs, files', log)
  BY <1>1, <1>2, OpenedDescribed
<1>4. LinesIn(files', log) = LinesIn(files, log)
  BY <1>2 DEF LinesIn
<1>5. Trail' = Trail
  BY <1>1, <1>3, <1>4 DEF TrailFits
<1> QED
  BY <1>1, <1>3, <1>5 DEF Positioned

\* The entries of the manifest give the position, whichever entries do.
LEMMA PositionedAt ==
  ASSUME NEW log, PlainName(log), Positioned(log), NEW segs, Describes(segs, files, log)
  PROVE  /\ IsLog(Trail) /\ Len(Trail) = NextStart(segs).seq
         /\ NextPrev(Trail, GenesisPrev) = NextStart(segs).prev
BY SameNextStart DEF Positioned

LEMMA EmptyBehind ==
  ASSUME NEW a, IsLog(a)
  PROVE  a \o <<>> = a
<1> DEFINE S == Elements(a)
<1>1. a \in Seq(S)
  BY DEF IsLog
<1> HIDE DEF S
<1> QED
  BY <1>1, ConcatEmptySeq

LEMMA AppendBehind ==
  ASSUME NEW a, IsLog(a), NEW b, IsLog(b), NEW x
  PROVE  a \o Append(b, x) = Append(a \o b, x)
<1> DEFINE m == Len(a)
           n == Len(b)
           left == a \o Append(b, x)
           right == Append(a \o b, x)
<1>1. m \in Nat /\ n \in Nat
  BY LogFacts
<1>2. /\ IsLog(Append(b, x)) /\ Len(Append(b, x)) = n + 1
      /\ \A i \in 1..n : Append(b, x)[i] = b[i]
      /\ Append(b, x)[n + 1] = x
  BY AppendLog
<1>3. /\ IsLog(a \o b) /\ Len(a \o b) = m + n
      /\ \A i \in 1..m : (a \o b)[i] = a[i]
      /\ \A i \in 1..n : (a \o b)[m + i] = b[i]
  BY JoinedLogs
<1>4. /\ IsLog(left) /\ Len(left) = m + (n + 1)
      /\ \A i \in 1..m : left[i] = a[i]
      /\ \A i \in 1..(n + 1) : left[m + i] = Append(b, x)[i]
  BY <1>2, JoinedLogs
<1>5. /\ IsLog(right) /\ Len(right) = m + n + 1
      /\ \A i \in 1..(m + n) : right[i] = (a \o b)[i]
      /\ right[m + n + 1] = x
  BY <1>3, AppendLog
<1> HIDE DEF m, n, left, right
<1>6. ASSUME NEW i \in 1..(m + n + 1) PROVE left[i] = right[i]
  <2>1. CASE i \in 1..m
    <3>1. i \in 1..(m + n)
      BY <1>1, <2>1
    <3> QED
      BY <1>3, <1>4, <1>5, <2>1, <3>1
  <2>2. CASE i = m + n + 1
    <3>1. n + 1 \in 1..(n + 1) /\ m + (n + 1) = m + n + 1
      BY <1>1
    <3>2. left[m + (n + 1)] = x
      BY <1>2, <1>4, <3>1
    <3> QED
      BY <1>5, <2>2, <3>1, <3>2
  <2>3. CASE i \notin 1..m /\ i # m + n + 1
    <3>1. PICK j \in 1..n : i = m + j
      <4>1. i - m \in 1..n /\ i = m + (i - m)
        BY <1>1, <2>3
      <4> QED
        BY <4>1
    <3>2. i \in 1..(m + n) /\ j \in 1..(n + 1)
      BY <1>1, <3>1
    <3>3. left[i] = b[j]
      BY <1>2, <1>4, <3>1, <3>2
    <3>4. right[i] = b[j]
      BY <1>3, <1>5, <3>1, <3>2
    <3> QED
      BY <3>3, <3>4
  <2> QED
    BY <2>1, <2>2, <2>3
<1>7. Len(left) = Len(right) /\ Len(left) = m + n + 1
  BY <1>1, <1>4, <1>5
<1> QED
  BY <1>4, <1>5, <1>6, <1>7, SameLog DEF left, right

LEMMA TrailAtRename ==
  ASSUME NEW w \in Writers, NEW log, LogOf[w] = log, PlainName(log),
         SoloInv(w, log), TrailFits(log), TrailFits(log)', Positioned(log), RotateReplace(w)
  PROVE  Trail' = Trail /\ Positioned(log)'
<1> DEFINE segs == LoadedSegments
           closed == IdOf(writer[w].seg)
           lines == LinesIn(files, log)
           seg == FileSegment(closed, lines, "closed")
           succ == Succ(segs, seg)
           m == ClosedCount(segs)
<1>1. /\ Describes(segs, files, log) /\ lines # <<>>
      /\ CatchesUp(segs, seg, files', log)
      /\ LinesIn(files', log) = <<>>
  BY SoloRenames
<1>2. /\ Describes(succ, files', log)
      /\ SoundSegments(segs, log) /\ SoundSegments(succ, log)
      /\ EndsOpen(segs) /\ ~EndsOpen(succ)
  <2> HIDE DEF seg, lines
  <2>1. Describes(succ, files', log) /\ SoundSegments(segs, log)
    BY <1>1 DEF CatchesUp
  <2> HIDE DEF succ
  <2> QED
    BY <1>1, <2>1 DEF Describes, lines
<1>3. /\ Len(segs) = m + 1 /\ m \in Nat
      /\ succ # <<>> /\ Len(succ) = m + 1
      /\ \A i \in 1..m : succ[i] = segs[i]
      /\ succ[m + 1] = seg
  <2> HIDE DEF seg, segs
  <2> QED
    BY <1>2, SuccFacts DEF SoundSegments, ClosedCount
<1>4. /\ seg.file_sha256 = lines
      /\ seg.last_seq = lines[Len(lines)].seq /\ seg.head_hash = lines[Len(lines)].hash
  BY DEF FileSegment
<1>5. /\ IsLog(lines)
      /\ segs[Len(segs)].last_seq = lines[Len(lines)].seq
      /\ segs[Len(segs)].head_hash = lines[Len(lines)].hash
  BY <1>1, LogContinues DEF Continues
<1> HIDE DEF segs, closed, lines, seg, succ, m
<1>6. ClosedCount(succ) = m + 1
  BY <1>2, <1>3 DEF ClosedCount
<1>7. ClosedParts(succ) = Append(ClosedParts(segs), lines)
  <2> DEFINE old == ClosedParts(segs)
             new == ClosedParts(succ)
  <2>1. /\ IsLog(old) /\ Len(old) = m /\ \A i \in 1..m : old[i] = segs[i].file_sha256
    BY <1>2, PartsAreLogs DEF AreLogs, m
  <2>2. /\ IsLog(new) /\ Len(new) = m + 1
        /\ \A i \in 1..(m + 1) : new[i] = succ[i].file_sha256
    BY <1>2, <1>6, PartsAreLogs DEF AreLogs
  <2> HIDE DEF old, new
  <2>3. /\ IsLog(Append(old, lines)) /\ Len(Append(old, lines)) = m + 1
        /\ \A i \in 1..m : Append(old, lines)[i] = old[i]
        /\ Append(old, lines)[m + 1] = lines
    BY <2>1, AppendLog
  <2>4. ASSUME NEW i \in 1..(m + 1) PROVE new[i] = Append(old, lines)[i]
    <3>1. i \in 1..m \/ i = m + 1
      BY <1>3
    <3> QED
      BY <1>3, <1>4, <2>1, <2>2, <2>3, <3>1
  <2> QED
    BY <2>2, <2>3, <2>4, SameLog DEF old, new
<1>8. Trail' = Trail
  <2> DEFINE flat == FlattenSeq(ClosedParts(segs))
  <2>1. Trail = flat \o lines
    BY <1>1 DEF TrailFits, TrailOf, segs, lines
  <2>2. FlattenSeq(ClosedParts(succ)) = flat \o lines
    BY <1>2, <1>5, <1>7, PartsAreLogs, FlattenAppend
  <2>3. IsLog(flat \o lines)
    BY <1>2, <1>5, PartsAreLogs, FlattenIsLog, JoinedLogs
  <2>4. Trail' = FlattenSeq(ClosedParts(succ)) \o <<>>
    BY <1>1, <1>2 DEF TrailFits, TrailOf
  <2> HIDE DEF flat
  <2> QED
    BY <2>1, <2>2, <2>3, <2>4, EmptyBehind
<1>9. NextStart(succ) = NextStart(segs)
  BY <1>2, <1>3, <1>4, <1>5 DEF NextStart, EndsOpen
<1>10. /\ IsLog(Trail) /\ Len(Trail) = NextStart(segs).seq
       /\ NextPrev(Trail, GenesisPrev) = NextStart(segs).prev
  BY <1>1, PositionedAt DEF segs
<1> QED
  BY <1>2, <1>8, <1>9, <1>10 DEF Positioned

LEMMA TrailAtWrite ==
  ASSUME NEW w \in Writers, NEW log, LogOf[w] = log, PlainName(log),
         SoloInv(w, log), TrailFits(log), TrailFits(log)', Positioned(log), WriteRecord(w)
  PROVE  /\ Trail' = Append(Trail, writer[w].rec) /\ Positioned(log)'
         /\ \E payload : writer[w].rec = MakeEnvelope(NoKey, Len(Trail),
                                            NextPrev(Trail, GenesisPrev), payload, NoStamp)
<1> DEFINE segs == LoadedSegments
           old == LinesIn(files, log)
           lines == LinesIn(files', log)
           rec == writer[w].rec
           seg == FileSegment(log, lines, "open")
           succ == Succ(segs, seg)
           m == ClosedCount(segs)
<1>1. /\ Describes(segs, files, log) /\ lines # <<>>
      /\ CatchesUp(segs, seg, files', log)
      /\ lines = Extend(old, rec)
      /\ \E payload : rec =
            MakeEnvelope(NoKey, NextStart(segs).seq, NextStart(segs).prev, payload, NoStamp)
  BY SoloWrites
<1>2. /\ Describes(succ, files', log)
      /\ SoundSegments(segs, log) /\ SoundSegments(succ, log) /\ EndsOpen(succ)
  <2> HIDE DEF seg, lines
  <2>1. Describes(succ, files', log) /\ SoundSegments(segs, log)
    BY <1>1 DEF CatchesUp
  <2> HIDE DEF succ
  <2> QED
    BY <1>1, <2>1 DEF Describes, lines
<1>3. /\ m \in Nat
      /\ succ # <<>> /\ Len(succ) = m + 1
      /\ \A i \in 1..m : succ[i] = segs[i]
      /\ succ[m + 1] = seg
  <2> HIDE DEF seg, segs
  <2> QED
    BY <1>2, SuccFacts DEF SoundSegments, ClosedCount
<1>4. /\ seg.last_seq = lines[Len(lines)].seq /\ seg.head_hash = lines[Len(lines)].hash
  BY DEF FileSegment
<1>5. /\ IsLog(old) /\ (old = <<>> \/ old[Len(old)].kind = "envelope")
  <2>1. Continues(old, StartOf(segs))
    BY <1>1, LogContinues
  <2>2. Len(old) \in Nat /\ (old = <<>> <=> Len(old) = 0)
    BY <2>1, LogFacts DEF Continues
  <2> HIDE DEF old
  <2> QED
    BY <2>1, <2>2 DEF Continues
<1>6. /\ IsLog(Trail) /\ Len(Trail) = NextStart(segs).seq
      /\ NextPrev(Trail, GenesisPrev) = NextStart(segs).prev
  BY <1>1, PositionedAt
<1> HIDE DEF segs, lines, seg, succ, m, old, rec
<1>7. /\ lines = Append(old, rec) /\ Len(lines) = Len(old) + 1
      /\ lines[Len(old) + 1] = rec
  BY <1>1, <1>5, AppendLog DEF Extend
<1>8. ClosedParts(succ) = ClosedParts(segs)
  <2>1. ClosedCount(succ) = m
    BY <1>2, <1>3 DEF ClosedCount
  <2> QED
    BY <1>3, <2>1 DEF ClosedParts, m
<1>9. Trail' = Append(Trail, rec)
  <2> DEFINE flat == FlattenSeq(ClosedParts(segs))
  <2>1. Trail = flat \o old
    BY <1>1 DEF TrailFits, TrailOf, segs, old
  <2>2. Trail' = flat \o lines
    BY <1>2, <1>8 DEF TrailFits, TrailOf, lines
  <2>3. IsLog(flat)
    BY <1>2, PartsAreLogs, FlattenIsLog
  <2> HIDE DEF flat
  <2> QED
    BY <1>5, <1>7, <2>1, <2>2, <2>3, AppendBehind
<1>10. /\ IsLog(Trail') /\ Len(Trail') = Len(Trail) + 1 /\ Trail' # <<>>
       /\ Trail'[Len(Trail) + 1] = rec
  BY <1>6, <1>9, AppendLog
<1>11. rec.seq = NextStart(segs).seq /\ \E payload : rec =
          MakeEnvelope(NoKey, NextStart(segs).seq, NextStart(segs).prev, payload, NoStamp)
  BY <1>1 DEF MakeEnvelope
<1>12. NextStart(succ) = Start(rec.seq + 1, rec.hash)
  BY <1>3, <1>4, <1>7 DEF NextStart
<1>13. /\ Len(Trail') = NextStart(succ).seq
       /\ NextPrev(Trail', GenesisPrev) = NextStart(succ).prev
  BY <1>6, <1>10, <1>11, <1>12 DEF NextPrev, Start
<1> QED
  BY <1>2, <1>6, <1>9, <1>10, <1>11, <1>13 DEF Positioned, rec

-----------------------------------------------------------------------------
(* The call a lone writer serves, and the record it writes.                *)

ManifestPC == {"manifest_load", "manifest_open", "manifest_write", "manifest_replace"}

\* The call has not written its record yet; the writer may be rotating.
Pending(s) == /\ s.call # 0
              /\ \/ s.pc \in BeforePC
                 \/ s.pc \in {"rotate_read", "rotate_hash", "rotate_check", "rotate_replace"}
                 \/ s.pc \in ManifestPC /\ s.seg.status # "open"

\* The call has written its record and not returned it.
Logged(s) == \/ s.pc \in {"record_read", "record_hash"}
             \/ s.pc \in ManifestPC /\ s.seg.status = "open"

\* The writer s, the records of the directory, those returned, and the number
\* of calls so far.
LoneCall(s, records, returned, n) ==
    /\ s.pc = "idle" => s.call = 0
    /\ s.pc \in BeforePC => s.call # 0
    /\ s.pc = "write_record" => s.rec.payload = s.call
    /\ Pending(s) => /\ s.call \in 1..n
                     /\ \A i \in 1..Len(records) : records[i].payload # s.call
    /\ Logged(s) => /\ s.rec \notin returned
                    /\ \E i \in 1..Len(records) : records[i] = s.rec
    /\ \A i \in 1..Len(records) : records[i].payload \in 1..n
    /\ \A rec \in returned : \E i \in 1..Len(records) : records[i] = rec

\* From s to t the call ends, or goes on as it was, or builds its record.
Moves(s, t) ==
    \/ t.pc = "idle" /\ t.call = 0
    \/ /\ t.pc \notin {"idle", "write_record"} /\ t.call = s.call /\ t.rec = s.rec
       /\ t.pc \in BeforePC => t.call # 0
       /\ Pending(t) => Pending(s)
       /\ Logged(t) => Logged(s)
    \/ /\ s.pc = "read_tail" /\ t.pc = "write_record"
       /\ t.call = s.call /\ t.rec.payload = s.call

LEMMA MovesKeep ==
  ASSUME NEW s, NEW t, NEW records, NEW returned, NEW n,
         LoneCall(s, records, returned, n), Moves(s, t)
  PROVE  LoneCall(t, records, returned, n)
<1>1. CASE t.pc = "idle" /\ t.call = 0
  BY <1>1 DEF LoneCall, Pending, Logged, BeforePC, ManifestPC
<1>2. CASE /\ t.pc \notin {"idle", "write_record"} /\ t.call = s.call /\ t.rec = s.rec
           /\ t.pc \in BeforePC => t.call # 0
           /\ Pending(t) => Pending(s)
           /\ Logged(t) => Logged(s)
  BY <1>2 DEF LoneCall
<1>3. CASE /\ s.pc = "read_tail" /\ t.pc = "write_record"
           /\ t.call = s.call /\ t.rec.payload = s.call
  BY <1>3 DEF LoneCall, Pending, Logged, BeforePC, ManifestPC
<1> QED
  BY <1>1, <1>2, <1>3 DEF Moves

\* A step that only moves the writer's call on.
OnlyMoves(w) == Moves(writer[w], writer'[w]) /\ UNCHANGED <<appends, acked>>

LEMMA FinishMoves ==
  ASSUME TypeOK, NEW w \in Writers, Finish(w), UNCHANGED <<appends, acked>>
  PROVE  OnlyMoves(w)
<1>1. writer'[w] = IdleWriter
  BY OneCall DEF Finish
<1> QED
  BY <1>1 DEF OnlyMoves, Moves, IdleWriter

LEMMA RotateMoves ==
  ASSUME TypeOK, NEW w \in Writers, NEW log, SoloInv(w, log), NEW records, NEW returned, NEW n,
         LoneCall(writer[w], records, returned, n),
         \/ CallRotate(w) \/ RotateIfNeeded(w) \/ RotateRead(w) \/ RotateHash(w)
         \/ RotateCheck(w)
  PROVE  OnlyMoves(w)
<1> DEFINE s == writer[w]
<1>0. WriterTyped(s) /\ (s.pc = "idle" => s.call = 0) /\ (s.pc \in BeforePC => s.call # 0)
      /\ UNCHANGED <<appends, acked>>
  BY WriterFacts
     DEF LoneCall, CallRotate, RotateIfNeeded, RotateRead, RotateHash, HashFile, RotateCheck,
         counters
<1>1. CASE Finish(w)
  BY <1>0, <1>1, FinishMoves
<1>2. ASSUME NEW pc, Goto(w, pc), s.pc = "idle" \/ s.pc \in BeforePC \/ pc = "rotate_replace",
             pc \in {"rotate_read", "chain_start", "rotate_replace"},
             pc = "chain_start" => s.pc \in BeforePC,
             pc = "rotate_replace" => s.pc = "rotate_check"
      PROVE  OnlyMoves(w)
  BY <1>0, <1>2, GotoCall
     DEF OnlyMoves, Moves, Pending, Logged, BeforePC, ManifestPC
<1>3. CASE CallRotate(w)
  BY <1>2, <1>3 DEF CallRotate, At
<1>4. CASE RotateIfNeeded(w)
  BY <1>1, <1>2, <1>4 DEF RotateIfNeeded, At, BeforePC
<1>5. CASE RotateRead(w) /\ ~Finish(w)
  <2>1. CASE AfterRotate(w)
    <3>1. s.call # 0 /\ s.pc = "rotate_read"
      BY <1>5, <2>1 DEF AfterRotate, RotateRead, At
    <3>2. PICK t : t = [s EXCEPT !.pc = "chain_start", !.seg = NoSegment, !.segs = <<>>]
      OBVIOUS
    <3>3. t.pc = "chain_start" /\ t.call = s.call /\ t.rec = s.rec
      BY <1>0, <3>2 DEF WriterTyped
    <3>4. writer' = [writer EXCEPT ![w] = t]
      BY <2>1, <3>1, <3>2 DEF AfterRotate
    <3>5. writer'[w] = t
      BY <3>4, OneCall
    <3> QED
      BY <1>0, <3>1, <3>3, <3>5
         DEF OnlyMoves, Moves, Pending, Logged, BeforePC, ManifestPC
  <2>2. CASE ~AfterRotate(w)
    <3>1. PICK seg : s.pc = "rotate_read"
                     /\ writer' = [writer EXCEPT ![w].pc = "rotate_hash", ![w].seg = seg]
      BY <1>5, <2>2 DEF RotateRead, At
    <3>2. PICK t : t = [s EXCEPT !.pc = "rotate_hash", !.seg = seg]
      OBVIOUS
    <3>3. t.pc = "rotate_hash" /\ t.call = s.call /\ t.rec = s.rec
      BY <1>0, <3>2 DEF WriterTyped
    <3>4. writer' = [writer EXCEPT ![w] = t]
      BY <3>1, <3>2
    <3>5. writer'[w] = t
      BY <3>4, OneCall
    <3> QED
      BY <1>0, <3>1, <3>3, <3>5
         DEF OnlyMoves, Moves, Pending, Logged, BeforePC, ManifestPC
  <2> QED
    BY <2>1, <2>2
<1>6. CASE RotateHash(w) /\ ~Finish(w)
  <2>1. PICK hash : s.pc = "rotate_hash" /\ writer' = [writer EXCEPT
                        ![w].pc = "rotate_check", ![w].seg.file_sha256 = hash]
    BY <1>6 DEF RotateHash, HashFile, At
  <2>2. PICK t : t = [s EXCEPT !.pc = "rotate_check",
                                !.seg = [s.seg EXCEPT !.file_sha256 = hash]]
    OBVIOUS
  <2>3. t.pc = "rotate_check" /\ t.call = s.call /\ t.rec = s.rec
    BY <1>0, <2>2 DEF WriterTyped
  <2>4. writer' = [writer EXCEPT ![w] = t]
    BY <1>0, <2>1, <2>2 DEF WriterTyped
  <2>5. writer'[w] = t
    BY <2>4, OneCall
  <2> QED
    BY <1>0, <2>1, <2>3, <2>5
       DEF OnlyMoves, Moves, Pending, Logged, BeforePC, ManifestPC
<1>7. CASE RotateCheck(w)
  BY <1>1, <1>2, <1>7 DEF RotateCheck, At
<1> QED
  BY <1>1, <1>3, <1>4, <1>5, <1>6, <1>7

LEMMA RenameMoves ==
  ASSUME TypeOK, NEW w \in Writers, NEW log, LogOf[w] = log, SoloInv(w, log), RotateReplace(w)
  PROVE  OnlyMoves(w)
<1> DEFINE s == writer[w]
           closed == IdOf(writer[w].seg)
           moved(fd) == IF fd = closed THEN Unlinked
                        ELSE IF fd = log THEN closed ELSE fd
<1>0. /\ WriterTyped(s) /\ s.pc = "rotate_replace" /\ s.pc \in RestPC
      /\ UNCHANGED <<appends, acked>>
  BY WriterFacts DEF RotateReplace, At, RestPC, counters
<1>1. Exists(log) /\ s.seg = FileSegment(log, LinesIn(files, log), "closed")
  BY <1>0 DEF SoloInv, Consistent, LinesIn, Exists
<1> HIDE DEF closed
<1>2. writer' = [v \in Writers |->
            IF v = w THEN [writer[w] EXCEPT !.pc = "manifest_load",
                                            !.seg.path = closed,
                                            !.fd = moved(@)]
            ELSE [writer[v] EXCEPT !.fd = moved(@)]]
  BY <1>1 DEF RotateReplace, closed
<1>3. PICK t : t = [s EXCEPT !.pc = "manifest_load",
                         !.seg = [s.seg EXCEPT !.path = closed], !.fd = moved(s.fd)]
  OBVIOUS
<1> HIDE DEF moved
<1>4. t.pc = "manifest_load" /\ t.call = s.call /\ t.rec = s.rec
      /\ t.seg = [s.seg EXCEPT !.path = closed]
  BY <1>0, <1>3 DEF WriterTyped
<1>5. t.seg.status = "closed"
  BY <1>1, <1>4 DEF FileSegment
<1>6. writer'[w] = t
  BY <1>0, <1>2, <1>3 DEF WriterTyped
<1> QED
  BY <1>0, <1>4, <1>5, <1>6
     DEF OnlyMoves, Moves, Pending, Logged, BeforePC, ManifestPC

LEMMA AppendMoves ==
  ASSUME TypeOK, NEW w \in Writers, NEW records, NEW returned, NEW n,
         LoneCall(writer[w], records, returned, n),
         ChainStart(w) \/ OpenLog(w) \/ LockLog(w) \/ ReadTail(w)
  PROVE  OnlyMoves(w)
<1> DEFINE s == writer[w]
<1>0. /\ WriterTyped(s) /\ s.pc \in BeforePC /\ s.call # 0
      /\ UNCHANGED <<appends, acked>>
  BY WriterFacts
     DEF LoneCall, ChainStart, OpenLog, LockLog, ReadTail, counters, At, BeforePC
<1>1. CASE Finish(w)
  BY <1>0, <1>1, FinishMoves
<1>2. ASSUME NEW t, writer' = [writer EXCEPT ![w] = t], t.pc \in BeforePC \ {"write_record"},
             t.call = s.call, t.rec = s.rec
      PROVE  OnlyMoves(w)
  <2>1. writer'[w] = t
    BY <1>2, OneCall
  <2> QED
    BY <1>0, <1>2, <2>1 DEF OnlyMoves, Moves, Pending, Logged, BeforePC, ManifestPC
<1>3. CASE ChainStart(w) /\ ~Finish(w)
  <2>1. PICK start : writer' = [writer EXCEPT ![w].pc = "open_log", ![w].start = start]
    BY <1>3 DEF ChainStart
  <2>2. PICK t : t = [s EXCEPT !.pc = "open_log", !.start = start]
    OBVIOUS
  <2>3. t.pc = "open_log" /\ t.call = s.call /\ t.rec = s.rec
    BY <1>0, <2>2 DEF WriterTyped
  <2>4. writer' = [writer EXCEPT ![w] = t]
    BY <2>1, <2>2
  <2> QED
    BY <1>2, <2>3, <2>4 DEF BeforePC
<1>4. CASE OpenLog(w)
  <2>1. PICK t : t = [s EXCEPT !.pc = "lock_log", !.fd = LogOf[w]]
    OBVIOUS
  <2>2. t.pc = "lock_log" /\ t.call = s.call /\ t.rec = s.rec
    BY <1>0, <2>1 DEF WriterTyped
  <2>3. writer' = [writer EXCEPT ![w] = t]
    BY <1>4, <2>1 DEF OpenLog
  <2> QED
    BY <1>2, <2>2, <2>3 DEF BeforePC
<1>5. CASE LockLog(w)
  <2>1. PICK t : t = [s EXCEPT !.pc = "read_tail"]
    OBVIOUS
  <2>2. t.pc = "read_tail" /\ t.call = s.call /\ t.rec = s.rec
    BY <1>0, <2>1 DEF WriterTyped
  <2>3. writer' = [writer EXCEPT ![w] = t]
    BY <1>5, <2>1 DEF LockLog, Goto
  <2> QED
    BY <1>2, <2>2, <2>3 DEF BeforePC
<1>6. CASE ReadTail(w) /\ ~Finish(w)
  <2>1. PICK seq, prev : writer' = [writer EXCEPT ![w].pc = "write_record",
           ![w].rec = MakeEnvelope(NoKey, seq, prev, s.call, NoStamp)]
    BY <1>6 DEF ReadTail
  <2>2. PICK rec : rec = MakeEnvelope(NoKey, seq, prev, s.call, NoStamp)
    OBVIOUS
  <2>3. rec.payload = s.call
    BY <2>2 DEF MakeEnvelope
  <2>4. PICK t : t = [s EXCEPT !.pc = "write_record", !.rec = rec]
    OBVIOUS
  <2>5. t.pc = "write_record" /\ t.call = s.call /\ t.rec = rec
    BY <1>0, <2>4 DEF WriterTyped
  <2>6. writer' = [writer EXCEPT ![w] = t]
    BY <2>1, <2>2, <2>4
  <2>7. writer'[w] = t
    BY <2>6, OneCall
  <2>8. s.pc = "read_tail"
    BY <1>6 DEF ReadTail, At
  <2> QED
    BY <1>0, <2>3, <2>5, <2>7, <2>8 DEF OnlyMoves, Moves
<1> QED
  BY <1>1, <1>3, <1>4, <1>5, <1>6

LEMMA ManifestMoves ==
  ASSUME TypeOK, NEW w \in Writers, NEW log, SoloInv(w, log),
         \/ RecordRead(w) \/ RecordHash(w) \/ ManifestLoad(w)
         \/ ManifestOpen(w) \/ ManifestWrite(w)
  PROVE  OnlyMoves(w)
<1> DEFINE s == writer[w]
<1>0. WriterTyped(s) /\ UNCHANGED <<appends, acked>>
  BY WriterFacts DEF RecordRead, RecordHash, HashFile, ManifestLoad, ManifestOpen,
                     ManifestWrite, counters
<1>1. CASE Finish(w)
  BY <1>0, <1>1, FinishMoves
<1>2. ASSUME NEW t, writer' = [writer EXCEPT ![w] = t], s.pc \in ManifestPC,
             t.pc \in ManifestPC, t.call = s.call, t.rec = s.rec, t.seg = s.seg
      PROVE  OnlyMoves(w)
  <2>1. writer'[w] = t
    BY <1>2, OneCall
  <2> QED
    BY <1>0, <1>2, <2>1 DEF OnlyMoves, Moves, Pending, Logged, BeforePC, ManifestPC
<1>3. CASE RecordRead(w) /\ ~Finish(w)
  <2>1. PICK seg : s.pc = "record_read"
                   /\ writer' = [writer EXCEPT ![w].pc = "record_hash", ![w].seg = seg]
    BY <1>3 DEF RecordRead, At
  <2>2. PICK t : t = [s EXCEPT !.pc = "record_hash", !.seg = seg]
    OBVIOUS
  <2>3. t.pc = "record_hash" /\ t.call = s.call /\ t.rec = s.rec
    BY <1>0, <2>2 DEF WriterTyped
  <2>4. writer' = [writer EXCEPT ![w] = t]
    BY <2>1, <2>2
  <2>5. writer'[w] = t
    BY <2>4, OneCall
  <2> QED
    BY <1>0, <2>1, <2>3, <2>5 DEF OnlyMoves, Moves, Pending, Logged, BeforePC, ManifestPC
<1>4. CASE RecordHash(w) /\ ~Finish(w)
  <2>1. PICK hash : s.pc = "record_hash" /\ writer' = [writer EXCEPT
                        ![w].pc = "manifest_load", ![w].seg.file_sha256 = hash]
    BY <1>4 DEF RecordHash, HashFile, At
  <2>2. s.seg = SegmentOf(log, LinesIn(files, log), "open")
    BY <2>1 DEF SoloInv, Consistent
  <2>3. PICK t : t = [s EXCEPT !.pc = "manifest_load",
                                !.seg = [s.seg EXCEPT !.file_sha256 = hash]]
    OBVIOUS
  <2>4. t.pc = "manifest_load" /\ t.call = s.call /\ t.rec = s.rec
        /\ t.seg = [s.seg EXCEPT !.file_sha256 = hash]
    BY <1>0, <2>3 DEF WriterTyped
  <2>5. t.seg.status = "open"
    BY <2>2, <2>4 DEF SegmentOf
  <2>6. writer' = [writer EXCEPT ![w] = t]
    BY <1>0, <2>1, <2>3 DEF WriterTyped
  <2>7. writer'[w] = t
    BY <2>6, OneCall
  <2> QED
    BY <1>0, <2>1, <2>4, <2>5, <2>7 DEF OnlyMoves, Moves, Pending, Logged, BeforePC, ManifestPC
<1>5. CASE ManifestLoad(w) /\ ~Finish(w)
  <2>1. PICK segs : writer' = [writer EXCEPT ![w].pc = "manifest_open", ![w].segs = segs]
    BY <1>5 DEF ManifestLoad
  <2>2. PICK t : t = [s EXCEPT !.pc = "manifest_open", !.segs = segs]
    OBVIOUS
  <2>3. t.pc = "manifest_open" /\ t.call = s.call /\ t.rec = s.rec /\ t.seg = s.seg
    BY <1>0, <2>2 DEF WriterTyped
  <2>4. writer' = [writer EXCEPT ![w] = t]
    BY <2>1, <2>2
  <2> QED
    BY <1>2, <1>5, <2>3, <2>4 DEF ManifestLoad, At, ManifestPC
<1>6. CASE ManifestOpen(w)
  <2>1. PICK t : t = [s EXCEPT !.pc = "manifest_write", !.mfd = TmpFd]
    OBVIOUS
  <2>2. t.pc = "manifest_write" /\ t.call = s.call /\ t.rec = s.rec /\ t.seg = s.seg
    BY <1>0, <2>1 DEF WriterTyped
  <2>3. writer' = [writer EXCEPT ![w] = t]
    BY <1>6, <2>1 DEF ManifestOpen
  <2> QED
    BY <1>2, <1>6, <2>2, <2>3 DEF ManifestOpen, At, ManifestPC
<1>7. CASE ManifestWrite(w)
  <2>1. PICK t : t = [s EXCEPT !.pc = "manifest_replace", !.mfd = NoFile]
    OBVIOUS
  <2>2. t.pc = "manifest_replace" /\ t.call = s.call /\ t.rec = s.rec /\ t.seg = s.seg
    BY <1>0, <2>1 DEF WriterTyped
  <2>3. writer' = [writer EXCEPT ![w] = t]
    BY <1>7, <2>1 DEF ManifestWrite
  <2> QED
    BY <1>2, <1>7, <2>2, <2>3 DEF ManifestWrite, At, ManifestPC
<1> QED
  BY <1>1, <1>3, <1>4, <1>5, <1>6, <1>7

\* The manifest is replaced: an open entry was the last step of append(), a
\* closed one that of rotate().
LEMMA ReplaceMoves ==
  ASSUME TypeOK, NEW w \in Writers, NEW log, SoloInv(w, log), ManifestReplace(w)
  PROVE  IF writer[w].seg.status = "open"
         THEN /\ writer'[w].pc = "idle" /\ writer'[w].call = 0
              /\ acked' = acked \union {writer[w].rec} /\ appends' = appends
         ELSE OnlyMoves(w)
<1> DEFINE s == writer[w]
           moved(fd) == IF fd = ManifestFd THEN Unlinked
                        ELSE IF fd = TmpFd THEN ManifestFd ELSE fd
           chain == [s EXCEPT !.pc = "chain_start", !.seg = NoSegment, !.segs = <<>>]
           next == IF s.seg.status = "open" \/ s.call = 0 THEN IdleWriter ELSE chain
<1>0. WriterTyped(s) /\ s.pc = "manifest_replace" /\ appends' = appends
  BY WriterFacts DEF ManifestReplace, At, counters
<1>1. tmp # Absent
  <2>1. tmp = Saved(s.segs)
    BY <1>0 DEF SoloInv, Consistent
  <2>2. tmp.state = "saved"
    BY <2>1 DEF Saved
  <2> QED
    BY <2>2 DEF Absent
<1>2. /\ acked' = IF s.seg.status = "open" THEN acked \union {s.rec} ELSE acked
      /\ writer' = [v \in Writers |->
             IF v = w THEN next ELSE [writer[v] EXCEPT !.mfd = moved(@)]]
  BY <1>1 DEF ManifestReplace
<1>3. writer'[w] = next
  BY <1>2
<1>4. IdleWriter.pc = "idle" /\ IdleWriter.call = 0
  BY DEF IdleWriter
<1>5. CASE s.seg.status = "open" \/ s.call = 0
  BY <1>0, <1>2, <1>3, <1>4, <1>5 DEF OnlyMoves, Moves
<1>6. CASE ~(s.seg.status = "open" \/ s.call = 0)
  <2>1. PICK t : t = chain
    OBVIOUS
  <2>2. t.pc = "chain_start" /\ t.call = s.call /\ t.rec = s.rec
    BY <1>0, <2>1 DEF WriterTyped
  <2>3. writer'[w] = t
    BY <1>3, <1>6, <2>1
  <2> QED
    BY <1>0, <1>2, <1>6, <2>2, <2>3
       DEF OnlyMoves, Moves, Pending, Logged, BeforePC, ManifestPC
<1> QED
  BY <1>5, <1>6

-----------------------------------------------------------------------------
(* The refinement, with a single writer that rotates.                      *)

\* A lone writer's call, over the records of the directory.
CallKept(w) == LoneCall(writer[w], Trail, acked, appends)

LEMMA TrailAtStart ==
  ASSUME NEW w, NEW log, Alone(w, log), TrailFits(log), Init
  PROVE  Positioned(log) /\ CallKept(w) /\ Abstract!Init
<1>1. /\ \E touched \in SUBSET Logs : files = [name \in touched |-> <<>>]
      /\ manifest = Absent /\ writer = [v \in Writers |-> IdleWriter] /\ acked = {}
  BY DEF Init
<1>2. writer[w].pc = "idle" /\ writer[w].call = 0
  BY <1>1 DEF Alone, IdleWriter
<1>3. DOMAIN files \subseteq {log} /\ LinesIn(files, log) = <<>>
  BY <1>1 DEF Alone, LinesIn
<1>4. IsLog(<<>>) /\ Len(<<>>) = 0
  BY EmptyIsLog, LogFacts
<1>5. Describes(<<>>, files, log)
  BY <1>3, <1>4 DEF Describes, SoundSegments, EndsOpen
<1>6. Trail = <<>>
  <2>1. ClosedCount(<<>>) = 0
    BY <1>4 DEF ClosedCount, EndsOpen
  <2>2. AreLogs(ClosedParts(<<>>)) /\ Len(ClosedParts(<<>>)) = 0
    BY <1>5, <2>1, PartsAreLogs DEF Describes
  <2>3. ClosedParts(<<>>) = <<>>
    BY <2>2, LogFacts DEF AreLogs
  <2>4. FlattenSeq(<<>>) = <<>>
    BY DEF FlattenSeq
  <2>5. Trail = FlattenSeq(ClosedParts(<<>>)) \o <<>>
    BY <1>3, <1>5 DEF TrailFits, TrailOf
  <2> QED
    BY <1>4, <2>3, <2>4, <2>5, EmptyBehind
<1>7. NextStart(<<>>).seq = 0 /\ NextStart(<<>>).prev = GenesisPrev
  BY DEF NextStart, Start
<1>8. Positioned(log)
  BY <1>4, <1>5, <1>6, <1>7 DEF Positioned, NextPrev
<1>9. CallKept(w)
  BY <1>1, <1>2, <1>4, <1>6 DEF CallKept, LoneCall, Pending, Logged, BeforePC, ManifestPC
<1> QED
  BY <1>1, <1>6, <1>8, <1>9 DEF Abstract!Init

\* The call starts with a number no record has.
LEMMA CallStarts ==
  ASSUME TypeOK, NEW w \in Writers, CallKept(w), CallAppend(w), Trail' = Trail
  PROVE  CallKept(w)' /\ acked' = acked
<1> DEFINE s == writer[w]
<1>1. PICK n : n = appends
  OBVIOUS
<1>2. n \in Nat
  BY <1>1, BoundAssumption DEF TypeOK
<1>3. /\ appends' = n + 1 /\ acked' = acked
      /\ writer' = [writer EXCEPT ![w].pc = "rotate_if_needed", ![w].call = n + 1]
  BY <1>1 DEF CallAppend
<1>4. PICK t : t = [s EXCEPT !.pc = "rotate_if_needed", !.call = n + 1]
  OBVIOUS
<1>5. t.pc = "rotate_if_needed" /\ t.call = n + 1
  BY <1>4, WriterFacts DEF WriterTyped
<1>6. writer' = [writer EXCEPT ![w] = t]
  BY <1>3, <1>4
<1>7. writer'[w] = t
  BY <1>6, OneCall
<1>8. LoneCall(s, Trail, acked, n)
  BY <1>1 DEF CallKept
<1>9. LoneCall(t, Trail, acked, n + 1)
  <2>1. n + 1 # 0 /\ n + 1 \in 1..(n + 1) /\ (\A k \in 1..n : k # n + 1 /\ k \in 1..(n + 1))
    BY <1>2
  <2>2. ~Logged(t) /\ t.pc # "idle" /\ t.pc # "write_record"
    BY <1>5 DEF Logged, ManifestPC
  <2>3. \A i \in 1..Len(Trail) : Trail[i].payload # t.call /\ Trail[i].payload \in 1..(n + 1)
    BY <1>5, <1>8, <2>1 DEF LoneCall
  <2>4. \A rec \in acked : \E i \in 1..Len(Trail) : Trail[i] = rec
    BY <1>8 DEF LoneCall
  <2> QED
    BY <1>5, <2>1, <2>2, <2>3, <2>4 DEF LoneCall
<1> QED
  BY <1>3, <1>7, <1>9 DEF CallKept

\* The call writes its record behind the last one.
LEMMA WriteJoins ==
  ASSUME TypeOK, NEW w \in Writers, NEW log, Positioned(log), CallKept(w), WriteRecord(w),
         Trail' = Append(Trail, writer[w].rec), IsLog(Trail),
         NEW payload, writer[w].rec = MakeEnvelope(NoKey, Len(Trail),
                                        NextPrev(Trail, GenesisPrev), payload, NoStamp)
  PROVE  CallKept(w)' /\ [Abstract!Next]_<<Trail, acked>>
<1> DEFINE s == writer[w]
           rec == s.rec
           call == s.call
           n == Len(Trail)
<1>0. n \in Nat
  BY LogFacts
<1>1. WriterTyped(s) /\ s.pc = "write_record" /\ acked' = acked /\ appends' = appends
  BY WriterFacts DEF WriteRecord, At, counters
<1>2. /\ call # 0 /\ rec.payload = call /\ call \in 1..appends
      /\ \A i \in 1..n : Trail[i].payload # call
  BY <1>1 DEF CallKept, LoneCall, Pending, BeforePC
<1>3. rec = MakeEnvelope(NoKey, n, NextPrev(Trail, GenesisPrev), call, NoStamp)
  <2>1. \A seq, prev : MakeEnvelope(NoKey, seq, prev, payload, NoStamp).payload = payload
    BY DEF MakeEnvelope
  <2>2. payload = call
    BY <1>2, <2>1
  <2> QED
    BY <2>2
<1>4. call \in 1..MaxAppends
  BY <1>2, BoundAssumption DEF TypeOK
<1>5. Abstract!Record(call)
  <2>1. Trail' = Append(Trail, MakeEnvelope(NoKey, n,
                                            NextPrev(Trail, GenesisPrev), call, NoStamp))
    BY <1>3
  <2>2. \A seq, prev, p :
           Abstract!MakeEnvelope(Abstract!NoKey, seq, prev, p, Abstract!NoStamp)
             = MakeEnvelope(NoKey, seq, prev, p, NoStamp)
    BY DEF Abstract!MakeEnvelope, Abstract!NoKey, Abstract!NoStamp, Abstract!ModeOf,
           Abstract!Digest, MakeEnvelope, NoKey, NoStamp, ModeOf, Digest
  <2>3. \A lines : Abstract!NextPrev(lines, Abstract!GenesisPrev) = NextPrev(lines, GenesisPrev)
    BY DEF Abstract!NextPrev, Abstract!GenesisPrev, NextPrev, GenesisPrev
  <2>4. \A i \in 1..Len(Trail) : Trail[i].payload # call
    BY <1>2
  <2> HIDE DEF call
  <2> QED
    BY <1>1, <2>1, <2>2, <2>3, <2>4 DEF Abstract!Record
<1>6. CallKept(w)'
  <2>1. PICK t : t = [s EXCEPT !.pc = "record_read", !.fd = NoFile]
    OBVIOUS
  <2>2. t.pc = "record_read" /\ t.call = call /\ t.rec = rec
    BY <1>1, <2>1 DEF WriterTyped
  <2>3. writer' = [writer EXCEPT ![w] = t]
    BY <2>1 DEF WriteRecord
  <2>4. writer'[w] = t
    BY <2>3, OneCall
  <2>5. PICK next : next = Trail'
    OBVIOUS
  <2>6. next = Append(Trail, rec)
    BY <2>5
  <2>7. /\ Len(next) = n + 1 /\ next[n + 1] = rec
        /\ \A i \in 1..n : next[i] = Trail[i]
    BY <2>6, AppendLog
  <2>8. LoneCall(s, Trail, acked, appends)
    BY DEF CallKept
  <2> HIDE DEF n
  <2>9. n + 1 \in 1..(n + 1) /\ (\A i \in 1..n : i \in 1..(n + 1))
        /\ (\A i \in 1..(n + 1) : i \in 1..n \/ i = n + 1)
    BY <1>0
  <2>10. \A i \in 1..(n + 1) : next[i].payload \in 1..appends
    BY <1>2, <2>7, <2>8, <2>9 DEF LoneCall, n
  <2>11. \A r \in acked : \E i \in 1..(n + 1) : next[i] = r
    BY <2>7, <2>8, <2>9 DEF LoneCall, n
  <2>12. rec \notin acked
    BY <1>2, <2>8 DEF LoneCall, n
  <2>13. ~Pending(t) /\ t.pc \notin BeforePC /\ t.pc # "idle" /\ t.pc # "write_record"
    BY <2>2 DEF Pending, BeforePC, ManifestPC
  <2>14. \E i \in 1..(n + 1) : next[i] = rec
    BY <2>7, <2>9
  <2> HIDE DEF rec
  <2>15. LoneCall(t, next, acked, appends)
    BY <2>2, <2>7, <2>10, <2>11, <2>12, <2>13, <2>14 DEF LoneCall
  <2> QED
    BY <1>1, <2>4, <2>5, <2>15 DEF CallKept
<1> QED
  BY <1>4, <1>5, <1>6 DEF Abstract!Next

\* The call returns its record, which is there.
LEMMA ReplaceJoins ==
  ASSUME TypeOK, NEW w \in Writers, NEW log, SoloInv(w, log), CallKept(w),
         ManifestReplace(w), Trail' = Trail, ~OnlyMoves(w)
  PROVE  CallKept(w)' /\ [Abstract!Next]_<<Trail, acked>>
<1> DEFINE s == writer[w]
           rec == s.rec
<1>1. /\ s.seg.status = "open" /\ s.pc = "manifest_replace"
      /\ writer'[w].pc = "idle" /\ writer'[w].call = 0
      /\ acked' = acked \union {rec} /\ appends' = appends
  BY ReplaceMoves DEF ManifestReplace, At
<1>2. LoneCall(s, Trail, acked, appends)
  BY DEF CallKept
<1>3. Logged(s)
  BY <1>1 DEF Logged, ManifestPC
<1>4. rec \notin acked /\ \E i \in 1..Len(Trail) : Trail[i] = rec
  BY <1>2, <1>3 DEF LoneCall
<1>5. Abstract!Return
  BY <1>1, <1>4 DEF Abstract!Return
<1>6. PICK t : t = writer'[w]
  OBVIOUS
<1>7. PICK given : given = acked'
  OBVIOUS
<1>8. \A r \in given : \E i \in 1..Len(Trail) : Trail[i] = r
  BY <1>1, <1>2, <1>4, <1>7 DEF LoneCall
<1>9. t.pc = "idle" /\ t.call = 0
  BY <1>1, <1>6
<1>10. LoneCall(t, Trail, given, appends)
  BY <1>2, <1>8, <1>9 DEF LoneCall, Pending, Logged, BeforePC, ManifestPC
<1>11. CallKept(w)'
  BY <1>1, <1>6, <1>7, <1>10 DEF CallKept
<1> QED
  BY <1>5, <1>11 DEF Abstract!Next

LEMMA MovesOn ==
  ASSUME NEW w \in Writers, CallKept(w), OnlyMoves(w), Trail' = Trail
  PROVE  CallKept(w)' /\ acked' = acked
<1>1. PICK t : t = writer'[w]
  OBVIOUS
<1>2. LoneCall(t, Trail, acked, appends)
  BY <1>1, MovesKeep DEF CallKept, OnlyMoves
<1> QED
  BY <1>1, <1>2 DEF CallKept, OnlyMoves

LEMMA LoneStep ==
  ASSUME NEW w, NEW log, Alone(w, log), TypeOK, SoloInv(w, log), TrailFits(log),
         TrailFits(log)', Positioned(log), CallKept(w), [Next]_vars
  PROVE  Positioned(log)' /\ CallKept(w)' /\ [Abstract!Next]_<<Trail, acked>>
<1>0. w \in Writers /\ PlainName(log) /\ LogOf[w] = log
  BY LogOfAssumption DEF Alone
<1>1. CASE UNCHANGED vars
  <2>1. Trail' = Trail /\ Positioned(log)'
    BY <1>1, TrailRests DEF vars
  <2> QED
    BY <1>1, <2>1 DEF CallKept, vars
<1>2. CASE CallAppend(w)
  <2>1. Trail' = Trail /\ Positioned(log)'
    BY <1>2, TrailRests DEF CallAppend, directory
  <2> QED
    BY <1>0, <1>2, <2>1, CallStarts
<1>3. ASSUME files' = files, OnlyMoves(w)
      PROVE  Positioned(log)' /\ CallKept(w)' /\ [Abstract!Next]_<<Trail, acked>>
  <2>1. Trail' = Trail /\ Positioned(log)'
    BY <1>3, TrailRests
  <2> QED
    BY <1>0, <1>3, <2>1, MovesOn
<1>4. LoneCall(writer[w], Trail, acked, appends)
  BY DEF CallKept
<1>5. CASE \/ CallRotate(w) \/ RotateIfNeeded(w) \/ RotateRead(w) \/ RotateHash(w)
           \/ RotateCheck(w)
  <2>1. files' = files
    BY <1>5 DEF CallRotate, RotateIfNeeded, RotateRead, RotateHash, HashFile, RotateCheck,
                directory
  <2>2. OnlyMoves(w)
    BY <1>0, <1>4, <1>5, RotateMoves
  <2> QED
    BY <1>3, <2>1, <2>2
<1>6. CASE RotateReplace(w)
  <2>1. Trail' = Trail /\ Positioned(log)'
    BY <1>0, <1>6, TrailAtRename
  <2>2. OnlyMoves(w)
    BY <1>0, <1>6, RenameMoves
  <2> QED
    BY <1>0, <2>1, <2>2, MovesOn
<1>7. CASE ChainStart(w) \/ OpenLog(w) \/ LockLog(w) \/ ReadTail(w)
  <2>1. Trail' = Trail /\ Positioned(log)'
    <3>1. CASE OpenLog(w)
      BY <1>0, <3>1, TrailAtOpen
    <3>2. CASE ChainStart(w) \/ LockLog(w) \/ ReadTail(w)
      <4>1. files' = files
        BY <3>2 DEF ChainStart, LockLog, ReadTail, directory
      <4> QED
        BY <4>1, TrailRests
    <3> QED
      BY <1>7, <3>1, <3>2
  <2>2. OnlyMoves(w)
    BY <1>0, <1>4, <1>7, AppendMoves
  <2> QED
    BY <1>0, <2>1, <2>2, MovesOn
<1>8. CASE WriteRecord(w)
  <2>1. /\ Trail' = Append(Trail, writer[w].rec) /\ Positioned(log)'
        /\ \E payload : writer[w].rec = MakeEnvelope(NoKey, Len(Trail),
                                           NextPrev(Trail, GenesisPrev), payload, NoStamp)
    BY <1>0, <1>8, TrailAtWrite
  <2>2. IsLog(Trail)
    BY DEF Positioned
  <2> QED
    BY <1>0, <1>8, <2>1, <2>2, WriteJoins
<1>9. CASE \/ RecordRead(w) \/ RecordHash(w) \/ ManifestLoad(w)
           \/ ManifestOpen(w) \/ ManifestWrite(w)
  <2>1. files' = files
    BY <1>9 DEF RecordRead, RecordHash, HashFile, ManifestLoad, ManifestOpen, ManifestWrite,
                directory
  <2>2. OnlyMoves(w)
    BY <1>0, <1>9, ManifestMoves
  <2> QED
    BY <1>3, <2>1, <2>2
<1>10. CASE ManifestReplace(w)
  <2>1. files' = files
    BY <1>10 DEF ManifestReplace
  <2>2. Trail' = Trail /\ Positioned(log)'
    BY <2>1, TrailRests
  <2> QED
    BY <1>0, <1>3, <1>10, <2>1, <2>2, ReplaceJoins
<1>11. ~Crash(w)
  BY DEF Crash, TypeOK, Alone
<1> QED
  BY <1>1, <1>2, <1>5, <1>6, <1>7, <1>8, <1>9, <1>10, <1>11 DEF Next, Step, Alone

\* A single writer that never crashes implements the append-only trail, across
\* all its rotations: closed files in order and then the active one are one
\* chain, a rotation leaves it as it is, each call adds its record once, at the
\* end, and append() returns only what is there.
THEOREM LoneWriterTrail ==
  ASSUME NEW w, NEW log, Alone(w, log)
  PROVE  Spec => ImplementsTrail
<1> DEFINE Inv == TypeOK /\ SoloInv(w, log) /\ Positioned(log) /\ CallKept(w)
<1>0. TrailFits(log)
  BY TrailIsOf
<1>1. TrailFits(log)'
  BY <1>0, PTL
<1>2. Init => Inv /\ Abstract!Init
  BY <1>0, TypeInit, SoloInit, TrailAtStart
<1>3. Inv /\ [Next]_vars => Inv' /\ [Abstract!Next]_<<Trail, acked>>
  BY <1>0, <1>1, TypeStep, SoloStep, LoneStep
<1> HIDE DEF Inv
<1> QED
  BY <1>2, <1>3, PTL DEF Spec, ImplementsTrail, Abstract!Spec

-----------------------------------------------------------------------------
(* The export destination, whatever is appended, rotated and verified      *)
(* beside it.                                                              *)

ExporterOK ==
    exporter = [pc |-> exporter.pc, todo |-> exporter.todo,
                sha256 |-> exporter.sha256, listed |-> exporter.listed]

\* What the exporter is about to write is not at the destination yet: the
\* check is some steps older than the write.
StoreInv ==
    /\ ExporterOK
    /\ cut \intersect receipts = {}
    /\ exporter.pc = "copy" => Name \notin DOMAIN objects \union receipts \union cut
    /\ exporter.pc = "receipt" => Name \notin receipts \union cut

\* One step may add to the destination and does nothing else to it.
OnlyAdds ==
    /\ \A name \in DOMAIN objects : name \in DOMAIN objects' /\ objects'[name] = objects[name]
    /\ receipts \subseteq receipts' /\ cut \subseteq cut'
    /\ cut \intersect receipts' = {}

LEMMA StoreInit == ExportInit => StoreInv
    BY DEF ExportInit, IdleExporter, StoreInv, ExporterOK

\* An object that is stored where none is.
LEMMA StoredAdds ==
    ASSUME NEW content, Stored(content), Name \notin DOMAIN objects
    PROVE  /\ DOMAIN objects' = DOMAIN objects \union {Name}
           /\ \A name \in DOMAIN objects :
                 name \in DOMAIN objects' /\ objects'[name] = objects[name]
<1> DEFINE n == Name
<1>1. objects' = [name \in DOMAIN objects \union {n} |->
                    IF name = n THEN content ELSE objects[name]]
    BY DEF Stored
<1> HIDE DEF n
<1>2. DOMAIN objects' = DOMAIN objects \union {n}
      /\ \A name \in DOMAIN objects : name # n => objects'[name] = objects[name]
    BY <1>1
<1> QED
    BY <1>2 DEF n

\* The steps of everybody else, and those that leave the destination alone.
LEMMA StoreAlone ==
    ASSUME StoreInv, UNCHANGED store
    PROVE  OnlyAdds /\ cut' \intersect receipts' = {}
    BY DEF StoreInv, OnlyAdds, store

LEMMA ExportSteps ==
    ASSUME StoreInv, CallExport \/ Export \/ CrashExport
    PROVE  StoreInv' /\ OnlyAdds
<1>0. ExporterOK /\ cut \intersect receipts = {}
    BY DEF StoreInv
<1>a. ASSUME Abandon
      PROVE  ExporterOK' /\ exporter'.pc = "idle"
    BY <1>a DEF Abandon, IdleExporter, ExporterOK
<1>1. CASE CallExport
  <2>1. ExporterOK' /\ exporter'.pc = "hash" /\ UNCHANGED store
    BY <1>1 DEF CallExport, ExporterOK
  <2> QED
    BY <2>1, StoreAlone DEF StoreInv
<1>2. CASE HashCandidate
  <2>0. UNCHANGED store
    BY <1>2 DEF HashCandidate
  <2> DEFINE found == [source |-> Head(exporter.todo),
                       sha256 |-> Content(Head(exporter.todo))]
  <2>1. \/ exporter' = [exporter EXCEPT !.todo = Tail(@)] /\ exporter.pc = "hash"
        \/ Abandon
        \/ /\ exporter' = [exporter EXCEPT !.pc = "copy", !.sha256 = found.sha256]
           /\ found \notin receipts \union cut \union DOMAIN objects
    BY <1>2 DEF HashCandidate
  <2>2. CASE exporter' = [exporter EXCEPT !.todo = Tail(@)] /\ exporter.pc = "hash"
    <3>1. ExporterOK' /\ exporter'.pc = "hash"
      BY <1>0, <2>2 DEF ExporterOK
    <3> QED
      BY <2>0, <3>1, StoreAlone DEF StoreInv
  <2>3. CASE Abandon
    BY <1>a, <2>0, <2>3, StoreAlone DEF StoreInv
  <2>4. CASE /\ exporter' = [exporter EXCEPT !.pc = "copy", !.sha256 = found.sha256]
             /\ found \notin receipts \union cut \union DOMAIN objects
    <3>1. ExporterOK' /\ exporter'.pc = "copy" /\ Name' = found
      BY <1>0, <2>4 DEF ExporterOK, Name
    <3> HIDE DEF found
    <3>2. Name' \notin (DOMAIN objects \union receipts \union cut)'
      BY <2>0, <2>4, <3>1 DEF store
    <3> QED
      BY <2>0, <3>1, <3>2, StoreAlone DEF StoreInv
  <2> QED
    BY <2>1, <2>2, <2>3, <2>4
<1>3. CASE CopyObject
  <2>0. /\ exporter.pc = "copy" /\ UNCHANGED <<receipts, cut>>
        /\ Name \notin DOMAIN objects \union receipts \union cut
    BY <1>3 DEF CopyObject, StoreInv
  <2>1. CASE Abandon /\ UNCHANGED objects
    BY <1>a, <2>0, <2>1, StoreAlone DEF StoreInv, store
  <2>2. CASE ExportGoto("receipt") /\ Stored(Content(Name.source))
    <3>1. ExporterOK' /\ exporter'.pc = "receipt" /\ Name' = Name
      BY <1>0, <2>2 DEF ExporterOK, ExportGoto, Name
    <3>2. OnlyAdds
      BY <1>0, <2>0, <2>2, StoredAdds DEF OnlyAdds
    <3> QED
      BY <1>0, <2>0, <3>1, <3>2 DEF StoreInv
  <2> QED
    BY <1>3, <2>1, <2>2 DEF CopyObject
<1>4. CASE WriteReceipt
  <2>1. /\ exporter.pc = "receipt" /\ receipts' = receipts \union {Name}
        /\ UNCHANGED <<objects, cut>> /\ Name \notin receipts \union cut
    BY <1>4 DEF WriteReceipt, StoreInv
  <2>2. ExporterOK' /\ exporter'.pc = "hash"
    BY <1>0, <1>4 DEF ExporterOK, WriteReceipt
  <2>3. OnlyAdds
    BY <1>0, <2>1 DEF OnlyAdds
  <2> QED
    BY <1>0, <2>1, <2>2, <2>3 DEF StoreInv, OnlyAdds
<1>5. CASE ReturnExport
  <2>1. ExporterOK' /\ exporter'.pc = "returned" /\ UNCHANGED store
    BY <1>0, <1>5 DEF ExporterOK, ReturnExport, ExportGoto
  <2> QED
    BY <2>1, StoreAlone DEF StoreInv
<1>6. CASE CrashExport
  <2>0. ExporterOK' /\ exporter'.pc = "idle"
    BY <1>a, <1>6 DEF CrashExport
  <2>1. CASE UNCHANGED store
    BY <2>0, <2>1, StoreAlone DEF StoreInv
  <2>2. CASE exporter.pc = "copy" /\ Stored(Partial) /\ UNCHANGED <<receipts, cut>>
    <3>1. OnlyAdds
      BY <1>0, <2>2, StoredAdds DEF OnlyAdds, StoreInv
    <3> QED
      BY <1>0, <2>0, <2>2, <3>1 DEF StoreInv
  <2>3. CASE exporter.pc = "receipt" /\ cut' = cut \union {Name} /\ UNCHANGED <<objects, receipts>>
    <3>1. Name \notin receipts
      BY <2>3 DEF StoreInv
    <3>2. OnlyAdds /\ cut' \intersect receipts' = {}
      BY <1>0, <2>3, <3>1 DEF OnlyAdds
    <3> QED
      BY <2>0, <3>2 DEF StoreInv
  <2> QED
    BY <1>6, <2>1, <2>2, <2>3 DEF CrashExport
<1> QED
    BY <1>1, <1>2, <1>3, <1>4, <1>5, <1>6 DEF Export

LEMMA StoreStep == StoreInv /\ [ExportNext]_allVars => StoreInv' /\ OnlyAdds
<1> SUFFICES ASSUME StoreInv, [ExportNext]_allVars PROVE StoreInv' /\ OnlyAdds
    OBVIOUS
<1>1. ASSUME UNCHANGED <<exporter, store>> PROVE StoreInv' /\ OnlyAdds
    BY <1>1, StoreAlone DEF StoreInv, ExporterOK, Name, store
<1>2. CASE UNCHANGED extras
    BY <1>1, <1>2 DEF extras
<1>3. CASE UNCHANGED allVars
    BY <1>2, <1>3 DEF allVars
<1>4. ASSUME NEW v \in Verifiers, CallVerify(v) \/ Verify(v) PROVE StoreInv' /\ OnlyAdds
    BY <1>1, <1>2, <1>4 DEF CallVerify, Verify, VerifySegment, VerifyEnds
<1> QED
    BY <1>2, <1>3, <1>4, ExportSteps DEF ExportNext

\* What is at the destination is never written again, neither an object nor
\* a receipt, whole or cut off, though the check and the write are separate
\* steps and the directory changes in between (audit_compliance.py:259-281).
THEOREM NothingOverwritten == ExportSpec => NeverOverwritten
<1>1. StoreInv /\ [ExportNext]_allVars => StoreInv'
    BY StoreStep
<1>2. StoreInv /\ [ExportNext]_allVars => [OnlyAdds]_store
    BY StoreStep
<1>3. ExportSpec => [][OnlyAdds]_store
    BY <1>1, <1>2, StoreInit, PTL DEF ExportSpec
<1> QED
    BY <1>3 DEF NeverOverwritten, OnlyAdds

-----------------------------------------------------------------------------
(* Sorting the entries of the manifest.                                    *)

\* Entries in another order.
Permuted(segs, new) ==
    \E p \in [1..Len(segs) -> 1..Len(segs)] :
        /\ \A k, l \in 1..Len(segs) : p[k] = p[l] => k = l
        /\ \A i \in 1..Len(segs) : \E k \in 1..Len(segs) : p[k] = i
        /\ IsLog(new) /\ Len(new) = Len(segs)
        /\ \A k \in 1..Len(segs) : new[k] = segs[p[k]]

Before(segs, i, j) == \/ segs[i].first_seq < segs[j].first_seq
                      \/ segs[i].first_seq = segs[j].first_seq /\ i < j

\* The entries that sorting puts before entry i.
Earlier(segs, i) == {j \in 1..Len(segs) : Before(segs, j, i)}

LEMMA EarlierCounts ==
  ASSUME NEW segs, Len(segs) \in Nat,
         \A i \in 1..Len(segs) : segs[i].first_seq \in Nat,
         NEW i \in 1..Len(segs)
  PROVE  /\ Cardinality(Earlier(segs, i)) \in Nat
         /\ Cardinality(Earlier(segs, i)) + 1 \in 1..Len(segs)
         /\ \A j \in 1..Len(segs) : Before(segs, i, j) =>
               Cardinality(Earlier(segs, i)) < Cardinality(Earlier(segs, j))
<1> DEFINE n == Len(segs)
           S == Earlier(segs, i)
<1>1. IsFiniteSet(1..n) /\ Cardinality(1..n) = n
  <2>1. 1 \in Int /\ n \in Int /\ ~(1 > n)
    OBVIOUS
  <2>2. IsFiniteSet(1..n) /\ Cardinality(1..n) = IF 1 > n THEN 0 ELSE n - 1 + 1
    BY <2>1, FS_Interval
  <2> QED
    BY <2>1, <2>2
<1>2. \A j \in 1..n : IsFiniteSet(Earlier(segs, j)) /\ Cardinality(Earlier(segs, j)) \in Nat
  <2> SUFFICES ASSUME NEW j \in 1..n
               PROVE IsFiniteSet(Earlier(segs, j)) /\ Cardinality(Earlier(segs, j)) \in Nat
    OBVIOUS
  <2>1. Earlier(segs, j) \in SUBSET (1..n)
    BY DEF Earlier
  <2> QED
    BY <1>1, <2>1, FS_Subset, FS_CardinalityType
<1>3. i \notin S
  <2>1. segs[i].first_seq \in Nat
    OBVIOUS
  <2>2. ~Before(segs, i, i)
    BY <2>1 DEF Before
  <2> QED
    BY <2>2 DEF Earlier
<1>4. Cardinality(S \union {i}) = Cardinality(S) + 1
  BY <1>2, <1>3, FS_AddElement
<1>5. Cardinality(S) + 1 <= n
  <2>1. S \union {i} \in SUBSET (1..n)
    BY DEF Earlier
  <2> QED
    BY <1>1, <1>4, <2>1, FS_Subset
<1>6. ASSUME NEW j \in 1..n, Before(segs, i, j)
      PROVE  Cardinality(S) < Cardinality(Earlier(segs, j))
  <2>1. ASSUME NEW k \in 1..n, Before(segs, k, i) PROVE Before(segs, k, j)
    <3>1. /\ segs[i].first_seq \in Nat /\ segs[j].first_seq \in Nat
          /\ segs[k].first_seq \in Nat
      OBVIOUS
    <3>2. i \in Nat /\ j \in Nat /\ k \in Nat
      OBVIOUS
    <3> QED
      BY <1>6, <2>1, <3>1, <3>2 DEF Before
  <2>2. S \union {i} \in SUBSET Earlier(segs, j)
    BY <1>6, <2>1 DEF Earlier
  <2>3. Cardinality(S) + 1 <= Cardinality(Earlier(segs, j))
    BY <1>2, <1>4, <2>2, FS_Subset
  <2> QED
    BY <1>2, <2>3
<1> QED
  BY <1>2, <1>5, <1>6

\* The stable sort moves the entries and loses none.
LEMMA SortPermutes ==
  ASSUME NEW segs, IsLog(segs), \A i \in 1..Len(segs) : segs[i].first_seq \in Nat
  PROVE  Permuted(segs, SortedBySeq(segs))
<1> DEFINE n == Len(segs)
           D == DOMAIN segs
           before(i, j) == \/ segs[i].first_seq < segs[j].first_seq
                           \/ segs[i].first_seq = segs[j].first_seq /\ i < j
           rank(i) == Cardinality({j \in D : before(j, i)}) + 1
           r == [i \in 1..n |-> rank(i)]
           p == [k \in 1..n |-> CHOOSE i \in D : rank(i) = k]
           new == SortedBySeq(segs)
<1>1. n \in Nat /\ DOMAIN segs = 1..n
  BY LogFacts
<1>8. new = [k \in D |-> segs[CHOOSE i \in D : rank(i) = k]]
  BY DEF SortedBySeq
<1>0. \A i \in 1..n : rank(i) = Cardinality(Earlier(segs, i)) + 1
  BY <1>1 DEF Earlier, Before
<1> HIDE DEF rank
<1>2. \A i \in 1..n : rank(i) \in 1..n
  BY <1>0, <1>1, EarlierCounts
<1>3. \A i, j \in 1..n : rank(i) = rank(j) => i = j
  <2> SUFFICES ASSUME NEW i \in 1..n, NEW j \in 1..n, rank(i) = rank(j), i # j
               PROVE  FALSE
    OBVIOUS
  <2>1. segs[i].first_seq \in Nat /\ segs[j].first_seq \in Nat
    OBVIOUS
  <2>2. Before(segs, i, j) \/ Before(segs, j, i)
    BY <2>1 DEF Before
  <2>3. /\ Cardinality(Earlier(segs, i)) \in Nat /\ Cardinality(Earlier(segs, j)) \in Nat
        /\ \/ Cardinality(Earlier(segs, i)) < Cardinality(Earlier(segs, j))
           \/ Cardinality(Earlier(segs, j)) < Cardinality(Earlier(segs, i))
    BY <1>1, <2>2, EarlierCounts
  <2> QED
    BY <1>0, <2>3
<1>4. r \in Injection(1..n, 1..n)
  BY <1>2, <1>3 DEF Injection, IsInjective
<1>5. r \in Surjection(1..n, 1..n)
  <2>1. IsFiniteSet(1..n)
    BY <1>1, FS_Interval
  <2> QED
    BY <1>4, <2>1, FS_Injection
<1>6. \A k \in 1..n : \E i \in 1..n : rank(i) = k
  BY <1>5 DEF Surjection
<1>7. \A k \in 1..n : p[k] \in 1..n /\ rank(p[k]) = k
  BY <1>6
<1>14. new = [k \in 1..n |-> segs[p[k]]]
  BY <1>1, <1>8
<1> HIDE DEF p, new
<1>9. IsLog(new) /\ Len(new) = n
  <2>1. new \in [1..n -> Elements(segs)]
    BY <1>1, <1>7, <1>14 DEF Elements
  <2>2. new \in Seq(Elements(segs))
    BY <1>1, <2>1, SeqDef
  <2>3. DOMAIN new = 1..n
    BY <1>14
  <2> QED
    BY <1>1, <2>2, <2>3, SeqIsLog, LenProperties
<1>10. p \in [1..n -> 1..n]
  BY <1>7 DEF p
<1>11. \A k, l \in 1..n : p[k] = p[l] => k = l
  BY <1>7
<1>12. \A i \in 1..n : \E k \in 1..n : p[k] = i
  BY <1>2, <1>3, <1>7
<1>13. \A k \in 1..n : new[k] = segs[p[k]]
  BY <1>14
<1> SUFFICES \E q \in [1..n -> 1..n] :
                /\ \A k, l \in 1..n : q[k] = q[l] => k = l
                /\ \A i \in 1..n : \E k \in 1..n : q[k] = i
                /\ IsLog(new) /\ Len(new) = n
                /\ \A k \in 1..n : new[k] = segs[q[k]]
  BY DEF Permuted, new
<1> WITNESS p \in [1..n -> 1..n]
<1> QED
  BY <1>9, <1>11, <1>12, <1>13

-----------------------------------------------------------------------------
(* One process appends, others verify and export, and any of them may      *)
(* crash: what each step does to the directory and to the process.         *)

OneAppender(a, log) == Appending = {a} /\ LogOf[a] = log /\ PlainName(log)

Shape(s) == s = [pc |-> s.pc, call |-> s.call, start |-> s.start, rec |-> s.rec,
                 seg |-> s.seg, segs |-> s.segs, fd |-> s.fd, mfd |-> s.mfd]

Shapes == /\ writer = [w \in Writers |-> writer[w]]
          /\ \A w \in Writers : Shape(writer[w])

\* The same but for the descriptors.
Alike(s, t) == /\ t.pc = s.pc /\ t.start = s.start /\ t.rec = s.rec
               /\ t.seg = s.seg /\ t.segs = s.segs /\ t.call = s.call

\* The processes other than w stay where they are.
Unmoved(w) ==
    /\ Shapes'
    /\ \A v \in Writers \ {w} :
          /\ Alike(writer[v], writer'[v])
          /\ writer[w].pc # "rotate_replace" => writer'[v].fd = writer[v].fd

Untouched == UNCHANGED <<files, manifest, tmp, acked>>

RestDone(s, t) == t.pc \in CalmPC /\ t.segs \in {s.segs, <<>>} /\ t.seg \in {s.seg, NoSegment}

TakeDone(s, t, log) ==
    /\ s.pc = "rotate_read" /\ t.pc = "rotate_hash" /\ t.segs = s.segs
    /\ Lines(log) # <<>> /\ Readable(log) /\ t.seg = SegmentOf(log, Lines(log), "closed")

HashDone(s, t, log) ==
    /\ \/ s.pc = "rotate_hash" /\ t.pc = "rotate_check"
       \/ s.pc = "record_hash" /\ t.pc = "manifest_load"
    /\ Exists(log) /\ t.seg = [s.seg EXCEPT !.file_sha256 = files[log]]
    /\ t.rec = s.rec /\ t.segs = s.segs

CheckDone(s, t) ==
    /\ s.pc = "rotate_check" /\ t.pc = "rotate_replace"
    /\ t.seg = s.seg /\ t.segs = s.segs /\ IdOf(s.seg) \notin DOMAIN files

RenameDone(s, t, log) ==
    /\ s.pc = "rotate_replace" /\ t.pc = "manifest_load" /\ t.segs = s.segs
    /\ Exists(log) /\ t.seg = [s.seg EXCEPT !.path = IdOf(s.seg)]
    /\ files' = [name \in (DOMAIN files \ {log}) \union {IdOf(s.seg)} |->
                    IF name = IdOf(s.seg) THEN files[log] ELSE files[name]]
    /\ UNCHANGED <<manifest, tmp, acked>>

StartDone(s, t, log) ==
    /\ s.pc = "chain_start" /\ t.pc = "open_log" /\ t.segs = s.segs
    /\ \/ /\ Lines(log) # <<>> /\ Readable(log)
          /\ t.start.seq = NextSeq(Lines(log), 0)
       \/ /\ Lines(log) = <<>> /\ Loadable
          /\ t.start.seq = IF LoadedSegments = <<>> THEN 0
                           ELSE NewestOf(LoadedSegments).last_seq + 1

OpenDone(s, t, log) ==
    /\ s.pc = "open_log" /\ t.pc = "lock_log" /\ t.segs = s.segs
    /\ t.start = s.start /\ t.fd = log
    /\ files' = [name \in DOMAIN files \union {log} |-> Lines(name)]
    /\ UNCHANGED <<manifest, tmp, acked>>

LockDone(s, t) ==
    /\ s.pc = "lock_log" /\ t.pc = "read_tail" /\ t.segs = s.segs
    /\ t.start = s.start /\ t.fd = s.fd

TailDone(s, t, log) ==
    /\ s.pc = "read_tail" /\ t.pc = "write_record" /\ t.segs = s.segs
    /\ t.start = s.start /\ t.fd = s.fd /\ TailReadable(Lines(log))
    /\ \E prev, payload : t.rec =
          MakeEnvelope(NoKey, NextSeq(Lines(log), s.start.seq), prev, payload, NoStamp)

WriteDone(s, t) ==
    /\ s.pc = "write_record" /\ t.pc = "record_read" /\ t.segs = s.segs
    /\ t.rec = s.rec /\ files' = Written(s.fd, s.rec)
    /\ UNCHANGED <<manifest, tmp, acked>>

FindDone(s, t, log) ==
    /\ s.pc = "record_read" /\ t.pc = "record_hash" /\ t.segs = s.segs
    /\ Lines(log) # <<>> /\ Readable(log) /\ t.seg = SegmentOf(log, Lines(log), "open")
    /\ t.rec = s.rec

LoadDone(s, t) ==
    /\ s.pc = "manifest_load" /\ t.pc = "manifest_open" /\ Loadable
    /\ t.segs = Upsert(LoadedSegments, s.seg) /\ t.seg = s.seg /\ t.rec = s.rec

TmpOpened(s, t) ==
    /\ s.pc = "manifest_open" /\ t.pc = "manifest_write"
    /\ t.segs = s.segs /\ t.seg = s.seg /\ t.rec = s.rec /\ t.mfd = TmpFd
    /\ tmp' = Empty /\ UNCHANGED <<files, manifest, acked>>

TmpWritten(s, t) ==
    /\ s.pc = "manifest_write" /\ t.pc = "manifest_replace"
    /\ t.segs = s.segs /\ t.seg = s.seg /\ t.rec = s.rec
    /\ tmp' \in {tmp, Saved(s.segs), Garbled}
    /\ manifest' \in {manifest, Saved(s.segs), Garbled}
    /\ s.mfd = TmpFd /\ tmp = Empty => tmp' = Saved(s.segs) /\ manifest' = manifest
    /\ UNCHANGED <<files, acked>>

ReplaceDone(s, t) ==
    /\ s.pc = "manifest_replace" /\ RestDone(s, t)
    /\ tmp # Absent /\ manifest' = tmp /\ tmp' = Absent /\ UNCHANGED files
    /\ acked' = IF s.seg.status = "open" THEN acked \union {s.rec} ELSE acked

CutDone(s, t) ==
    /\ s.pc = "write_record" /\ RestDone(s, t)
    /\ \E line \in {TornLine, [s.rec EXCEPT !.kind = "cut"]} : files' = Written(s.fd, line)
    /\ UNCHANGED <<manifest, tmp, acked>>

LocalDone(s, t, log) ==
    /\ Untouched
    /\ \/ RestDone(s, t) \/ TakeDone(s, t, log) \/ HashDone(s, t, log) \/ CheckDone(s, t)
       \/ StartDone(s, t, log) \/ LockDone(s, t) \/ TailDone(s, t, log)
       \/ FindDone(s, t, log) \/ LoadDone(s, t)

FilesDone(s, t, log) ==
    \/ RenameDone(s, t, log) \/ OpenDone(s, t, log) \/ WriteDone(s, t) \/ CutDone(s, t)

ManifestDone(s, t) == TmpOpened(s, t) \/ TmpWritten(s, t) \/ ReplaceDone(s, t)

\* A step of a process in append() or rotate(), or its crash.
StepDone(w, log) ==
    \/ LocalDone(writer[w], writer'[w], log)
    \/ FilesDone(writer[w], writer'[w], log)
    \/ ManifestDone(writer[w], writer'[w])

LEMMA OneShape ==
  ASSUME Shapes, NEW w \in Writers, NEW s, Shape(s), writer' = [writer EXCEPT ![w] = s]
  PROVE  Unmoved(w) /\ writer'[w] = s
<1>1. /\ writer'[w] = s /\ \A v \in Writers \ {w} : writer'[v] = writer[v]
      /\ writer' = [v \in Writers |-> writer'[v]]
  BY DEF Shapes
<1>2. \A v \in Writers : Shape(writer'[v])
  BY <1>1 DEF Shapes
<1> QED
  BY <1>1, <1>2 DEF Unmoved, Shapes, Alike

LEMMA IdleShape ==
    /\ Shape(IdleWriter) /\ IdleWriter.pc = "idle" /\ IdleWriter.segs = <<>>
    /\ IdleWriter.seg = NoSegment /\ IdleWriter.pc \in CalmPC
  BY DEF Shape, IdleWriter, CalmPC

LEMMA FinishDone ==
  ASSUME Shapes, NEW w \in Writers, Finish(w)
  PROVE  Unmoved(w) /\ RestDone(writer[w], writer'[w])
<1>1. writer' = [writer EXCEPT ![w] = IdleWriter]
  BY DEF Finish
<1> QED
  BY <1>1, IdleShape, OneShape DEF RestDone

LEMMA GotoDone ==
  ASSUME Shapes, NEW w \in Writers, NEW pc, Goto(w, pc)
  PROVE  LET s == writer[w]
             t == writer'[w]
         IN  /\ Unmoved(w)
             /\ t.pc = pc /\ t.start = s.start /\ t.rec = s.rec /\ t.seg = s.seg
             /\ t.segs = s.segs /\ t.fd = s.fd
<1>1. PICK t : t = [writer[w] EXCEPT !.pc = pc]
  OBVIOUS
<1>2. writer' = [writer EXCEPT ![w] = t]
  BY <1>1 DEF Goto
<1>3. Shape(writer[w])
  BY DEF Shapes
<1>4. /\ Shape(t) /\ t.pc = pc /\ t.start = writer[w].start /\ t.rec = writer[w].rec
      /\ t.seg = writer[w].seg /\ t.segs = writer[w].segs /\ t.fd = writer[w].fd
  BY <1>1, <1>3 DEF Shape
<1> QED
  BY <1>2, <1>4, OneShape

LEMMA CallDone ==
  ASSUME Shapes, NEW w \in Writers, CallAppend(w) \/ CallRotate(w)
  PROVE  Unmoved(w) /\ Untouched /\ RestDone(writer[w], writer'[w])
<1>1. CASE CallAppend(w)
  <2>1. PICK t : t = [writer[w] EXCEPT !.pc = "rotate_if_needed", !.call = appends + 1]
    OBVIOUS
  <2>2. writer' = [writer EXCEPT ![w] = t]
    BY <1>1, <2>1 DEF CallAppend
  <2>3. Shape(writer[w])
    BY DEF Shapes
  <2>4. Shape(t) /\ t.pc \in CalmPC /\ t.segs = writer[w].segs /\ t.seg = writer[w].seg
    BY <2>1, <2>3 DEF Shape, CalmPC
  <2> QED
    BY <1>1, <2>2, <2>4, OneShape DEF CallAppend, Untouched, directory, RestDone
<1>2. CASE CallRotate(w)
  BY <1>2, GotoDone DEF CallRotate, Untouched, directory, RestDone, CalmPC
<1> QED
  BY <1>1, <1>2

LEMMA RotateSteps ==
  ASSUME Shapes, NEW w \in Writers, NEW log, log = LogOf[w],
         RotateIfNeeded(w) \/ RotateRead(w) \/ RotateCheck(w)
  PROVE  Unmoved(w) /\ LocalDone(writer[w], writer'[w], log)
<1>0. Untouched
  BY DEF RotateIfNeeded, RotateRead, RotateCheck, Untouched, directory
<1>1. CASE Finish(w)
  BY <1>0, <1>1, FinishDone DEF LocalDone
<1>2. CASE Goto(w, "rotate_read") \/ Goto(w, "chain_start")
  BY <1>0, <1>2, GotoDone DEF LocalDone, RestDone, CalmPC
<1>3. CASE AfterRotate(w) /\ ~Finish(w)
  <2>1. PICK t : t = [writer[w] EXCEPT !.pc = "chain_start", !.seg = NoSegment, !.segs = <<>>]
    OBVIOUS
  <2>2. writer' = [writer EXCEPT ![w] = t]
    BY <1>3, <2>1 DEF AfterRotate
  <2>3. Shape(writer[w])
    BY DEF Shapes
  <2>4. Shape(t) /\ t.pc \in CalmPC /\ t.segs = <<>> /\ t.seg = NoSegment
    BY <2>1, <2>3 DEF Shape, CalmPC
  <2> QED
    BY <1>0, <2>2, <2>4, OneShape DEF LocalDone, RestDone
<1>4. CASE /\ RotateRead(w) /\ Lines(log) # <<>> /\ Readable(log)
           /\ writer' = [writer EXCEPT ![w].pc = "rotate_hash",
                                       ![w].seg = SegmentOf(log, Lines(log), "closed")]
  <2>1. PICK t : t = [writer[w] EXCEPT !.pc = "rotate_hash",
                                       !.seg = SegmentOf(log, Lines(log), "closed")]
    OBVIOUS
  <2>2. writer' = [writer EXCEPT ![w] = t]
    BY <1>4, <2>1
  <2>3. Shape(writer[w]) /\ writer[w].pc = "rotate_read"
    BY <1>4 DEF Shapes, RotateRead, At
  <2>4. /\ Shape(t) /\ t.pc = "rotate_hash" /\ t.segs = writer[w].segs
        /\ t.seg = SegmentOf(log, Lines(log), "closed")
    BY <2>1, <2>3 DEF Shape
  <2> QED
    BY <1>0, <1>4, <2>2, <2>3, <2>4, OneShape DEF LocalDone, TakeDone
<1>5. CASE RotateCheck(w) /\ Goto(w, "rotate_replace") /\ ~Exists(IdOf(writer[w].seg))
  BY <1>0, <1>5, GotoDone DEF RotateCheck, At, Exists, LocalDone, CheckDone
<1> QED
  BY <1>1, <1>2, <1>3, <1>4, <1>5 DEF RotateIfNeeded, RotateRead, RotateCheck

LEMMA HashSteps ==
  ASSUME Shapes, NEW w \in Writers, NEW log, log = LogOf[w], RotateHash(w) \/ RecordHash(w)
  PROVE  Unmoved(w) /\ LocalDone(writer[w], writer'[w], log)
<1>0. Untouched
  BY DEF RotateHash, RecordHash, HashFile, Untouched, directory
<1>1. CASE Finish(w)
  BY <1>0, <1>1, FinishDone DEF LocalDone
<1>2. CASE ~Finish(w)
  <2>1. PICK to : /\ \/ writer[w].pc = "rotate_hash" /\ to = "rotate_check"
                     \/ writer[w].pc = "record_hash" /\ to = "manifest_load"
                  /\ Exists(log)
                  /\ writer' = [writer EXCEPT ![w].pc = to, ![w].seg.file_sha256 = files[log]]
    BY <1>2 DEF RotateHash, RecordHash, HashFile, At
  <2>2. PICK t : t = [writer[w] EXCEPT !.pc = to,
                        !.seg = [writer[w].seg EXCEPT !.file_sha256 = files[log]]]
    OBVIOUS
  <2>3. Shape(writer[w])
    BY DEF Shapes
  <2>4. /\ Shape(t) /\ t.pc = to /\ t.segs = writer[w].segs /\ t.rec = writer[w].rec
        /\ t.seg = [writer[w].seg EXCEPT !.file_sha256 = files[log]]
    BY <2>2, <2>3 DEF Shape
  <2>5. writer' = [writer EXCEPT ![w] = t]
    BY <2>1, <2>2, <2>3 DEF Shape
  <2> QED
    BY <1>0, <2>1, <2>4, <2>5, OneShape DEF LocalDone, HashDone
<1> QED
  BY <1>1, <1>2

LEMMA ReplaceSteps ==
  ASSUME Shapes, NEW w \in Writers, NEW log, log = LogOf[w], RotateReplace(w)
  PROVE  Unmoved(w) /\ StepDone(w, log)
<1> DEFINE closed == IdOf(writer[w].seg)
           moved(fd) == IF fd = closed THEN Unlinked
                        ELSE IF fd = log THEN closed ELSE fd
<1>0. writer[w].pc = "rotate_replace" /\ UNCHANGED <<manifest, tmp, acked>>
  BY DEF RotateReplace, At
<1>1. CASE ~Exists(log)
  BY <1>0, <1>1, FinishDone DEF RotateReplace, StepDone, LocalDone, Untouched
<1>2. CASE Exists(log)
  <2>1. /\ files' = [name \in (DOMAIN files \ {log}) \union {closed} |->
                        IF name = closed THEN files[log] ELSE files[name]]
        /\ writer' = [v \in Writers |->
              IF v = w THEN [writer[w] EXCEPT !.pc = "manifest_load",
                                              !.seg.path = closed,
                                              !.fd = moved(@)]
              ELSE [writer[v] EXCEPT !.fd = moved(@)]]
    BY <1>2 DEF RotateReplace
  <2>2. PICK t : t = [writer[w] EXCEPT !.pc = "manifest_load",
                         !.seg = [writer[w].seg EXCEPT !.path = closed],
                         !.fd = moved(writer[w].fd)]
    OBVIOUS
  <2> HIDE DEF moved, closed
  <2>3. Shape(writer[w])
    BY DEF Shapes
  <2>4. /\ Shape(t) /\ t.pc = "manifest_load" /\ t.segs = writer[w].segs
        /\ t.seg = [writer[w].seg EXCEPT !.path = closed]
    BY <2>2, <2>3 DEF Shape
  <2>5. writer'[w] = t
    BY <2>1, <2>2, <2>3 DEF Shape
  <2>6. ASSUME NEW v \in Writers \ {w}
        PROVE  Shape(writer'[v]) /\ Alike(writer[v], writer'[v])
    <3>1. PICK u : u = [writer[v] EXCEPT !.fd = moved(writer[v].fd)]
      OBVIOUS
    <3>2. Shape(writer[v])
      BY DEF Shapes
    <3>3. writer'[v] = u
      BY <2>1, <3>1
    <3>4. Shape(u) /\ Alike(writer[v], u)
      BY <3>1, <3>2 DEF Shape, Alike
    <3> QED
      BY <3>3, <3>4
  <2>7. writer' = [v \in Writers |-> writer'[v]]
    BY <2>1
  <2>8. Unmoved(w)
    BY <1>0, <2>4, <2>5, <2>6, <2>7 DEF Unmoved, Shapes
  <2>9. RenameDone(writer[w], t, log)
    BY <1>0, <1>2, <2>1, <2>4 DEF RenameDone, closed
  <2> QED
    BY <2>5, <2>8, <2>9 DEF StepDone, FilesDone
<1> QED
  BY <1>1, <1>2

LEMMA StartSteps ==
  ASSUME Shapes, NEW w \in Writers, NEW log, log = LogOf[w], ChainStart(w)
  PROVE  Unmoved(w) /\ LocalDone(writer[w], writer'[w], log)
<1>0. Untouched /\ writer[w].pc = "chain_start"
  BY DEF ChainStart, Untouched, directory, At
<1>1. CASE Finish(w)
  BY <1>0, <1>1, FinishDone DEF LocalDone
<1>2. CASE ~Finish(w)
  <2>1. PICK start :
           /\ writer' = [writer EXCEPT ![w].pc = "open_log", ![w].start = start]
           /\ \/ /\ Lines(log) # <<>> /\ Readable(log)
                 /\ start.seq = NextSeq(Lines(log), 0)
              \/ /\ Lines(log) = <<>> /\ Loadable
                 /\ start.seq = IF LoadedSegments = <<>> THEN 0
                                ELSE NewestOf(LoadedSegments).last_seq + 1
    <3>1. CASE Lines(log) # <<>>
      <4> DEFINE seq == NextSeq(Lines(log), 0)
                 prev == NextPrev(Lines(log), GenesisPrev)
      <4>1. /\ Readable(log)
            /\ writer' = [writer EXCEPT ![w].pc = "open_log", ![w].start = Start(seq, prev)]
        BY <1>2, <3>1 DEF ChainStart
      <4> HIDE DEF seq, prev
      <4>2. Start(seq, prev).seq = seq
        BY DEF Start
      <4> QED
        BY <3>1, <4>1, <4>2 DEF seq
    <3>2. CASE Lines(log) = <<>> /\ LoadedSegments = <<>>
      <4>1. /\ Loadable
            /\ writer' = [writer EXCEPT ![w].pc = "open_log",
                                        ![w].start = Start(0, GenesisPrev)]
        BY <1>2, <3>2 DEF ChainStart
      <4>2. Start(0, GenesisPrev).seq = 0
        BY DEF Start
      <4> QED
        BY <3>2, <4>1, <4>2
    <3>3. CASE Lines(log) = <<>> /\ LoadedSegments # <<>>
      <4> DEFINE newest == NewestOf(LoadedSegments)
      <4>1. /\ Loadable
            /\ writer' = [writer EXCEPT ![w].pc = "open_log",
                             ![w].start = Start(newest.last_seq + 1, newest.head_hash)]
        BY <1>2, <3>3 DEF ChainStart
      <4> HIDE DEF newest
      <4>2. Start(newest.last_seq + 1, newest.head_hash).seq = newest.last_seq + 1
        BY DEF Start
      <4> QED
        BY <3>3, <4>1, <4>2 DEF newest
    <3> QED
      BY <3>1, <3>2, <3>3
  <2>2. PICK t : t = [writer[w] EXCEPT !.pc = "open_log", !.start = start]
    OBVIOUS
  <2>3. Shape(writer[w])
    BY DEF Shapes
  <2>4. Shape(t) /\ t.pc = "open_log" /\ t.start = start /\ t.segs = writer[w].segs
    BY <2>2, <2>3 DEF Shape
  <2>5. writer' = [writer EXCEPT ![w] = t]
    BY <2>1, <2>2
  <2> QED
    BY <1>0, <2>1, <2>4, <2>5, OneShape DEF LocalDone, StartDone
<1> QED
  BY <1>1, <1>2

LEMMA AppendSteps ==
  ASSUME Shapes, NEW w \in Writers, NEW log, log = LogOf[w],
         OpenLog(w) \/ LockLog(w) \/ ReadTail(w) \/ WriteRecord(w)
  PROVE  Unmoved(w) /\ StepDone(w, log)
<1>0. Shape(writer[w])
  BY DEF Shapes
<1>1. CASE OpenLog(w)
  <2>1. PICK t : t = [writer[w] EXCEPT !.pc = "lock_log", !.fd = log]
    OBVIOUS
  <2>2. /\ Shape(t) /\ t.pc = "lock_log" /\ t.fd = log /\ t.segs = writer[w].segs
        /\ t.start = writer[w].start
    BY <1>0, <2>1 DEF Shape
  <2>3. writer' = [writer EXCEPT ![w] = t]
    BY <1>1, <2>1 DEF OpenLog
  <2>4. OpenDone(writer[w], t, log)
    BY <1>1, <2>2 DEF OpenLog, At, OpenDone
  <2> QED
    BY <2>2, <2>3, <2>4, OneShape DEF StepDone, FilesDone
<1>2. CASE LockLog(w)
  BY <1>2, GotoDone DEF LockLog, At, Untouched, directory, StepDone, LocalDone, LockDone
<1>3. CASE ReadTail(w) /\ Finish(w)
  BY <1>3, FinishDone DEF ReadTail, Untouched, directory, StepDone, LocalDone
<1>4. CASE ReadTail(w) /\ ~Finish(w)
  <2> DEFINE start == writer[w].start
             rec == MakeEnvelope(NoKey, NextSeq(Lines(log), start.seq),
                                 NextPrev(Lines(log), start.prev), writer[w].call, NoStamp)
  <2>1. /\ writer[w].pc = "read_tail" /\ Untouched /\ TailReadable(Lines(log))
        /\ writer' = [writer EXCEPT ![w].pc = "write_record", ![w].rec = rec]
    BY <1>4 DEF ReadTail, At, Untouched, directory
  <2>2. PICK t : t = [writer[w] EXCEPT !.pc = "write_record", !.rec = rec]
    OBVIOUS
  <2>3. writer' = [writer EXCEPT ![w] = t]
    BY <2>1, <2>2
  <2> HIDE DEF rec
  <2>4. /\ Shape(t) /\ t.pc = "write_record" /\ t.rec = rec /\ t.fd = writer[w].fd
        /\ t.segs = writer[w].segs /\ t.start = writer[w].start
    BY <1>0, <2>2 DEF Shape
  <2>5. TailDone(writer[w], t, log)
    BY <2>1, <2>4 DEF TailDone, rec
  <2> QED
    BY <2>1, <2>3, <2>4, <2>5, OneShape DEF StepDone, LocalDone
<1>5. CASE WriteRecord(w)
  <2>1. PICK t : t = [writer[w] EXCEPT !.pc = "record_read", !.fd = NoFile]
    OBVIOUS
  <2>2. /\ Shape(t) /\ t.pc = "record_read" /\ t.rec = writer[w].rec
        /\ t.segs = writer[w].segs
    BY <1>0, <2>1 DEF Shape
  <2>3. writer' = [writer EXCEPT ![w] = t]
    BY <1>5, <2>1 DEF WriteRecord
  <2>4. WriteDone(writer[w], t)
    BY <1>5, <2>2 DEF WriteRecord, At, WriteDone
  <2> QED
    BY <2>2, <2>3, <2>4, OneShape DEF StepDone, FilesDone
<1> QED
  BY <1>1, <1>2, <1>3, <1>4, <1>5

LEMMA RecordSteps ==
  ASSUME Shapes, NEW w \in Writers, NEW log, log = LogOf[w],
         RecordRead(w) \/ ManifestLoad(w) \/ ManifestOpen(w) \/ ManifestWrite(w)
  PROVE  Unmoved(w) /\ StepDone(w, log)
<1>0. Shape(writer[w])
  BY DEF Shapes
<1>1. CASE (RecordRead(w) \/ ManifestLoad(w)) /\ Finish(w)
  BY <1>1, FinishDone DEF RecordRead, ManifestLoad, Untouched, directory, StepDone, LocalDone
<1>2. CASE RecordRead(w) /\ ~Finish(w)
  <2> DEFINE seg == SegmentOf(log, Lines(log), "open")
  <2>1. /\ writer[w].pc = "record_read" /\ Untouched /\ Lines(log) # <<>> /\ Readable(log)
        /\ writer' = [writer EXCEPT ![w].pc = "record_hash", ![w].seg = seg]
    BY <1>2 DEF RecordRead, At, Untouched, directory
  <2>2. PICK t : t = [writer[w] EXCEPT !.pc = "record_hash", !.seg = seg]
    OBVIOUS
  <2>3. writer' = [writer EXCEPT ![w] = t]
    BY <2>1, <2>2
  <2> HIDE DEF seg
  <2>4. /\ Shape(t) /\ t.pc = "record_hash" /\ t.rec = writer[w].rec /\ t.seg = seg
        /\ t.segs = writer[w].segs
    BY <1>0, <2>2 DEF Shape
  <2>5. FindDone(writer[w], t, log)
    BY <2>1, <2>4 DEF FindDone, seg
  <2> QED
    BY <2>1, <2>3, <2>4, <2>5, OneShape DEF StepDone, LocalDone
<1>3. CASE ManifestLoad(w) /\ ~Finish(w)
  <2> DEFINE segs == Upsert(LoadedSegments, writer[w].seg)
  <2>1. /\ writer[w].pc = "manifest_load" /\ Untouched /\ Loadable
        /\ writer' = [writer EXCEPT ![w].pc = "manifest_open", ![w].segs = segs]
    BY <1>3 DEF ManifestLoad, At, Untouched, directory
  <2>2. PICK t : t = [writer[w] EXCEPT !.pc = "manifest_open", !.segs = segs]
    OBVIOUS
  <2>3. writer' = [writer EXCEPT ![w] = t]
    BY <2>1, <2>2
  <2> HIDE DEF segs
  <2>4. /\ Shape(t) /\ t.pc = "manifest_open" /\ t.rec = writer[w].rec
        /\ t.seg = writer[w].seg /\ t.segs = segs
    BY <1>0, <2>2 DEF Shape
  <2>5. LoadDone(writer[w], t)
    BY <2>1, <2>4 DEF LoadDone, segs
  <2> QED
    BY <2>1, <2>3, <2>4, <2>5, OneShape DEF StepDone, LocalDone
<1>4. CASE ManifestOpen(w)
  <2>1. PICK t : t = [writer[w] EXCEPT !.pc = "manifest_write", !.mfd = TmpFd]
    OBVIOUS
  <2>2. writer' = [writer EXCEPT ![w] = t]
    BY <1>4, <2>1 DEF ManifestOpen
  <2>3. /\ Shape(t) /\ t.pc = "manifest_write" /\ t.rec = writer[w].rec
        /\ t.seg = writer[w].seg /\ t.segs = writer[w].segs /\ t.mfd = TmpFd
    BY <1>0, <2>1 DEF Shape
  <2>4. TmpOpened(writer[w], t)
    BY <1>4, <2>3 DEF ManifestOpen, At, TmpOpened
  <2> QED
    BY <2>2, <2>3, <2>4, OneShape DEF StepDone, ManifestDone
<1>5. CASE ManifestWrite(w)
  <2>1. PICK t : t = [writer[w] EXCEPT !.pc = "manifest_replace", !.mfd = NoFile]
    OBVIOUS
  <2>2. writer' = [writer EXCEPT ![w] = t]
    BY <1>5, <2>1 DEF ManifestWrite
  <2>3. /\ Shape(t) /\ t.pc = "manifest_replace" /\ t.rec = writer[w].rec
        /\ t.seg = writer[w].seg /\ t.segs = writer[w].segs
    BY <1>0, <2>1 DEF Shape
  <2>4. TmpFd # ManifestFd
    BY DEF TmpFd, ManifestFd
  <2>5. TmpWritten(writer[w], t)
    BY <1>5, <2>3, <2>4 DEF ManifestWrite, At, TmpWritten
  <2> QED
    BY <2>2, <2>3, <2>5, OneShape DEF StepDone, ManifestDone
<1> QED
  BY <1>1, <1>2, <1>3, <1>4, <1>5

LEMMA MoveSteps ==
  ASSUME Shapes, NEW w \in Writers, NEW log, ManifestReplace(w)
  PROVE  Unmoved(w) /\ StepDone(w, log)
<1> DEFINE moved(fd) == IF fd = ManifestFd THEN Unlinked
                        ELSE IF fd = TmpFd THEN ManifestFd ELSE fd
           chain == [writer[w] EXCEPT !.pc = "chain_start", !.seg = NoSegment, !.segs = <<>>]
           next == IF writer[w].seg.status = "open" \/ writer[w].call = 0
                   THEN IdleWriter ELSE chain
<1>0. writer[w].pc = "manifest_replace" /\ UNCHANGED files
  BY DEF ManifestReplace, At
<1>1. CASE tmp = Absent
  BY <1>0, <1>1, FinishDone DEF ManifestReplace, StepDone, LocalDone, Untouched
<1>2. CASE tmp # Absent
  <2>1. /\ manifest' = tmp /\ tmp' = Absent
        /\ acked' = IF writer[w].seg.status = "open" THEN acked \union {writer[w].rec} ELSE acked
        /\ writer' = [v \in Writers |->
               IF v = w THEN next ELSE [writer[v] EXCEPT !.mfd = moved(@)]]
    BY <1>2 DEF ManifestReplace
  <2>2. Shape(next) /\ next.pc \in CalmPC /\ next.segs = <<>> /\ next.seg = NoSegment
    <3>1. PICK s : s = chain
      OBVIOUS
    <3>2. Shape(writer[w])
      BY DEF Shapes
    <3>3. Shape(s) /\ s.pc = "chain_start" /\ s.segs = <<>> /\ s.seg = NoSegment
      BY <3>1, <3>2 DEF Shape
    <3> HIDE DEF chain
    <3> QED
      BY <3>1, <3>3, IdleShape DEF CalmPC
  <2> HIDE DEF next, moved
  <2>3. writer'[w] = next
    BY <2>1
  <2>4. ASSUME NEW v \in Writers \ {w}
        PROVE  /\ Shape(writer'[v]) /\ Alike(writer[v], writer'[v])
               /\ writer'[v].fd = writer[v].fd
    <3>1. PICK u : u = [writer[v] EXCEPT !.mfd = moved(writer[v].mfd)]
      OBVIOUS
    <3>2. Shape(writer[v])
      BY DEF Shapes
    <3>3. writer'[v] = u
      BY <2>1, <3>1
    <3>4. Shape(u) /\ Alike(writer[v], u) /\ u.fd = writer[v].fd
      BY <3>1, <3>2 DEF Shape, Alike
    <3> QED
      BY <3>3, <3>4
  <2>5. writer' = [v \in Writers |-> writer'[v]]
    BY <2>1
  <2>6. Unmoved(w)
    BY <2>2, <2>3, <2>4, <2>5 DEF Unmoved, Shapes
  <2>7. ReplaceDone(writer[w], next)
    BY <1>0, <1>2, <2>1, <2>2 DEF ReplaceDone, RestDone
  <2> QED
    BY <2>3, <2>6, <2>7 DEF StepDone, ManifestDone
<1> QED
  BY <1>1, <1>2

LEMMA CrashDone ==
  ASSUME Shapes, NEW w \in Writers, NEW log, Crash(w)
  PROVE  Unmoved(w) /\ StepDone(w, log)
<1>1. Unmoved(w) /\ RestDone(writer[w], writer'[w])
  BY FinishDone DEF Crash
<1>2. CASE UNCHANGED files
  BY <1>1, <1>2 DEF Crash, StepDone, LocalDone, Untouched
<1>3. CASE ~UNCHANGED files
  BY <1>1, <1>3 DEF Crash, StepDone, FilesDone, CutDone, At
<1> QED
  BY <1>2, <1>3

\* Every step of a process in append() or rotate() is one of these.
LEMMA AnyStep ==
  ASSUME Shapes, NEW w \in Writers, NEW log, log = LogOf[w],
         CallAppend(w) \/ CallRotate(w) \/ Step(w) \/ Crash(w)
  PROVE  Unmoved(w) /\ StepDone(w, log)
<1>1. CASE CallAppend(w) \/ CallRotate(w)
  BY <1>1, CallDone DEF StepDone, LocalDone
<1>2. CASE \/ RotateIfNeeded(w) \/ RotateRead(w) \/ RotateCheck(w)
           \/ RotateHash(w) \/ RecordHash(w) \/ ChainStart(w)
  BY <1>2, RotateSteps, HashSteps, StartSteps DEF StepDone
<1>3. CASE RotateReplace(w)
  BY <1>3, ReplaceSteps
<1>4. CASE OpenLog(w) \/ LockLog(w) \/ ReadTail(w) \/ WriteRecord(w)
  BY <1>4, AppendSteps
<1>5. CASE RecordRead(w) \/ ManifestLoad(w) \/ ManifestOpen(w) \/ ManifestWrite(w)
  BY <1>5, RecordSteps
<1>6. CASE ManifestReplace(w) \/ Crash(w)
  BY <1>6, MoveSteps, CrashDone
<1> QED
  BY <1>1, <1>2, <1>3, <1>4, <1>5, <1>6 DEF Step

-----------------------------------------------------------------------------
(* The files, the entries and the one process that appends.                *)

EntryShape(e) ==
    e = [path |-> e.path, status |-> e.status,
         first_seq |-> e.first_seq, last_seq |-> e.last_seq,
         prev_segment_head |-> e.prev_segment_head, head_hash |-> e.head_hash,
         file_sha256 |-> e.file_sha256, deletion_status |-> e.deletion_status]

\* An entry tells what its file held when it was hashed.  The file of a
\* closed one is there, under its own name, and holds the same for ever.
EntryOK(e, dir, log) ==
    LET lines == e.file_sha256 IN
    /\ EntryShape(e)
    /\ ProperFile(lines) /\ lines # <<>> /\ Parses(lines)
    /\ e.first_seq = lines[1].seq /\ e.last_seq = lines[Len(lines)].seq
    /\ \/ e.status = "open" /\ e.path = log
       \/ /\ e.status = "closed" /\ e.path = IdOf(e)
          /\ e.path \in DOMAIN dir /\ dir[e.path] = lines

EntriesOK(segs, dir, log) ==
    IsLog(segs) /\ \A i \in 1..Len(segs) : EntryOK(segs[i], dir, log)

ManifestOK(m, dir, log) ==
    \/ m \in {Absent, Empty, Garbled}
    \/ m = Saved(m.segments) /\ EntriesOK(m.segments, dir, log)

\* What an appender knows of the log that holds these lines.
AppenderOK(s, dir, log) ==
    LET lines == LinesIn(dir, log) IN
    /\ s.pc \in PC
    /\ s.pc \in OpenPC => s.fd = log /\ log \in DOMAIN dir
    /\ s.pc \in {"open_log"} \union OpenPC => s.start.seq \in Nat
    /\ s.pc \in {"rotate_hash", "rotate_check", "rotate_replace", "record_hash"}
          => lines # <<>> /\ Parses(lines)
    /\ s.pc = "rotate_hash" => s.seg = SegmentOf(log, lines, "closed")
    /\ s.pc \in {"rotate_check", "rotate_replace"} => s.seg = FileSegment(log, lines, "closed")
    /\ s.pc = "rotate_replace" => IdOf(s.seg) \notin DOMAIN dir
    /\ s.pc = "write_record" =>
          /\ TailReadable(lines)
          /\ s.rec = MakeEnvelope(NoKey, s.rec.seq, s.rec.prev_hash, s.rec.payload, NoStamp)
          /\ s.rec.seq = NextSeq(lines, s.start.seq)
    /\ s.pc = "record_read" =>
          \/ s.rec \in Elements(lines) /\ s.rec.kind = "envelope"
          \/ ~Parses(lines)
    /\ s.pc = "record_hash" => /\ s.rec \in Elements(lines) /\ s.rec.kind = "envelope"
                               /\ s.seg = SegmentOf(log, lines, "open")
    /\ s.pc \in ManifestPC =>
          \/ /\ lines # <<>> /\ Parses(lines) /\ s.seg = FileSegment(log, lines, "open")
             /\ s.rec \in Elements(lines) /\ s.rec.kind = "envelope"
          \/ s.seg.status = "closed" /\ EntryOK(s.seg, dir, log) /\ lines = <<>>

VerifierOK(s) ==
    /\ s.pc \in {"idle", "verify_segment", "manifest_open", "manifest_write", "manifest_replace"}
    /\ s.seg = NoSegment /\ s.call = 0

\* A record that append() has returned is a line of a file.
Kept(rec, dir) == rec.kind = "envelope" /\ \E name \in DOMAIN dir : rec \in Elements(dir[name])

ArchiveInv(a, log) ==
    /\ Shapes
    /\ \A name \in DOMAIN files : ProperFile(files[name])
    /\ ManifestOK(manifest, files, log) /\ ManifestOK(tmp, files, log)
    /\ \A w \in Writers : EntriesOK(writer[w].segs, files, log)
    /\ AppenderOK(writer[a], files, log)
    /\ \A v \in Verifiers : VerifierOK(writer[v])
    /\ \A rec \in acked : Kept(rec, files)

-----------------------------------------------------------------------------
(* The exporter beside them.                                               *)

ClosedFile(path, dir, log) == path # log /\ path # ManifestName /\ path \in DOMAIN dir

\* An object that is evidence.
Evidence(name, held, dir, log) ==
    /\ name \in DOMAIN held /\ held[name] # Partial
    /\ name.source # ManifestName =>
          /\ ClosedFile(name.source, dir, log)
          /\ held[name] = name.sha256 /\ dir[name.source] = name.sha256

ExportInv(log) ==
    LET todo == exporter.todo IN
    /\ IsLog(todo)
    /\ \A i \in 1..Len(todo) : todo[i] = ManifestName \/ ClosedFile(todo[i], files, log)
    /\ exporter.pc \in {"copy", "receipt"} => todo # <<>>
    /\ exporter.pc = "copy" /\ Head(todo) # ManifestName =>
          exporter.sha256 = files[Head(todo)]
    /\ exporter.pc = "receipt" => Evidence(Name, objects, files, log)
    /\ exporter.pc = "returned" => todo = <<>>
    /\ \A name \in receipts : Evidence(name, objects, files, log)
    /\ \A path \in exporter.listed :
          /\ ClosedFile(path, files, log)
          /\ \/ \E i \in 1..Len(todo) : todo[i] = path
             \/ \E name \in receipts : name.source = path

LEMMA NamesDiffer ==
  ASSUME NEW log, PlainName(log), NEW e
  PROVE  IdOf(e) # log /\ IdOf(e) # ManifestName
<1>1. IdOf(e) # log
  BY DEF PlainName, IdOf
<1>2. "first" \in DOMAIN IdOf(e) /\ "first" \notin DOMAIN ManifestName
  BY DEF IdOf, SegmentName, ManifestName
<1> QED
  BY <1>1, <1>2

LEMMA EntryBounds ==
  ASSUME NEW e, NEW dir, NEW log, EntryOK(e, dir, log)
  PROVE  e.first_seq \in Nat /\ e.last_seq \in Nat /\ e.first_seq <= e.last_seq
<1> DEFINE lines == e.file_sha256
<1>1. /\ ProperFile(lines) /\ lines # <<>> /\ Parses(lines)
      /\ e.first_seq = lines[1].seq /\ e.last_seq = lines[Len(lines)].seq
  BY DEF EntryOK
<1> HIDE DEF lines
<1> QED
  BY <1>1, ProperEnds

\* The entry of the log itself, and the one it becomes by a rename.
LEMMA FileEntries ==
  ASSUME NEW lines, ProperFile(lines), lines # <<>>, Parses(lines), NEW dir, NEW log
  PROVE  /\ EntryOK(FileSegment(log, lines, "open"), dir, log)
         /\ LET seg == FileSegment(log, lines, "closed")
                closed == [seg EXCEPT !.path = IdOf(seg)]
            IN  /\ closed.status = "closed" /\ closed.path = IdOf(seg)
                /\ closed.first_seq = seg.first_seq
                /\ IdOf(seg) \in DOMAIN dir /\ dir[IdOf(seg)] = lines => EntryOK(closed, dir, log)
<1>1. EntryOK(FileSegment(log, lines, "open"), dir, log)
  <2>1. PICK e : e = FileSegment(log, lines, "open")
    OBVIOUS
  <2>2. /\ EntryShape(e) /\ e.file_sha256 = lines /\ e.status = "open" /\ e.path = log
        /\ e.first_seq = lines[1].seq /\ e.last_seq = lines[Len(lines)].seq
    BY <2>1 DEF EntryShape, FileSegment
  <2>3. EntryOK(e, dir, log)
    BY <2>2 DEF EntryOK
  <2> QED
    BY <2>1, <2>3
<1>2. PICK seg : seg = FileSegment(log, lines, "closed")
  OBVIOUS
<1>3. /\ EntryShape(seg) /\ seg.file_sha256 = lines /\ seg.status = "closed"
      /\ seg.first_seq = lines[1].seq /\ seg.last_seq = lines[Len(lines)].seq
  BY <1>2 DEF EntryShape, FileSegment
<1>4. PICK closed : closed = [seg EXCEPT !.path = IdOf(seg)]
  OBVIOUS
<1>5. /\ EntryShape(closed) /\ closed.file_sha256 = lines /\ closed.status = "closed"
      /\ closed.first_seq = seg.first_seq /\ closed.last_seq = seg.last_seq
      /\ closed.head_hash = seg.head_hash /\ closed.path = IdOf(seg)
  BY <1>3, <1>4 DEF EntryShape
<1>6. IdOf(closed) = IdOf(seg)
  BY <1>5 DEF IdOf
<1>7. IdOf(seg) \in DOMAIN dir /\ dir[IdOf(seg)] = lines => EntryOK(closed, dir, log)
  BY <1>3, <1>5, <1>6 DEF EntryOK
<1> QED
  BY <1>1, <1>2, <1>4, <1>5, <1>7

LEMMA HashedFile ==
  ASSUME NEW log, NEW lines, NEW status
  PROVE  [SegmentOf(log, lines, status) EXCEPT !.file_sha256 = lines]
            = FileSegment(log, lines, status)
  BY DEF SegmentOf, FileSegment

\* All files but the log are still there.
Preserves(dir, next, log) ==
    \A name \in DOMAIN dir : name # log => name \in DOMAIN next /\ next[name] = dir[name]

LEMMA EntriesPreserved ==
  ASSUME NEW dir, NEW next, NEW log, PlainName(log), Preserves(dir, next, log)
  PROVE  /\ \A e : EntryOK(e, dir, log) => EntryOK(e, next, log)
         /\ \A segs : EntriesOK(segs, dir, log) => EntriesOK(segs, next, log)
         /\ \A m : ManifestOK(m, dir, log) => ManifestOK(m, next, log)
<1>1. ASSUME NEW e, EntryOK(e, dir, log) PROVE EntryOK(e, next, log)
  <2>1. IdOf(e) # log
    BY NamesDiffer
  <2> QED
    BY <1>1, <2>1 DEF EntryOK, Preserves
<1>2. \A segs : EntriesOK(segs, dir, log) => EntriesOK(segs, next, log)
  BY <1>1 DEF EntriesOK
<1> QED
  BY <1>1, <1>2 DEF ManifestOK

LEMMA SortedEntries ==
  ASSUME NEW segs, NEW dir, NEW log, EntriesOK(segs, dir, log)
  PROVE  EntriesOK(SortedBySeq(segs), dir, log) /\ Permuted(segs, SortedBySeq(segs))
<1>1. IsLog(segs) /\ \A i \in 1..Len(segs) : segs[i].first_seq \in Nat
  BY EntryBounds DEF EntriesOK
<1> DEFINE new == SortedBySeq(segs)
<1>2. Permuted(segs, new)
  BY <1>1, SortPermutes
<1> HIDE DEF new
<1>3. EntriesOK(new, dir, log)
  BY <1>2 DEF Permuted, EntriesOK
<1> QED
  BY <1>2, <1>3 DEF new

\* The entries with one more, or one replaced.
ReplacedAt(segs, seg, i, new) ==
    /\ IsLog(new)
    /\ \/ /\ i = Len(segs) + 1 /\ Len(new) = Len(segs) + 1
       \/ /\ i \in 1..Len(segs) /\ Len(new) = Len(segs)
    /\ new[i] = seg
    /\ \A j \in 1..Len(segs) : j # i => new[j] = segs[j]

LEMMA ExceptReplaces ==
  ASSUME NEW segs, IsLog(segs), NEW i \in 1..Len(segs), NEW seg
  PROVE  ReplacedAt(segs, seg, i, [segs EXCEPT ![i] = seg])
<1> DEFINE S == Elements(segs) \union {seg}
           new == [segs EXCEPT ![i] = seg]
<1>1. segs \in Seq(S) /\ seg \in S
  <2>1. segs \in Seq(Elements(segs)) /\ Elements(segs) \subseteq S
    BY DEF IsLog
  <2> QED
    BY <2>1, SeqMonotonic
<1> HIDE DEF S
<1>2. new \in Seq(S) /\ Len(new) = Len(segs)
      /\ \A j \in 1..Len(segs) : new[j] = IF j = i THEN seg ELSE segs[j]
  BY <1>1, ExceptSeq
<1> HIDE DEF new
<1>3. IsLog(new)
  BY <1>2, SeqIsLog
<1>4. ReplacedAt(segs, seg, i, new)
  BY <1>2, <1>3 DEF ReplacedAt
<1> QED
  BY <1>4 DEF new

\* Recording an entry puts it in the place of one that matches, or at the
\* end when none does, and sorts.
LEMMA UpsertReplaces ==
  ASSUME NEW segs, IsLog(segs), NEW seg
  PROVE  \E i, new :
            /\ ReplacedAt(segs, seg, i, new) /\ Upsert(segs, seg) = SortedBySeq(new)
            /\ \/ i \in 1..Len(segs) /\ Replaces(seg, segs[i])
                  /\ \A j \in 1..Len(segs) : Replaces(seg, segs[j]) => i <= j
               \/ i = Len(segs) + 1 /\ \A j \in 1..Len(segs) : ~Replaces(seg, segs[j])
<1> DEFINE matches == {i \in DOMAIN segs : Replaces(seg, segs[i])}
           least(i) == \A j \in matches : i <= j
           first == CHOOSE i \in matches : least(i)
<1>1. Len(segs) \in Nat /\ DOMAIN segs = 1..Len(segs)
  BY LogFacts
<1>2. Upsert(segs, seg) = SortedBySeq(IF matches = {} THEN Append(segs, seg)
                                                     ELSE [segs EXCEPT ![first] = seg])
  BY DEF Upsert
<1>3. CASE matches = {}
  <2>1. ReplacedAt(segs, seg, Len(segs) + 1, Append(segs, seg))
    <3>1. \A j \in 1..Len(segs) : Append(segs, seg)[j] = segs[j]
      BY AppendLog
    <3> QED
      BY <3>1, AppendLog DEF ReplacedAt
  <2>2. \A j \in 1..Len(segs) : ~Replaces(seg, segs[j])
    BY <1>1, <1>3
  <2>3. Upsert(segs, seg) = SortedBySeq(Append(segs, seg))
    BY <1>2, <1>3
  <2> QED
    BY <2>1, <2>2, <2>3
<1>4. CASE matches # {}
  <2>1. matches \subseteq Nat
    BY <1>1
  <2>2. first \in matches /\ least(first)
    <3>1. \E i \in matches : least(i)
      BY <1>4, <2>1, LeastNat
    <3> HIDE DEF least, matches
    <3> QED
      BY <3>1
  <2> DEFINE new == [segs EXCEPT ![first] = seg]
  <2>3. first \in 1..Len(segs) /\ Replaces(seg, segs[first])
        /\ \A j \in 1..Len(segs) : Replaces(seg, segs[j]) => first <= j
    BY <1>1, <2>2
  <2>4. Upsert(segs, seg) = SortedBySeq(new)
    BY <1>2, <1>4
  <2> HIDE DEF first, matches
  <2>5. ReplacedAt(segs, seg, first, new)
    BY <2>3, ExceptReplaces
  <2> HIDE DEF new
  <2> QED
    BY <2>3, <2>4, <2>5
<1> QED
  BY <1>3, <1>4

LEMMA ReplacedEntries ==
  ASSUME NEW segs, NEW dir, NEW log, EntriesOK(segs, dir, log), NEW seg, EntryOK(seg, dir, log),
         NEW i, NEW new, ReplacedAt(segs, seg, i, new)
  PROVE  EntriesOK(new, dir, log)
<1>1. Len(segs) \in Nat
  BY LogFacts DEF EntriesOK
<1>2. \A j \in 1..Len(new) : j = i \/ j \in 1..Len(segs)
  BY <1>1 DEF ReplacedAt
<1> QED
  BY <1>2 DEF EntriesOK, ReplacedAt

LEMMA UpsertEntries ==
  ASSUME NEW segs, NEW dir, NEW log, EntriesOK(segs, dir, log), NEW seg, EntryOK(seg, dir, log)
  PROVE  EntriesOK(Upsert(segs, seg), dir, log)
<1>1. PICK i, new : ReplacedAt(segs, seg, i, new) /\ Upsert(segs, seg) = SortedBySeq(new)
  BY UpsertReplaces DEF EntriesOK
<1>2. EntriesOK(new, dir, log)
  BY <1>1, ReplacedEntries
<1> QED
  BY <1>1, <1>2, SortedEntries

\* The newest entry is one of those there are, and none ends later.
LEMMA NewestFacts ==
  ASSUME NEW segs, IsLog(segs), segs # <<>>, \A i \in 1..Len(segs) : segs[i].last_seq \in Nat
  PROVE  \E i \in 1..Len(segs) :
            /\ NewestOf(segs) = segs[i]
            /\ \A j \in 1..Len(segs) : segs[j].last_seq <= segs[i].last_seq
<1> DEFINE n == Len(segs)
           above(i, j) == \/ segs[j].last_seq < segs[i].last_seq
                          \/ segs[j].last_seq = segs[i].last_seq /\ j <= i
           newest(i) == \A j \in 1..n : above(i, j)
           bad == {k \in 1..n : ~(\E i \in 1..k : \A j \in 1..k : above(i, j))}
<1>1. n \in Nat /\ n # 0 /\ DOMAIN segs = 1..n
  BY LogFacts
<1> HIDE DEF n
<1>0. \A i \in 1..n : segs[i].last_seq \in Nat
  BY DEF n
<1>2. bad = {}
  <2> SUFFICES ASSUME bad # {} PROVE FALSE
    OBVIOUS
  <2>1. bad \subseteq Nat
    BY <1>1
  <2> HIDE DEF bad
  <2>2. PICK k \in bad : \A m \in bad : k <= m
    BY <2>1, LeastNat
  <2> USE DEF bad
  <2>3. k \in 1..n /\ ~(\E i \in 1..k : \A j \in 1..k : above(i, j))
    OBVIOUS
  <2>4. k # 1
    <3> SUFFICES ASSUME k = 1 PROVE FALSE
      OBVIOUS
    <3>1. 1 \in 1..1 /\ \A j \in 1..1 : above(1, j)
      OBVIOUS
    <3> QED
      BY <2>3, <3>1
  <2>5. k - 1 \in 1..n /\ k - 1 \notin bad
    <3>1. k - 1 \in 1..n /\ ~(k <= k - 1)
      BY <1>1, <2>3, <2>4
    <3> HIDE DEF bad
    <3> QED
      BY <2>2, <3>1
  <2>6. PICK i \in 1..(k - 1) : \A j \in 1..(k - 1) : above(i, j)
    BY <2>5
  <2>7. k \in Nat /\ i \in 1..n /\ k \in 1..n /\ i \in 1..k /\ i < k
    BY <1>1, <2>3, <2>6
  <2> HIDE DEF bad
  <2>8. segs[i].last_seq \in Nat /\ segs[k].last_seq \in Nat
    BY <1>0, <2>7
  <2>9. \A j \in 1..k : j \in 1..(k - 1) \/ j = k
    BY <2>7
  <2>10. CASE segs[k].last_seq < segs[i].last_seq
    <3>1. \A j \in 1..k : above(i, j)
      BY <2>6, <2>9, <2>10
    <3> QED
      BY <2>3, <2>7, <3>1
  <2>11. CASE ~(segs[k].last_seq < segs[i].last_seq)
    <3>1. \A j \in 1..k : above(k, j)
      <4> SUFFICES ASSUME NEW j \in 1..k PROVE above(k, j)
        OBVIOUS
      <4>1. CASE j = k
        BY <2>7, <4>1
      <4>2. CASE j # k
        <5>1. j \in 1..(k - 1) /\ j < k /\ segs[j].last_seq \in Nat
          BY <1>0, <1>1, <2>7, <2>9, <4>2
        <5>2. above(i, j)
          BY <2>6, <5>1
        <5> QED
          BY <2>7, <2>8, <2>11, <5>1, <5>2
      <4> QED
        BY <4>1, <4>2
    <3>2. k \in 1..k
      BY <2>7
    <3> QED
      BY <2>3, <3>1, <3>2
  <2> QED
    BY <2>10, <2>11
<1>3. \E i \in 1..n : newest(i)
  <2>1. n \in 1..n
    BY <1>1
  <2> QED
    BY <1>2, <2>1
<1>4. NewestOf(segs) = segs[CHOOSE i \in 1..n : newest(i)]
  BY <1>1 DEF NewestOf
<1>5. PICK best \in 1..n : best = (CHOOSE i \in 1..n : newest(i)) /\ newest(best)
  <2> HIDE DEF newest
  <2> QED
    BY <1>3
<1>6. \A j \in 1..n : segs[j].last_seq <= segs[best].last_seq
  <2> SUFFICES ASSUME NEW j \in 1..n PROVE segs[j].last_seq <= segs[best].last_seq
    OBVIOUS
  <2>1. above(best, j)
    BY <1>5
  <2>2. segs[j].last_seq \in Nat /\ segs[best].last_seq \in Nat
    BY <1>0, <1>5
  <2> QED
    BY <2>1, <2>2
<1> HIDE DEF newest
<1> QED
  BY <1>4, <1>5, <1>6 DEF n

DirOK(dir) == \A name \in DOMAIN dir : ProperFile(dir[name])

\* What a step leaves of the files and of the records in them.
DirKept(dir, next, log) ==
    /\ DirOK(next) /\ Preserves(dir, next, log)
    /\ \A rec : Kept(rec, dir) => Kept(rec, next)

LEMMA SameDir ==
  ASSUME NEW dir, NEW log, DirOK(dir)
  PROVE  DirKept(dir, dir, log)
  BY DEF DirKept, Preserves

LEMMA EmptyIsProper == ProperFile(<<>>) /\ Len(<<>>) = 0
<1>1. Len(<<>>) = 0 /\ IsLog(<<>>)
  BY EmptyIsLog, LogFacts
<1> QED
  BY <1>1 DEF ProperFile

LEMMA LinesProper ==
  ASSUME NEW dir, NEW log, DirOK(dir)
  PROVE  ProperFile(LinesIn(dir, log))
  BY EmptyIsProper DEF DirOK, LinesIn

LEMMA RenamedDir ==
  ASSUME NEW dir, NEW log, DirOK(dir), log \in DOMAIN dir, NEW closed, closed \notin DOMAIN dir,
         NEW next, next = [name \in (DOMAIN dir \ {log}) \union {closed} |->
                             IF name = closed THEN dir[log] ELSE dir[name]]
  PROVE  /\ DirKept(dir, next, log)
         /\ closed \in DOMAIN next /\ next[closed] = dir[log] /\ LinesIn(next, log) = <<>>
<1>1. /\ \A name \in DOMAIN dir : name # log => name \in DOMAIN next /\ next[name] = dir[name]
      /\ closed \in DOMAIN next /\ next[closed] = dir[log]
      /\ \A name \in DOMAIN next : name = closed \/ name \in DOMAIN dir \ {log}
  OBVIOUS
<1>2. DirOK(next)
  BY <1>1 DEF DirOK
<1>3. \A rec : Kept(rec, dir) => Kept(rec, next)
  BY <1>1 DEF Kept
<1> QED
  BY <1>1, <1>2, <1>3 DEF DirKept, Preserves, LinesIn

LEMMA OpenedDir ==
  ASSUME NEW dir, NEW log, DirOK(dir),
         NEW next, next = [name \in DOMAIN dir \union {log} |-> LinesIn(dir, name)]
  PROVE  DirKept(dir, next, log) /\ log \in DOMAIN next /\ LinesIn(next, log) = LinesIn(dir, log)
<1>1. /\ \A name \in DOMAIN dir : name \in DOMAIN next /\ next[name] = dir[name]
      /\ log \in DOMAIN next /\ next[log] = LinesIn(dir, log)
      /\ \A name \in DOMAIN next : name = log \/ name \in DOMAIN dir
  BY DEF LinesIn
<1>2. DirOK(next)
  BY <1>1, LinesProper DEF DirOK
<1>3. \A rec : Kept(rec, dir) => Kept(rec, next)
  BY <1>1 DEF Kept
<1> QED
  BY <1>1, <1>2, <1>3 DEF DirKept, Preserves, LinesIn

LEMMA WrittenDir ==
  ASSUME NEW dir, NEW log, DirOK(dir), log \in DOMAIN dir, NEW line, ProperLine(line),
         TailReadable(dir[log]),
         dir[log] # <<>> /\ IsEnvelope(line) => line.seq = dir[log][Len(dir[log])].seq + 1,
         NEW next, next = [name \in DOMAIN dir |->
                             IF name = log THEN Extend(dir[name], line) ELSE dir[name]]
  PROVE  DirKept(dir, next, log) /\ log \in DOMAIN next /\ next[log] = Extend(dir[log], line)
<1> DEFINE new == Extend(dir[log], line)
<1>1. ProperFile(dir[log])
  BY DEF DirOK
<1>2. /\ ProperFile(new)
      /\ \A rec \in Elements(dir[log]) : rec.kind = "envelope" => rec \in Elements(new)
  BY <1>1, ProperExtend
<1>3. /\ DOMAIN next = DOMAIN dir /\ next[log] = new
      /\ \A name \in DOMAIN dir : name # log => next[name] = dir[name]
  OBVIOUS
<1> HIDE DEF new
<1>4. DirOK(next)
  BY <1>2, <1>3 DEF DirOK
<1>5. \A rec : Kept(rec, dir) => Kept(rec, next)
  BY <1>2, <1>3 DEF Kept
<1> QED
  BY <1>3, <1>4, <1>5 DEF DirKept, Preserves, new

LEMMA LinesAreIn ==
  ASSUME NEW log
  PROVE  Lines(log) = LinesIn(files, log) /\ (Readable(log) <=> Parses(LinesIn(files, log)))
<1>1. Lines(log) = LinesIn(files, log)
  BY DEF Lines, Exists, LinesIn
<1> QED
  BY <1>1 DEF Readable, Parses

LEMMA RestOK ==
  ASSUME NEW s, s.pc \in CalmPC, NEW dir, NEW log
  PROVE  AppenderOK(s, dir, log)
  BY DEF AppenderOK, CalmPC, PC, OpenPC, ManifestPC

\* The directory as the invariant has it.
StateOK(log) ==
    /\ DirOK(files) /\ ManifestOK(manifest, files, log) /\ ManifestOK(tmp, files, log)
    /\ \A rec \in acked : Kept(rec, files)

LEMMA LoadedOK ==
  ASSUME NEW log, ManifestOK(manifest, files, log), Loadable
  PROVE  EntriesOK(LoadedSegments, files, log)
<1>1. EntriesOK(<<>>, files, log)
  BY EmptyIsProper, EmptyIsLog DEF EntriesOK
<1>2. /\ Absent.state # "empty" /\ Empty.state = "empty" /\ Garbled.state = "garbled"
      /\ \A segs : Saved(segs).state = "saved" /\ Absent.state # "saved"
  BY DEF Absent, Empty, Garbled, Saved
<1> QED
  BY <1>1, <1>2 DEF ManifestOK, Loadable, LoadedSegments

LEMMA LocalOK ==
  ASSUME NEW log, StateOK(log), NEW s, NEW t, LocalDone(s, t, log),
         AppenderOK(s, files, log), EntriesOK(s.segs, files, log)
  PROVE  AppenderOK(t, files, log) /\ EntriesOK(t.segs, files, log)
<1> DEFINE lines == LinesIn(files, log)
<1>0. /\ Lines(log) = lines /\ (Readable(log) <=> Parses(lines)) /\ ProperFile(lines)
  BY LinesAreIn, LinesProper DEF StateOK
<1> HIDE DEF lines
<1>1. CASE RestDone(s, t)
  <2>1. EntriesOK(<<>>, files, log)
    BY EmptyIsProper, EmptyIsLog DEF EntriesOK
  <2> QED
    BY <1>1, <2>1, RestOK DEF RestDone
<1>2. CASE TakeDone(s, t, log)
  BY <1>0, <1>2 DEF TakeDone, AppenderOK, PC, OpenPC, ManifestPC, lines
<1>3. CASE HashDone(s, t, log)
  <2>1. lines = files[log]
    BY <1>3 DEF HashDone, Exists, lines, LinesIn
  <2>2. CASE s.pc = "rotate_hash"
    <3>1. /\ lines # <<>> /\ Parses(lines) /\ s.seg = SegmentOf(log, lines, "closed")
          /\ t.pc = "rotate_check" /\ t.seg = [s.seg EXCEPT !.file_sha256 = lines]
      BY <1>3, <2>1, <2>2 DEF HashDone, AppenderOK, lines
    <3>2. t.seg = FileSegment(log, lines, "closed")
      BY <3>1, HashedFile
    <3> QED
      BY <1>3, <3>1, <3>2 DEF HashDone, AppenderOK, PC, OpenPC, ManifestPC, lines
  <2>3. CASE s.pc = "record_hash"
    <3>1. /\ lines # <<>> /\ Parses(lines) /\ s.seg = SegmentOf(log, lines, "open")
          /\ s.rec \in Elements(lines) /\ s.rec.kind = "envelope"
          /\ t.pc = "manifest_load" /\ t.seg = [s.seg EXCEPT !.file_sha256 = lines]
          /\ t.rec = s.rec
      BY <1>3, <2>1, <2>3 DEF HashDone, AppenderOK, lines
    <3>2. t.seg = FileSegment(log, lines, "open")
      BY <3>1, HashedFile
    <3> QED
      BY <1>3, <3>1, <3>2 DEF HashDone, AppenderOK, PC, OpenPC, ManifestPC, lines
  <2> QED
    BY <1>3, <2>2, <2>3 DEF HashDone
<1>4. CASE CheckDone(s, t)
  BY <1>4 DEF CheckDone, AppenderOK, PC, OpenPC, ManifestPC
<1>5. CASE StartDone(s, t, log)
  <2>1. t.start.seq \in Nat
    <3>1. CASE lines # <<>>
      <4>1. Readable(log) /\ t.start.seq = NextSeq(lines, 0)
        BY <1>0, <1>5, <3>1 DEF StartDone
      <4>2. lines[Len(lines)].seq \in Nat
        BY <1>0, <3>1, <4>1, ProperEnds
      <4> QED
        BY <3>1, <4>1, <4>2 DEF NextSeq
    <3>2. CASE lines = <<>>
      <4>1. /\ Loadable
            /\ t.start.seq = IF LoadedSegments = <<>> THEN 0
                             ELSE NewestOf(LoadedSegments).last_seq + 1
        BY <1>0, <1>5, <3>2 DEF StartDone
      <4>2. EntriesOK(LoadedSegments, files, log)
        BY <4>1, LoadedOK DEF StateOK
      <4> DEFINE segs == LoadedSegments
      <4> HIDE DEF segs
      <4>3. IsLog(segs) /\ \A i \in 1..Len(segs) : segs[i].last_seq \in Nat
        BY <4>2, EntryBounds DEF EntriesOK, segs
      <4>4. segs # <<>> => NewestOf(segs).last_seq \in Nat
        BY <4>3, NewestFacts
      <4> QED
        BY <4>1, <4>4 DEF segs
    <3> QED
      BY <3>1, <3>2
  <2> QED
    BY <1>5, <2>1 DEF StartDone, AppenderOK, PC, OpenPC, ManifestPC
<1>6. CASE LockDone(s, t)
  BY <1>6 DEF LockDone, AppenderOK, PC, OpenPC, ManifestPC
<1>7. CASE TailDone(s, t, log)
  <2>1. PICK prev, payload : t.rec = MakeEnvelope(NoKey, NextSeq(lines, s.start.seq), prev,
                                                  payload, NoStamp)
    BY <1>0, <1>7 DEF TailDone
  <2>2. /\ t.rec.seq = NextSeq(lines, s.start.seq) /\ t.rec.prev_hash = prev
        /\ t.rec.payload = payload
    BY <2>1 DEF MakeEnvelope
  <2>3. /\ t.rec = MakeEnvelope(NoKey, t.rec.seq, t.rec.prev_hash, t.rec.payload, NoStamp)
        /\ t.rec.seq = NextSeq(lines, t.start.seq) /\ TailReadable(lines)
    BY <1>0, <1>7, <2>1, <2>2 DEF TailDone
  <2>4. /\ s.pc = "read_tail" /\ t.pc = "write_record" /\ t.segs = s.segs /\ t.fd = s.fd
        /\ t.start = s.start
    BY <1>7 DEF TailDone
  <2> QED
    BY <2>3, <2>4 DEF AppenderOK, PC, OpenPC, ManifestPC, lines
<1>8. CASE FindDone(s, t, log)
  <2>1. /\ s.pc = "record_read" /\ t.pc = "record_hash" /\ t.segs = s.segs /\ t.rec = s.rec
        /\ lines # <<>> /\ Parses(lines) /\ t.seg = SegmentOf(log, lines, "open")
    BY <1>0, <1>8 DEF FindDone
  <2>2. s.rec \in Elements(lines) /\ s.rec.kind = "envelope"
    BY <2>1 DEF AppenderOK, lines
  <2> QED
    BY <2>1, <2>2 DEF AppenderOK, PC, OpenPC, ManifestPC, lines
<1>9. CASE LoadDone(s, t)
  <2>1. EntryOK(s.seg, files, log)
    <3>1. \/ lines # <<>> /\ Parses(lines) /\ s.seg = FileSegment(log, lines, "open")
          \/ EntryOK(s.seg, files, log)
      BY <1>9 DEF LoadDone, AppenderOK, ManifestPC, lines
    <3>2. lines # <<>> /\ Parses(lines) => EntryOK(FileSegment(log, lines, "open"), files, log)
      BY <1>0, FileEntries
    <3> QED
      BY <3>1, <3>2
  <2>2. EntriesOK(t.segs, files, log)
    BY <1>9, <2>1, LoadedOK, UpsertEntries DEF LoadDone, StateOK
  <2> QED
    BY <1>9, <2>2 DEF LoadDone, AppenderOK, PC, OpenPC, ManifestPC
<1> QED
  BY <1>1, <1>2, <1>3, <1>4, <1>5, <1>6, <1>7, <1>8, <1>9 DEF LocalDone

\* The line that is written, whole or cut short, goes on where the log ends.
LEMMA LineWritten ==
  ASSUME NEW log, StateOK(log), NEW s, NEW t, WriteDone(s, t) \/ CutDone(s, t),
         AppenderOK(s, files, log), NEW lines, lines = LinesIn(files, log)
  PROVE  /\ s.fd = log /\ log \in DOMAIN files /\ files[log] = lines
         /\ TailReadable(lines) /\ s.rec.kind = "envelope" /\ s.rec.seq \in Nat
         /\ lines # <<>> => s.rec.seq = lines[Len(lines)].seq + 1
         /\ \E line : /\ files' = [name \in DOMAIN files |->
                            IF name = log THEN Extend(files[name], line) ELSE files[name]]
                      /\ ProperLine(line) /\ (IsEnvelope(line) => line.seq = s.rec.seq)
                      /\ WriteDone(s, t) => line = s.rec
<1>0. ProperFile(lines)
  BY LinesProper DEF StateOK
<1>1. /\ s.fd = log /\ log \in DOMAIN files /\ files[log] = lines
      /\ TailReadable(lines) /\ s.start.seq \in Nat
      /\ s.rec = MakeEnvelope(NoKey, s.rec.seq, s.rec.prev_hash, s.rec.payload, NoStamp)
      /\ s.rec.seq = NextSeq(lines, s.start.seq)
  BY DEF WriteDone, CutDone, AppenderOK, OpenPC, LinesIn
<1>2. s.rec.seq \in Nat /\ (lines # <<>> => s.rec.seq = lines[Len(lines)].seq + 1)
  <2>1. CASE lines = <<>>
    BY <1>1, <2>1 DEF NextSeq
  <2>2. CASE lines # <<>>
    <3>1. Len(lines) \in 1..Len(lines) /\ IsEnvelope(lines[Len(lines)])
      BY <1>0, <1>1, <2>2, LogFacts DEF ProperFile, TailReadable
    <3>2. lines[Len(lines)].seq \in Nat
      BY <1>0, <3>1 DEF ProperFile, ProperLine
    <3> QED
      BY <1>1, <2>2, <3>2 DEF NextSeq
  <2> QED
    BY <2>1, <2>2
<1>3. PICK line : /\ files' = Written(log, line)
                  /\ line \in {s.rec, TornLine, [s.rec EXCEPT !.kind = "cut"]}
                  /\ WriteDone(s, t) => line = s.rec
  BY <1>1 DEF WriteDone, CutDone
<1>4. ProperLine(line) /\ (IsEnvelope(line) => line.seq = s.rec.seq) /\ s.rec.kind = "envelope"
  <2>1. ~IsEnvelope(TornLine) /\ "kind" \in DOMAIN TornLine
    BY DEF IsEnvelope, TornLine
  <2>2. PICK rec : rec = s.rec
    OBVIOUS
  <2>3. "kind" \in DOMAIN rec /\ rec.seq \in Nat /\ rec.kind = "envelope"
    BY <1>1, <1>2, <2>2 DEF MakeEnvelope
  <2>4. PICK torn : torn = [rec EXCEPT !.kind = "cut"]
    OBVIOUS
  <2>5. "kind" \in DOMAIN torn /\ torn.seq = rec.seq
    BY <1>1, <2>2, <2>4 DEF MakeEnvelope
  <2> QED
    BY <1>3, <2>1, <2>2, <2>3, <2>4, <2>5 DEF ProperLine
<1>5. files' = [name \in DOMAIN files |->
                  IF name = log THEN Extend(files[name], line) ELSE files[name]]
  BY <1>3 DEF Written
<1> QED
  BY <1>1, <1>2, <1>3, <1>4, <1>5

LEMMA FilesStep ==
  ASSUME NEW log, PlainName(log), StateOK(log), NEW s, NEW t, FilesDone(s, t, log),
         AppenderOK(s, files, log)
  PROVE  /\ AppenderOK(t, files', log) /\ t.segs \in {s.segs, <<>>}
         /\ DirKept(files, files', log) /\ UNCHANGED <<manifest, tmp, acked>>
<1> DEFINE lines == LinesIn(files, log)
<1>0. DirOK(files) /\ Lines(log) = lines /\ ProperFile(lines)
  BY LinesAreIn, LinesProper DEF StateOK
<1> HIDE DEF lines
<1>1. PICK next : next = files'
  OBVIOUS
<1>2. CASE RenameDone(s, t, log)
  <2> DEFINE closed == IdOf(s.seg)
  <2>1. /\ s.seg = FileSegment(log, lines, "closed") /\ closed \notin DOMAIN files
        /\ lines # <<>> /\ Parses(lines) /\ log \in DOMAIN files /\ files[log] = lines
        /\ t.pc = "manifest_load" /\ t.segs = s.segs /\ t.seg = [s.seg EXCEPT !.path = closed]
        /\ UNCHANGED <<manifest, tmp, acked>>
    BY <1>2 DEF RenameDone, AppenderOK, Exists, lines, LinesIn
  <2>2. next = [name \in (DOMAIN files \ {log}) \union {closed} |->
                   IF name = closed THEN files[log] ELSE files[name]]
    BY <1>1, <1>2 DEF RenameDone
  <2> HIDE DEF closed
  <2>3. /\ DirKept(files, next, log)
        /\ closed \in DOMAIN next /\ next[closed] = lines /\ LinesIn(next, log) = <<>>
    <3>1. DirOK(files) /\ log \in DOMAIN files /\ closed \notin DOMAIN files
      BY <1>0, <2>1
    <3>2. /\ DirKept(files, next, log)
          /\ closed \in DOMAIN next /\ next[closed] = files[log] /\ LinesIn(next, log) = <<>>
      BY <2>2, <3>1, RenamedDir
    <3> QED
      BY <2>1, <3>2
  <2>4. EntryOK(t.seg, next, log) /\ t.seg.status = "closed"
    BY <1>0, <2>1, <2>3, FileEntries DEF closed
  <2>5. AppenderOK(t, next, log)
    BY <2>1, <2>3, <2>4 DEF AppenderOK, PC, OpenPC, ManifestPC
  <2> QED
    BY <1>1, <2>1, <2>3, <2>5
<1>3. CASE OpenDone(s, t, log)
  <2>1. /\ s.pc = "open_log" /\ t.pc = "lock_log" /\ t.segs = s.segs
        /\ t.start = s.start /\ t.fd = log /\ UNCHANGED <<manifest, tmp, acked>>
    BY <1>3 DEF OpenDone
  <2>2. next = [name \in DOMAIN files \union {log} |-> LinesIn(files, name)]
    BY <1>1, <1>3, LinesAreIn DEF OpenDone
  <2>3. DirKept(files, next, log) /\ log \in DOMAIN next
    BY <1>0, <2>2, OpenedDir
  <2>4. AppenderOK(t, next, log)
    BY <2>1, <2>3 DEF AppenderOK, PC, OpenPC, ManifestPC
  <2> QED
    BY <1>1, <2>1, <2>3, <2>4
<1>4. CASE WriteDone(s, t) \/ CutDone(s, t)
  <2>1. /\ s.fd = log /\ log \in DOMAIN files /\ files[log] = lines
        /\ TailReadable(lines) /\ s.rec.kind = "envelope"
        /\ lines # <<>> => s.rec.seq = lines[Len(lines)].seq + 1
    BY <1>4, LineWritten DEF lines
  <2>2. PICK line :
           /\ next = [name \in DOMAIN files |->
                        IF name = log THEN Extend(files[name], line) ELSE files[name]]
           /\ ProperLine(line) /\ (IsEnvelope(line) => line.seq = s.rec.seq)
           /\ WriteDone(s, t) => line = s.rec
    BY <1>1, <1>4, LineWritten
  <2>3. DirKept(files, next, log) /\ log \in DOMAIN next /\ next[log] = Extend(lines, line)
    BY <1>0, <2>1, <2>2, WrittenDir
  <2>4. AppenderOK(t, next, log)
    <3>1. CASE WriteDone(s, t)
      <4>1. t.pc = "record_read" /\ t.rec = s.rec /\ line = s.rec
        BY <2>2, <3>1 DEF WriteDone
      <4>2. s.rec \in Elements(next[log]) \/ ~Parses(next[log])
        BY <1>0, <2>1, <2>2, <2>3, <4>1, ProperExtend
      <4>3. s.rec.kind = "envelope" /\ LinesIn(next, log) = next[log]
        BY <2>1, <2>3 DEF LinesIn
      <4> QED
        BY <4>1, <4>2, <4>3 DEF AppenderOK, PC, OpenPC, ManifestPC
    <3>2. CASE CutDone(s, t)
      BY <3>2, RestOK DEF CutDone, RestDone
    <3> QED
      BY <1>4, <3>1, <3>2
  <2> QED
    BY <1>1, <1>4, <2>3, <2>4 DEF WriteDone, CutDone, RestDone
<1> QED
  BY <1>2, <1>3, <1>4 DEF FilesDone

LEMMA SavedOK ==
  ASSUME NEW segs, NEW dir, NEW log, EntriesOK(segs, dir, log)
  PROVE  ManifestOK(Saved(segs), dir, log)
  BY DEF ManifestOK, Saved

LEMMA ManifestStep ==
  ASSUME NEW log, StateOK(log), NEW s, NEW t, ManifestDone(s, t), EntriesOK(s.segs, files, log),
         s.pc \in ManifestPC /\ s.seg.status = "open" => Kept(s.rec, files)
  PROVE  /\ files' = files /\ t.segs \in {s.segs, <<>>}
         /\ ManifestOK(manifest', files, log) /\ ManifestOK(tmp', files, log)
         /\ \A rec \in acked' : Kept(rec, files)
         /\ acked' # acked => s.seg.status = "open"
<1>1. /\ ManifestOK(Saved(s.segs), files, log) /\ ManifestOK(Garbled, files, log)
      /\ ManifestOK(Empty, files, log) /\ ManifestOK(Absent, files, log)
  BY SavedOK DEF ManifestOK
<1>2. CASE TmpOpened(s, t)
  BY <1>1, <1>2 DEF TmpOpened, StateOK
<1>3. CASE TmpWritten(s, t)
  BY <1>1, <1>3 DEF TmpWritten, StateOK
<1>4. CASE ReplaceDone(s, t)
  BY <1>1, <1>4 DEF ReplaceDone, RestDone, StateOK, ManifestPC
<1> QED
  BY <1>2, <1>3, <1>4 DEF ManifestDone

Mark(segs, i, status) == [segs EXCEPT ![i] = [segs[i] EXCEPT !.deletion_status = status]]

\* What verify_retention does to a process.
VerifyDone(s, t) ==
    /\ Untouched
    /\ \/ /\ s.pc = "idle" /\ t.pc = "verify_segment" /\ (VerifyAlone => Idle(Appending))
          /\ manifest.state = "saved" /\ t.segs = SortedBySeq(manifest.segments)
       \/ /\ s.pc = "verify_segment" /\ t.pc = "verify_segment"
          /\ \E i \in DOMAIN s.segs : \E status : t.segs = Mark(s.segs, i, status)
       \/ s.pc = "verify_segment" /\ t.pc = "manifest_open" /\ t.segs = s.segs
       \/ t.pc = "idle" /\ t.segs = <<>>

IdleIsVerifier ==
    VerifierOK(IdleWriter) /\ IdleWriter.pc = "idle" /\ IdleWriter.segs = <<>> /\ Shape(IdleWriter)

LEMMA IdleVerifies == IdleIsVerifier
  BY DEF IdleIsVerifier, VerifierOK, IdleWriter, Shape

LEMMA VerifierFinishes ==
  ASSUME Shapes, NEW v \in Writers, Finish(v)
  PROVE  /\ Unmoved(v) /\ VerifierOK(writer'[v])
         /\ writer'[v].pc = "idle" /\ writer'[v].segs = <<>>
<1>1. writer' = [writer EXCEPT ![v] = IdleWriter]
  BY DEF Finish
<1> QED
  BY <1>1, IdleVerifies, OneShape DEF IdleIsVerifier

LEMMA VerifyStep ==
  ASSUME Shapes, NEW v \in Writers, VerifierOK(writer[v]), CallVerify(v) \/ Verify(v)
  PROVE  Unmoved(v) /\ VerifierOK(writer'[v]) /\ VerifyDone(writer[v], writer'[v])
<1>0. Untouched
  BY DEF CallVerify, Verify, VerifySegment, VerifyEnds, Untouched, directory
<1>1. Shape(writer[v])
  BY DEF Shapes
<1>2. CASE CallVerify(v)
  <2> DEFINE segs == SortedBySeq(manifest.segments)
  <2>1. PICK t : t = [writer[v] EXCEPT !.pc = "verify_segment", !.segs = segs]
    OBVIOUS
  <2>2. writer' = [writer EXCEPT ![v] = t]
    BY <1>2, <2>1 DEF CallVerify
  <2> HIDE DEF segs
  <2>3. /\ Shape(t) /\ t.pc = "verify_segment" /\ t.segs = segs
        /\ t.seg = writer[v].seg /\ t.call = writer[v].call
    BY <1>1, <2>1 DEF Shape
  <2>4. writer'[v] = t /\ Unmoved(v)
    BY <2>2, <2>3, OneShape
  <2> QED
    BY <1>0, <1>2, <2>3, <2>4 DEF CallVerify, At, VerifyDone, VerifierOK, segs
<1>3. CASE VerifySegment(v)
  <2>1. PICK i, status :
           /\ writer[v].pc = "verify_segment" /\ i \in DOMAIN writer[v].segs
           /\ writer' = [writer EXCEPT ![v].segs[i].deletion_status = status]
    BY <1>3 DEF VerifySegment, At
  <2>2. PICK t : t = [writer[v] EXCEPT !.segs = Mark(writer[v].segs, i, status)]
    OBVIOUS
  <2>3. writer' = [writer EXCEPT ![v] = t]
    BY <2>1, <2>2 DEF Mark
  <2>4. /\ Shape(t) /\ t.pc = writer[v].pc /\ t.segs = Mark(writer[v].segs, i, status)
        /\ t.seg = writer[v].seg /\ t.call = writer[v].call
    BY <1>1, <2>2 DEF Shape
  <2>5. writer'[v] = t /\ Unmoved(v)
    BY <2>3, <2>4, OneShape
  <2> QED
    BY <1>0, <2>1, <2>4, <2>5 DEF VerifyDone, VerifierOK
<1>4. CASE VerifyEnds(v) /\ Finish(v)
  BY <1>0, <1>4, VerifierFinishes DEF VerifyDone
<1>5. CASE VerifyEnds(v) /\ Goto(v, "manifest_open")
  <2>1. PICK t : t = [writer[v] EXCEPT !.pc = "manifest_open"]
    OBVIOUS
  <2>2. writer' = [writer EXCEPT ![v] = t] /\ writer[v].pc = "verify_segment"
    BY <1>5, <2>1 DEF Goto, VerifyEnds, At
  <2>3. /\ Shape(t) /\ t.pc = "manifest_open" /\ t.segs = writer[v].segs
        /\ t.seg = writer[v].seg /\ t.call = writer[v].call
    BY <1>1, <2>1 DEF Shape
  <2>4. writer'[v] = t /\ Unmoved(v)
    BY <2>2, <2>3, OneShape
  <2> QED
    BY <1>0, <2>2, <2>3, <2>4 DEF VerifyDone, VerifierOK
<1> QED
  BY <1>2, <1>3, <1>4, <1>5 DEF Verify, VerifyEnds

\* A verifier that writes the manifest, or stops.
LEMMA VerifierStep ==
  ASSUME Shapes, NEW v \in Writers, VerifierOK(writer[v]), Step(v) \/ Crash(v)
  PROVE  /\ Unmoved(v) /\ VerifierOK(writer'[v])
         /\ \/ VerifyDone(writer[v], writer'[v])
            \/ ManifestDone(writer[v], writer'[v])
<1>1. Shape(writer[v]) /\ writer[v].call = 0 /\ writer[v].seg = NoSegment
  BY DEF Shapes, VerifierOK
<1>2. CASE Crash(v)
  <2>1. UNCHANGED <<files, manifest, tmp, acked>>
    BY <1>2 DEF Crash, At, VerifierOK
  <2> QED
    BY <1>2, <2>1, VerifierFinishes DEF Crash, VerifyDone, Untouched
<1>3. CASE ManifestOpen(v)
  <2>1. PICK t : t = [writer[v] EXCEPT !.pc = "manifest_write", !.mfd = TmpFd]
    OBVIOUS
  <2>2. writer' = [writer EXCEPT ![v] = t]
    BY <1>3, <2>1 DEF ManifestOpen
  <2>3. /\ Shape(t) /\ t.pc = "manifest_write" /\ t.rec = writer[v].rec
        /\ t.seg = writer[v].seg /\ t.segs = writer[v].segs /\ t.mfd = TmpFd /\ t.call = 0
    BY <1>1, <2>1 DEF Shape
  <2>4. TmpOpened(writer[v], t)
    BY <1>3, <2>3 DEF ManifestOpen, At, TmpOpened
  <2>5. VerifierOK(t)
    BY <1>1, <2>3 DEF VerifierOK
  <2> QED
    BY <2>2, <2>3, <2>4, <2>5, OneShape DEF ManifestDone
<1>4. CASE ManifestWrite(v)
  <2>1. PICK t : t = [writer[v] EXCEPT !.pc = "manifest_replace", !.mfd = NoFile]
    OBVIOUS
  <2>2. writer' = [writer EXCEPT ![v] = t]
    BY <1>4, <2>1 DEF ManifestWrite
  <2>3. /\ Shape(t) /\ t.pc = "manifest_replace" /\ t.seg = writer[v].seg /\ t.call = 0
    BY <1>1, <2>1 DEF Shape
  <2>4. writer'[v] = t
    BY <2>2, <2>3, OneShape
  <2>5. VerifierOK(writer'[v])
    BY <1>1, <2>3, <2>4 DEF VerifierOK
  <2>6. Unmoved(v) /\ StepDone(v, LogOf[v])
    BY <1>4, RecordSteps
  <2>7. writer[v].pc = "manifest_write" /\ writer'[v].pc = "manifest_replace"
    BY <1>4, <2>3, <2>4 DEF ManifestWrite, At
  <2>8. ManifestDone(writer[v], writer'[v])
    BY <2>6, <2>7 DEF StepDone, LocalDone, FilesDone, RestDone, TakeDone, HashDone, CheckDone,
       StartDone, LockDone, TailDone, FindDone, LoadDone, RenameDone, OpenDone, WriteDone,
       CutDone, CalmPC
  <2> QED
    BY <2>5, <2>6, <2>8
<1>5. CASE ManifestReplace(v) /\ tmp = Absent
  BY <1>5, VerifierFinishes DEF ManifestReplace, VerifyDone, Untouched
<1>6. CASE ManifestReplace(v) /\ tmp # Absent
  <2>1. NoSegment.status # "open"
    BY DEF NoSegment
  <2>2. writer'[v] = IdleWriter /\ writer[v].pc = "manifest_replace"
    BY <1>1, <1>6, <2>1 DEF ManifestReplace, At
  <2>3. Unmoved(v)
    BY <1>6, MoveSteps
  <2>4. ReplaceDone(writer[v], writer'[v])
    BY <1>6, <2>2, IdleShape DEF ManifestReplace, ReplaceDone, RestDone
  <2> QED
    BY <2>2, <2>3, <2>4, IdleVerifies DEF IdleIsVerifier, ManifestDone
<1> QED
  BY <1>2, <1>3, <1>4, <1>5, <1>6
     DEF Step, VerifierOK, At, RotateIfNeeded, RotateRead, RotateHash, RotateCheck,
         RotateReplace, ChainStart, OpenLog, LockLog, ReadTail, WriteRecord, RecordRead,
         RecordHash, HashFile, ManifestLoad

LEMMA MarkedEntries ==
  ASSUME NEW segs, NEW dir, NEW log, EntriesOK(segs, dir, log), NEW i \in DOMAIN segs, NEW status
  PROVE  EntriesOK(Mark(segs, i, status), dir, log)
<1>1. i \in 1..Len(segs) /\ IsLog(segs)
  BY LogFacts DEF EntriesOK
<1>2. EntryOK(segs[i], dir, log)
  BY <1>1 DEF EntriesOK
<1>3. PICK e : e = segs[i]
  OBVIOUS
<1>4. PICK marked : marked = [e EXCEPT !.deletion_status = status]
  OBVIOUS
<1>5. EntryShape(e)
  BY <1>2, <1>3 DEF EntryOK
<1>6. /\ EntryShape(marked) /\ marked.file_sha256 = e.file_sha256
      /\ marked.first_seq = e.first_seq /\ marked.last_seq = e.last_seq
      /\ marked.status = e.status /\ marked.path = e.path /\ marked.head_hash = e.head_hash
  BY <1>4, <1>5 DEF EntryShape
<1>7. IdOf(marked) = IdOf(e)
  BY <1>6 DEF IdOf
<1>8. EntryOK(marked, dir, log)
  BY <1>2, <1>3, <1>6, <1>7 DEF EntryOK
<1>9. ReplacedAt(segs, marked, i, Mark(segs, i, status))
  BY <1>1, <1>3, <1>4, ExceptReplaces DEF Mark
<1> QED
  BY <1>8, <1>9, ReplacedEntries

Archivers(a) == Writers = {a} \union Verifiers /\ a \notin Verifiers

LEMMA OnlyArchivers ==
  ASSUME NEW a, NEW log, OneAppender(a, log)
  PROVE  Archivers(a) /\ a \in Writers /\ LogOf[a] = log /\ PlainName(log)
  BY VerifiersAssumption DEF OneAppender, Appending, Archivers

LEMMA ArchiveState ==
  ASSUME NEW a, NEW log
  PROVE  ArchiveInv(a, log) <=>
            /\ Shapes /\ StateOK(log) /\ AppenderOK(writer[a], files, log)
            /\ \A w \in Writers : EntriesOK(writer[w].segs, files, log)
            /\ \A v \in Verifiers : VerifierOK(writer[v])
  BY DEF ArchiveInv, StateOK, DirOK

\* What does not depend on the descriptors is kept by a process that stays.
LEMMA AlikeOK ==
  ASSUME NEW s, NEW t, Alike(s, t), NEW dir, NEW log
  PROVE  /\ VerifierOK(s) => VerifierOK(t)
         /\ AppenderOK(s, dir, log) /\ t.fd = s.fd => AppenderOK(t, dir, log)
         /\ EntriesOK(s.segs, dir, log) => EntriesOK(t.segs, dir, log)
  BY DEF Alike, VerifierOK, AppenderOK

\* A step of the appender.
LEMMA ArchiveAppends ==
  ASSUME NEW a, NEW log, OneAppender(a, log), ArchiveInv(a, log),
         CallAppend(a) \/ CallRotate(a) \/ Step(a) \/ Crash(a)
  PROVE  ArchiveInv(a, log)' /\ DirKept(files, files', log)
<1> DEFINE s == writer[a]
           t == writer'[a]
<1>0. /\ Archivers(a) /\ a \in Writers /\ LogOf[a] = log /\ PlainName(log)
      /\ Shapes /\ StateOK(log) /\ AppenderOK(s, files, log)
      /\ \A w \in Writers : EntriesOK(writer[w].segs, files, log)
      /\ \A v \in Verifiers : VerifierOK(writer[v])
  BY OnlyArchivers, ArchiveState
<1>1. Unmoved(a) /\ StepDone(a, log)
  BY <1>0, AnyStep
<1>2. PICK next : next = files'
  OBVIOUS
<1> HIDE DEF s, t
<1>3. /\ AppenderOK(t, next, log) /\ EntriesOK(t.segs, next, log)
      /\ DirKept(files, next, log)
      /\ ManifestOK(manifest', next, log) /\ ManifestOK(tmp', next, log)
      /\ \A rec \in acked' : Kept(rec, next)
  <2>1. /\ DirOK(files) /\ EntriesOK(s.segs, files, log)
        /\ EntriesOK(<<>>, files, log)
    BY <1>0, EmptyIsProper, EmptyIsLog DEF StateOK, EntriesOK, s
  <2>2. CASE LocalDone(s, t, log)
    <3>1. next = files /\ UNCHANGED <<manifest, tmp, acked>>
      BY <1>2, <2>2 DEF LocalDone, Untouched
    <3>2. AppenderOK(t, files, log) /\ EntriesOK(t.segs, files, log)
      BY <1>0, <2>1, <2>2, LocalOK
    <3> QED
      BY <1>0, <2>1, <3>1, <3>2, SameDir DEF StateOK
  <2>3. CASE FilesDone(s, t, log)
    <3>1. /\ AppenderOK(t, next, log) /\ t.segs \in {s.segs, <<>>}
          /\ DirKept(files, next, log) /\ UNCHANGED <<manifest, tmp, acked>>
      BY <1>0, <1>2, <2>3, FilesStep
    <3>2. EntriesOK(t.segs, files, log)
      BY <2>1, <3>1
    <3>3. Preserves(files, next, log)
      BY <3>1 DEF DirKept
    <3>4. /\ EntriesOK(t.segs, next, log)
          /\ ManifestOK(manifest, next, log) /\ ManifestOK(tmp, next, log)
      BY <1>0, <3>2, <3>3, EntriesPreserved DEF StateOK
    <3>5. \A rec \in acked : Kept(rec, next)
      BY <1>0, <3>1 DEF StateOK, DirKept
    <3> QED
      BY <3>1, <3>4, <3>5
  <2>4. CASE ManifestDone(s, t)
    <3>1. ASSUME s.pc \in ManifestPC, s.seg.status = "open" PROVE Kept(s.rec, files)
      <4>1. s.rec \in Elements(LinesIn(files, log)) /\ s.rec.kind = "envelope"
        BY <1>0, <3>1 DEF AppenderOK
      <4>2. Elements(<<>>) = {}
        BY DEF Elements
      <4> QED
        BY <4>1, <4>2 DEF LinesIn, Kept
    <3>2. /\ files' = files /\ t.segs \in {s.segs, <<>>}
          /\ ManifestOK(manifest', files, log) /\ ManifestOK(tmp', files, log)
          /\ \A rec \in acked' : Kept(rec, files)
      BY <1>0, <2>1, <2>4, <3>1, ManifestStep
    <3>3. AppenderOK(t, files, log)
      <4>1. CASE TmpOpened(s, t) \/ TmpWritten(s, t)
        BY <1>0, <4>1 DEF TmpOpened, TmpWritten, AppenderOK, ManifestPC, PC, OpenPC
      <4>2. CASE ReplaceDone(s, t)
        BY <4>2, RestOK DEF ReplaceDone, RestDone
      <4> QED
        BY <2>4, <4>1, <4>2 DEF ManifestDone
    <3>4. EntriesOK(t.segs, files, log)
      BY <2>1, <3>2
    <3> QED
      BY <1>2, <2>1, <3>2, <3>3, <3>4, SameDir
  <2> QED
    BY <1>1, <2>2, <2>3, <2>4 DEF StepDone, s, t
<1>4. Preserves(files, next, log) /\ DirOK(next)
  BY <1>3 DEF DirKept
<1>5. \A w \in Writers : EntriesOK(writer'[w].segs, next, log)
  <2> SUFFICES ASSUME NEW w \in Writers, w # a PROVE EntriesOK(writer'[w].segs, next, log)
    BY <1>3 DEF t
  <2>1. EntriesOK(writer'[w].segs, files, log)
    BY <1>0, <1>1, AlikeOK DEF Unmoved
  <2> QED
    BY <1>0, <1>4, <2>1, EntriesPreserved
<1>6. \A v \in Verifiers : VerifierOK(writer'[v])
  BY <1>0, <1>1, AlikeOK DEF Unmoved, Archivers
<1>7. Shapes'
  BY <1>1 DEF Unmoved
<1>8. StateOK(log)'
  BY <1>2, <1>3, <1>4 DEF StateOK
<1>9. ArchiveInv(a, log)'
  BY <1>2, <1>3, <1>5, <1>6, <1>7, <1>8 DEF ArchiveInv, StateOK, DirOK, t
<1> QED
  BY <1>2, <1>3, <1>9

\* A step of a verifier.
LEMMA ArchiveVerifies ==
  ASSUME NEW a, NEW log, OneAppender(a, log), ArchiveInv(a, log), NEW v \in Verifiers,
         CallVerify(v) \/ Verify(v) \/ Step(v) \/ Crash(v)
  PROVE  /\ ArchiveInv(a, log)' /\ files' = files /\ acked' = acked
         /\ Alike(writer[a], writer'[a])
<1> DEFINE s == writer[v]
           t == writer'[v]
<1>0. /\ Archivers(a) /\ a \in Writers /\ v \in Writers /\ v # a
      /\ Shapes /\ StateOK(log) /\ AppenderOK(writer[a], files, log)
      /\ \A w \in Writers : EntriesOK(writer[w].segs, files, log)
      /\ \A w \in Verifiers : VerifierOK(writer[w])
  BY OnlyArchivers, ArchiveState DEF Archivers
<1>1. Unmoved(v) /\ VerifierOK(t) /\ (VerifyDone(s, t) \/ ManifestDone(s, t))
  BY <1>0, VerifyStep, VerifierStep
<1> HIDE DEF s, t
<1>2. VerifierOK(s) /\ EntriesOK(s.segs, files, log) /\ EntriesOK(<<>>, files, log)
  BY <1>0, EmptyIsProper, EmptyIsLog DEF EntriesOK, s
<1>3. /\ files' = files /\ acked' = acked /\ EntriesOK(t.segs, files, log)
      /\ ManifestOK(manifest', files, log) /\ ManifestOK(tmp', files, log)
  <2>1. CASE VerifyDone(s, t)
    <3>1. Untouched
      BY <2>1 DEF VerifyDone
    <3>2. CASE manifest.state = "saved" /\ t.segs = SortedBySeq(manifest.segments)
      <4>1. manifest # Absent /\ Loadable
        BY <3>2 DEF Absent, Loadable
      <4>2. EntriesOK(manifest.segments, files, log)
        BY <1>0, <4>1, LoadedOK DEF StateOK, LoadedSegments
      <4> QED
        BY <1>0, <3>1, <3>2, <4>2, SortedEntries DEF Untouched, StateOK
    <3>3. CASE \E i \in DOMAIN s.segs : \E status : t.segs = Mark(s.segs, i, status)
      BY <1>0, <1>2, <3>1, <3>3, MarkedEntries DEF Untouched, StateOK
    <3>4. CASE t.segs \in {s.segs, <<>>}
      BY <1>0, <1>2, <3>1, <3>4 DEF Untouched, StateOK
    <3> QED
      BY <2>1, <3>2, <3>3, <3>4 DEF VerifyDone
  <2>2. CASE ManifestDone(s, t)
    <3>1. s.seg.status # "open"
      BY <1>2 DEF VerifierOK, NoSegment
    <3> QED
      BY <1>0, <1>2, <2>2, <3>1, ManifestStep
  <2> QED
    BY <1>1, <2>1, <2>2
<1>4. \A w \in Writers : EntriesOK(writer'[w].segs, files, log)
  BY <1>0, <1>1, <1>3, AlikeOK DEF Unmoved, t
<1>5. \A w \in Verifiers : VerifierOK(writer'[w])
  BY <1>0, <1>1, AlikeOK DEF Unmoved, t, Archivers
<1>6. AppenderOK(writer'[a], files, log) /\ Alike(writer[a], writer'[a])
  <2>1. s.pc # "rotate_replace"
    BY <1>2 DEF VerifierOK
  <2> QED
    BY <1>0, <1>1, <2>1, AlikeOK DEF Unmoved, s
<1>7. ArchiveInv(a, log)'
  BY <1>0, <1>1, <1>3, <1>4, <1>5, <1>6 DEF ArchiveInv, StateOK, DirOK, Unmoved
<1> QED
  BY <1>3, <1>6, <1>7

LEMMA ArchiveInit ==
  ASSUME NEW a, NEW log, OneAppender(a, log), ExportInit
  PROVE  ArchiveInv(a, log)
<1>1. PICK touched \in SUBSET Logs : files = [name \in touched |-> <<>>]
  BY DEF ExportInit, Init
<1>2. DirOK(files)
  BY <1>1, EmptyIsProper DEF DirOK
<1>3. ManifestOK(Absent, files, log) /\ EntriesOK(<<>>, files, log)
  BY EmptyIsProper, EmptyIsLog DEF ManifestOK, EntriesOK
<1>4. writer = [w \in Writers |-> IdleWriter] /\ manifest = Absent /\ tmp = Absent /\ acked = {}
  BY DEF ExportInit, Init
<1>5. a \in Writers /\ Verifiers \subseteq Writers
  BY OnlyArchivers, VerifiersAssumption
<1>6. Shapes
  BY <1>4, IdleShape DEF Shapes
<1> QED
  BY <1>2, <1>3, <1>4, <1>5, <1>6, IdleShape, IdleVerifies, RestOK
     DEF ArchiveInv, DirOK, IdleIsVerifier

LEMMA ArchiveStep ==
  ASSUME NEW a, NEW log, OneAppender(a, log), ArchiveInv(a, log), [ExportNext]_allVars
  PROVE  ArchiveInv(a, log)' /\ DirKept(files, files', log)
<1>0. Archivers(a)
  BY OnlyArchivers
<1>1. CASE UNCHANGED <<files, manifest, tmp, writer, acked>>
  <2>1. DirKept(files, files, log)
    BY SameDir DEF ArchiveInv, DirOK
  <2> QED
    BY <1>1, <2>1 DEF ArchiveInv, Shapes
<1>2. CASE \E w \in Appending : CallAppend(w) \/ CallRotate(w)
  BY <1>2, ArchiveAppends DEF OneAppender
<1>3. CASE \E w \in Writers : Step(w) \/ Crash(w)
  <2>1. PICK w \in Writers : Step(w) \/ Crash(w)
    BY <1>3
  <2>2. CASE w = a
    BY <2>1, <2>2, ArchiveAppends
  <2>3. CASE w \in Verifiers
    <3>1. ArchiveInv(a, log)' /\ files' = files
      BY <2>1, <2>3, ArchiveVerifies
    <3>2. DirKept(files, files, log)
      BY SameDir DEF ArchiveInv, DirOK
    <3> QED
      BY <3>1, <3>2
  <2> QED
    BY <1>0, <2>2, <2>3 DEF Archivers
<1>4. CASE \E v \in Verifiers : CallVerify(v) \/ Verify(v)
  <2>1. ArchiveInv(a, log)' /\ files' = files
    BY <1>4, ArchiveVerifies
  <2>2. DirKept(files, files, log)
    BY SameDir DEF ArchiveInv, DirOK
  <2> QED
    BY <2>1, <2>2
<1>5. UNCHANGED vars \/ CrashExport => UNCHANGED <<files, manifest, tmp, writer, acked>>
  BY DEF vars, CrashExport, directory
<1>6. CallExport \/ Export \/ UNCHANGED allVars => UNCHANGED vars
  BY DEF CallExport, Export, HashCandidate, CopyObject, WriteReceipt, ReturnExport, allVars
<1> QED
  BY <1>1, <1>2, <1>3, <1>4, <1>5, <1>6 DEF ExportNext

\* A record append() has returned stays in a file of the directory, whatever
\* is rotated, verified and exported, and whichever process crashes in or
\* between any of its writes (audit_compliance.py:185-206, 221-245): as long
\* as one process appends.
THEOREM RotatedStays ==
  ASSUME NEW a, NEW log, OneAppender(a, log)
  PROVE  ExportSpec => []AckedDurable
<1>1. ExportInit => ArchiveInv(a, log)
  BY ArchiveInit
<1>2. ArchiveInv(a, log) /\ [ExportNext]_allVars => ArchiveInv(a, log)'
  BY ArchiveStep
<1>3. ArchiveInv(a, log) => AckedDurable
  <2> SUFFICES ASSUME ArchiveInv(a, log), NEW rec \in acked
               PROVE  \E name \in DOMAIN files : Holds(name, rec)
    BY DEF AckedDurable
  <2>1. PICK name \in DOMAIN files : rec \in Elements(files[name]) /\ rec.kind = "envelope"
    BY DEF ArchiveInv, Kept
  <2>2. IsLog(files[name])
    BY DEF ArchiveInv, ProperFile
  <2>3. PICK i \in 1..Len(files[name]) : files[name][i] = rec
    BY <2>1, <2>2, LogFacts DEF Elements
  <2> QED
    BY <2>1, <2>3 DEF Holds, IsEnvelope
<1> QED
  BY <1>1, <1>2, <1>3, PTL DEF ExportSpec

\* A finite set of numbers has an element at every position.
LEMMA Positions ==
  ASSUME NEW n \in Nat, NEW S \in SUBSET (1..n)
  PROVE  /\ Cardinality(S) \in Nat
         /\ \A k \in 1..Cardinality(S) : \E i \in S : Cardinality({j \in S : j <= i}) = k
<1> DEFINE upto(i) == {j \in S : j <= i}
           r == [i \in S |-> Cardinality(upto(i))]
<1>1. IsFiniteSet(1..n)
  BY FS_Interval
<1>2. IsFiniteSet(S)
  BY <1>1, FS_Subset
<1>3. Cardinality(S) \in Nat
  BY <1>2, FS_CardinalityType
<1>4. ASSUME NEW i \in S
      PROVE  /\ IsFiniteSet(upto(i)) /\ Cardinality(upto(i)) \in 1..Cardinality(S)
             /\ \A j \in S : i < j => Cardinality(upto(i)) < Cardinality(upto(j))
  <2>0. S \subseteq Nat
    OBVIOUS
  <2>1. \A j \in S : upto(j) \in SUBSET S /\ j \in upto(j)
    BY <2>0
  <2>2. \A j \in S : /\ IsFiniteSet(upto(j)) /\ Cardinality(upto(j)) \in Nat
                     /\ Cardinality(upto(j)) <= Cardinality(S)
    BY <1>2, <2>1, FS_Subset, FS_CardinalityType
  <2>3. Cardinality(upto(i)) # 0
    <3>1. PICK U : U = upto(i)
      OBVIOUS
    <3>2. U # {} /\ IsFiniteSet(U)
      BY <2>1, <2>2, <3>1
    <3>3. Cardinality(U) = 0 <=> U = {}
      BY <3>2, FS_EmptySet
    <3> HIDE DEF upto
    <3> QED
      BY <3>1, <3>2, <3>3
  <2>4. ASSUME NEW j \in S, i < j PROVE Cardinality(upto(i)) < Cardinality(upto(j))
    <3>0. i \in Nat /\ j \in Nat /\ \A k \in S : k \in Nat
      BY <2>0
    <3>1. \A k \in S : k <= i => k <= j
      BY <2>4, <3>0
    <3>2. ~(j <= i) /\ j <= j
      BY <2>4, <3>0
    <3>3. upto(i) \in SUBSET upto(j) /\ j \notin upto(i) /\ j \in upto(j)
      BY <3>1, <3>2
    <3>4. /\ Cardinality(upto(i)) <= Cardinality(upto(j))
          /\ Cardinality(upto(j)) = Cardinality(upto(i)) => upto(j) = upto(i)
      BY <2>2, <3>3, FS_Subset
    <3>5. upto(i) # upto(j)
      BY <3>3
    <3> HIDE DEF upto
    <3> QED
      BY <2>2, <3>4, <3>5
  <2> HIDE DEF upto
  <2> QED
    BY <1>3, <2>2, <2>3, <2>4
<1>5. r \in Injection(S, 1..Cardinality(S))
  <2>1. \A i, j \in S : i = j \/ i < j \/ j < i
    OBVIOUS
  <2>2. \A i, j \in S : Cardinality(upto(i)) = Cardinality(upto(j)) => i = j
    <3> SUFFICES ASSUME NEW i \in S, NEW j \in S, i # j
                 PROVE  Cardinality(upto(i)) # Cardinality(upto(j))
      OBVIOUS
    <3>1. /\ Cardinality(upto(i)) \in Nat /\ Cardinality(upto(j)) \in Nat
          /\ \/ Cardinality(upto(i)) < Cardinality(upto(j))
             \/ Cardinality(upto(j)) < Cardinality(upto(i))
      BY <1>3, <1>4, <2>1
    <3> HIDE DEF upto
    <3> QED
      BY <3>1
  <2>3. \A i \in S : Cardinality(upto(i)) \in 1..Cardinality(S)
    BY <1>4
  <2> HIDE DEF upto
  <2> QED
    BY <2>2, <2>3 DEF Injection, IsInjective
<1>6. r \in Surjection(S, 1..Cardinality(S))
  <2> DEFINE m == Cardinality(S)
             T == 1..m
  <2>1. IsFiniteSet(T) /\ Cardinality(T) = m
    <3>1. m \in Nat /\ 1 \in Int
      BY <1>3
    <3> HIDE DEF m
    <3>2. IsFiniteSet(T) /\ Cardinality(T) = IF 1 > m THEN 0 ELSE m - 1 + 1
      BY <3>1, FS_Interval
    <3> QED
      BY <3>1, <3>2
  <2> HIDE DEF T, r
  <2> QED
    BY <1>5, <2>1, FS_Injection DEF T
<1>7. \A k \in 1..Cardinality(S) : \E i \in S : Cardinality(upto(i)) = k
  <2> HIDE DEF upto
  <2> QED
    BY <1>6 DEF Surjection
<1> QED
  BY <1>3, <1>7

LEMMA ClosedPathsAre ==
  ASSUME NEW m, NEW segs, segs = (IF m = Absent THEN <<>> ELSE m.segments), IsLog(segs)
  PROVE  /\ IsLog(ClosedPaths(m))
         /\ \A k \in 1..Len(ClosedPaths(m)) : \E i \in 1..Len(segs) :
               segs[i].status = "closed" /\ ClosedPaths(m)[k] = segs[i].path
<1> DEFINE closed == {i \in DOMAIN segs : segs[i].status = "closed"}
           position(i) == Cardinality({j \in closed : j <= i})
           at(k) == CHOOSE i \in closed : position(i) = k
           n == Cardinality(closed)
           paths == [k \in 1..n |-> segs[at(k)].path]
<1>1. Len(segs) \in Nat /\ DOMAIN segs = 1..Len(segs)
  BY LogFacts
<1>2. closed \in SUBSET (1..Len(segs))
  BY <1>1
<1>3. ClosedPaths(m) = paths
  BY DEF ClosedPaths
<1> HIDE DEF closed
<1>4. n \in Nat /\ \A k \in 1..n : \E i \in closed : position(i) = k
  BY <1>1, <1>2, Positions
<1> HIDE DEF position
<1>5. \A k \in 1..n : at(k) \in closed
  BY <1>4
<1> HIDE DEF at, n
<1>6. paths \in Seq(Elements(paths)) /\ Len(paths) = n
  <2>1. paths \in [1..n -> Elements(paths)] /\ DOMAIN paths = 1..n
    BY DEF Elements
  <2> HIDE DEF paths
  <2>2. paths \in Seq(Elements(paths))
    BY <1>4, <2>1, SeqDef
  <2> QED
    BY <1>4, <2>1, <2>2, LenProperties
<1>7. IsLog(paths)
  BY <1>6 DEF IsLog
<1>8. \A k \in 1..n : \E i \in 1..Len(segs) : segs[i].status = "closed" /\ paths[k] = segs[i].path
  <2> SUFFICES ASSUME NEW k \in 1..n
               PROVE  \E i \in 1..Len(segs) : segs[i].status = "closed" /\ paths[k] = segs[i].path
    OBVIOUS
  <2>1. at(k) \in 1..Len(segs) /\ segs[at(k)].status = "closed"
    BY <1>1, <1>5 DEF closed
  <2>2. paths[k] = segs[at(k)].path
    OBVIOUS
  <2> QED
    BY <2>1, <2>2
<1> HIDE DEF paths
<1> QED
  BY <1>3, <1>6, <1>7, <1>8

LEMMA TailIndexes ==
  ASSUME NEW n \in Nat, n # 0
  PROVE  /\ 1 \in 1..n
         /\ \A i \in 1..n : i = 1 \/ (i - 1 \in 1..(n - 1) /\ i - 1 + 1 = i)
         /\ \A i \in 1..(n - 1) : i + 1 \in 1..n
  OBVIOUS

LEMMA TailLog ==
  ASSUME NEW log, IsLog(log), log # <<>>
  PROVE  /\ IsLog(Tail(log)) /\ Len(Tail(log)) = Len(log) - 1
         /\ \A i \in 1..Len(Tail(log)) : Tail(log)[i] = log[i + 1] /\ i + 1 \in 1..Len(log)
         /\ Head(log) = log[1] /\ 1 \in 1..Len(log)
         /\ \A i \in 1..Len(log) : \/ i = 1
                                    \/ /\ i - 1 \in 1..Len(Tail(log))
                                       /\ Tail(log)[i - 1] = log[i]
<1> DEFINE S == Elements(log)
           n == Len(log)
           tail == Tail(log)
<1>1. log \in Seq(S) /\ n \in Nat /\ n # 0
  BY LogFacts DEF IsLog
<1>2. /\ tail \in Seq(S) /\ Len(tail) = n - 1
      /\ \A i \in 1..Len(tail) : tail[i] = log[i + 1]
  <2> HIDE DEF S
  <2> QED
    BY <1>1, HeadTailProperties
<1>3. IsLog(tail)
  BY <1>2, SeqIsLog
<1>4. Head(log) = log[1]
  <2> HIDE DEF S
  <2> QED
    BY <1>1
<1> HIDE DEF tail, n, S
<1>5. \A i \in 1..n : i = 1 \/ (i - 1 \in 1..(n - 1) /\ i - 1 + 1 = i)
  BY <1>1, TailIndexes
<1>6. \A i \in 1..n : i = 1 \/ (i - 1 \in 1..Len(tail) /\ tail[i - 1] = log[i])
  <2> SUFFICES ASSUME NEW i \in 1..n, i # 1
               PROVE  i - 1 \in 1..Len(tail) /\ tail[i - 1] = log[i]
    OBVIOUS
  <2>1. i - 1 \in 1..Len(tail) /\ i - 1 + 1 = i
    BY <1>2, <1>5
  <2>2. tail[i - 1] = log[i - 1 + 1]
    BY <1>2, <2>1
  <2> QED
    BY <2>1, <2>2
<1>7. 1 \in 1..n
  BY <1>1, TailIndexes
<1>8. \A i \in 1..(n - 1) : i + 1 \in 1..n
  BY <1>1, TailIndexes
<1> QED
  BY <1>2, <1>3, <1>4, <1>6, <1>7, <1>8 DEF tail, n

\* The candidates of an export are files of closed segments.
LEMMA CandidatesClosed ==
  ASSUME NEW log, PlainName(log), ManifestOK(manifest, files, log), Loadable
  PROVE  /\ IsLog(ClosedPaths(manifest))
         /\ \A k \in 1..Len(ClosedPaths(manifest)) : ClosedFile(ClosedPaths(manifest)[k], files, log)
<1> DEFINE segs == IF manifest = Absent THEN <<>> ELSE manifest.segments
           paths == ClosedPaths(manifest)
<1>1. segs = LoadedSegments
  BY DEF LoadedSegments
<1> HIDE DEF segs
<1>2. EntriesOK(segs, files, log)
  BY <1>1, LoadedOK
<1>3. IsLog(segs) /\ segs = (IF manifest = Absent THEN <<>> ELSE manifest.segments)
  BY <1>2 DEF EntriesOK, segs
<1>4. /\ IsLog(paths)
      /\ \A k \in 1..Len(paths) : \E i \in 1..Len(segs) :
            segs[i].status = "closed" /\ paths[k] = segs[i].path
  BY <1>3, ClosedPathsAre
<1> HIDE DEF paths
<1>5. \A k \in 1..Len(paths) : ClosedFile(paths[k], files, log)
  <2> SUFFICES ASSUME NEW k \in 1..Len(paths) PROVE ClosedFile(paths[k], files, log)
    OBVIOUS
  <2>1. PICK i \in 1..Len(segs) : segs[i].status = "closed" /\ paths[k] = segs[i].path
    BY <1>4
  <2>2. segs[i].path = IdOf(segs[i]) /\ segs[i].path \in DOMAIN files
    BY <1>2, <2>1 DEF EntriesOK, EntryOK
  <2>3. IdOf(segs[i]) # log /\ IdOf(segs[i]) # ManifestName
    BY NamesDiffer
  <2> QED
    BY <2>1, <2>2, <2>3 DEF ClosedFile
<1> QED
  BY <1>4, <1>5 DEF paths

\* What an object can hold is never the text a crash leaves.
LEMMA NotPartial ==
  ASSUME NEW log, DirOK(files), ManifestOK(manifest, files, log)
  PROVE  <<manifest>> # Partial /\ \A name : Lines(name) # Partial
<1>1. <<manifest>> # Partial
  <2>1. /\ Absent.state # "partial" /\ Empty.state # "partial" /\ Garbled.state # "partial"
        /\ \A segs : Saved(segs).state # "partial"
    BY DEF Absent, Empty, Garbled, Saved
  <2>2. manifest.state # "partial"
    BY <2>1 DEF ManifestOK
  <2> QED
    BY <2>2 DEF Partial
<1>2. ASSUME NEW name, Lines(name) = Partial PROVE FALSE
  <2>1. Len(Partial) = 1 /\ Partial[1] = [state |-> "partial"]
    BY DEF Partial
  <2>2. ProperFile(Partial)
    BY <1>2, LinesAreIn, LinesProper
  <2>3. "kind" \in DOMAIN Partial[1]
    BY <2>1, <2>2 DEF ProperFile, ProperLine
  <2> QED
    BY <2>1, <2>3
<1> QED
  BY <1>1, <1>2

LEMMA EvidenceKept ==
  ASSUME NEW log, OnlyAdds, Preserves(files, files', log), NEW name, Evidence(name, objects, files, log)
  PROVE  Evidence(name, objects', files', log)
  BY DEF OnlyAdds, Preserves, Evidence, ClosedFile

LEMMA ClosedStays ==
  ASSUME NEW log, Preserves(files, files', log), NEW path, ClosedFile(path, files, log)
  PROVE  ClosedFile(path, files', log) /\ files'[path] = files[path]
  BY DEF Preserves, ClosedFile

\* Nothing a step does beside the exporter takes away what it relies on.
LEMMA ExportKept ==
  ASSUME NEW log, ExportInv(log), OnlyAdds, Preserves(files, files', log),
         UNCHANGED <<exporter, receipts>>
  PROVE  ExportInv(log)'
<1> DEFINE todo == exporter.todo
<1>1. /\ IsLog(todo)
      /\ \A i \in 1..Len(todo) : todo[i] = ManifestName \/ ClosedFile(todo[i], files, log)
      /\ exporter.pc \in {"copy", "receipt"} => todo # <<>>
      /\ exporter.pc = "copy" /\ Head(todo) # ManifestName =>
            exporter.sha256 = files[Head(todo)]
      /\ exporter.pc = "receipt" => Evidence(Name, objects, files, log)
      /\ exporter.pc = "returned" => todo = <<>>
      /\ \A name \in receipts : Evidence(name, objects, files, log)
      /\ \A path \in exporter.listed :
            /\ ClosedFile(path, files, log)
            /\ \/ \E i \in 1..Len(todo) : todo[i] = path
               \/ \E name \in receipts : name.source = path
  BY DEF ExportInv
<1>2. \A i \in 1..Len(todo) : todo[i] = ManifestName \/ ClosedFile(todo[i], files', log)
  BY <1>1, ClosedStays
<1>3. ASSUME exporter.pc = "copy", Head(todo) # ManifestName
      PROVE  exporter.sha256 = files'[Head(todo)]
  <2>1. Head(todo) = todo[1] /\ 1 \in 1..Len(todo)
    BY <1>1, <1>3, TailLog
  <2> QED
    BY <1>1, <1>3, <2>1, ClosedStays
<1>4. ASSUME exporter.pc = "receipt" PROVE Evidence(Name', objects', files', log)
  <2>1. PICK name : name = Name /\ name = Name'
    BY DEF Name
  <2>2. Evidence(name, objects', files', log)
    BY <1>1, <1>4, <2>1, EvidenceKept
  <2> QED
    BY <2>1, <2>2 DEF Evidence
<1>5. \A name \in receipts : Evidence(name, objects', files', log)
  BY <1>1, EvidenceKept
<1>6. \A path \in exporter.listed : ClosedFile(path, files', log)
  BY <1>1, ClosedStays
<1> QED
  BY <1>1, <1>2, <1>3, <1>4, <1>5, <1>6 DEF ExportInv

\* An exporter that gives up.
LEMMA ExportAbandoned ==
  ASSUME NEW log, Abandon, \A name \in receipts : Evidence(name, objects', files', log), receipts' = receipts
  PROVE  ExportInv(log)'
<1>1. /\ exporter'.pc = "idle" /\ exporter'.todo = <<>> /\ exporter'.listed = {}
  BY DEF Abandon, IdleExporter
<1>2. Len(<<>>) = 0 /\ IsLog(<<>>)
  BY EmptyIsProper, EmptyIsLog
<1> QED
  BY <1>1, <1>2 DEF ExportInv

\* The steps of the exporter itself.
LEMMA ExportMoves ==
  ASSUME NEW log, PlainName(log), DirOK(files), ManifestOK(manifest, files, log),
         StoreInv, OnlyAdds, ExportInv(log), CallExport \/ Export \/ CrashExport
  PROVE  ExportInv(log)'
<1> DEFINE todo == exporter.todo
<1>0. /\ IsLog(todo)
      /\ \A i \in 1..Len(todo) : todo[i] = ManifestName \/ ClosedFile(todo[i], files, log)
      /\ exporter.pc \in {"copy", "receipt"} => todo # <<>>
      /\ exporter.pc = "copy" /\ Head(todo) # ManifestName =>
            exporter.sha256 = files[Head(todo)]
      /\ exporter.pc = "receipt" => Evidence(Name, objects, files, log)
      /\ \A name \in receipts : Evidence(name, objects, files, log)
      /\ \A path \in exporter.listed :
            /\ ClosedFile(path, files, log)
            /\ \/ \E i \in 1..Len(todo) : todo[i] = path
               \/ \E name \in receipts : name.source = path
  BY DEF ExportInv
<1>1. files' = files /\ ExporterOK
  BY DEF CallExport, Export, HashCandidate, CopyObject, WriteReceipt, ReturnExport, CrashExport,
         vars, directory, StoreInv
<1>2. /\ \A name : Evidence(name, objects, files, log) => Evidence(name, objects', files', log)
      /\ \A path : ClosedFile(path, files, log) <=> ClosedFile(path, files', log)
  <2>1. Preserves(files, files', log)
    BY <1>1 DEF Preserves
  <2> QED
    BY <1>1, <2>1, EvidenceKept DEF ClosedFile
<1>3. ASSUME todo # <<>>
      PROVE  /\ Head(todo) = todo[1] /\ 1 \in 1..Len(todo)
             /\ Head(todo) = ManifestName \/ ClosedFile(Head(todo), files, log)
             /\ IsLog(Tail(todo))
             /\ \A i \in 1..Len(Tail(todo)) :
                   Tail(todo)[i] = ManifestName \/ ClosedFile(Tail(todo)[i], files, log)
             /\ \A i \in 1..Len(todo) : \/ i = 1
                                       \/ \E j \in 1..Len(Tail(todo)) : Tail(todo)[j] = todo[i]
  <2>1. /\ IsLog(Tail(todo))
        /\ \A i \in 1..Len(Tail(todo)) : Tail(todo)[i] = todo[i + 1] /\ i + 1 \in 1..Len(todo)
        /\ Head(todo) = todo[1] /\ 1 \in 1..Len(todo)
        /\ \A i \in 1..Len(todo) : \/ i = 1
                                  \/ /\ i - 1 \in 1..Len(Tail(todo))
                                     /\ Tail(todo)[i - 1] = todo[i]
    BY <1>0, <1>3, TailLog
  <2> HIDE DEF todo
  <2>2. \A i \in 1..Len(Tail(todo)) :
           Tail(todo)[i] = ManifestName \/ ClosedFile(Tail(todo)[i], files, log)
    BY <1>0, <2>1
  <2>3. Head(todo) = ManifestName \/ ClosedFile(Head(todo), files, log)
    BY <1>0, <2>1
  <2> QED
    BY <2>1, <2>2, <2>3
<1>4. ASSUME Abandon, receipts' = receipts PROVE ExportInv(log)'
  BY <1>0, <1>2, <1>4, ExportAbandoned
<1>5. CASE CallExport
  <2> DEFINE paths == ClosedPaths(manifest)
             full == Append(paths, ManifestName)
  <2>1. /\ IsLog(paths) /\ \A k \in 1..Len(paths) : ClosedFile(paths[k], files, log)
    BY <1>5, CandidatesClosed DEF CallExport
  <2>2. /\ exporter'.pc = "hash" /\ exporter'.todo = full /\ exporter'.listed = Range(paths)
        /\ receipts' = receipts
    BY <1>5 DEF CallExport, store
  <2> HIDE DEF paths
  <2>3. /\ IsLog(full) /\ Len(full) = Len(paths) + 1 /\ Len(paths) \in Nat
        /\ \A i \in 1..Len(paths) : full[i] = paths[i]
        /\ full[Len(paths) + 1] = ManifestName
    BY <2>1, AppendLog, LogFacts
  <2> HIDE DEF full
  <2>4. \A i \in 1..Len(full) : i \in 1..Len(paths) \/ i = Len(paths) + 1
    BY <2>3
  <2>5. \A i \in 1..Len(paths) : i \in 1..Len(full)
    BY <2>3
  <2>6. \A path \in Range(paths) : \E i \in 1..Len(paths) : paths[i] = path
    BY <2>1, LogFacts DEF Range
  <2>7. \A i \in 1..Len(full) : full[i] = ManifestName \/ ClosedFile(full[i], files', log)
    BY <1>2, <2>1, <2>3, <2>4
  <2>8. \A path \in Range(paths) : /\ ClosedFile(path, files', log)
                                  /\ \E i \in 1..Len(full) : full[i] = path
    BY <1>2, <2>1, <2>3, <2>5, <2>6
  <2> QED
    BY <1>0, <1>2, <2>2, <2>3, <2>7, <2>8 DEF ExportInv
<1>6. ASSUME exporter.pc \in {"hash", "receipt"}, todo # <<>>,
             exporter'.pc = "hash", exporter'.todo = Tail(todo), exporter'.listed = exporter.listed,
             \A name \in receipts' : Evidence(name, objects, files, log), receipts \subseteq receipts',
             Head(todo) = ManifestName \/ \E name \in receipts' : name.source = Head(todo)
      PROVE  ExportInv(log)'
  <2>1. \A path \in exporter.listed : /\ ClosedFile(path, files', log)
                                     /\ \/ \E i \in 1..Len(Tail(todo)) : Tail(todo)[i] = path
                                        \/ \E name \in receipts' : name.source = path
    <3> SUFFICES ASSUME NEW path \in exporter.listed
                 PROVE  \/ \E i \in 1..Len(Tail(todo)) : Tail(todo)[i] = path
                        \/ \E name \in receipts' : name.source = path
      BY <1>0, <1>2
    <3>1. path # ManifestName
      BY <1>0 DEF ClosedFile
    <3>2. CASE \E name \in receipts : name.source = path
      BY <1>6, <3>2
    <3>3. CASE \E i \in 1..Len(todo) : todo[i] = path
      BY <1>3, <1>6, <3>1, <3>3
    <3> QED
      BY <1>0, <3>2, <3>3
  <2>2. /\ IsLog(Tail(todo))
        /\ \A i \in 1..Len(Tail(todo)) :
              Tail(todo)[i] = ManifestName \/ ClosedFile(Tail(todo)[i], files', log)
    BY <1>2, <1>3, <1>6
  <2>3. \A name \in receipts' : Evidence(name, objects', files', log)
    BY <1>2, <1>6
  <2> QED
    BY <1>6, <2>1, <2>2, <2>3 DEF ExportInv
<1>7. CASE HashCandidate
  <2> DEFINE source == Head(todo)
  <2>1. exporter.pc = "hash" /\ todo # <<>> /\ receipts' = receipts
    BY <1>7 DEF HashCandidate, store
  <2>2. \/ Missing(source) /\ exporter' = [exporter EXCEPT !.todo = Tail(@)]
        \/ Abandon
        \/ /\ ~Missing(source)
           /\ exporter' = [exporter EXCEPT !.pc = "copy", !.sha256 = Content(source)]
    BY <1>7 DEF HashCandidate
  <2>3. source = ManifestName \/ ClosedFile(source, files, log)
    BY <1>3, <2>1
  <2>4. CASE Missing(source) /\ exporter' = [exporter EXCEPT !.todo = Tail(@)]
    <3>1. source = ManifestName
      BY <2>3, <2>4 DEF Missing, Exists, ClosedFile
    <3>2. /\ exporter'.pc = "hash" /\ exporter'.todo = Tail(todo)
          /\ exporter'.listed = exporter.listed
      BY <1>1, <2>1, <2>4 DEF ExporterOK
    <3> QED
      BY <1>0, <1>6, <2>1, <3>1, <3>2
  <2>5. CASE Abandon
    BY <1>4, <2>1, <2>5
  <2>6. CASE exporter' = [exporter EXCEPT !.pc = "copy", !.sha256 = Content(source)]
    <3>1. /\ exporter'.pc = "copy" /\ exporter'.todo = todo /\ exporter'.listed = exporter.listed
          /\ exporter'.sha256 = Content(source)
      BY <1>1, <2>6 DEF ExporterOK
    <3>2. source # ManifestName => Content(source) = files'[source]
      BY <1>1, <2>3 DEF Content, Lines, Exists, ClosedFile
    <3>3. \A i \in 1..Len(todo) : todo[i] = ManifestName \/ ClosedFile(todo[i], files', log)
      BY <1>0, <1>2
    <3> QED
      BY <1>0, <1>2, <2>1, <3>1, <3>2, <3>3 DEF ExportInv
  <2> QED
    BY <2>2, <2>4, <2>5, <2>6
<1>8. CASE CopyObject
  <2>1. /\ exporter.pc = "copy" /\ todo # <<>> /\ receipts' = receipts
        /\ Name = [source |-> Head(todo), sha256 |-> exporter.sha256]
    BY <1>0, <1>8 DEF CopyObject, Name
  <2>2. CASE Abandon
    BY <1>4, <2>1, <2>2
  <2>3. CASE ExportGoto("receipt") /\ Stored(Content(Name.source))
    <3>1. /\ exporter'.pc = "receipt" /\ exporter'.todo = todo
          /\ exporter'.listed = exporter.listed /\ Name' = Name
      BY <1>1, <2>3 DEF ExporterOK, ExportGoto, Name
    <3>2. PICK name, content : name = Name /\ content = Content(name.source)
      OBVIOUS
    <3>3. name \in DOMAIN objects' /\ objects'[name] = content
      BY <2>3, <3>2 DEF Stored
    <3>4. content # Partial
      BY <3>2, NotPartial DEF Content
    <3>5. name.source = Head(todo) /\ name.sha256 = exporter.sha256
      BY <2>1, <3>2
    <3>6. ASSUME name.source # ManifestName
          PROVE  ClosedFile(name.source, files', log) /\ content = name.sha256
                 /\ files'[name.source] = name.sha256
      <4>1. ClosedFile(name.source, files, log) /\ files[name.source] = exporter.sha256
        BY <1>0, <1>3, <2>1, <3>5, <3>6
      <4>2. content = files[name.source]
        BY <3>2, <3>6, <4>1 DEF Content, Lines, Exists, ClosedFile
      <4> QED
        BY <1>1, <1>2, <3>5, <4>1, <4>2
    <3>7. Evidence(Name', objects', files', log)
      BY <3>1, <3>2, <3>3, <3>4, <3>6 DEF Evidence
    <3>8. \A i \in 1..Len(todo) : todo[i] = ManifestName \/ ClosedFile(todo[i], files', log)
      BY <1>0, <1>2
    <3> QED
      BY <1>0, <1>2, <2>1, <3>1, <3>7, <3>8 DEF ExportInv
  <2> QED
    BY <1>8, <2>2, <2>3 DEF CopyObject
<1>9. CASE WriteReceipt
  <2>1. /\ exporter.pc = "receipt" /\ todo # <<>> /\ receipts' = receipts \union {Name}
        /\ Evidence(Name, objects, files, log) /\ Name.source = Head(todo)
    BY <1>0, <1>9 DEF WriteReceipt, Name
  <2>2. /\ exporter'.pc = "hash" /\ exporter'.todo = Tail(todo)
        /\ exporter'.listed = exporter.listed
    BY <1>1, <1>9 DEF WriteReceipt, ExporterOK
  <2>3. \A name \in receipts' : Evidence(name, objects, files, log)
    BY <1>0, <2>1
  <2> QED
    BY <1>6, <2>1, <2>2, <2>3
<1>10. CASE ReturnExport
  <2>1. /\ exporter'.pc = "returned" /\ exporter'.todo = todo /\ todo = <<>>
        /\ exporter'.listed = exporter.listed /\ receipts' = receipts
    BY <1>1, <1>10 DEF ReturnExport, ExportGoto, ExporterOK, store
  <2>2. \A i \in 1..Len(todo) : todo[i] = ManifestName \/ ClosedFile(todo[i], files', log)
    BY <1>0, <1>2
  <2> QED
    BY <1>0, <1>2, <2>1, <2>2 DEF ExportInv
<1>11. CASE CrashExport
  <2>1. Abandon /\ receipts' = receipts
    BY <1>11 DEF CrashExport, store
  <2> QED
    BY <1>4, <2>1
<1> QED
  BY <1>5, <1>7, <1>8, <1>9, <1>10, <1>11 DEF Export

\* The evidence an export leaves stays evidence, and is complete when it
\* returns, whatever one appender, any verifiers and any crash do beside it
\* and between its steps (audit_compliance.py:259-281).
THEOREM ExportsTell ==
  ASSUME NEW a, NEW log, OneAppender(a, log)
  PROVE  ExportSpec => []ExportTells
<1> DEFINE Inv == ArchiveInv(a, log) /\ StoreInv /\ ExportInv(log)
<1>0. PlainName(log)
  BY OnlyArchivers
<1>1. ExportInit => Inv
  <2> SUFFICES ASSUME ExportInit PROVE ExportInv(log)
    BY ArchiveInit, StoreInit
  <2>1. exporter.pc = "idle" /\ exporter.todo = <<>> /\ exporter.listed = {} /\ receipts = {}
    BY DEF ExportInit, IdleExporter
  <2>2. Len(<<>>) = 0 /\ IsLog(<<>>)
    BY EmptyIsProper, EmptyIsLog
  <2> QED
    BY <2>1, <2>2 DEF ExportInv
<1>2. Inv /\ [ExportNext]_allVars => Inv'
  <2> SUFFICES ASSUME Inv, [ExportNext]_allVars PROVE ExportInv(log)'
    BY ArchiveStep, StoreStep
  <2>1. OnlyAdds /\ Preserves(files, files', log)
    BY ArchiveStep, StoreStep DEF DirKept
  <2>2. CASE UNCHANGED <<exporter, receipts>>
    BY <2>1, <2>2, ExportKept
  <2>3. CASE CallExport \/ Export \/ CrashExport
    <3>1. DirOK(files) /\ ManifestOK(manifest, files, log)
      BY DEF ArchiveInv, DirOK
    <3> QED
      BY <1>0, <2>1, <2>3, <3>1, ExportMoves
  <2>4. UNCHANGED extras \/ UNCHANGED allVars => UNCHANGED <<exporter, receipts>>
    BY DEF extras, allVars, store
  <2>5. ASSUME NEW v \in Verifiers, CallVerify(v) \/ Verify(v)
        PROVE  UNCHANGED <<exporter, receipts>>
    BY <2>5 DEF CallVerify, Verify, VerifySegment, VerifyEnds, extras, store
  <2> QED
    BY <2>2, <2>3, <2>4, <2>5 DEF ExportNext
<1>3. Inv => ExportTells
  <2> SUFFICES ASSUME Inv PROVE ReceiptsTell /\ ExportComplete
    BY DEF ExportTells
  <2>1. ReceiptsTell
    BY DEF ExportInv, Evidence, ClosedFile, ReceiptsTell, Lines, Exists
  <2>2. ExportComplete
    <3> SUFFICES ASSUME exporter.pc = "returned", NEW path \in exporter.listed
                 PROVE  \E name \in receipts : name.source = path
      BY DEF ExportComplete
    <3>1. exporter.todo = <<>> /\ Len(<<>>) = 0
      BY EmptyIsProper DEF ExportInv
    <3> QED
      BY <3>1 DEF ExportInv
  <2> QED
    BY <2>1, <2>2
<1> HIDE DEF Inv
<1> QED
  BY <1>1, <1>2, <1>3, PTL DEF ExportSpec

-----------------------------------------------------------------------------
(* With verifiers that work while nobody appends, the manifest is honest:  *)
(* each record append() has returned is where an entry says, or some entry *)
(* cannot verify any more.                                                 *)

\* The first line of the log is a record.
Leads(lines) == lines # <<>> /\ IsEnvelope(lines[1])

Covers(e, seq) == e.first_seq <= seq /\ seq <= e.last_seq

\* The record is in the file of the entry; the file of the log counts when
\* the entry is about the records it has now.
Tells(e, rec, dir, log) ==
    /\ rec \in Elements(LinesIn(dir, e.path))
    /\ e.path = log => e.first_seq = LinesIn(dir, log)[1].seq

Named(segs, rec, dir, log) == \E i \in 1..Len(segs) : Tells(segs[i], rec, dir, log)

\* The records from seq on, of which only an open entry tells, have left the
\* log: these entries cannot verify any more.
Outdated(segs, seq, dir, log) ==
    LET lines == LinesIn(dir, log) IN
    /\ \E i \in 1..Len(segs) : segs[i].last_seq >= seq
    /\ \A i \in 1..Len(segs) : Covers(segs[i], seq) => segs[i].status = "open"
    /\ Leads(lines) => lines[1].seq > seq

OneOpen(segs) ==
    \A i, j \in 1..Len(segs) : segs[i].status = "open" /\ segs[j].status = "open" => i = j

\* No entry tells of later records than those of the log, but its own.
Behind(segs, dir, log) ==
    LET lines == LinesIn(dir, log) IN
    Leads(lines) =>
        \A i \in 1..Len(segs) :
            \/ segs[i].last_seq < lines[1].seq
            \/ segs[i].status = "open" /\ segs[i].first_seq = lines[1].seq

Honest(segs, records, dir, log) ==
    /\ OneOpen(segs) /\ Behind(segs, dir, log)
    /\ \A rec \in records :
          \/ Named(segs, rec, dir, log)
          \/ \E seq \in Nat : Outdated(segs, seq, dir, log)

AboveAll(seq, segs) == \A i \in 1..Len(segs) : segs[i].last_seq < seq

LEMMA EmptyIsHonest ==
  ASSUME NEW dir, NEW log
  PROVE  Honest(<<>>, {}, dir, log)
  BY EmptyIsProper DEF Honest, OneOpen, Behind

\* The same entries in another order, or marked by a verifier.
Mirrors(segs, new) ==
    \E p \in [1..Len(new) -> 1..Len(segs)] :
        /\ \A k, l \in 1..Len(new) : p[k] = p[l] => k = l
        /\ \A i \in 1..Len(segs) : \E k \in 1..Len(new) : p[k] = i
        /\ \A k \in 1..Len(new) :
              /\ new[k].path = segs[p[k]].path /\ new[k].status = segs[p[k]].status
              /\ new[k].first_seq = segs[p[k]].first_seq
              /\ new[k].last_seq = segs[p[k]].last_seq

LEMMA MirrorIsHonest ==
  ASSUME NEW segs, NEW new, Mirrors(segs, new), NEW records, NEW dir, NEW log,
         Honest(segs, records, dir, log)
  PROVE  Honest(new, records, dir, log)
<1>1. PICK p \in [1..Len(new) -> 1..Len(segs)] :
        /\ \A k, l \in 1..Len(new) : p[k] = p[l] => k = l
        /\ \A i \in 1..Len(segs) : \E k \in 1..Len(new) : p[k] = i
        /\ \A k \in 1..Len(new) :
              /\ new[k].path = segs[p[k]].path /\ new[k].status = segs[p[k]].status
              /\ new[k].first_seq = segs[p[k]].first_seq
              /\ new[k].last_seq = segs[p[k]].last_seq
  BY DEF Mirrors
<1>2. \A i \in 1..Len(segs) : \E k \in 1..Len(new) :
         /\ new[k].path = segs[i].path /\ new[k].status = segs[i].status
         /\ new[k].first_seq = segs[i].first_seq /\ new[k].last_seq = segs[i].last_seq
  BY <1>1
<1>3. \A k \in 1..Len(new) : \E i \in 1..Len(segs) :
         /\ new[k].path = segs[i].path /\ new[k].status = segs[i].status
         /\ new[k].first_seq = segs[i].first_seq /\ new[k].last_seq = segs[i].last_seq
  <2> SUFFICES ASSUME NEW k \in 1..Len(new)
               PROVE \E i \in 1..Len(segs) :
         /\ new[k].path = segs[i].path /\ new[k].status = segs[i].status
         /\ new[k].first_seq = segs[i].first_seq /\ new[k].last_seq = segs[i].last_seq
    OBVIOUS
  <2>1. p[k] \in 1..Len(segs)
    BY <1>1
  <2> QED
    BY <1>1, <2>1
<1>4. OneOpen(new)
  <2> SUFFICES ASSUME NEW k \in 1..Len(new), NEW l \in 1..Len(new),
                      new[k].status = "open", new[l].status = "open"
               PROVE  k = l
    BY DEF OneOpen
  <2>1. p[k] \in 1..Len(segs) /\ p[l] \in 1..Len(segs)
    BY <1>1
  <2>2. p[k] = p[l]
    BY <1>1, <2>1 DEF Honest, OneOpen
  <2> QED
    BY <1>1, <2>2
<1>5. Behind(new, dir, log)
  <2> SUFFICES ASSUME Leads(LinesIn(dir, log)), NEW k \in 1..Len(new)
               PROVE  \/ new[k].last_seq < LinesIn(dir, log)[1].seq
                      \/ new[k].status = "open" /\ new[k].first_seq = LinesIn(dir, log)[1].seq
    BY DEF Behind
  <2>1. PICK i \in 1..Len(segs) :
         /\ new[k].path = segs[i].path /\ new[k].status = segs[i].status
         /\ new[k].first_seq = segs[i].first_seq /\ new[k].last_seq = segs[i].last_seq
    BY <1>3
  <2>2. \/ segs[i].last_seq < LinesIn(dir, log)[1].seq
        \/ segs[i].status = "open" /\ segs[i].first_seq = LinesIn(dir, log)[1].seq
    BY DEF Honest, Behind
  <2> QED
    BY <2>1, <2>2
<1>6. ASSUME NEW rec, Named(segs, rec, dir, log)
      PROVE  Named(new, rec, dir, log)
  <2>1. PICK i \in 1..Len(segs) : Tells(segs[i], rec, dir, log)
    BY <1>6 DEF Named
  <2>2. PICK k \in 1..Len(new) : new[k].path = segs[i].path /\ new[k].first_seq = segs[i].first_seq
    BY <1>2
  <2> QED
    BY <2>1, <2>2 DEF Tells, Named
<1>7. ASSUME NEW seq, Outdated(segs, seq, dir, log)
      PROVE  Outdated(new, seq, dir, log)
  <2>1. PICK i \in 1..Len(segs) : segs[i].last_seq >= seq
    BY <1>7 DEF Outdated
  <2>2. PICK k \in 1..Len(new) : new[k].last_seq = segs[i].last_seq
    BY <1>2
  <2>3. ASSUME NEW l \in 1..Len(new), Covers(new[l], seq) PROVE new[l].status = "open"
    <3>1. PICK j \in 1..Len(segs) :
            /\ new[l].status = segs[j].status
            /\ new[l].first_seq = segs[j].first_seq /\ new[l].last_seq = segs[j].last_seq
      BY <1>3
    <3>2. Covers(segs[j], seq)
      BY <2>3, <3>1 DEF Covers
    <3> QED
      BY <1>7, <3>1, <3>2 DEF Outdated
  <2> QED
    BY <1>7, <2>1, <2>2, <2>3 DEF Outdated
<1> QED
  BY <1>4, <1>5, <1>6, <1>7 DEF Honest

LEMMA PermutedMirrors ==
  ASSUME NEW segs, NEW new, Permuted(segs, new)
  PROVE  Mirrors(segs, new)
<1>1. PICK p \in [1..Len(segs) -> 1..Len(segs)] :
        /\ \A k, l \in 1..Len(segs) : p[k] = p[l] => k = l
        /\ \A i \in 1..Len(segs) : \E k \in 1..Len(segs) : p[k] = i
        /\ Len(new) = Len(segs)
        /\ \A k \in 1..Len(segs) : new[k] = segs[p[k]]
  BY DEF Permuted
<1>2. /\ p \in [1..Len(new) -> 1..Len(segs)]
      /\ \A k, l \in 1..Len(new) : p[k] = p[l] => k = l
      /\ \A i \in 1..Len(segs) : \E k \in 1..Len(new) : p[k] = i
  BY <1>1
<1>3. \A k \in 1..Len(new) :
         /\ new[k].path = segs[p[k]].path /\ new[k].status = segs[p[k]].status
         /\ new[k].first_seq = segs[p[k]].first_seq /\ new[k].last_seq = segs[p[k]].last_seq
  BY <1>1
<1> QED
  BY <1>2, <1>3 DEF Mirrors

LEMMA MarkMirrors ==
  ASSUME NEW segs, NEW dir, NEW log, EntriesOK(segs, dir, log), NEW i \in DOMAIN segs, NEW status
  PROVE  Mirrors(segs, Mark(segs, i, status))
<1> DEFINE new == Mark(segs, i, status)
           n == Len(segs)
           p == [k \in 1..n |-> k]
<1>1. i \in 1..n /\ IsLog(segs)
  BY LogFacts DEF EntriesOK
<1>2. PICK marked : marked = [segs[i] EXCEPT !.deletion_status = status]
  OBVIOUS
<1>3. ReplacedAt(segs, marked, i, new)
  BY <1>1, <1>2, ExceptReplaces DEF Mark
<1>4. EntryShape(segs[i])
  BY <1>1 DEF EntriesOK, EntryOK
<1>5. /\ marked.path = segs[i].path /\ marked.status = segs[i].status
      /\ marked.first_seq = segs[i].first_seq /\ marked.last_seq = segs[i].last_seq
  BY <1>2, <1>4 DEF EntryShape
<1>6. n \in Nat
  BY <1>1, LogFacts
<1> HIDE DEF new, n
<1>7. Len(new) = n
  <2>1. i # n + 1
    BY <1>1, <1>6
  <2> QED
    BY <1>3, <2>1 DEF ReplacedAt, n
<1>8. \A k \in 1..n :
         /\ new[k].path = segs[k].path /\ new[k].status = segs[k].status
         /\ new[k].first_seq = segs[k].first_seq /\ new[k].last_seq = segs[k].last_seq
  BY <1>3, <1>5 DEF ReplacedAt, n
<1>9. /\ p \in [1..n -> 1..n] /\ \A k \in 1..n : p[k] = k
  OBVIOUS
<1> HIDE DEF p
<1>10. /\ p \in [1..Len(new) -> 1..Len(segs)]
       /\ \A k, l \in 1..Len(new) : p[k] = p[l] => k = l
       /\ \A j \in 1..Len(segs) : \E k \in 1..Len(new) : p[k] = j
       /\ \A k \in 1..Len(new) :
              /\ new[k].path = segs[p[k]].path /\ new[k].status = segs[p[k]].status
              /\ new[k].first_seq = segs[p[k]].first_seq
              /\ new[k].last_seq = segs[p[k]].last_seq
  BY <1>7, <1>8, <1>9 DEF n
<1> QED
  BY <1>10 DEF Mirrors, new

\* Only what the files hold counts.
LEMMA SameLinesHonest ==
  ASSUME NEW dir, NEW next, \A name : LinesIn(next, name) = LinesIn(dir, name), NEW log
  PROVE  \A segs, records : Honest(segs, records, dir, log) => Honest(segs, records, next, log)
  BY DEF Honest, Behind, Named, Tells, Outdated

\* A record written behind the others, or at the beginning of a new log,
\* leaves the entries as honest as they were.
LEMMA WriteIsHonest ==
  ASSUME NEW dir, NEW log, DirOK(dir), log \in DOMAIN dir, NEW lines, lines = dir[log],
         TailReadable(lines), NEW line, ProperLine(line),
         lines # <<>> /\ IsEnvelope(line) => line.seq = lines[Len(lines)].seq + 1,
         NEW next, next = [name \in DOMAIN dir |->
                             IF name = log THEN Extend(dir[name], line) ELSE dir[name]],
         NEW segs, EntriesOK(segs, dir, log),
         lines = <<>> /\ IsEnvelope(line) => AboveAll(line.seq, segs),
         NEW records, \A rec \in records : rec.kind = "envelope",
         Honest(segs, records, dir, log)
  PROVE  Honest(segs, records, next, log)
<1> DEFINE new == Extend(lines, line)
<1>1. /\ LinesIn(dir, log) = lines /\ LinesIn(next, log) = new
      /\ \A name : name # log => LinesIn(next, name) = LinesIn(dir, name)
  BY DEF LinesIn
<1>2. ProperFile(lines)
  BY DEF DirOK
<1>3. /\ ProperFile(new) /\ new # <<>>
      /\ \A rec \in Elements(lines) : rec.kind = "envelope" => rec \in Elements(new)
      /\ lines # <<>> /\ IsEnvelope(new[1]) => IsEnvelope(lines[1]) /\ new[1].seq = lines[1].seq
      /\ lines = <<>> => new[1] = line
  BY <1>2, ProperExtend
<1> HIDE DEF new
<1>4. \A i \in 1..Len(segs) : segs[i].last_seq \in Nat /\ segs[i].first_seq \in Nat
  BY EntryBounds DEF EntriesOK
<1>5. ASSUME Leads(new), lines # <<>> PROVE Leads(lines) /\ new[1].seq = lines[1].seq
  BY <1>3, <1>5 DEF Leads
<1>6. ASSUME Leads(new), lines = <<>>
      PROVE  new[1].seq \in Nat /\ \A i \in 1..Len(segs) : segs[i].last_seq < new[1].seq
  BY <1>3, <1>6 DEF Leads, AboveAll, ProperLine
<1>7. Behind(segs, next, log)
  <2> SUFFICES ASSUME Leads(new), NEW i \in 1..Len(segs)
               PROVE  \/ segs[i].last_seq < new[1].seq
                      \/ segs[i].status = "open" /\ segs[i].first_seq = new[1].seq
    BY <1>1 DEF Behind
  <2> QED
    BY <1>1, <1>5, <1>6 DEF Honest, Behind
<1>8. ASSUME NEW seq \in Nat, Outdated(segs, seq, dir, log)
      PROVE  Outdated(segs, seq, next, log)
  <2>1. PICK i \in 1..Len(segs) : segs[i].last_seq >= seq
    BY <1>8 DEF Outdated
  <2>2. ASSUME Leads(new) PROVE new[1].seq > seq
    <3>1. CASE lines = <<>>
      <4>1. segs[i].last_seq < new[1].seq /\ new[1].seq \in Nat /\ segs[i].last_seq \in Nat
        BY <1>4, <1>6, <2>2, <3>1
      <4> QED
        BY <2>1, <4>1
    <3>2. CASE lines # <<>>
      BY <1>1, <1>5, <1>8, <2>2, <3>2 DEF Outdated
    <3> QED
      BY <3>1, <3>2
  <2> QED
    BY <1>1, <1>8, <2>2 DEF Outdated
<1>9. ASSUME NEW rec \in records, Named(segs, rec, dir, log)
      PROVE  Named(segs, rec, next, log)
  <2>1. PICK i \in 1..Len(segs) : Tells(segs[i], rec, dir, log)
    BY <1>9 DEF Named
  <2>2. CASE segs[i].path # log
    BY <1>1, <2>1, <2>2 DEF Named, Tells
  <2>3. CASE segs[i].path = log
    <3>1. rec \in Elements(lines) /\ segs[i].first_seq = lines[1].seq /\ rec.kind = "envelope"
      BY <1>1, <2>1, <2>3 DEF Tells
    <3>2. rec \in Elements(new)
      BY <1>3, <3>1
    <3>3. new[1].seq = lines[1].seq
      <4>0. IsLog(lines) /\ Len(lines) \in Nat /\ DOMAIN lines = 1..Len(lines)
        BY <1>2, LogFacts DEF ProperFile
      <4>1. PICK k \in 1..Len(lines) : lines[k] = rec
        BY <3>1, <4>0 DEF Elements
      <4>2. lines[1].kind = "envelope" /\ lines # <<>>
        <5>1. CASE k = 1
          BY <3>1, <4>0, <4>1, <5>1, LogFacts
        <5>2. CASE k # 1
          <6>1. 1 \in 1..Len(lines) /\ 1 < Len(lines) /\ Len(lines) # 0
            BY <4>0, <4>1, <5>2
          <6> QED
            BY <1>2, <4>0, <6>1, LogFacts DEF ProperFile
        <5> QED
          BY <5>1, <5>2
      <4>3. new[1] = lines[1]
        BY <4>0, <4>2, ExtendFacts, LogFacts DEF new
      <4> QED
        BY <4>3
    <3> QED
      BY <1>1, <2>3, <3>1, <3>2, <3>3 DEF Named, Tells
  <2> QED
    BY <2>2, <2>3
<1> QED
  BY <1>7, <1>8, <1>9 DEF Honest

\* Where the records are once the log has been renamed and its entry is not
\* in the manifest yet.
Moved(segs, seg, records, dir, log) ==
    \A rec \in records :
        \/ \E i \in 1..Len(segs) :
              segs[i].status = "closed" /\ rec \in Elements(LinesIn(dir, segs[i].path))
        \/ \E seq \in Nat : seq < seg.first_seq /\ Outdated(segs, seq, dir, log)
        \/ rec \in Elements(dir[seg.path])

\* A log that is renamed leaves the entries honest: those of the log itself
\* are outdated from then on.
LEMMA RenameIsHonest ==
  ASSUME NEW dir, NEW log, PlainName(log), DirOK(dir), log \in DOMAIN dir, NEW lines, lines = dir[log],
         lines # <<>>, Parses(lines), NEW next, Preserves(dir, next, log), LinesIn(next, log) = <<>>,
         NEW closed, next[closed] = lines,
         NEW segs, EntriesOK(segs, dir, log), NEW records, Honest(segs, records, dir, log),
         NEW seg, seg.path = closed, seg.first_seq = lines[1].seq
  PROVE  Honest(segs, records, next, log) /\ Moved(segs, seg, records, next, log)
<1>1. LinesIn(next, log) = <<>> /\ next[closed] = lines /\ LinesIn(dir, log) = lines
  BY DEF LinesIn
<1>2. ProperFile(lines) /\ lines[1].seq \in Nat /\ Leads(lines)
  BY ProperEnds DEF DirOK, Parses, Leads
<1>3. ~Leads(<<>>) /\ Elements(<<>>) = {}
  BY DEF Leads, Elements
<1>4. ASSUME NEW name, name # log, NEW rec \in Elements(LinesIn(dir, name))
      PROVE  rec \in Elements(LinesIn(next, name))
  <2>1. name \in DOMAIN dir
    BY <1>3, <1>4 DEF LinesIn
  <2>2. name \in DOMAIN next /\ next[name] = dir[name]
    BY <1>4, <2>1 DEF Preserves
  <2> QED
    BY <1>4, <2>1, <2>2 DEF LinesIn
<1>5. ASSUME NEW seq \in Nat, Outdated(segs, seq, dir, log)
      PROVE  seq < lines[1].seq /\ Outdated(segs, seq, next, log)
  BY <1>1, <1>2, <1>3, <1>5 DEF Outdated
<1>6. ASSUME NEW rec, NEW i \in 1..Len(segs), Tells(segs[i], rec, dir, log), segs[i].path = log
      PROVE  rec \in Elements(lines) /\ Outdated(segs, lines[1].seq, next, log)
  <2>1. rec \in Elements(lines) /\ segs[i].first_seq = lines[1].seq
    BY <1>1, <1>6 DEF Tells
  <2>2. segs[i].last_seq >= lines[1].seq
    <3>1. /\ segs[i].last_seq \in Nat /\ segs[i].first_seq \in Nat
          /\ segs[i].first_seq <= segs[i].last_seq
      BY EntryBounds DEF EntriesOK
    <3> QED
      BY <2>1, <3>1
  <2>3. ASSUME NEW j \in 1..Len(segs), Covers(segs[j], lines[1].seq)
        PROVE  segs[j].status = "open"
    <3>1. segs[j].last_seq \in Nat
      BY EntryBounds DEF EntriesOK
    <3>2. ~(segs[j].last_seq < lines[1].seq)
      BY <1>2, <2>3, <3>1 DEF Covers
    <3> QED
      BY <1>1, <1>2, <3>2 DEF Honest, Behind
  <2> QED
    BY <1>1, <1>3, <2>1, <2>2, <2>3 DEF Outdated
<1>7. Honest(segs, records, next, log)
  <2>1. Behind(segs, next, log)
    BY <1>1, <1>3 DEF Behind
  <2>2. ASSUME NEW rec, Named(segs, rec, dir, log)
        PROVE  Named(segs, rec, next, log) \/ Outdated(segs, lines[1].seq, next, log)
    <3>1. PICK i \in 1..Len(segs) : Tells(segs[i], rec, dir, log)
      BY <2>2 DEF Named
    <3>2. CASE segs[i].path = log
      BY <1>6, <3>1, <3>2
    <3>3. CASE segs[i].path # log
      BY <1>4, <3>1, <3>3 DEF Tells, Named
    <3> QED
      BY <3>2, <3>3
  <2> QED
    BY <1>2, <1>5, <2>1, <2>2 DEF Honest
<1>8. ASSUME NEW rec \in records
      PROVE  \/ \E i \in 1..Len(segs) :
                   segs[i].status = "closed" /\ rec \in Elements(LinesIn(next, segs[i].path))
             \/ \E seq \in Nat : seq < lines[1].seq /\ Outdated(segs, seq, next, log)
             \/ rec \in Elements(next[closed])
  <2>1. CASE \E seq \in Nat : Outdated(segs, seq, dir, log)
    BY <1>5, <2>1
  <2>2. CASE Named(segs, rec, dir, log)
    <3>1. PICK i \in 1..Len(segs) : Tells(segs[i], rec, dir, log)
      BY <2>2 DEF Named
    <3>2. CASE segs[i].path = log
      BY <1>1, <1>6, <3>1, <3>2
    <3>3. CASE segs[i].path # log
      <4>1. segs[i].status = "closed"
        BY <3>3 DEF EntriesOK, EntryOK
      <4>2. rec \in Elements(LinesIn(next, segs[i].path))
        BY <1>4, <3>1, <3>3 DEF Tells
      <4> QED
        BY <4>1, <4>2
    <3> QED
      BY <3>2, <3>3
  <2> QED
    BY <2>1, <2>2 DEF Honest
<1> QED
  BY <1>7, <1>8 DEF Moved

LEMMA ReplacedIndexes ==
  ASSUME NEW segs, IsLog(segs), NEW seg, NEW i, NEW new, ReplacedAt(segs, seg, i, new)
  PROVE  /\ i \in 1..Len(new) /\ new[i] = seg
         /\ \A j \in 1..Len(segs) : j # i => j \in 1..Len(new) /\ new[j] = segs[j]
         /\ \A j \in 1..Len(new) : j # i => j \in 1..Len(segs) /\ new[j] = segs[j]
<1> DEFINE n == Len(segs)
           m == Len(new)
<1>1. n \in Nat
  BY LogFacts
<1>2. /\ \/ i = n + 1 /\ m = n + 1
         \/ i \in 1..n /\ m = n
      /\ new[i] = seg /\ \A j \in 1..n : j # i => new[j] = segs[j]
  BY DEF ReplacedAt
<1> HIDE DEF n, m
<1>3. i \in 1..m
  BY <1>1, <1>2
<1>4. \A j \in 1..n : j \in 1..m
  BY <1>1, <1>2
<1>5. \A j \in 1..m : j # i => j \in 1..n
  BY <1>1, <1>2
<1> QED
  BY <1>2, <1>3, <1>4, <1>5 DEF n, m

\* The entry of the log, put among the others: it takes the place of the open
\* one, if there is one, and tells of the record just written.
LEMMA OpenIsHonest ==
  ASSUME NEW dir, NEW log, PlainName(log), NEW lines, lines = LinesIn(dir, log),
         ProperFile(lines), lines # <<>>, Parses(lines),
         NEW segs, EntriesOK(segs, dir, log), NEW records, Honest(segs, records, dir, log),
         NEW rec \in Elements(lines)
  PROVE  Honest(Upsert(segs, FileSegment(log, lines, "open")), records \union {rec}, dir, log)
<1> DEFINE seg == FileSegment(log, lines, "open")
<1>1. /\ seg.path = log /\ seg.status = "open" /\ seg.first_seq = lines[1].seq
      /\ EntryOK(seg, dir, log)
  BY FileEntries DEF FileSegment
<1> HIDE DEF seg
<1>2. IsLog(segs) /\ \A i \in 1..Len(segs) : EntryOK(segs[i], dir, log)
  BY DEF EntriesOK
<1>3. PICK i, new :
        /\ ReplacedAt(segs, seg, i, new) /\ Upsert(segs, seg) = SortedBySeq(new)
        /\ \/ i \in 1..Len(segs) /\ Replaces(seg, segs[i])
              /\ \A j \in 1..Len(segs) : Replaces(seg, segs[j]) => i <= j
           \/ i = Len(segs) + 1 /\ \A j \in 1..Len(segs) : ~Replaces(seg, segs[j])
  BY <1>2, UpsertReplaces
<1>4. lines[1].seq \in Nat /\ Leads(lines)
  BY ProperEnds DEF Parses, Leads
<1>5. /\ seg.first_seq \in Nat /\ seg.last_seq \in Nat /\ seg.first_seq <= seg.last_seq
      /\ \A j \in 1..Len(segs) : segs[j].first_seq \in Nat /\ segs[j].last_seq \in Nat
  BY <1>1, <1>2, EntryBounds
<1>6. ASSUME NEW j \in 1..Len(segs), segs[j].status = "open" PROVE Replaces(seg, segs[j])
  <2>1. segs[j].path = log
    BY <1>2, <1>6 DEF EntryOK
  <2> QED
    BY <1>1, <1>6, <2>1 DEF Replaces
<1>7. ASSUME NEW j \in 1..Len(segs), Replaces(seg, segs[j]) PROVE segs[j].status = "open"
  <2> SUFFICES ASSUME IdOf(segs[j]) = IdOf(seg) PROVE segs[j].status = "open"
    BY <1>7 DEF Replaces
  <2>1. segs[j].last_seq = seg.last_seq
    BY DEF IdOf, SegmentName
  <2>2. ~(segs[j].last_seq < lines[1].seq)
    BY <1>1, <1>5, <2>1
  <2> QED
    BY <1>4, <2>2 DEF Honest, Behind
<1>8. \A j \in 1..Len(segs) : segs[j].status = "open" <=> j = i
  <2> SUFFICES ASSUME NEW j \in 1..Len(segs) PROVE segs[j].status = "open" <=> j = i
    OBVIOUS
  <2>1. j = i => segs[j].status = "open"
    <3> SUFFICES ASSUME j = i PROVE segs[j].status = "open"
      OBVIOUS
    <3>1. Len(segs) \in Nat /\ j <= Len(segs)
      BY <1>2, LogFacts
    <3>2. Replaces(seg, segs[j])
      BY <1>3, <3>1
    <3> QED
      BY <1>7, <3>2
  <2>2. ASSUME segs[j].status = "open" PROVE j = i
    <3>1. i \in 1..Len(segs) /\ Replaces(seg, segs[i])
      BY <1>3, <1>6, <2>2
    <3>2. segs[i].status = "open"
      BY <1>7, <3>1
    <3> QED
      BY <2>2, <3>1, <3>2 DEF Honest, OneOpen
  <2> QED
    BY <2>1, <2>2
<1>9. /\ i \in 1..Len(new) /\ new[i] = seg
      /\ \A j \in 1..Len(segs) : j # i => j \in 1..Len(new) /\ new[j] = segs[j]
      /\ \A j \in 1..Len(new) : j # i => j \in 1..Len(segs) /\ new[j] = segs[j]
  BY <1>2, <1>3, ReplacedIndexes
<1>10. OneOpen(new)
  BY <1>8, <1>9 DEF OneOpen
<1>11. Behind(new, dir, log)
  BY <1>1, <1>9 DEF Behind, Honest
<1>12. ASSUME NEW r, Named(segs, r, dir, log) PROVE Named(new, r, dir, log)
  <2>1. PICK j \in 1..Len(segs) : Tells(segs[j], r, dir, log)
    BY <1>12 DEF Named
  <2>2. CASE j = i
    <3>1. segs[j].path = log
      BY <1>2, <1>8, <2>2 DEF EntryOK
    <3>2. Tells(seg, r, dir, log)
      BY <1>1, <2>1, <3>1 DEF Tells
    <3> QED
      BY <1>9, <3>2 DEF Named
  <2>3. CASE j # i
    BY <1>9, <2>1, <2>3 DEF Named
  <2> QED
    BY <2>2, <2>3
<1>13. Named(new, rec, dir, log)
  BY <1>1, <1>9 DEF Named, Tells
<1>14. ASSUME NEW seq \in Nat, Outdated(segs, seq, dir, log) PROVE Outdated(new, seq, dir, log)
  <2>1. lines[1].seq > seq
    BY <1>4, <1>14 DEF Outdated
  <2>2. seg.last_seq >= seq /\ ~Covers(seg, seq)
    BY <1>1, <1>4, <1>5, <2>1 DEF Covers
  <2> QED
    BY <1>9, <1>14, <2>2 DEF Outdated
<1>15. Honest(new, records \union {rec}, dir, log)
  BY <1>10, <1>11, <1>12, <1>13, <1>14 DEF Honest
<1>16. EntriesOK(new, dir, log)
  BY <1>1, <1>3, ReplacedEntries
<1>17. Honest(SortedBySeq(new), records \union {rec}, dir, log)
  BY <1>15, <1>16, SortedEntries, PermutedMirrors, MirrorIsHonest
<1> QED
  BY <1>3, <1>17 DEF seg

\* The entry of the file just renamed.
LEMMA ClosedIsHonest ==
  ASSUME NEW dir, NEW log, PlainName(log), LinesIn(dir, log) = <<>>,
         NEW segs, EntriesOK(segs, dir, log), OneOpen(segs),
         NEW seg, seg.status = "closed", EntryOK(seg, dir, log),
         NEW records, Moved(segs, seg, records, dir, log)
  PROVE  Honest(Upsert(segs, seg), records, dir, log)
<1>1. seg.path = IdOf(seg) /\ seg.path \in DOMAIN dir /\ seg.path # log
  BY NamesDiffer DEF EntryOK
<1>2. IsLog(segs) /\ \A i \in 1..Len(segs) : EntryOK(segs[i], dir, log)
  BY DEF EntriesOK
<1>3. PICK i, new :
        /\ ReplacedAt(segs, seg, i, new) /\ Upsert(segs, seg) = SortedBySeq(new)
        /\ i \in 1..Len(segs) => Replaces(seg, segs[i])
  <2>1. PICK i, new :
        /\ ReplacedAt(segs, seg, i, new) /\ Upsert(segs, seg) = SortedBySeq(new)
        /\ \/ i \in 1..Len(segs) /\ Replaces(seg, segs[i])
              /\ \A j \in 1..Len(segs) : Replaces(seg, segs[j]) => i <= j
           \/ i = Len(segs) + 1 /\ \A j \in 1..Len(segs) : ~Replaces(seg, segs[j])
    BY <1>2, UpsertReplaces
  <2>2. i \in 1..Len(segs) => Replaces(seg, segs[i])
    <3>1. Len(segs) \in Nat
      BY <1>2, LogFacts
    <3> QED
      BY <2>1, <3>1
  <2> QED
    BY <2>1, <2>2
<1>4. seg.first_seq \in Nat /\ seg.last_seq \in Nat /\ seg.first_seq <= seg.last_seq
  BY EntryBounds
<1>5. ~Leads(<<>>)
  BY DEF Leads
<1>6. /\ i \in 1..Len(new) /\ new[i] = seg
      /\ \A j \in 1..Len(segs) : j # i => j \in 1..Len(new) /\ new[j] = segs[j]
      /\ \A j \in 1..Len(new) : j # i => j \in 1..Len(segs) /\ new[j] = segs[j]
  BY <1>2, <1>3, ReplacedIndexes
<1>7. OneOpen(new) /\ Behind(new, dir, log)
  BY <1>5, <1>6 DEF OneOpen, Behind
<1>8. ASSUME NEW rec \in Elements(dir[seg.path]) PROVE Named(new, rec, dir, log)
  BY <1>1, <1>6 DEF Named, Tells, LinesIn
<1>9. ASSUME NEW rec, NEW j \in 1..Len(segs), segs[j].status = "closed",
             rec \in Elements(LinesIn(dir, segs[j].path))
      PROVE  Named(new, rec, dir, log)
  <2>1. segs[j].path = IdOf(segs[j]) /\ segs[j].path \in DOMAIN dir /\ segs[j].path # log
    BY <1>2, <1>9, NamesDiffer DEF EntryOK
  <2>2. CASE j = i
    <3>1. IdOf(segs[j]) = IdOf(seg)
      BY <1>3, <2>2 DEF Replaces
    <3> QED
      BY <1>1, <1>8, <1>9, <2>1, <3>1 DEF LinesIn
  <2>3. CASE j # i
    BY <1>6, <1>9, <2>1, <2>3 DEF Named, Tells
  <2> QED
    BY <2>2, <2>3
<1>10. ASSUME NEW seq \in Nat, seq < seg.first_seq, Outdated(segs, seq, dir, log)
       PROVE  Outdated(new, seq, dir, log)
  <2>1. seg.last_seq >= seq /\ ~Covers(seg, seq)
    BY <1>4, <1>10 DEF Covers
  <2> QED
    BY <1>6, <1>10, <2>1 DEF Outdated
<1>11. Honest(new, records, dir, log)
  BY <1>7, <1>8, <1>9, <1>10 DEF Honest, Moved
<1>12. EntriesOK(new, dir, log)
  BY <1>3, ReplacedEntries
<1>13. Honest(SortedBySeq(new), records, dir, log)
  BY <1>11, <1>12, SortedEntries, PermutedMirrors, MirrorIsHonest
<1> QED
  BY <1>3, <1>13

\* An honest manifest that verifies names each record.
LEMMA HonestTells ==
  ASSUME NEW log, manifest.state = "saved", EntriesOK(manifest.segments, files, log),
         Honest(manifest.segments, acked, files, log), RetentionOK
  PROVE  \A rec \in acked : Named(manifest.segments, rec, files, log)
<1> DEFINE segs == manifest.segments
<1>1. IsLog(segs) /\ DOMAIN segs = 1..Len(segs) /\ Len(segs) \in Nat
  BY LogFacts DEF EntriesOK
<1>2. \A i \in 1..Len(segs) :
        /\ LinesIn(files, segs[i].path) = segs[i].file_sha256
        /\ segs[i].first_seq = IF i = 1 THEN 0 ELSE segs[i - 1].last_seq + 1
        /\ EntryOK(segs[i], files, log)
        /\ segs[i].first_seq \in Nat /\ segs[i].last_seq \in Nat
  BY <1>1, EntryBounds DEF EntriesOK, RetentionOK, SegmentOK, Lines, Exists, LinesIn
<1> HIDE DEF segs
<1>3. ASSUME NEW seq \in Nat, Outdated(segs, seq, files, log) PROVE FALSE
  <2> DEFINE late == {i \in 1..Len(segs) : segs[i].last_seq >= seq}
  <2>1. late # {} /\ late \subseteq Nat
    BY <1>1, <1>3 DEF Outdated
  <2>2. PICK i \in late : \A j \in late : i <= j
    BY <2>1, LeastNat
  <2>3. i \in 1..Len(segs) /\ segs[i].last_seq >= seq
    OBVIOUS
  <2>4. segs[i].first_seq <= seq
    <3>1. CASE i = 1
      BY <1>2, <2>3, <3>1
    <3>2. CASE i # 1
      <4>1. i - 1 \in 1..Len(segs) /\ ~(i <= i - 1)
        BY <1>1, <2>3, <3>2
      <4>2. i - 1 \notin late
        BY <2>2, <4>1
      <4>3. ~(segs[i - 1].last_seq >= seq)
        BY <4>1, <4>2
      <4>4. segs[i].first_seq = segs[i - 1].last_seq + 1 /\ segs[i - 1].last_seq \in Nat
        BY <1>2, <2>3, <3>2, <4>1
      <4> QED
        BY <4>3, <4>4
    <3> QED
      BY <3>1, <3>2
  <2>5. segs[i].status = "open"
    BY <1>3, <2>3, <2>4 DEF Outdated, Covers
  <2>6. /\ LinesIn(files, log) = segs[i].file_sha256
        /\ Leads(segs[i].file_sha256) /\ segs[i].first_seq = segs[i].file_sha256[1].seq
    <3>1. /\ segs[i].path = log /\ segs[i].first_seq = segs[i].file_sha256[1].seq
          /\ ProperFile(segs[i].file_sha256)
          /\ segs[i].file_sha256 # <<>> /\ Parses(segs[i].file_sha256)
      BY <1>2, <2>3, <2>5 DEF EntryOK
    <3>2. 1 \in 1..Len(segs[i].file_sha256)
      BY <3>1, ProperEnds
    <3> QED
      BY <1>2, <2>3, <3>1, <3>2 DEF Leads, Parses
  <2>7. segs[i].first_seq > seq
    BY <1>3, <2>6 DEF Outdated
  <2> QED
    BY <1>2, <2>3, <2>4, <2>7
<1> QED
  BY <1>3 DEF Honest, segs

EntriesOf(m) == IF m.state = "saved" THEN m.segments ELSE <<>>

\* What an appender is about to do to the manifest.
AppenderHonest(s, dir, m, t, records, log) ==
    LET fresh == LinesIn(dir, log) = <<>> IN
    /\ s.pc \in {"open_log", "lock_log", "read_tail"} /\ fresh => AboveAll(s.start.seq, EntriesOf(m))
    /\ s.pc = "write_record" /\ fresh => AboveAll(s.rec.seq, EntriesOf(m))
    /\ s.pc = "manifest_write" => s.mfd = TmpFd /\ t = Empty
    /\ s.pc = "manifest_replace" => t = Saved(s.segs)
    /\ s.pc \in {"manifest_open", "manifest_write", "manifest_replace"} =>
          Honest(s.segs, IF s.seg.status = "open" THEN records \union {s.rec} ELSE records, dir, log)
    /\ s.pc \in ManifestPC /\ s.seg.status = "closed" /\ m.state \in {"absent", "saved"} =>
          Moved(EntriesOf(m), s.seg, records, dir, log)

\* The text a verifier is about to make the manifest.
VerifierHonest(s, dir, t, records, log) ==
    /\ s.pc # "idle" => Honest(s.segs, records, dir, log)
    /\ s.pc \in {"manifest_write", "manifest_replace"} /\ t.state = "saved" =>
          Honest(t.segments, records, dir, log)

LossInv(a, log) ==
    /\ manifest.state \in {"absent", "saved"} => Honest(EntriesOf(manifest), acked, files, log)
    /\ \A v \in Verifiers : VerifierHonest(writer[v], files, tmp, acked, log)
    /\ writer[a].pc # "idle" => \A v \in Verifiers : writer[v].pc = "idle"
    /\ AppenderHonest(writer[a], files, manifest, tmp, acked, log)

\* What a manifest that can be loaded tells.
LEMMA LoadedEntries ==
  ASSUME NEW m, NEW dir, NEW log, ManifestOK(m, dir, log)
  PROVE  /\ EntriesOK(EntriesOf(m), dir, log)
         /\ m.state = "saved" => m = Saved(m.segments) /\ EntriesOf(m) = m.segments
<1>1. EntriesOK(<<>>, dir, log)
  BY EmptyIsProper, EmptyIsLog DEF EntriesOK
<1>2. Absent.state # "saved" /\ Empty.state # "saved" /\ Garbled.state # "saved"
  BY DEF Absent, Empty, Garbled
<1> QED
  BY <1>1, <1>2 DEF ManifestOK, EntriesOf

LEMMA LoadedAreEntries ==
  ASSUME NEW log, ManifestOK(manifest, files, log), Loadable
  PROVE  LoadedSegments = EntriesOf(manifest) /\ manifest.state \in {"absent", "saved"}
<1>1. /\ Absent.state = "absent" /\ Empty.state = "empty" /\ Garbled.state = "garbled"
      /\ \A segs : Saved(segs).state = "saved"
  BY DEF Absent, Empty, Garbled, Saved
<1> QED
  BY <1>1 DEF ManifestOK, Loadable, LoadedSegments, EntriesOf

\* A process between two calls, or before it opens the log, promises nothing.
LEMMA CalmHonest ==
  ASSUME NEW s, s.pc \in CalmPC \union {"rotate_hash", "rotate_check", "rotate_replace",
                                        "record_read", "record_hash"},
         NEW dir, NEW m, NEW t, NEW records, NEW log
  PROVE  AppenderHonest(s, dir, m, t, records, log)
  BY DEF AppenderHonest, CalmPC, ManifestPC

\* Steps of the appender that leave the directory alone.
LEMMA LocalHonest ==
  ASSUME NEW log, PlainName(log), StateOK(log), NEW s, NEW t, LocalDone(s, t, log),
         AppenderOK(s, files, log), AppenderHonest(s, files, manifest, tmp, acked, log),
         manifest.state \in {"absent", "saved"} => Honest(EntriesOf(manifest), acked, files, log)
  PROVE  AppenderHonest(t, files, manifest, tmp, acked, log)
<1> DEFINE lines == LinesIn(files, log)
           segs == EntriesOf(manifest)
<1>0. /\ Lines(log) = lines /\ ProperFile(lines)
  BY LinesAreIn, LinesProper DEF StateOK
<1>1. EntriesOK(segs, files, log) /\ (Loadable => LoadedSegments = segs /\ manifest.state \in {"absent", "saved"})
  BY LoadedEntries, LoadedAreEntries DEF StateOK
<1> HIDE DEF lines, segs
<1>2. CASE RestDone(s, t) \/ TakeDone(s, t, log) \/ CheckDone(s, t) \/ FindDone(s, t, log)
  <2>1. t.pc \in CalmPC \union {"rotate_hash", "rotate_check", "rotate_replace",
                                "record_read", "record_hash"}
    BY <1>2 DEF RestDone, TakeDone, CheckDone, FindDone
  <2> QED
    BY <2>1, CalmHonest
<1>3. CASE HashDone(s, t, log)
  <2>1. CASE t.pc = "rotate_check"
    BY <2>1, CalmHonest
  <2>2. CASE t.pc = "manifest_load" /\ s.pc = "record_hash"
    <3>1. t.seg = [s.seg EXCEPT !.file_sha256 = files[log]] /\ s.seg = SegmentOf(log, lines, "open")
      BY <1>3, <2>2 DEF HashDone, AppenderOK, lines
    <3>2. PICK seg : seg = s.seg
      OBVIOUS
    <3>3. PICK hashed : hashed = [seg EXCEPT !.file_sha256 = files[log]]
      OBVIOUS
    <3>4. hashed.status = "open"
      BY <3>1, <3>2, <3>3 DEF SegmentOf
    <3> QED
      BY <2>2, <3>1, <3>2, <3>3, <3>4 DEF AppenderHonest
  <2> QED
    BY <1>3, <2>1, <2>2 DEF HashDone
<1>4. CASE StartDone(s, t, log)
  <2>1. ASSUME lines = <<>> PROVE AboveAll(t.start.seq, segs)
    <3>1. /\ Loadable /\ LoadedSegments = segs
          /\ t.start.seq = IF segs = <<>> THEN 0 ELSE NewestOf(segs).last_seq + 1
      BY <1>0, <1>1, <1>4, <2>1 DEF StartDone
    <3>2. CASE segs = <<>>
      BY <3>2, EmptyIsProper DEF AboveAll
    <3>3. CASE segs # <<>>
      <4>1. IsLog(segs) /\ \A i \in 1..Len(segs) : segs[i].last_seq \in Nat
        BY <1>1, EntryBounds DEF EntriesOK
      <4>2. PICK i \in 1..Len(segs) :
               /\ NewestOf(segs) = segs[i]
               /\ \A j \in 1..Len(segs) : segs[j].last_seq <= segs[i].last_seq
        BY <3>3, <4>1, NewestFacts
      <4>3. \A j \in 1..Len(segs) : segs[j].last_seq < segs[i].last_seq + 1
        BY <4>1, <4>2
      <4> QED
        BY <3>1, <3>3, <4>2, <4>3 DEF AboveAll
    <3> QED
      BY <3>2, <3>3
  <2>2. t.pc = "open_log"
    BY <1>4 DEF StartDone
  <2> QED
    BY <2>1, <2>2 DEF AppenderHonest, ManifestPC, lines, segs
<1>5. CASE LockDone(s, t)
  BY <1>5 DEF LockDone, AppenderHonest, ManifestPC
<1>6. CASE TailDone(s, t, log)
  <2>1. /\ s.pc = "read_tail" /\ t.pc = "write_record"
        /\ t.rec.seq = NextSeq(lines, s.start.seq)
    BY <1>0, <1>6 DEF TailDone, MakeEnvelope
  <2>2. lines = <<>> => t.rec.seq = s.start.seq
    <3>1. Len(<<>>) = 0
      BY EmptyIsProper
    <3> QED
      BY <2>1, <3>1 DEF NextSeq
  <2> QED
    BY <2>1, <2>2 DEF AppenderHonest, ManifestPC, lines
<1>7. CASE LoadDone(s, t)
  <2>1. /\ s.pc = "manifest_load" /\ t.pc = "manifest_open" /\ t.seg = s.seg /\ t.rec = s.rec
        /\ t.segs = Upsert(segs, s.seg) /\ manifest.state \in {"absent", "saved"}
        /\ s.pc \in ManifestPC
    BY <1>1, <1>7 DEF LoadDone, ManifestPC
  <2>2. Honest(segs, acked, files, log)
    BY <2>1 DEF segs
  <2>3. CASE lines # <<>> /\ Parses(lines) /\ s.seg = FileSegment(log, lines, "open")
             /\ s.rec \in Elements(lines)
    <3>1. Honest(t.segs, acked \union {s.rec}, files, log)
      BY <1>0, <1>1, <2>1, <2>2, <2>3, OpenIsHonest DEF lines
    <3>2. t.seg.status = "open"
      BY <2>1, <2>3 DEF FileSegment
    <3> QED
      BY <2>1, <3>1, <3>2 DEF AppenderHonest
  <2>4. CASE s.seg.status = "closed" /\ EntryOK(s.seg, files, log) /\ lines = <<>>
    <3>1. Moved(segs, s.seg, acked, files, log)
      BY <2>1, <2>4 DEF AppenderHonest, segs
    <3>2. Honest(t.segs, acked, files, log)
      BY <1>1, <2>1, <2>2, <2>4, <3>1, ClosedIsHonest DEF Honest, lines
    <3> QED
      BY <2>1, <2>4, <3>1, <3>2 DEF AppenderHonest, segs
  <2> QED
    BY <2>1, <2>3, <2>4 DEF AppenderOK, lines
<1> QED
  BY <1>2, <1>3, <1>4, <1>5, <1>6, <1>7 DEF LocalDone

\* Steps of the appender that change a file.
LEMMA FilesHonest ==
  ASSUME NEW log, PlainName(log), StateOK(log), NEW s, NEW t, FilesDone(s, t, log),
         AppenderOK(s, files, log), AppenderHonest(s, files, manifest, tmp, acked, log),
         manifest.state \in {"absent", "saved"} => Honest(EntriesOf(manifest), acked, files, log)
  PROVE  /\ AppenderHonest(t, files', manifest, tmp, acked, log)
         /\ manifest.state \in {"absent", "saved"} =>
               Honest(EntriesOf(manifest), acked, files', log)
<1> DEFINE lines == LinesIn(files, log)
           segs == EntriesOf(manifest)
           loads == manifest.state \in {"absent", "saved"}
<1>0. /\ DirOK(files) /\ ProperFile(lines) /\ EntriesOK(segs, files, log)
      /\ \A rec \in acked : rec.kind = "envelope"
      /\ loads => Honest(segs, acked, files, log)
  BY LinesProper, LoadedEntries DEF StateOK, Kept
<1>1. PICK next : next = files'
  OBVIOUS
<1> HIDE DEF segs, loads, lines
<1>2. CASE RenameDone(s, t, log)
  <2> DEFINE closed == IdOf(s.seg)
  <2>1. /\ s.seg = FileSegment(log, lines, "closed") /\ closed \notin DOMAIN files
        /\ lines # <<>> /\ Parses(lines) /\ log \in DOMAIN files /\ files[log] = lines
        /\ t.pc = "manifest_load" /\ t.seg = [s.seg EXCEPT !.path = closed]
    BY <1>2 DEF RenameDone, AppenderOK, Exists, lines, LinesIn
  <2>2. next = [name \in (DOMAIN files \ {log}) \union {closed} |->
                   IF name = closed THEN files[log] ELSE files[name]]
    BY <1>1, <1>2 DEF RenameDone
  <2> HIDE DEF closed
  <2>3. t.seg.path = closed /\ t.seg.first_seq = lines[1].seq
    BY <2>1 DEF FileSegment
  <2>4. ASSUME loads
        PROVE  Honest(segs, acked, next, log) /\ Moved(segs, t.seg, acked, next, log)
    <3>1. DirOK(files) /\ log \in DOMAIN files /\ closed \notin DOMAIN files
      BY <1>0, <2>1
    <3>2. DirKept(files, next, log) /\ next[closed] = files[log] /\ LinesIn(next, log) = <<>>
      BY <2>2, <3>1, RenamedDir
    <3>3. Preserves(files, next, log) /\ next[closed] = lines /\ LinesIn(next, log) = <<>>
      BY <2>1, <3>2 DEF DirKept
    <3>4. /\ DirOK(files) /\ log \in DOMAIN files /\ lines = files[log]
          /\ lines # <<>> /\ Parses(lines)
          /\ EntriesOK(segs, files, log) /\ Honest(segs, acked, files, log)
      BY <1>0, <2>1, <2>4
    <3> QED
      BY <2>3, <3>3, <3>4, RenameIsHonest
  <2> QED
    BY <1>1, <2>1, <2>4 DEF AppenderHonest, segs, loads
<1>3. CASE OpenDone(s, t, log)
  <2>1. /\ s.pc = "open_log" /\ t.pc = "lock_log" /\ t.start = s.start
    BY <1>3 DEF OpenDone
  <2>2. next = [name \in DOMAIN files \union {log} |-> LinesIn(files, name)]
    BY <1>1, <1>3, LinesAreIn DEF OpenDone
  <2>3. \A name : LinesIn(next, name) = LinesIn(files, name)
    BY <2>2 DEF LinesIn
  <2>4. loads => Honest(segs, acked, next, log)
    BY <1>0, <2>3, SameLinesHonest
  <2> QED
    BY <1>1, <2>1, <2>3, <2>4 DEF AppenderHonest, ManifestPC, segs, loads
<1>4. CASE WriteDone(s, t) \/ CutDone(s, t)
  <2>1. /\ log \in DOMAIN files /\ files[log] = lines /\ TailReadable(lines)
        /\ lines # <<>> => s.rec.seq = lines[Len(lines)].seq + 1
    BY <1>4, LineWritten DEF lines
  <2>2. PICK line :
           /\ next = [name \in DOMAIN files |->
                        IF name = log THEN Extend(files[name], line) ELSE files[name]]
           /\ ProperLine(line) /\ (IsEnvelope(line) => line.seq = s.rec.seq)
    BY <1>1, <1>4, LineWritten
  <2>3. lines = <<>> => AboveAll(s.rec.seq, segs)
    BY <1>4 DEF WriteDone, CutDone, AppenderHonest, lines, segs
  <2>4. loads => Honest(segs, acked, next, log)
    BY <1>0, <2>1, <2>2, <2>3, WriteIsHonest
  <2>5. t.pc \in CalmPC \union {"record_read"}
    BY <1>4 DEF WriteDone, CutDone, RestDone
  <2> QED
    BY <1>1, <2>4, <2>5, CalmHonest DEF segs, loads
<1> QED
  BY <1>2, <1>3, <1>4 DEF FilesDone

\* Steps of the appender that change the manifest.
LEMMA ManifestHonest ==
  ASSUME NEW log, NEW s, NEW t, ManifestDone(s, t),
         AppenderHonest(s, files, manifest, tmp, acked, log),
         manifest.state \in {"absent", "saved"} => Honest(EntriesOf(manifest), acked, files, log)
  PROVE  /\ AppenderHonest(t, files, manifest', tmp', acked', log)
         /\ manifest'.state \in {"absent", "saved"} =>
               Honest(EntriesOf(manifest'), acked', files, log)
<1>1. CASE TmpOpened(s, t)
  BY <1>1 DEF TmpOpened, AppenderHonest, ManifestPC
<1>2. CASE TmpWritten(s, t)
  <2>1. s.mfd = TmpFd /\ tmp = Empty
    BY <1>2 DEF TmpWritten, AppenderHonest
  <2>2. tmp' = Saved(s.segs) /\ manifest' = manifest
    BY <1>2, <2>1 DEF TmpWritten
  <2> QED
    BY <1>2, <2>2 DEF TmpWritten, AppenderHonest, ManifestPC
<1>3. CASE ReplaceDone(s, t)
  <2>1. t.pc \in CalmPC
    BY <1>3 DEF ReplaceDone, RestDone
  <2>2. manifest' = Saved(s.segs) /\ Honest(s.segs, acked', files, log)
    BY <1>3 DEF ReplaceDone, AppenderHonest
  <2>3. EntriesOf(manifest') = s.segs
    BY <2>2 DEF EntriesOf, Saved
  <2> QED
    BY <2>1, <2>2, <2>3, CalmHonest
<1> QED
  BY <1>1, <1>2, <1>3 DEF ManifestDone

\* A process that does nothing but lose a descriptor.
LEMMA AlikeHonest ==
  ASSUME NEW s, NEW t, Alike(s, t), NEW dir, NEW log
  PROVE  \A m, records : VerifierHonest(s, dir, m, records, log) => VerifierHonest(t, dir, m, records, log)
  BY DEF Alike, VerifierHonest

\* A step of the appender, which finds the verifiers idle.
LEMMA AppenderLoses ==
  ASSUME NEW a, NEW log, OneAppender(a, log), ArchiveInv(a, log), LossInv(a, log),
         CallAppend(a) \/ CallRotate(a) \/ Step(a) \/ Crash(a),
         \A v \in Verifiers : writer[v].pc = "idle"
  PROVE  LossInv(a, log)'
<1> DEFINE s == writer[a]
           t == writer'[a]
<1>0. /\ Archivers(a) /\ a \in Writers /\ LogOf[a] = log /\ PlainName(log)
      /\ Shapes /\ StateOK(log) /\ AppenderOK(s, files, log)
  BY OnlyArchivers, ArchiveState
<1>1. Unmoved(a) /\ StepDone(a, log)
  BY <1>0, AnyStep
<1> HIDE DEF s, t
<1>2. /\ AppenderHonest(s, files, manifest, tmp, acked, log)
      /\ manifest.state \in {"absent", "saved"} => Honest(EntriesOf(manifest), acked, files, log)
  BY DEF LossInv, s
<1>3. /\ AppenderHonest(t, files', manifest', tmp', acked', log)
      /\ manifest'.state \in {"absent", "saved"} =>
            Honest(EntriesOf(manifest'), acked', files', log)
  <2>1. CASE LocalDone(s, t, log)
    <3>1. AppenderHonest(t, files, manifest, tmp, acked, log)
      BY <1>0, <1>2, <2>1, LocalHonest
    <3>2. Untouched
      BY <2>1 DEF LocalDone
    <3> QED
      BY <1>2, <3>1, <3>2 DEF Untouched
  <2>2. CASE FilesDone(s, t, log)
    <3>1. UNCHANGED <<manifest, tmp, acked>>
      BY <1>0, <2>2, FilesStep
    <3> QED
      BY <1>0, <1>2, <2>2, <3>1, FilesHonest
  <2>3. CASE ManifestDone(s, t)
    <3>1. files' = files
      BY <2>3 DEF ManifestDone, TmpOpened, TmpWritten, ReplaceDone
    <3> QED
      BY <1>2, <2>3, <3>1, ManifestHonest
  <2> QED
    BY <1>1, <2>1, <2>2, <2>3 DEF StepDone, s, t
<1>4. \A v \in Verifiers : writer'[v].pc = "idle"
  BY <1>0, <1>1 DEF Unmoved, Alike, Archivers
<1>5. \A v \in Verifiers : VerifierHonest(writer'[v], files', tmp', acked', log)
  BY <1>4 DEF VerifierHonest
<1> QED
  BY <1>3, <1>4, <1>5 DEF LossInv, t

\* A step of a verifier, which finds the appender idle, or does nothing.
LEMMA VerifierLoses ==
  ASSUME NEW a, NEW log, VerifyAlone, OneAppender(a, log), ArchiveInv(a, log), LossInv(a, log),
         NEW v \in Verifiers, CallVerify(v) \/ Verify(v) \/ Step(v) \/ Crash(v),
         writer[a].pc = "idle"
  PROVE  LossInv(a, log)'
<1> DEFINE s == writer[v]
           t == writer'[v]
<1>0. /\ Archivers(a) /\ a \in Writers /\ v \in Writers /\ v # a
      /\ Shapes /\ StateOK(log) /\ EntriesOK(s.segs, files, log) /\ VerifierOK(s)
  BY OnlyArchivers, ArchiveState DEF Archivers
<1>1. Unmoved(v) /\ VerifierOK(t) /\ (VerifyDone(s, t) \/ ManifestDone(s, t))
  BY <1>0, VerifyStep, VerifierStep
<1>2. files' = files /\ acked' = acked /\ writer'[a].pc = "idle"
  BY ArchiveVerifies DEF Alike
<1> HIDE DEF s, t
<1>3. /\ VerifierHonest(s, files, tmp, acked, log)
      /\ \A w \in Verifiers : VerifierHonest(writer[w], files, tmp, acked, log)
      /\ manifest.state \in {"absent", "saved"} => Honest(EntriesOf(manifest), acked, files, log)
  BY DEF LossInv, s
<1>4. /\ VerifierHonest(t, files, tmp', acked, log)
      /\ \A w \in Verifiers \ {v} : VerifierHonest(writer'[w], files, tmp', acked, log)
      /\ manifest'.state \in {"absent", "saved"} => Honest(EntriesOf(manifest'), acked, files, log)
  <2>1. \A w \in Verifiers \ {v} : Alike(writer[w], writer'[w])
    BY <1>0, <1>1 DEF Unmoved, Archivers
  <2>2. CASE VerifyDone(s, t)
    <3>1. tmp' = tmp /\ manifest' = manifest
      BY <2>2 DEF VerifyDone, Untouched
    <3>2. t.pc \in {"idle", "verify_segment", "manifest_open"}
      BY <2>2 DEF VerifyDone
    <3>3. t.pc # "idle" => Honest(t.segs, acked, files, log)
      <4>1. CASE s.pc = "idle" /\ manifest.state = "saved" /\ t.segs = SortedBySeq(manifest.segments)
        <5>1. EntriesOf(manifest) = manifest.segments /\ EntriesOK(manifest.segments, files, log)
          BY <1>0, <4>1, LoadedEntries DEF StateOK
        <5> QED
          BY <1>3, <4>1, <5>1, SortedEntries, PermutedMirrors, MirrorIsHonest
      <4>2. CASE s.pc = "verify_segment" /\ \E i \in DOMAIN s.segs : \E status : t.segs = Mark(s.segs, i, status)
        <5>1. Honest(s.segs, acked, files, log)
          BY <1>3, <4>2 DEF VerifierHonest
        <5> QED
          BY <1>0, <4>2, <5>1, MarkMirrors, MirrorIsHonest
      <4>3. CASE s.pc = "verify_segment" /\ t.segs = s.segs
        BY <1>3, <4>3 DEF VerifierHonest
      <4> QED
        BY <2>2, <4>1, <4>2, <4>3 DEF VerifyDone
    <3>4. VerifierHonest(t, files, tmp, acked, log)
      BY <3>2, <3>3 DEF VerifierHonest
    <3> QED
      BY <1>3, <2>1, <3>1, <3>4, AlikeHonest
  <2>3. CASE ManifestDone(s, t)
    <3>0. /\ \A segs : Saved(segs).state = "saved" /\ Saved(segs).segments = segs
          /\ Garbled.state \notin {"absent", "saved"} /\ Empty.state \notin {"absent", "saved"}
          /\ Absent.state # "saved"
      BY DEF Saved, Garbled, Empty, Absent
    <3>1. s.pc # "idle" /\ Honest(s.segs, acked, files, log)
      BY <1>3, <2>3 DEF ManifestDone, TmpOpened, TmpWritten, ReplaceDone, VerifierHonest
    <3>2. CASE TmpOpened(s, t)
      <4>1. /\ t.pc = "manifest_write" /\ t.segs = s.segs /\ tmp' = Empty /\ manifest' = manifest
        BY <3>2 DEF TmpOpened
      <4>2. VerifierHonest(t, files, tmp', acked, log)
        BY <3>0, <3>1, <4>1 DEF VerifierHonest
      <4>3. \A w \in Verifiers : VerifierHonest(writer[w], files, tmp', acked, log)
        BY <1>3, <3>0, <4>1 DEF VerifierHonest
      <4> QED
        BY <1>3, <2>1, <4>1, <4>2, <4>3, AlikeHonest
    <3>3. CASE TmpWritten(s, t)
      <4>1. /\ s.pc = "manifest_write" /\ t.pc = "manifest_replace" /\ t.segs = s.segs
            /\ tmp' \in {tmp, Saved(s.segs), Garbled}
            /\ manifest' \in {manifest, Saved(s.segs), Garbled}
        BY <3>3 DEF TmpWritten
      <4>2. tmp'.state = "saved" => Honest(tmp'.segments, acked, files, log)
        BY <1>3, <3>0, <3>1, <4>1 DEF VerifierHonest
      <4>3. VerifierHonest(t, files, tmp', acked, log)
        BY <3>1, <4>1, <4>2 DEF VerifierHonest
      <4>4. \A w \in Verifiers : VerifierHonest(writer[w], files, tmp', acked, log)
        BY <1>3, <4>2 DEF VerifierHonest
      <4>5. manifest'.state \in {"absent", "saved"} => Honest(EntriesOf(manifest'), acked, files, log)
        BY <1>3, <3>0, <3>1, <4>1 DEF EntriesOf
      <4> QED
        BY <2>1, <4>3, <4>4, <4>5, AlikeHonest
    <3>4. CASE ReplaceDone(s, t)
      <4>1. s.pc = "manifest_replace" /\ tmp # Absent /\ manifest' = tmp /\ tmp' = Absent
        BY <3>4 DEF ReplaceDone
      <4>2. manifest'.state \in {"absent", "saved"} => Honest(EntriesOf(manifest'), acked, files, log)
        <5>1. tmp \in {Empty, Garbled} \/ tmp.state = "saved"
          BY <1>0, <3>0, <4>1 DEF StateOK, ManifestOK
        <5> QED
          BY <1>3, <3>0, <4>1, <5>1 DEF VerifierHonest, EntriesOf
      <4>3. t.pc \in CalmPC /\ t.segs \in {s.segs, <<>>}
        BY <3>4 DEF ReplaceDone, RestDone
      <4>5. t.pc = "idle"
        BY <1>1, <4>3 DEF VerifierOK, CalmPC
      <4>6. VerifierHonest(t, files, tmp', acked, log)
        BY <4>5 DEF VerifierHonest
      <4>7. \A w \in Verifiers : VerifierHonest(writer[w], files, tmp', acked, log)
        BY <1>3, <3>0, <4>1 DEF VerifierHonest
      <4> QED
        BY <2>1, <4>2, <4>6, <4>7, AlikeHonest
    <3> QED
      BY <2>3, <3>2, <3>3, <3>4 DEF ManifestDone
  <2> QED
    BY <1>1, <2>2, <2>3
<1>5. \A w \in Verifiers : VerifierHonest(writer'[w], files, tmp', acked, log)
  BY <1>4 DEF t
<1>6. AppenderHonest(writer'[a], files, manifest', tmp', acked, log)
  BY <1>2, CalmHonest DEF CalmPC
<1> QED
  BY <1>2, <1>4, <1>5, <1>6 DEF LossInv

LEMMA StepIsBusy ==
  ASSUME NEW w, Step(w) \/ Crash(w)
  PROVE  writer[w].pc # "idle"
  BY DEF Step, Crash, At, RotateIfNeeded, RotateRead, RotateHash, RecordHash, HashFile, RotateCheck,
         RotateReplace, ChainStart, OpenLog, LockLog, ReadTail, WriteRecord, RecordRead,
         ManifestLoad, ManifestOpen, ManifestWrite, ManifestReplace

LEMMA LossInit ==
  ASSUME NEW a, NEW log, OneAppender(a, log), ExportInit
  PROVE  LossInv(a, log)
<1>1. /\ \A w \in Writers : writer[w].pc = "idle"
      /\ manifest = Absent /\ acked = {} /\ Verifiers \subseteq Writers /\ a \in Writers
  BY OnlyArchivers, VerifiersAssumption DEF ExportInit, Init, IdleWriter
<1>2. EntriesOf(manifest) = <<>>
  BY <1>1 DEF EntriesOf, Absent
<1>3. AppenderHonest(writer[a], files, manifest, tmp, acked, log)
  BY <1>1, CalmHonest DEF CalmPC
<1> QED
  BY <1>1, <1>2, <1>3, EmptyIsHonest DEF LossInv, VerifierHonest

LEMMA LossStep ==
  ASSUME NEW a, NEW log, VerifyAlone, OneAppender(a, log), ArchiveInv(a, log), LossInv(a, log),
         [ExportNext]_allVars
  PROVE  LossInv(a, log)'
<1>0. Archivers(a) /\ Appending = {a}
  BY OnlyArchivers DEF OneAppender
<1>1. ASSUME UNCHANGED <<files, manifest, tmp, writer, acked>> PROVE LossInv(a, log)'
  BY <1>1 DEF LossInv
<1>2. CASE Idle(Verifiers) /\ \E w \in Appending : CallAppend(w) \/ CallRotate(w)
  BY <1>0, <1>2, AppenderLoses DEF Idle, At
<1>3. ASSUME NEW w \in Writers, Step(w) \/ Crash(w) PROVE LossInv(a, log)'
  <2>1. writer[w].pc # "idle"
    BY <1>3, StepIsBusy
  <2>2. CASE w = a
    BY <1>3, <2>1, <2>2, AppenderLoses DEF LossInv
  <2>3. CASE w \in Verifiers
    <3>1. writer[a].pc = "idle"
      BY <2>1, <2>3 DEF LossInv
    <3> QED
      BY <1>3, <2>3, <3>1, VerifierLoses
  <2> QED
    BY <1>0, <2>2, <2>3 DEF Archivers
<1>4. ASSUME NEW v \in Verifiers, CallVerify(v) \/ Verify(v) PROVE LossInv(a, log)'
  <2>1. CASE CallVerify(v)
    BY <1>0, <2>1, VerifierLoses DEF CallVerify, Idle, At
  <2>2. CASE Verify(v)
    <3>1. writer[v].pc # "idle"
      BY <2>2 DEF Verify, VerifySegment, VerifyEnds, At
    <3>2. writer[a].pc = "idle"
      BY <3>1 DEF LossInv
    <3> QED
      BY <2>2, <3>2, VerifierLoses
  <2> QED
    BY <1>4, <2>1, <2>2
<1>5. UNCHANGED vars \/ CrashExport => UNCHANGED <<files, manifest, tmp, writer, acked>>
  BY DEF vars, CrashExport, directory
<1>6. CallExport \/ Export \/ UNCHANGED allVars => UNCHANGED vars
  BY DEF CallExport, Export, HashCandidate, CopyObject, WriteReceipt, ReturnExport, allVars
<1> QED
  BY <1>1, <1>2, <1>3, <1>4, <1>5, <1>6 DEF ExportNext

\* verify-retention never says OK over a loss: with one appender, and nobody
\* appending while a verifier works, whatever is rotated, verified and
\* exported, and whichever process crashes at any step
\* (audit_compliance.py:301-335).
THEOREM LossIsTold ==
  ASSUME NEW a, NEW log, VerifyAlone, OneAppender(a, log)
  PROVE  ExportSpec => []NoSilentLoss
<1> DEFINE Inv == ArchiveInv(a, log) /\ LossInv(a, log)
<1>1. ExportInit => Inv
  BY ArchiveInit, LossInit
<1>2. Inv /\ [ExportNext]_allVars => Inv'
  BY ArchiveStep, LossStep
<1>3. Inv => NoSilentLoss
  <2> SUFFICES ASSUME Inv, RetentionOK, NEW rec \in acked
               PROVE  \E i \in DOMAIN manifest.segments : Holds(manifest.segments[i].path, rec)
    BY DEF NoSilentLoss
  <2>1. manifest.state = "saved" /\ ManifestOK(manifest, files, log)
    BY DEF RetentionOK, ArchiveInv
  <2>2. /\ EntriesOf(manifest) = manifest.segments
        /\ EntriesOK(manifest.segments, files, log)
    BY <2>1, LoadedEntries
  <2>3. Honest(manifest.segments, acked, files, log)
    BY <2>1, <2>2 DEF LossInv
  <2>4. Named(manifest.segments, rec, files, log)
    BY <2>1, <2>2, <2>3, HonestTells
  <2>5. PICK i \in 1..Len(manifest.segments) :
           rec \in Elements(LinesIn(files, manifest.segments[i].path))
    BY <2>4 DEF Named, Tells
  <2>6. PICK name : name = manifest.segments[i].path
    OBVIOUS
  <2>7. name \in DOMAIN files /\ rec \in Elements(files[name])
    <3>1. Elements(<<>>) = {}
      BY DEF Elements
    <3> QED
      BY <2>5, <2>6, <3>1 DEF LinesIn
  <2>8. IsLog(files[name]) /\ rec.kind = "envelope"
    BY <2>7 DEF ArchiveInv, ProperFile, Kept
  <2>9. PICK k \in 1..Len(files[name]) : files[name][k] = rec
    BY <2>7, <2>8, LogFacts DEF Elements
  <2>10. Holds(name, rec)
    BY <2>8, <2>9 DEF Holds, IsEnvelope
  <2>11. i \in DOMAIN manifest.segments
    BY <2>2, <2>5, LogFacts DEF EntriesOK
  <2> QED
    BY <2>6, <2>10, <2>11
<1> HIDE DEF Inv
<1> QED
  BY <1>1, <1>2, <1>3, PTL DEF ExportSpec
=============================================================================
