------------------------------ MODULE AuditLog ------------------------------
(***************************************************************************)
(* The audit writer of RuneGuard: ComplianceAuditLog of                    *)
(* runeguard/audit_compliance.py over TamperEvidentLog of                  *)
(* runeguard/integrity.py, run by any number of writers (daemon threads,   *)
(* an MCP proxy, CLI commands) on one audit directory.                     *)
(*                                                                         *)
(* Each writer walks through append() or rotate(); one action is one       *)
(* access to the directory.  The only lock in the code is the flock that   *)
(* TamperEvidentLog.append holds on the file it has open, from the read of *)
(* the tail to the end of the write.  Rotation and the manifest are read,  *)
(* changed and replaced under no lock.                                     *)
(*                                                                         *)
(* A file is known by the name it has in the directory.  A descriptor is   *)
(* represented by the name its file has NOW: renaming a file moves the     *)
(* descriptors open on it along, and a file that lost its name to another  *)
(* (os.replace over it) is Unlinked.                                       *)
(***************************************************************************)
EXTENDS AuditChain, FiniteSets, SequencesExt

CONSTANTS Writers,        \* processes and threads that write audit records
          Logs,           \* the audit logs kept in the directory
          LogOf,          \* the log each writer was configured with
          RotateAt,       \* rotation.max_bytes, counted in records; 0: unset
          RotateByAge,    \* whether rotation.max_age_days is set
          MaxAppends,     \* bound on the calls of append()
          MaxRotates,     \* bound on the direct calls of rotate()
          MaxCrashes      \* bound on the crashes

ASSUME LogOfAssumption == LogOf \in [Writers -> Logs]
ASSUME BoundAssumption ==
    /\ RotateAt \in Nat /\ MaxAppends \in Nat
    /\ MaxRotates \in Nat /\ MaxCrashes \in Nat
    /\ RotateByAge \in BOOLEAN

VARIABLES files,      \* audit log files: name -> lines
          manifest,   \* audit-manifest.json
          tmp,        \* audit-manifest.json.tmp, shared by all writers
          writer,     \* local state of each writer
          acked,      \* the envelopes append() has returned to a caller
          appends, rotates, crashes   \* calls and crashes so far

vars == <<files, manifest, tmp, writer, acked, appends, rotates, crashes>>

-----------------------------------------------------------------------------
(* Names, descriptors, manifest files.                                     *)

NoFile == [fd |-> "closed"]
Unlinked == [fd |-> "unlinked"]
TmpFd == [fd |-> "tmp"]
ManifestFd == [fd |-> "manifest"]

\* Mutant of SegmentName: the name does not tell segments apart.
SegmentNameFixed(first, last, head) == [first |-> 0, last |-> 0, head |-> NoHash]

\* The name rotation gives a closed segment; also what _segment_id holds.
SegmentName(first, last, head) == [first |-> first, last |-> last, head |-> head]

Absent == [state |-> "absent"]
Empty == [state |-> "empty"]       \* truncated and not written yet
Garbled == [state |-> "garbled"]   \* one text written over a longer one
Saved(segments) == [state |-> "saved", segments |-> segments]

Exists(path) == path \in DOMAIN files
Lines(path) == IF Exists(path) THEN files[path] ELSE <<>>

\* _read_envelopes parses every line of the file.
Readable(path) == \A i \in 1..Len(Lines(path)) : IsEnvelope(Lines(path)[i])

-----------------------------------------------------------------------------
(* Segments of the manifest.                                               *)

NoSegment == [status |-> "none"]

\* _segment_from_file, except the file hash.
SegmentOf(path, log, status) ==
    LET first == log[1]
        last == log[Len(log)]
    IN  [path |-> path, status |-> status,
         first_seq |-> first.seq, last_seq |-> last.seq,
         prev_segment_head |-> first.prev_hash, head_hash |-> last.hash,
         file_sha256 |-> <<>>, deletion_status |-> "present"]

IdOf(seg) == SegmentName(seg.first_seq, seg.last_seq, seg.head_hash)

\* Mutant of Replaces: the entry of the open segment is not found again.
ReplacesById(seg, entry) == IdOf(entry) = IdOf(seg)

\* upsert_segment looks for an entry of the same id, or for the open entry
\* of the same path when seg is open.
Replaces(seg, entry) ==
    \/ IdOf(entry) = IdOf(seg)
    \/ entry.status = "open" /\ seg.status = "open" /\ entry.path = seg.path

\* segments.sort(key=first_seq) is stable: an entry goes behind all those
\* that start earlier and those with the same start that it was behind.
SortedBySeq(segs) ==
    LET before(i, j) == \/ segs[i].first_seq < segs[j].first_seq
                        \/ segs[i].first_seq = segs[j].first_seq /\ i < j
        rank(i) == Cardinality({j \in DOMAIN segs : before(j, i)}) + 1
    IN  [k \in DOMAIN segs |-> segs[CHOOSE i \in DOMAIN segs : rank(i) = k]]

Upsert(segs, seg) ==
    LET matches == {i \in DOMAIN segs : Replaces(seg, segs[i])}
        first == CHOOSE i \in matches : \A j \in matches : i <= j
    IN  SortedBySeq(IF matches = {} THEN Append(segs, seg)
                                    ELSE [segs EXCEPT ![first] = seg])

\* Mutant of NewestOf: sorted the other way.
OldestOf(segs) ==
    segs[CHOOSE i \in DOMAIN segs :
            \A j \in DOMAIN segs : segs[j].last_seq >= segs[i].last_seq]

\* sorted(segments, key=last_seq)[-1]
NewestOf(segs) ==
    segs[CHOOSE i \in DOMAIN segs :
            \A j \in DOMAIN segs :
                \/ segs[j].last_seq < segs[i].last_seq
                \/ segs[j].last_seq = segs[i].last_seq /\ j <= i]

\* RetentionManifest.load: no file is an empty manifest, a file that is no
\* JSON raises.
Loadable == manifest.state \in {"absent", "saved"}
LoadedSegments == IF manifest = Absent THEN <<>> ELSE manifest.segments

-----------------------------------------------------------------------------
(* Writers.  call is the number of the append() call served, 0 in a direct *)
(* rotate(); start is the pair of _next_chain_start; rec the envelope;     *)
(* seg the segment to upsert; segs the manifest to write; fd and mfd the   *)
(* descriptors of the log and of the temporary manifest.                   *)

Start(seq, prev) == [seq |-> seq, prev |-> prev]
NoRecord == [kind |-> "none"]

IdleWriter == [pc |-> "idle", call |-> 0, start |-> Start(0, GenesisPrev),
               rec |-> NoRecord, seg |-> NoSegment, segs |-> <<>>,
               fd |-> NoFile, mfd |-> NoFile]

Init ==
    /\ \E touched \in SUBSET Logs : files = [log \in touched |-> <<>>]
    /\ manifest = Absent
    /\ tmp = Absent
    /\ writer = [w \in Writers |-> IdleWriter]
    /\ acked = {}
    /\ appends = 0 /\ rotates = 0 /\ crashes = 0

At(w, pc) == writer[w].pc = pc
Goto(w, pc) == writer' = [writer EXCEPT ![w].pc = pc]

\* The call ends: it returns, or the exception reaches the caller.
Finish(w) == writer' = [writer EXCEPT ![w] = IdleWriter]

directory == <<files, manifest, tmp>>
counters == <<appends, rotates, crashes>>

-----------------------------------------------------------------------------
(* Calls.                                                                  *)

CallAppend(w) ==
    /\ At(w, "idle")
    /\ appends < MaxAppends
    /\ appends' = appends + 1
    /\ writer' = [writer EXCEPT ![w].pc = "rotate_if_needed",
                                ![w].call = appends + 1]
    /\ UNCHANGED <<directory, acked, rotates, crashes>>

CallRotate(w) ==
    /\ At(w, "idle")
    /\ rotates < MaxRotates
    /\ rotates' = rotates + 1
    /\ Goto(w, "rotate_read")
    /\ UNCHANGED <<directory, acked, appends, crashes>>

-----------------------------------------------------------------------------
(* Rotation.                                                               *)

\* _rotate_if_needed: by size, else by the age of the first record, which
\* any amount of time may have passed since.
RotateIfNeeded(w) ==
    LET path == LogOf[w]
        full == RotateAt > 0 /\ Len(Lines(path)) >= RotateAt
        aged == RotateByAge /\ Lines(path) # <<>> /\ ~full
    IN  /\ At(w, "rotate_if_needed")
        /\ \/ Lines(path) # <<>> /\ full /\ Goto(w, "rotate_read")
           \/ aged /\ Readable(path) /\ Goto(w, "rotate_read")
           \/ aged /\ ~Readable(path) /\ Finish(w)
           \/ ~full /\ (aged => Readable(path)) /\ Goto(w, "chain_start")
        /\ UNCHANGED <<directory, acked, counters>>

\* Where the call goes on once rotate() has returned.
AfterRotate(w) ==
    IF writer[w].call = 0
    THEN Finish(w)
    ELSE writer' = [writer EXCEPT ![w].pc = "chain_start", ![w].seg = NoSegment,
                                  ![w].segs = <<>>]

\* rotate(): nothing to do without a file or with an empty one; a line that
\* does not parse raises.
RotateRead(w) ==
    LET path == LogOf[w] IN
    /\ At(w, "rotate_read")
    /\ \/ Lines(path) = <<>> /\ AfterRotate(w)
       \/ Lines(path) # <<>> /\ ~Readable(path) /\ Finish(w)
       \/ /\ Lines(path) # <<>> /\ Readable(path)
          /\ writer' = [writer EXCEPT
                ![w].pc = "rotate_hash",
                ![w].seg = SegmentOf(path, Lines(path), "closed")]
    /\ UNCHANGED <<directory, acked, counters>>

\* file_sha256 opens the file a second time.
HashFile(w, from, to) ==
    /\ At(w, from)
    /\ IF Exists(LogOf[w])
       THEN writer' = [writer EXCEPT ![w].pc = to,
                          ![w].seg.file_sha256 = files[LogOf[w]]]
       ELSE Finish(w)
    /\ UNCHANGED <<directory, acked, counters>>

RotateHash(w) == HashFile(w, "rotate_hash", "rotate_check")

\* closed_path.exists() raises FileExistsError.
RotateCheck(w) ==
    /\ At(w, "rotate_check")
    /\ IF Exists(IdOf(writer[w].seg)) THEN Finish(w) ELSE Goto(w, "rotate_replace")
    /\ UNCHANGED <<directory, acked, counters>>

\* os.replace(self.path, closed_path): whatever is at path now gets the
\* name computed before, over any file of that name.
RotateReplace(w) ==
    LET path == LogOf[w]
        closed == IdOf(writer[w].seg)
        moved(fd) == IF fd = closed THEN Unlinked
                     ELSE IF fd = path THEN closed ELSE fd
    IN  /\ At(w, "rotate_replace")
        /\ IF Exists(path)
           THEN /\ files' = [name \in (DOMAIN files \ {path}) \union {closed} |->
                                IF name = closed THEN files[path] ELSE files[name]]
                /\ writer' = [v \in Writers |->
                     IF v = w THEN [writer[w] EXCEPT !.pc = "manifest_load",
                                                     !.seg.path = closed,
                                                     !.fd = moved(@)]
                     ELSE [writer[v] EXCEPT !.fd = moved(@)]]
           ELSE Finish(w) /\ UNCHANGED files
        /\ UNCHANGED <<manifest, tmp, acked, counters>>

-----------------------------------------------------------------------------
(* Appending the record.                                                   *)

\* _next_chain_start, read under no lock.
ChainStart(w) ==
    LET path == LogOf[w]
        log == Lines(path)
        goOn(start) == writer' = [writer EXCEPT ![w].pc = "open_log",
                                                ![w].start = start]
    IN  /\ At(w, "chain_start")
        /\ \/ /\ log # <<>> /\ Readable(path)
              /\ goOn(Start(NextSeq(log, 0), NextPrev(log, GenesisPrev)))
           \/ log # <<>> /\ ~Readable(path) /\ Finish(w)
           \/ log = <<>> /\ ~Loadable /\ Finish(w)
           \/ /\ log = <<>> /\ Loadable
              /\ IF LoadedSegments = <<>>
                 THEN goOn(Start(0, GenesisPrev))
                 ELSE LET newest == NewestOf(LoadedSegments)
                      IN  goOn(Start(newest.last_seq + 1, newest.head_hash))
        /\ UNCHANGED <<directory, acked, counters>>

\* Mutant of OpenLog: the file is opened for writing, not for appending.
OpenLogTruncating(w) ==
    /\ At(w, "open_log")
    /\ files' = [name \in DOMAIN files \union {LogOf[w]} |->
                    IF name = LogOf[w] THEN <<>> ELSE files[name]]
    /\ writer' = [writer EXCEPT ![w].pc = "lock_log", ![w].fd = LogOf[w]]
    /\ UNCHANGED <<manifest, tmp, acked, counters>>

\* path.open("a") creates the file.
OpenLog(w) ==
    LET path == LogOf[w] IN
    /\ At(w, "open_log")
    /\ files' = [name \in DOMAIN files \union {path} |-> Lines(name)]
    /\ writer' = [writer EXCEPT ![w].pc = "lock_log", ![w].fd = path]
    /\ UNCHANGED <<manifest, tmp, acked, counters>>

HoldsLock(w) == writer[w].pc \in {"read_tail", "write_record"}

\* Mutant of LockLog: the lock excludes nobody.
LockLogShared(w) ==
    /\ At(w, "lock_log")
    /\ Goto(w, "read_tail")
    /\ UNCHANGED <<directory, acked, counters>>

\* Mutant of LockLog: waits until nobody else has the file open.
LockLogAlone(w) ==
    /\ At(w, "lock_log")
    /\ \A v \in Writers \ {w} : writer[v].fd # writer[w].fd
    /\ Goto(w, "read_tail")
    /\ UNCHANGED <<directory, acked, counters>>

\* flock(LOCK_EX) on the file that is open, whatever its name is by now.
LockLog(w) ==
    /\ At(w, "lock_log")
    /\ \A v \in Writers : HoldsLock(v) => writer[v].fd # writer[w].fd
    /\ Goto(w, "read_tail")
    /\ UNCHANGED <<directory, acked, counters>>

\* Mutant of ReadTail: the start found before the lock is used as it is.
ReadTailNot(w) ==
    LET start == writer[w].start
    IN  /\ At(w, "read_tail")
        /\ writer' = [writer EXCEPT
              ![w].pc = "write_record",
              ![w].rec = MakeEnvelope(NoKey, start.seq, start.prev,
                                      writer[w].call, NoStamp)]
        /\ UNCHANGED <<directory, acked, counters>>

\* _tail_head reads the file that has the NAME of the log, and only its
\* last line; without one it falls back on the start found before the lock.
ReadTail(w) ==
    LET log == Lines(LogOf[w])
        start == writer[w].start
    IN  /\ At(w, "read_tail")
        /\ IF TailReadable(log)
           THEN writer' = [writer EXCEPT
                   ![w].pc = "write_record",
                   ![w].rec = MakeEnvelope(NoKey, NextSeq(log, start.seq),
                                           NextPrev(log, start.prev),
                                           writer[w].call, NoStamp)]
           ELSE Finish(w)
        /\ UNCHANGED <<directory, acked, counters>>

\* The text added to the open file: files of every other name stay.
Written(fd, line) ==
    [name \in DOMAIN files |->
        IF name = fd THEN Extend(files[name], line) ELSE files[name]]

\* write, flush, fsync, unlock, close.
WriteRecord(w) ==
    /\ At(w, "write_record")
    /\ files' = Written(writer[w].fd, writer[w].rec)
    /\ writer' = [writer EXCEPT ![w].pc = "record_read", ![w].fd = NoFile]
    /\ UNCHANGED <<manifest, tmp, acked, counters>>

-----------------------------------------------------------------------------
(* The manifest.                                                           *)

\* _record_open_segment reads the log again.
RecordRead(w) ==
    LET path == LogOf[w] IN
    /\ At(w, "record_read")
    /\ IF Lines(path) # <<>> /\ Readable(path)
       THEN writer' = [writer EXCEPT
               ![w].pc = "record_hash",
               ![w].seg = SegmentOf(path, Lines(path), "open")]
       ELSE Finish(w)
    /\ UNCHANGED <<directory, acked, counters>>

RecordHash(w) == HashFile(w, "record_hash", "manifest_load")

ManifestLoad(w) ==
    /\ At(w, "manifest_load")
    /\ IF Loadable
       THEN writer' = [writer EXCEPT
               ![w].pc = "manifest_open",
               ![w].segs = Upsert(LoadedSegments, writer[w].seg)]
       ELSE Finish(w)
    /\ UNCHANGED <<directory, acked, counters>>

\* write_text opens the temporary file, truncating it ...
ManifestOpen(w) ==
    /\ At(w, "manifest_open")
    /\ tmp' = Empty
    /\ writer' = [writer EXCEPT ![w].pc = "manifest_write", ![w].mfd = TmpFd]
    /\ UNCHANGED <<files, manifest, acked, counters>>

\* ... and writes at its beginning.  If another writer has written there
\* since, its text is replaced, or shows behind this one when it is longer.
ManifestWrite(w) ==
    LET mfd == writer[w].mfd
        after(old) == IF old = Empty THEN {Saved(writer[w].segs)}
                      ELSE {Saved(writer[w].segs), Garbled}
    IN  /\ At(w, "manifest_write")
        /\ IF mfd = TmpFd THEN tmp' \in after(tmp) ELSE UNCHANGED tmp
        /\ IF mfd = ManifestFd THEN manifest' \in after(manifest)
                               ELSE UNCHANGED manifest
        /\ writer' = [writer EXCEPT ![w].pc = "manifest_replace",
                                    ![w].mfd = NoFile]
        /\ UNCHANGED <<files, acked, counters>>

\* os.replace(tmp, manifest) fails when another writer has moved the
\* temporary file away.  upsert_segment was the last step of rotate() for a
\* closed segment, of append() for an open one.
ManifestReplace(w) ==
    LET moved(fd) == IF fd = ManifestFd THEN Unlinked
                     ELSE IF fd = TmpFd THEN ManifestFd ELSE fd
        returns == writer[w].seg.status = "open"
        next == IF returns \/ writer[w].call = 0
                THEN IdleWriter
                ELSE [writer[w] EXCEPT !.pc = "chain_start", !.seg = NoSegment,
                                       !.segs = <<>>]
    IN  /\ At(w, "manifest_replace")
        /\ IF tmp = Absent
           THEN Finish(w) /\ UNCHANGED <<manifest, tmp, acked>>
           ELSE /\ manifest' = tmp
                /\ tmp' = Absent
                /\ acked' = IF returns THEN acked \union {writer[w].rec} ELSE acked
                /\ writer' = [v \in Writers |->
                     IF v = w THEN next
                     ELSE [writer[v] EXCEPT !.mfd = moved(@)]]
        /\ UNCHANGED <<files, counters>>

-----------------------------------------------------------------------------
(* Crashes.                                                                *)

\* The process stops between two steps, or inside the write: the text of a
\* record larger than the buffer is written apart from its newline, and any
\* part of it may be on the disk.
Crash(w) ==
    /\ ~At(w, "idle")
    /\ crashes < MaxCrashes
    /\ crashes' = crashes + 1
    /\ Finish(w)
    /\ \/ UNCHANGED files
       \/ /\ At(w, "write_record")
          /\ \E line \in {TornLine, [writer[w].rec EXCEPT !.kind = "cut"]} :
                files' = Written(writer[w].fd, line)
    /\ UNCHANGED <<manifest, tmp, acked, appends, rotates>>

Step(w) ==
    \/ RotateIfNeeded(w) \/ RotateRead(w) \/ RotateHash(w)
    \/ RotateCheck(w) \/ RotateReplace(w)
    \/ ChainStart(w) \/ OpenLog(w) \/ LockLog(w) \/ ReadTail(w) \/ WriteRecord(w)
    \/ RecordRead(w) \/ RecordHash(w)
    \/ ManifestLoad(w) \/ ManifestOpen(w) \/ ManifestWrite(w) \/ ManifestReplace(w)

Next == \E w \in Writers : CallAppend(w) \/ CallRotate(w) \/ Step(w) \/ Crash(w)

Spec == Init /\ [][Next]_vars

\* A writer that is running goes on; the kernel grants a free flock.
FairSpec == Spec /\ \A w \in Writers : WF_vars(Step(w))

-----------------------------------------------------------------------------
(* Properties.                                                             *)

PC == {"idle", "rotate_if_needed", "rotate_read", "rotate_hash", "rotate_check",
       "rotate_replace", "chain_start", "open_log", "lock_log", "read_tail",
       "write_record", "record_read", "record_hash", "manifest_load",
       "manifest_open", "manifest_write", "manifest_replace"}

\* Types.  Hashes are symbolic terms and have no set of their own: a record
\* that holds them is described by its fields.
WriterTyped(s) ==
    /\ s = [pc |-> s.pc, call |-> s.call, start |-> s.start, rec |-> s.rec,
            seg |-> s.seg, segs |-> s.segs, fd |-> s.fd, mfd |-> s.mfd]
    /\ s.pc \in PC
    /\ s.call \in 0..MaxAppends
    /\ s.mfd \in {NoFile, Unlinked, TmpFd, ManifestFd}

TypeOK ==
    /\ files = [name \in DOMAIN files |-> files[name]]
    /\ manifest.state \in {"absent", "empty", "garbled", "saved"}
    /\ tmp.state \in {"absent", "empty", "garbled", "saved"}
    /\ writer = [w \in Writers |-> writer[w]]
    /\ \A w \in Writers :
          /\ WriterTyped(writer[w])
          /\ writer[w].fd \in DOMAIN files \union {NoFile, Unlinked}
    /\ appends \in 0..MaxAppends
    /\ rotates \in 0..MaxRotates
    /\ crashes \in 0..MaxCrashes

Quiet == \A w \in Writers : At(w, "idle")

Closed == DOMAIN files \ Logs

\* `runeguard audit verify` of a log: verify_log from seq 0 and the genesis
\* hash, without an expected head.
AuditVerifies(log) == VerifyLog(NoKey, Lines(log), NoHash, 0, GenesisPrev).ok

\* Mutant of SegmentOK: each entry is verified by itself.
SegmentOKAlone(segs, i) ==
    LET seg == segs[i] IN
    /\ Exists(seg.path)
    /\ Lines(seg.path) = seg.file_sha256
    /\ VerifyLog(NoKey, Lines(seg.path), seg.head_hash,
                 seg.first_seq, seg.prev_segment_head).ok

\* The checks of verify_retention on one entry: it names a file that is
\* there, with the hash recorded, that verifies from the head of the entry
\* before to its own.
SegmentOK(segs, i) ==
    LET seg == segs[i] IN
    /\ Exists(seg.path)
    /\ Lines(seg.path) = seg.file_sha256
    /\ seg.first_seq = IF i = 1 THEN 0 ELSE segs[i - 1].last_seq + 1
    /\ seg.prev_segment_head = IF i = 1 THEN GenesisPrev ELSE segs[i - 1].head_hash
    /\ VerifyLog(NoKey, Lines(seg.path), seg.head_hash,
                 seg.first_seq, seg.prev_segment_head).ok

\* verify_retention says OK.
RetentionOK ==
    /\ manifest.state = "saved"
    /\ \A i \in DOMAIN manifest.segments : SegmentOK(manifest.segments, i)

\* Records have been written, no call is running and no writer has crashed.
\* After a crash behind a rename the manifest lacks the closed segment, and
\* the next append() starts from the older entry it does have.
Settled == Quiet /\ acked # {} /\ crashes = 0

\* Then verify-retention reports nothing: the manifest, written behind the
\* records in several unlocked steps, has caught up with them.
RetentionVerifies == Settled => RetentionOK

\* Where a record is in the directory.
Holds(name, rec) ==
    \E i \in 1..Len(files[name]) :
        IsEnvelope(files[name][i]) /\ files[name][i].hash = rec.hash

\* A record append() has returned is in a file of the directory from then
\* on, whatever other writers, rotations and crashes do.
AckedDurable == \A rec \in acked : \E name \in DOMAIN files : Holds(name, rec)

\* `runeguard audit verify` accepts the active log at any moment, as long as
\* no writer has crashed.
ActiveLogVerifies == crashes = 0 => \A log \in Logs : AuditVerifies(log)

\* Damage is confined to the last line: everything before it is a chain
\* from the genesis record, so no writer ever goes on behind a bad line.
DamageOnlyAtTail ==
    \A log \in Logs :
        LET n == Len(Lines(log))
            sound == IF n > 0 /\ ~IsEnvelope(Lines(log)[n]) THEN n - 1 ELSE n
        IN  \A i \in 1..sound :
                LineVerifies(NoKey, Lines(log), i, 0, GenesisPrev)

\* Every file starts where another one ends, except the one that starts the
\* chain; no two files start at the same record.
SegmentsLink ==
    LET nonEmpty == {name \in DOMAIN files : Lines(name) # <<>>}
        startOf(name) == files[name][1].prev_hash
        endsAt(name, hash) ==
            \E i \in 1..Len(files[name]) :
                i = Len(files[name]) /\ files[name][i].hash = hash
        opened == {name \in nonEmpty : IsEnvelope(files[name][1])}
    IN  /\ \A a, b \in opened : startOf(a) = startOf(b) => a = b
        /\ \A a \in opened : \/ startOf(a) = GenesisPrev
                              \/ \E b \in Closed : endsAt(b, startOf(a))

\* The records of a file.  What a crash left of one is none: it can only be
\* the last line.
Whole(log) == IF log # <<>> /\ log[Len(log)].kind # "envelope" THEN Front(log) ELSE log

\* The closed files, the one with the earliest records first.
ClosedInOrder ==
    CHOOSE order \in [1..Cardinality(Closed) -> Closed] :
        /\ IsInjective(order)
        /\ \A i, j \in DOMAIN order : i < j => order[i].first <= order[j].first

\* The records of the directory in chain order, for one log.
Trail ==
    LET active == CHOOSE log \in Logs : TRUE
    IN  FlattenSeq([i \in 1..Cardinality(Closed) |-> Whole(files[ClosedInOrder[i]])])
        \o Whole(Lines(active))

\* The directory implements the append-only trail: as other writers interleave
\* and crash, records only join at the end, linked to the one before, and
\* append() returns no record that is not there.
Abstract == INSTANCE AuditTrail WITH
                Payload <- 1..MaxAppends, trail <- Trail, returned <- acked
ImplementsTrail == Abstract!Spec

\* A lone writer's append always returns the envelope: no exception.
EveryAppendReturns ==
    \A n \in 1..MaxAppends :
        appends >= n ~> \E rec \in acked : rec.payload = n

\* Every call ends, by a return or an exception: nobody waits for the flock
\* for ever.
EveryCallEnds == \A w \in Writers : ~At(w, "idle") ~> At(w, "idle")
=============================================================================
