---------------------------- MODULE AuditExport -----------------------------
(***************************************************************************)
(* The two commands that read the audit directory while it is written:     *)
(* `audit verify-retention` (verify_retention) and `audit export`          *)
(* (LocalWORMExporter.export) of runeguard/audit_compliance.py, composed   *)
(* with the writers of AuditLog.                                           *)
(*                                                                         *)
(* verify_retention marks entries whose file is missing, or is there       *)
(* again, and then writes the manifest it loaded at its start through the  *)
(* same temporary file as the writers.  export copies closed segments and  *)
(* the manifest, each under a name that contains its hash, and refuses     *)
(* what is at the destination already.                                     *)
(***************************************************************************)
EXTENDS AuditLog

CONSTANTS Verifiers,    \* the processes that verify; they do not append
          VerifyAlone,  \* whether nobody appends while a verifier works
          MaxVerifies,  \* bound on the runs of verify_retention
          MaxExports    \* bound on the runs of export

ASSUME VerifiersAssumption ==
    /\ Verifiers \subseteq Writers
    /\ VerifyAlone \in BOOLEAN
    /\ MaxVerifies \in Nat /\ MaxExports \in Nat

VARIABLES checking,   \* how far each verifier is, and what it has found
          exporter,   \* local state of the exporting process
          objects,    \* destination/objects: name -> content
          receipts,   \* destination/receipts: names with a whole receipt
          cut,        \* and those a crash has left without its text
          verifies, exports

store == <<objects, receipts, cut>>
extras == <<checking, exporter, store, verifies, exports>>
allVars == <<vars, extras>>

ManifestName == [manifest |-> "audit-manifest.json"]
Partial == <<[state |-> "partial"]>>
IdleExporter == [pc |-> "idle", todo |-> <<>>, sha256 |-> <<>>, listed |-> {}]
NotStarted == [next |-> 1, changed |-> FALSE]

ExportInit ==
    /\ Init
    /\ checking = [v \in Verifiers |-> NotStarted]
    /\ exporter = IdleExporter
    /\ objects = <<>> /\ receipts = {} /\ cut = {}
    /\ verifies = 0 /\ exports = 0

-----------------------------------------------------------------------------
(* verify_retention.                                                       *)

Appending == Writers \ Verifiers
Idle(processes) == \A w \in processes : At(w, "idle")

\* No manifest is a verdict at once, a manifest that is no JSON raises.
CallVerify(v) ==
    /\ At(v, "idle") /\ verifies < MaxVerifies /\ manifest.state = "saved"
    /\ VerifyAlone => Idle(Appending)
    /\ writer' = [writer EXCEPT ![v].pc = "verify_segment",
                                ![v].segs = SortedBySeq(manifest.segments)]
    /\ checking' = [checking EXCEPT ![v] = NotStarted]
    /\ verifies' = verifies + 1
    /\ UNCHANGED <<directory, acked, counters, exporter, store, exports>>

\* One entry: its file is looked for, the verdict on its content changes
\* nothing.
VerifySegment(v) ==
    LET i == checking[v].next
        status == IF Exists(writer[v].segs[i].path) THEN "present" ELSE "missing"
    IN  /\ At(v, "verify_segment") /\ i \in DOMAIN writer[v].segs
        /\ checking' = [checking EXCEPT ![v] =
              [next |-> i + 1,
               changed |-> @.changed \/ status # writer[v].segs[i].deletion_status]]
        /\ writer' = [writer EXCEPT ![v].segs[i].deletion_status = status]
        /\ UNCHANGED <<directory, acked, counters, exporter, store, verifies, exports>>

\* A manifest that was changed is written as upsert_segment writes it.
VerifyEnds(v) ==
    /\ At(v, "verify_segment") /\ checking[v].next \notin DOMAIN writer[v].segs
    /\ IF checking[v].changed THEN Goto(v, "manifest_open") ELSE Finish(v)
    /\ UNCHANGED <<directory, acked, counters, extras>>

-----------------------------------------------------------------------------
(* export.                                                                 *)

\* What a candidate holds now.
Content(source) ==
    IF source = ManifestName THEN <<manifest>> ELSE Lines(source)

Missing(source) ==
    IF source = ManifestName THEN manifest = Absent ELSE ~Exists(source)

Name == [source |-> Head(exporter.todo), sha256 |-> exporter.sha256]

ExportGoto(pc) == exporter' = [exporter EXCEPT !.pc = pc]
Abandon == exporter' = IdleExporter

\* The files of the closed segments, in the order of the manifest.
ClosedPaths(m) ==
    LET segs == IF m = Absent THEN <<>> ELSE m.segments
        closed == {i \in DOMAIN segs : segs[i].status = "closed"}
        position(i) == Cardinality({j \in closed : j <= i})
    IN  [k \in 1..Cardinality(closed) |-> segs[CHOOSE i \in closed : position(i) = k].path]

\* The candidates: the closed segments of the manifest, then the manifest.
CallExport ==
    LET paths == ClosedPaths(manifest) IN
        /\ exporter.pc \in {"idle", "returned"} /\ exports < MaxExports /\ Loadable
        /\ exporter' = [pc |-> "hash", todo |-> Append(paths, ManifestName),
                        sha256 |-> <<>>, listed |-> Range(paths)]
        /\ exports' = exports + 1
        /\ UNCHANGED <<vars, checking, store, verifies>>

\* Mutant of HashCandidate: an object without a receipt gets one.
HashCandidateResuming ==
    LET source == Head(exporter.todo)
        name == [source |-> source, sha256 |-> Content(source)]
    IN  /\ exporter.pc = "hash" /\ exporter.todo # <<>>
        /\ exporter' = IF Missing(source) \/ name \in receipts \union cut
                       THEN [exporter EXCEPT !.todo = Tail(@)]
                       ELSE [exporter EXCEPT !.sha256 = name.sha256,
                                !.pc = IF name \in DOMAIN objects THEN "receipt"
                                       ELSE "copy"]
        /\ UNCHANGED <<vars, checking, store, verifies, exports>>

\* Mutant of HashCandidate: only the receipts are looked at.
HashCandidateByReceipt ==
    LET source == Head(exporter.todo)
        name == [source |-> source, sha256 |-> Content(source)]
    IN  /\ exporter.pc = "hash" /\ exporter.todo # <<>>
        /\ IF Missing(source)
           THEN exporter' = [exporter EXCEPT !.todo = Tail(@)]
           ELSE IF name \in receipts \union cut THEN Abandon
           ELSE exporter' = [exporter EXCEPT !.pc = "copy", !.sha256 = name.sha256]
        /\ UNCHANGED <<vars, checking, store, verifies, exports>>

\* A candidate that is missing is passed over; one whose receipt or object
\* is at the destination raises FileExistsError.
HashCandidate ==
    LET source == Head(exporter.todo)
        name == [source |-> source, sha256 |-> Content(source)]
    IN  /\ exporter.pc = "hash" /\ exporter.todo # <<>>
        /\ IF Missing(source)
           THEN exporter' = [exporter EXCEPT !.todo = Tail(@)]
           ELSE IF name \in receipts \union cut \union DOMAIN objects THEN Abandon
           ELSE exporter' = [exporter EXCEPT !.pc = "copy", !.sha256 = name.sha256]
        /\ UNCHANGED <<vars, checking, store, verifies, exports>>

Stored(content) ==
    objects' = [name \in DOMAIN objects \union {Name} |->
                   IF name = Name THEN content ELSE objects[name]]

\* shutil.copy2 reads the candidate a second time.
CopyObject ==
    /\ exporter.pc = "copy"
    /\ IF Missing(Name.source) THEN Abandon /\ UNCHANGED objects
       ELSE ExportGoto("receipt") /\ Stored(Content(Name.source))
    /\ UNCHANGED <<vars, checking, receipts, cut, verifies, exports>>

WriteReceipt ==
    /\ exporter.pc = "receipt"
    /\ receipts' = receipts \union {Name}
    /\ exporter' = [exporter EXCEPT !.pc = "hash", !.todo = Tail(@), !.sha256 = <<>>]
    /\ UNCHANGED <<vars, checking, objects, cut, verifies, exports>>

ReturnExport ==
    /\ exporter.pc = "hash" /\ exporter.todo = <<>>
    /\ ExportGoto("returned")
    /\ UNCHANGED <<vars, checking, store, verifies, exports>>

\* The exporting process stops, maybe with part of a file written.
CrashExport ==
    /\ exporter.pc \in {"hash", "copy", "receipt"} /\ crashes < MaxCrashes
    /\ crashes' = crashes + 1
    /\ Abandon
    /\ \/ UNCHANGED store
       \/ exporter.pc = "copy" /\ Stored(Partial) /\ UNCHANGED <<receipts, cut>>
       \/ exporter.pc = "receipt" /\ cut' = cut \union {Name}
          /\ UNCHANGED <<objects, receipts>>
    /\ UNCHANGED <<directory, writer, acked, appends, rotates, checking, verifies, exports>>

-----------------------------------------------------------------------------
Verify(v) == VerifySegment(v) \/ VerifyEnds(v)

Export == HashCandidate \/ CopyObject \/ WriteReceipt \/ ReturnExport

ExportNext ==
    \/ /\ \/ /\ VerifyAlone => Idle(Verifiers)
             /\ \E w \in Appending : CallAppend(w) \/ CallRotate(w)
          \/ \E w \in Writers : Step(w) \/ Crash(w)
       /\ UNCHANGED extras
    \/ \E v \in Verifiers : CallVerify(v) \/ Verify(v)
    \/ CallExport \/ Export \/ CrashExport

ExportSpec == ExportInit /\ [][ExportNext]_allVars

-----------------------------------------------------------------------------
(* Properties.                                                             *)

\* A receipt is evidence: its object is there, whole, with the content whose
\* hash the receipt states, and for a segment that is still the content of
\* the directory, whatever was rotated, verified and cut short meanwhile
\* (audit_compliance.py:259-281).  The manifest is read twice, and the
\* second text may be a later one.
ReceiptsTell ==
    \A name \in receipts :
        /\ name \in DOMAIN objects /\ objects[name] # Partial
        /\ name.source # ManifestName =>
              objects[name] = name.sha256 /\ Lines(name.source) = name.sha256

\* An export that returns leaves a receipt for each segment that was closed
\* when it began: none is passed over as exported by an earlier run that was
\* cut short (audit_compliance.py:267-270).
ExportComplete ==
    exporter.pc = "returned" =>
        \A path \in exporter.listed : \E name \in receipts : name.source = path

\* Together: what an export leaves behind is evidence, and complete.
ExportTells == ReceiptsTell /\ ExportComplete

\* What is at the destination is never written again, also not the object
\* that a crash has left without a receipt (audit_compliance.py:267-270).
NeverOverwritten ==
    [][ /\ \A name \in DOMAIN objects : name \in DOMAIN objects' /\ objects'[name] = objects[name]
        /\ receipts \subseteq receipts' /\ cut \subseteq cut'
        /\ cut \intersect receipts' = {} ]_store

\* verify-retention never says OK over a loss: while it would, every record
\* that append() has returned is in a file the manifest names, at any moment
\* of a rotation and after any crash (audit_compliance.py:301-335).
NoSilentLoss ==
    RetentionOK =>
        \A rec \in acked : \E i \in DOMAIN manifest.segments :
            Holds(manifest.segments[i].path, rec)
=============================================================================
