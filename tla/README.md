# RuneGuard: formal models

TLA+ models of RuneGuard, the configurations that check them with TLC and the
theorems about them that TLAPS has checked. Paths are relative to the root of
the repository; `PROJECT.json` ties every definition to the lines it models,
every property to a run and to a mutant of the code it detects.

- [Inventory](#inventory)
- [Modules](#modules)
- [Runs](#runs)
- [Fairness](#fairness)
- [Theorems](#theorems)
- [What the checks found](#what-the-checks-found)
- [Abstractions, and what is not modelled](#abstractions-and-what-is-not-modelled)
- [What is left](#what-is-left)

## Inventory

RuneGuard decides, by a policy file, what a coding agent and the programs it
starts may do, enforces the decision at one of several places and records it in
a tamper-evident audit log.

| Component | Source | State | Operations | Interacts with |
|---|---|---|---|---|
| Audit record chain | `runeguard/integrity.py` | one JSONL file: envelopes linked by hash | `append` under an flock, `verify_log` | the writer and the verifier below |
| Audit writer | `runeguard/audit_compliance.py` | active log, closed segments, `audit-manifest.json` and its temporary file; objects and receipts of exports | `append`, `rotate`, manifest upsert, export, `verify_retention` (which marks entries and writes the manifest back) | every component that decides; shared files are the only coupling |
| Audit front end | `runeguard/logger.py`, `redaction.py` | none | `log_decision` | called by interceptor, daemon, proxy, sandboxes, agents |
| Audit readers | `runeguard/audit.py` | none | list, report, export of views | read the log |
| Policy engine | `runeguard/policy.py`, `opa.py` | the loaded policy, immutable | `decide`, pattern matching | called by all enforcement points |
| Interceptor, approval | `runeguard/proxy.py`, `approval.py`, `agent.py` | session allow and deny sets | `call`, `decide`, prompt | policy, audit |
| MCP proxy | `runeguard/mcp/proxy.py` | two coroutines, executor threads, a child process and its pipes | relay and check of JSON-RPC lines | client, upstream server, policy, audit |
| MCP server | `runeguard/mcp/server.py`, `inspect.py` | its standard input, which its commands inherit | one loop over requests | interceptor, the commands it runs |
| Decision daemon | `runeguard/daemon.py` | listening socket, a thread per connection | `start`, `stop`, `_handle_client`, `ask_daemon` | policy, audit, shim |
| LD_PRELOAD shim | `runeguard/shim/preload.c` | one connection per intercepted call | hooks of libc calls, `check_policy` | daemon; own fallback list |
| Launcher | `runeguard/cli.py`, `core/sandbox.py`, `core/interceptor.py` | environment of the child | `run` with one of the backends | all enforcement backends |
| Sandboxes | `core/docker.py`, `core/landlock.py` | temporary copy of the workspace | one child process each | policy, audit (docker only) |
| seccomp filters | `runeguard/seccomp/` | a BPF program | build, apply in the child | policy |
| eBPF monitor | `runeguard/ebpf/` | kernel maps, attached programs, ring buffer | the loader's start, loop and end; five programs | the policy's paths; every task of the machine |
| Correlation | `runeguard/correlation.py` | the current turn of a context | `agent_turn`, `annotate_record` | audit front end |
| Scanners, CI, agents | `scan.py`, `startup.py`, `diff_risk.py`, `ci.py`, `agents/` | none | text matching, thin adapters | policy |

What is hard to test, in order of how much the product depends on it:

1. **The audit directory is shared.** Daemon threads, an MCP proxy and CLI
   commands append to one directory. The only lock is the flock around one
   append; rotation and the manifest are read, changed and replaced without
   one, and a process may die between any two of these accesses. Correct means:
   a record that was returned stays; the records form one chain; damage stays
   at the tail; verification neither raises a false alarm nor misses an edit.
2. **The MCP proxy** relays in two directions at once, with blocking calls in
   threads the event loop cannot cancel, and decides in between. Correct
   means: exactly the lines that obey the policy reach the server, audited
   first; every request gets one answer; the session ends.
3. **The daemon and the shim** meet over a socket while daemons are started,
   stopped, interrupted and killed. Correct means: a call passes only on a
   recorded allow of its own; no call hangs; a restarted daemon is reachable.
4. **A command is started by one of five paths** through the launcher, each
   with its own order of decision, record, copy, confinement and start, and
   with failures and Ctrl-C in between. Correct means: nothing runs that was not
   allowed; what runs is confined with all it starts; the exit status tells
   what happened.
5. **The MCP server shares its input with its commands**, and every step of a
   call may raise: the record, the print of the decision, the tool, the answer.
   Correct means: only recorded and allowed calls take effect; an answer tells
   what happened; a request is answered unless a command has read it.
6. **The eBPF monitor** starts in a dozen steps any of which may fail, judges
   in the kernel on several processors at once, and tells through a buffer of
   limited size. Correct means: from the first program on, exactly what the
   policy lists is refused; what is printed has happened; a signal
   ends it wherever it arrives.
7. **A fixed artefact with logic in it**: the seccomp program.

`PROJECT.json` lists each hazard at its line, with the properties that cover
it or the reason why none does.

## Modules

`AuditChain` holds the operators of `integrity.py` over a log as a sequence of
lines. A hash is the symbolic term of what it was computed from, so equal
hashes mean equal contents (a collision-free SHA-256), and a keyed hash can be
written down only by who has the key. `VerifyLog` is the loop of `verify_log`:
`LineVerifies` is one iteration and `ChainVerifies` the loop without a break.

`TamperEvidence` is a log that is written by `append()` and then edited
offline: payloads, stamps, links, numbers, deletions, swaps, cuts, garbage, and
continuations by a writer without the key. `written` is the log as it was,
`file` the log as it is, and the properties compare what `VerifyLog` says of
the two.

`AuditLog` is `ComplianceAuditLog` run by any number of `Writers`. A writer's
`pc` names its place in `append()` or `rotate()`, and one action is one access
to the shared directory: `RotateIfNeeded`, `RotateRead`, `RotateHash`,
`RotateCheck`, `RotateReplace` (the `exists()` check and the rename are two
steps, as in the code), `ChainStart`, `OpenLog`, `LockLog`, `ReadTail`,
`WriteRecord`, `RecordRead`, `RecordHash`, `ManifestLoad`, `ManifestOpen`,
`ManifestWrite`, `ManifestReplace`. `Crash` ends a writer between any two of
them, and in `WriteRecord` also with part of the line written. A descriptor is
represented by the name its file has now, so it follows a rename and becomes
`Unlinked` when another file is put over its own.

`AuditTrail` is what the writer promises: one chain that only grows, a record
per call, and nothing returned that is not there. `AuditLog` implements it
under the mapping `trail <- Trail` (segments in chain order, then the active
log, without what a crash left of a line) and `returned <- acked`.

`AuditExport` adds to `AuditLog` the two commands that read the directory while
it is written. A verifier is one of the `Writers` that does not append:
`CallVerify` loads the manifest, `VerifySegment` looks for the file of one
entry, and `VerifyEnds` goes to the writers' own `ManifestOpen`,
`ManifestWrite`, `ManifestReplace` when a mark has changed. The exporter takes
the manifest's closed segments and the manifest itself (`CallExport`), hashes
one and looks whether its object or receipt is there (`HashCandidate`), copies
it, reading it a second time (`CopyObject`), and writes the receipt
(`WriteReceipt`); `CrashExport` ends it anywhere, also inside a file.
`VerifyAlone` says whether verifications and appends keep out of each other's
way, as an operator who runs the command at rest would see to.

`Policy` holds one operator per family of tools of `Policy.decide`, for the
yaml backend. A path is judged twice, as in the code: `DeniedBySpelling` is
`is_denied_workspace_path` and `DeniedByFile` the rest of `_is_protected_path`,
which looks at the file the path leads to. What a word is as a path (its parts,
and the parts `Path.resolve` gives) and which texts `fnmatch` accepts are data.
`Protects` and `AdmitsDomain` are the rules of paths and of hosts as functions,
which TLC evaluates once.

`PolicyMeaning` says what a policy file asks for without the code's case
distinctions and order of checks: `Kept` of paths, `HostListed`, `Listed`,
`CommandObeys`. It is the reference with which the properties of `McpProxy` and
`McpServer` compare what the checks let through. `PathsMeant` is that for paths
the two agree; `PlainPaths` are conditions on the patterns and the links of a
file system under which they do.

`McpProxy` is the MCP proxy with its client and its server. `c2s` and `s2c` are
the coroutines, `main` is `run()`. A coroutine that waits for a thread lets the
other one go on; a check (`CheckLine`) does not. `Records` is what a check
writes to the audit log, `Outcome` how it ends. `GatherEnds` is the end of
`asyncio.gather` with the `finally` clause, `Cancel` the cancellation by
`asyncio.run`, after which a thread that is still blocked goes on for nobody
(`ThreadEnds`) and holds the process until it is done.

`McpServer` is RuneGuard's own MCP server with the interceptor's `call`. Line n
is the n-th line the client has sent; it is in the pipe, read ahead by the
server (`ReadAhead`: Python reads what the pipe holds), being handled
(`server`), or read by a command of the shell tool (`CommandReads`), which has
inherited the server's standard input. A line that is no text ends the server
with everything it was read with (`ReadGarbled`): the loop's own read is outside
its `try`. `CallDecides` writes the record and prints the decision, either of
which may raise; `RunTool` is the tool with its failures, before and behind its
effect. A `PermissionError` of the record or of the tool is answered like a
refusal, with the line's id, and whatever else raises with null (`WriteAnswer`).

`DecisionDaemon` is the daemon with the clients of its socket. `daemon[d]` is
the main thread, `conn[r]` the connection of call `r` with its handler thread,
`client[c]` a thread of a program under the shim or a caller of `ask_daemon`
(`kind`). A socket that `stop()` closes under a thread blocked in `accept()`
stays open until that thread returns; `Close` removes whatever is at the path.

`Seccomp` holds the two BPF programs of `filter.py` as sequences of
instructions, `Build`, and the kernel's part: what it installs (`Installable`)
and its `Verdict` on a call, which runs the program: `From` is what the run does
from one instruction, by what it does from the later ones.

`Launcher` is one `runeguard run` or `agent wrap`. `cfg` is what it is started
with: options, what the policy says, the machine. `main` is the place of the
launcher, `proc` the command (process 1) and what the command starts, with what
each inherits: filter, Landlock domain, network, environment. One action is one
step other processes or the user can come between: `Start`, `Prompt`,
`ChooseBackend`, a decision with its record (`DecideHost`, `DecideSeccomp`,
`DecideLandlock`, `DecideDocker`), `MountDocker`, `Popen` or `Fork`, `Confine`
and `Exec` in the child, `Spawn`, `ProgramEnds`, `Wait`, and `Interrupt` at any
moment. Failures of the audit write, the copy, the kernel and docker are
branches of the step they happen in.

`EbpfMonitor` is the monitor in one piece: the Python wrapper and the loader
(`loader.pc` is the place in `main`), the maps, the programs that are attached,
the ring buffer, and tasks that do one operation each. `Spawn` to
`NewRingBuffer` are the steps of the start, `CheckExiting`, `EnterPoll`, `Wait`,
`HandleEvent` and `PollReturns` the loop, `PollFails` its error path, `Detach`
the end, program by program; `Signal` is the handler, at any moment. It ends a
poll that waits; between the check of the flag and the poll it only sets the
flag.

What an operation meets in the kernel is data: its way is a sequence of programs,
each with the text it gets. For a `file_open` that is the resolved path of the
file (`ReadPath`: the last name, if the path does not fit), for a `bprm_check`
the name as the caller has spelled it (`ReadName`: what fits of it); so a link,
a relative name, the interpreter of a script and the second check of the script
are ways like any other. `Pass` is where a program is not attached. An attached
one takes three steps, between which other processors go on: `Decide`, `Reserve`
and, with the record filled in and submitted, `LeaveProgram`. A text is a
sequence of tokens with the slashes as tokens, so that prefixes of the sequence
are prefixes of the text.

The modules `MC...` give the constants small values. The `*_proofs` modules
hold the theorems, `AuditChain_proofs` also facts about logs and sequences that
the others need. In each module, a definition whose comment begins with "Mutant
of" is the other definition with a plausible mistake in it; it is not part of
the specification and is there to show that a property notices the mistake.

## Runs

| Run | Instance | What it shows |
|---|---|---|
| `TamperEvidence` | 3 records, 2 edits, 1 key | no false alarm; sealed and anchored logs reveal every edit except the cut of a sealed tail |
| `AuditSolo` | 1 writer, 5 appends, rotation by size, age and request | the directory implements the trail; `verify_retention` accepts it whenever the writer, which does not crash here, is idle; every append returns |
| `AuditShared` | 2 writers, 3 appends, no rotation, 1 crash | the flock makes one chain of the records; damage stays in the last line; every call ends |
| `AuditSoloCrash` | 1 rotating writer with 3 appends, 1 verification at rest, 2 exports at any moment, 1 crash of any of them | no returned record is lost; the segments still form one chain; `verify-retention` never says OK over a loss; receipts are evidence, an export that returns is complete, and nothing exported is written again |
| `McpProxy` | 2 lines out of 13 kinds, 4 policies, failing audit, crashing server, dying client | the server gets exactly the lines that obey, audited first; each request one answer; the session ends |
| `McpServer` | 3 lines out of 10, failing records, prints and tools, lines that are no text, a client that closes or dies | only recorded, allowed calls that obey take effect, in order and once; answers tell what happened; every request is answered unless a command has read it or such a line has ended the server; the server ends |
| `DecisionDaemon` | 2 daemons, a shim client and one with a timeout, backlog 1 | a call passes only on a recorded allow; a started daemon serves; no call hangs |
| `Launcher` | every backend with the options, decisions and machines it looks at, 2 processes, all failures, Ctrl-C | nothing starts that was not allowed; it is confined with what it starts; environment, exit status and copy are right; the launcher ends |
| `EbpfMonitor` | 2 tasks on 6 ways through the kernel, 3 policies, texts of 6 tokens, 2 paths in the map, 2 records in the ring, every step of the start and the poll failing, a signal at any moment | exactly what is listed is refused from the first program on, also when the ring is full; the maps are whole before anything is attached; what is printed has happened, in the order of the reservations; what is recorded is printed, and a signal ends the monitor |
| `AuditRacingRotation`, `AuditVerifyForks`, `LauncherNetwork` | see below | TLC finds a documented statement violated |

Why the bounds are enough to be of interest:

- Audit: five appends with two records per segment give two closed segments, an
  active one and a manifest with entries of both kinds, and leave appends for
  the recovery after a crash. Three appends close one segment and begin the
  next, which is what a verification, an export and a crash can meet; two
  exports are one that is cut short and one after it. Two writers meet in every
  pair of steps; three appends let one of them run twice around the other. The
  theorems below remove these bounds from the safety properties, all but that
  the segments still link after a crash.
- Tampering: the checks relate a line to its neighbour and to an expected head.
  Three lines have a first, a middle and a last one; two edits suffice to
  change a line and repair its link. The theorems remove these bounds as well.
- MCP: one line can be at the server or on its way back while the next one is
  being checked, refused or lost; every pair of the 13 kinds of line occurs.
  The lines are chosen so that each rule refuses one of them which passes all
  earlier rules: among them a path through a symbolic link into a protected
  directory, a secret directory below another one, a second argument, a second
  host; and lines that pass next to a rule (`keys` beside `key`, a file below a
  writable directory, a subdomain of a wildcard). The theorems remove these
  bounds from the safety properties.
- MCP server: three lines are one whose command reads, one that is read or read
  ahead, and one behind it. The bodies hold, besides text and methods, one call
  for each way a call can end, a command that reads a line, one that reads to
  the end, and one whose argument is protected, and bytes that are no text. One
  policy is enough: the ways a call is refused do not differ behind the decision.
- eBPF: two tasks share the ring, which a program of each fills, so a third
  record finds it full; records are decided, reserved and submitted in every
  order of the two. The policies have a repeated and an empty line, a relative
  one, one line too many for the map and one too long. The ways are a file whose
  name only begins like a protected one; a long path whose last name begins like
  a listed line; a link of a blocked name to another program; a long name that
  is cut off right behind a blocked one; a script whose interpreter is a
  protected file; and a connection. The theorems remove these bounds from the
  safety properties.
- Daemon: one client fills the backlog of one; two daemons are enough for a
  stale socket, a restart and an overlap. The policies' answers are an allow and
  a block; an unreadable request and a record that cannot be written have the
  same answer, `ERROR`. The theorems remove these bounds from the safety
  properties.
- Launcher: the command and one process that comes of it show inheritance; a
  third would inherit from either in the same way. `MCConfigs` takes, for each
  backend, the product of everything that backend's path looks at, and one
  value for the rest. The theorems remove both bounds, except for `LaunchEnds`.

The runs stop in states where nothing is left to do (calls, lines or edits used
up), so they do not check for deadlock; that nobody waits for ever is stated by
the liveness properties instead. Bounds on calls, lines, edits and crashes are
guards of the actions that start them (`MaxAppends`, `MaxRotates`,
`MaxCrashes`, `MaxVerifies`, `MaxExports`, `MaxRecords`, `MaxEdits`, `MaxLines`,
`MaxCalls`, `MaxDaemons`, `MaxProcs`). `RingSize`, `MaxPaths` and `Backlog` are
not bounds of the model but sizes the code has; the runs use small ones so that
they are reached.

## Fairness

- `AuditLog`: weak fairness of each writer's `Step`. A process that runs goes
  on, and the kernel gives a free flock to a waiter. Nothing makes callers call
  or crash. `EveryCallEnds` needs no strong fairness since the number of calls
  that can take the lock in between is bounded; with unboundedly many calls it
  would need a fair flock, which Linux does not promise.
- `McpProxy`: weak fairness of each coroutine, of `run()` and its threads, and
  of a server that serves and ends at SIGTERM or at the end of its input.
  asyncio runs its ready tasks in turn. A server that ignored SIGTERM would
  keep `run()` in `upstream.wait()` for ever: the code has no limit there. The
  client is under no obligation.
- `DecisionDaemon`: weak fairness of each daemon's main thread, each handler
  and each client that waits. Nothing makes a daemon start or end.
- `McpServer`: weak fairness of the server's loop, a command it waits for
  included. A command that reads its input waits for the client, which is under
  no obligation; `RequestsAnswered` excepts that.
- `EbpfMonitor`: weak fairness of the loader, whose poll has a timeout of 100
  ms, and of each task inside an operation: programs in the kernel run to their
  end. Nothing makes a task begin, a signal arrive or a poll fail (`PollFails`).
  A signal between the check of the flag and the poll interrupts nothing: there
  `LoaderEnds` rests on the timeout, and a poll without one violates it. With an
  endless stream of records `ring_buffer__poll` need not return; the tasks'
  operations are finite here.
- `Launcher`: weak fairness of the launcher and of the forked child until its
  exec. Neither the user nor the command has to do anything, so `LaunchEnds`
  excepts the prompt and a command that runs.

## Theorems

TLAPS proves the following for all values of the constants. The proofs are in
the `*_proofs.tla` modules. They assume the `ASSUME`s of the modules they
extend, which give the constants their types, and no more than the hypothesis a
row names.

| Theorem | Statement | Hypothesis |
|---|---|---|
| `AuditLog_proofs!TypeCorrect` | `[]TypeOK`: any writers, logs, rotation settings, bounds | |
| `AuditLog_proofs!AcknowledgedStays` | `[]AckedDurable`: any writers and logs, any crashes | no rotation |
| `AuditLog_proofs!DamageStaysAtTail`, `SharedLogVerifies` | `[]DamageOnlyAtTail`, `[]ActiveLogVerifies` (the latter until a crash) | no rotation, one log |
| `AuditLog_proofs!SharedLogIsTrail` | `ImplementsTrail`: any writers and crashes | no rotation, one log |
| `AuditLog_proofs!LoneWriterRetention`, `LoneWriterLinks` | `[]RetentionVerifies`, `[]SegmentsLink` with any rotation | one writer, no crash |
| `AuditLog_proofs!LoneWriterTrail` | `ImplementsTrail` with any rotation | one writer, no crash |
| `AuditLog_proofs!RotatedStays` | `[]AckedDurable` with rotation, verifiers, exports and crashes of all of them | one appender |
| `AuditLog_proofs!ExportsTell` | `[]ExportTells`, the same | one appender |
| `AuditLog_proofs!LossIsTold` | `[]NoSilentLoss`, the same | one appender, verification at rest |
| `AuditLog_proofs!NothingOverwritten` | `NeverOverwritten`: any writers, verifiers, exports and crashes | |
| `AuditChain_proofs!SameHeadSameLog` | two logs that verify from one start and end in one head are equal | |
| `TamperEvidence_proofs!NoFalseAlarm`, `AnchorDetectsEdits`, `SealDetectsEdits` | the properties of the `TamperEvidence` run: any number of records and edits | |
| `McpProxy_proofs!TypeCorrect`, `RecordedFirst`, `AnsweredOnce` | `TypeOK`, `AuditedFirst`, `AnswersMatch`: any lines, policies and failures | |
| `McpProxy_proofs!ForwardsObeying` | `ForwardsExactly`, the same | `PathsMeant` |
| `McpProxy_proofs!PlainPathsMeant` | `PathsMeant`: any paths and any policies with plain patterns | `PlainPaths` |
| `McpServer_proofs!TypeCorrect`, `AnswersTrue` | `TypeOK`, `AnswersTell`: any lines, policies, commands and failures | |
| `McpServer_proofs!EffectsObeying` | `EffectsObey`, the same | `PathsMeant` |
| `DecisionDaemon_proofs!TypeCorrect`, `PassedOnlyAllowed`, `ReachableAlone` | `TypeOK`, `PassedIsAllowed`, `Reachable`: any number of daemons, clients and calls | |
| `Launcher_proofs!TypeCorrect`, `OnlyAllowedStarts`, `ConfinedThroughout`, `EnvironmentFiltered`, `ExitStatusTells`, `CopyLifetime` | `TypeOK`, `StartedIsAllowed`, `Confined`, `EnvFiltered`, `ExitTells`, `CopyLives`: any configurations, failures and number of processes | |
| `EbpfMonitor_proofs!TypeCorrect`, `StartIsWhole`, `RefusedByPolicy`, `PrintedAsReserved` | `TypeOK`, `StartTells`, `Enforced`, `EventsTell`: any tasks, ways, policies and sizes | |

The hypotheses, in the order of the table. *No rotation* (`NoRotation`) is no
size, no age and no direct call of `rotate`, the default of the CLI. *One log*
(`SingleLog`) is that all writers append to one. *One writer, no crash*
(`Alone`) and *one appender* (`OneAppender`) also ask that the log is not named
like a segment it closes, which holds for every name without a sequence number
and a hash in it. They are what the two `violation` runs below drop: with two
rotating appenders, or a verification beside a rotation, the code does not keep
these properties. *Verification at rest* is `VerifyAlone`.

`PathsMeant` is that the code's two checks of a path, its spelling and the file
it leads to, find what `Kept` says a pattern means. `PlainPathsMeant` shows it
for patterns that are a name (`.env`), an absolute path, a directory (`secrets/`
or absolute) or `~/.ssh/**`, and for all paths that no symbolic link leads out
of what a pattern covers. It does not hold of every pattern: `a/b/` also
protects what is below any directory `b`, `.git/**` does not protect
`sub/.git/config`, and `~/.config/gcloud/**` not that directory itself
(policy.py:205, 236-243). TLC evaluates both on the paths of the instances, as
`PathsAgree`.

### The audit log

*A log without rotation.* `AckedDurable` is not inductive: a record is
acknowledged several steps after it was written, and the write goes to a
descriptor, not to a name. `KeepInv` adds that no writer is in the code of
rotation, that a descriptor open between `open_log` and `write_record` is the
log of its writer, that a writer past the write has its record among the
envelopes of the logs, or has a log that can no longer be read, in which case it
never returns. Logs only grow (`Grows`), and what grows keeps its envelopes.

For the chain, `ChainInv` adds that every log is `Chained` (only the last line
may not be an envelope, and every envelope verifies), that two writers never
hold the flock at once, that the envelope a writer is about to write follows
the tail as it is now, and that while the log is empty the start a writer read
before the lock is still the genesis: the manifest is only written once there
is a record. This is where one log is needed: a second log in the directory
does write the manifest. `Unbroken` says that without a crash the last line is
an envelope too.

*The trail.* That it is implemented needs in addition that two calls never have
one number, so that each record is written once; that a write under the flock
puts the record behind the last one of the trail; and that a line a crash has
cut drops out of the trail and has nothing appended behind it.

*A lone writer that rotates.* `SoloInv` relates the directory to the manifest at
every place of the rotation. Either the entries `Describe` the files: each
closed file has the lines of its entry, each entry starts where the one before
it ended, and the last may be that of the active log, as it was at the last
append. Or the entries are one rename or one write behind, and the entry that
catches up is in the writer's hands. The trail is then the concatenation of the
closed parts and the active log: a rename moves the last part, and only a write
appends. The order in which `Trail` puts the files is the only one that ascends.
A crash is excluded because it is not harmless: after a crash ahead of the
manifest update and another one behind a rename, the next segment starts from an
older head.

*One appender, with crashes.* `ArchiveInv` keeps what survives any crash, of the
appender, a verifier or an export: each file has lines that count up, of which
only the last may be cut; an entry of a closed file tells what that file holds,
and no closed file changes; the appender's copies of entries are of this kind
at every place; each returned record is in some file. That a rename never hits a
name in use is what needs a single appender.

*Exports.* `StoreInv` says that what the exporter is about to write is not at
the destination, though its check is some steps old: nobody else writes there.
`ExportInv` adds that each candidate is a closed file (or the manifest, the only
file that may be missing when it is copied), that the hash in hand is that of
the file, and that each receipt has the object it speaks of.

*No silent loss.* A verification that says OK has found a file for every entry,
with the hash it notes. `LossInv` keeps the manifest `Honest`: either each
returned record is where an entry says, or some entry is `Outdated`, that is
open, while the records only it tells of have left the log; such an entry never
verifies again. A rename outdates the open entry until the closed one is in the
manifest, and `Moved` says meanwhile where its records are. A manifest that does
not parse stays unreadable. From these and the contiguity that
`verify_retention` checks, a returned record that no file holds leads to a least
entry that covers its number, and so to a contradiction.

*Tampering.* The invariant is that each line of either file is `Genuine` (a hash
made with the installation's key is the hash of a written record) and that
`written` verifies. Equality of an edited log with the written one then goes
backwards from the head, in `AuditChain_proofs`: equal hashes give equal lines
and so equal `prev_hash`. The induction over the length is by the well-founded
order of the naturals.

### The MCP proxy and the MCP server

The checks of `Policy` and the meaning of `PolicyMeaning` are compared once, in
lemmas for each kind of rule: a host is admitted exactly if it is listed, a
command if `CommandObeys`, a path if it is not `Kept`, which is `PathsMeant`.
The argument for `PlainPathsMeant` goes by the kinds of pattern. A name that is
found by its spelling is covered as it is spelled; what is covered as it is
spelled is, without links that lead out, covered where it leads; and there the
code's comparison of the last, of some or of the first parts is the meaning of a
name, a directory or an absolute path.

`ProxyInv` says of the coroutine that reads the client which line it works on
(`PlaceInv`), of the lines the server has got or is about to get that they pass
the policy, have their records behind them and ascend (`ForwardInv`), and of the
answers at the client that those of the proxy are to lines it refused, on record
and each once (`RefusalInv`), and those of the server are the ones that were
relayed, in its order (`ReplyInv`, `WroteInv`). That nothing that passes is
missing holds as long as nothing has failed (`CompleteInv`).

`ServerInv` says that the lines waiting are behind the line in work and none that
a command has read (`QueueInv`); that a call which is to run is allowed and on
record (`CallInv`); that effects are of such calls, in order, up to the line in
work (`DoneInv`); and that answers are true, in order and none yet of that line
(`AnswerInv`). What is answered like a refusal can be a call the policy allows
or one that has no record; that it has had no effect needs no hypothesis on the
paths, since a call is answered so before its tool has begun or because its tool
could not.

### The launcher, the daemon and the eBPF monitor

`LaunchInv` adds to the properties where the launcher is when they hold. Before
the start there is no process (`InStep`); everything behind the decision has the
answer allow and, where the path records, an audit log of allows only
(`Decided`), which is what a start needs, since the answer and `cfg` do not
change any more; the copy exists from its making to the launcher's end and only
on the paths that make one (`Copied`); the status at the end is that of the
command or of what kept it from starting (`Reported`); and each process has the
environment of the first, and an end only once it has ended (`ProcOK`).

`Confined` needs `RestrainedInv` (a process past its setup has the filter, the
domain or the network its backend gives, and so has each that comes of it) and
what the two filters answer. `Verdict` runs a program whose jumps go forward and
stay inside, so there is a run from each instruction to a `RET`: the
instructions from which there is none would have a last one. The answer to a
call is then that of the comparisons the program begins with.

`DaemonInv` adds to the types, which say of each backlog that it holds exactly
the queued connections of its daemon, how a call and its connection go together
(`CallInv`: a call that connects has no connection yet, nor has any later call
of the client; a thread that decides has a request) and how the records of a
request follow its connection (`RecordInv`: none before the decision; an ALLOW
that is on its way has its own record and no other). The steps of clients,
handlers and main threads preserve the latter because each is `Harmless` to the
connections it moves, or is the step that records. `AloneInv` says that a daemon
that is up alone has the path from its bind on.

For the eBPF monitor, `StartInv` says what is in the maps at each place of the
start (of the paths, those of the lines before `loader.line`), that nothing is
attached before they are whole, and that a loader that did not get that far
ends with an error. `JudgedInv` says of each task that the programs it has been
through, except those it has missed, did not refuse it, and that a decision is
that of the policy on the text at hand; its core is that comparing a prefix token
by token is `IsPrefix` and that what follows the last slash is a blocked name
exactly if the text is that name or ends in a slash and it. `EventInv` says that
what is printed and what is in the ring is together what was recorded, where a
record that is not filled in yet stands for the event its task will put there;
that what is filled in has happened, and stays so since a refused task stays and
no other goes back; and that the events of one task ascend up to the program it
is at.

### Model-checked only

Every invariant of the runs is stated by a theorem; the hypotheses above say
how far. TLC alone checks:

- all liveness (`EveryCallEnds`, `EveryAppendReturns`, `RequestsAnswered`,
  `LaunchEnds` and the like): it needs fairness and so `ENABLED`, which the
  prover cannot do;
- that the segments still link after one crash of a rotating writer
  (`SegmentsLink` in `AuditSoloCrash`; with two crashes they need not);
- `PathsAgree`, on the paths of the instances.

## What the checks found

Each is a run in which TLC finds a statement of the documentation violated; the
findings in `PROJECT.json` quote it.

- `AuditRacingRotation`: two rotating writers pass the check that the closed
  name is free before either renames. The second rename can put another file
  over the closed segment; its returned records are gone.
- `AuditVerifyForks`: a `verify-retention` that runs during a rotation finds the
  active log missing, marks the entry and writes back the whole manifest it
  loaded at its start. The entry of the segment closed meanwhile is gone, and
  the next segment continues an older head: the chain forks without a crash.
- `LauncherNetwork`: the instructions of the seccomp filter that deny Internet
  sockets are appended to a program all of whose paths return before them; a
  policy that denies the network does not keep `--seccomp` runs from it.

Also known from the models, without a run of their own:

- A crash between the rename of the active log and the manifest update
  (audit_compliance.py:167-171) leaves a segment that no entry names. The next
  append continues its chain, from the open entry the manifest still has, and
  puts its own entry in the place of that one; so the entries have a gap, from
  number 0 on if the segment was the first, and `verify-retention` fails from
  then on. After two crashes, one ahead of the manifest update of an append and
  one behind such a rename, the next segment starts from an older head, against
  "starts the next segment with `prev_hash` set to the previous segment head"
  (docs/tamper-evident-audit-spec.md:82).
- Logs of one directory share one manifest, so the first record of a second log
  (docs/mcp.md:78 names one) continues the first log's chain, against "`0`
  repeated 64 times for the first record"
  (docs/tamper-evident-audit-spec.md:38).
- A server reply of more than 64 KiB on a line exceeds the default limit of
  asyncio's stream reader: the proxy ends the session, and a request that was
  forwarded gets no answer, neither the server's nor the error that
  docs/mcp.md:37 promises.
- `runeguard audit verify` starts at the genesis record and so reports tampering
  at the first record of a log that was rotated (cli.py:556 passes no start).
- An update of the manifest computed from an older read can be the last one,
  after which `verify-retention` fails with nobody writing. A verification that
  writes the manifest while a writer has just emptied the common temporary file
  can put an empty manifest in its place.
- An export stops at the first object or receipt that is at the destination
  already (audit_compliance.py:265-270), so another one into the same directory
  ends at the first segment the one before it has copied, whether that one was
  whole or cut short. The model has one exporter, which runs one export after the
  other; two at once are not covered.
- The MCP server prints each decision on the standard output that carries its
  answers (proxy.py:14, `quiet` being false), and a shell command of a call reads
  requests out of the server's input.
- The eBPF loader's exit status is the number of events of its last poll when
  that is where the signal meets it (runeguard_loader.c:296-309). Listed paths
  are compared as they are spelled: `~`, relative names such as `.env` and globs
  match no absolute path, and a path of more than 255 bytes is judged by its
  last name.

## Abstractions, and what is not modelled

Audit. Payload, timestamps, redaction and the text of JSON are data; a line is
an envelope, a torn line or garbage. The size limit counts records. A segment
name carries the whole head hash, not its first twelve characters. `exists()`,
`stat()` and the read of a file in one function are one access. Writing the
manifest's text is one step after the truncation that opens it. Dates and
retention periods are left out, and so are logs of the release before the
digest covered `ts` and `mode` in `AuditLog` (`TamperEvidence` has them).
`RetentionOK` is the verdict of `verify_retention`. A verification without a
manifest, or with one that does not parse, changes nothing and is left out.
Lines that are no UTF-8 are garbage like those that are no JSON.

Policy. `fnmatch`, the splitting of commands and the resolution of symbolic
links are data. A pattern that ends in `**` speaks of a path as it is spelled;
the others are also compared with the file it leads to, and `Kept` says so. The
policy file's parsing and validation and the opa backend are not modelled.

MCP proxy. A line is a kind with the fields the checks read. Bytes that are no
UTF-8 raise like JSON that is no object. The audit log is the sequence of its
records; how a record gets there is `AuditLog`. The pipes are unbounded, so
back-pressure is not modelled: `Drain` may always go on. A crash of the proxy
itself ends everything it did and is left out.

MCP server. A client writes whole lines, and what a command has read of the
input is whole lines; what the server reads ahead is decoded at once, so a byte
that is no text loses all of it (with the surrogateescape handler of the C and
POSIX locales nothing is lost, which is the model without such lines). The audit
log is configured; without one there are no records to speak of. A print to a
client that is gone raises, or, with newer versions of rich, ends the process:
the model has the former, which the next answer ends in the same way. The
constants `initialize` and `tools/list` answer, and what a tool returns, are
data. `done` marks that a tool has taken effect; a `shell` call has taken effect
when its command has started.

eBPF. Operations begin only once a program is attached; earlier ones would meet
nothing. Which programs an operation meets with which text is a constant, of
which the theorems assume only the type; `openat2` and `execveat` meet no
tracepoint of the monitor. A name of more than 63 bytes is compared by its first
63 in the code, which no name on the list reaches. A signal before the handler
is installed ends the loader as any program. The fields of an event other than
its program and decision, and its JSON, are data, and so is the target of a
connection, which no program judges. The tracepoints' decisions are AUDIT,
whatever they see. That the verifier accepts the programs, and a Python wrapper
that is killed while its loader goes on, are left out.

Daemon. A request is one write and one read, which holds for requests below the
size of the socket buffer (the shim's are at most 2300 bytes). What is decided
and recorded is what the shim sends: it cuts a command behind 64 arguments and
2047 characters (preload.c:108-124, 140-146), so an ALLOW can be of a prefix of
the call. An answer of more than 511 bytes, which a long reason makes, is none
to the shim unless it says so at its start (preload.c:97-105); the shim's answer
is then that of its fallback, as if no daemon were there. `bind`, `chmod`
and `listen` are one step, as are the close and the unlink at the end. A client
that dies in a call, the calls the shim does not check (`connect` to anything
but IPv4), and a program started without `RUNEGUARD_SOCKET` are left out; the
last one behaves as with no daemon.

Launcher. The filter's programs are whole; calls are looked up by the numbers
they name and those one off, and neither the code nor the model looks at the
architecture of a call. Of a Landlock domain the model keeps whether a program
may be executed (those outside the workspace may not), of a container its
network and its mounts' refusal. The seccomp and Landlock paths write no audit
record, as in the code, so `StartedIsAllowed` asks for one on the other paths
only. `once` at the prompt is an approval for the session, as the code has it,
and an allowlist of variables can take `LD_PRELOAD` away (`EnvFiltered` excepts
it). A copy that docker cannot make is reported as 127, like a docker that is
not there. Ctrl-C leaves a forked child or a container running. The summary
`agent wrap` prints behind the command (cli.py:415, audit.py:46-52) raises on a
line of the log that is no JSON, with status 1 behind whatever the command ended
with; it is left out. `SandboxRunner`
is used by no command and left out.

Not modelled: the scanners and CI helpers match patterns in text, the audit
readers and reports and the MCP inspection format what they read, and the agent
adapters pass a call on to the interceptor: none has a state or an order of
events to get wrong. Event correlation keeps the current turn in a
context variable or the environment, as data for a record's payload. The opa
backend calls a program whose answer is its own. The commands of `cli.py` other
than `run`, `agent wrap`, and the audit commands above print or call one
component.

## What is left

1. `Enforcement`, an abstract specification: what is executed was decided to be
   allowed, and is on record where the path records. `Launcher`, `McpServer` and
   `DecisionDaemon` implement it, each under its own mapping.
2. Proofs: that the segments link after one crash of a writer that rotates; that
   `AuditLog` with one appender and crashes implements a trail that may lose what
   was not returned.
3. Instances: two writers that rotate beside a verifier, three lines in
   `McpProxy`, once the checks of the smaller ones leave room for them.
