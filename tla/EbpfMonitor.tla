----------------------------- MODULE EbpfMonitor ----------------------------
(***************************************************************************)
(* The eBPF monitor: EbpfTracer of runeguard/ebpf/loader.py, the loader    *)
(* ebpf/src/runeguard_loader.c and the kernel programs of                  *)
(* ebpf/src/runeguard.bpf.c.                                               *)
(*                                                                         *)
(* The loader fills the maps, attaches the programs one by one and prints  *)
(* the events of the ring buffer until a signal.  Meanwhile tasks open     *)
(* files, execute programs and connect.  Which programs an operation meets *)
(* on its way through the kernel, in which order and with which text, is   *)
(* the kernel's: the path of an opened file is resolved, the name of an    *)
(* executed one is as the caller spelled it.  An attached program decides  *)
(* from the maps, reserves a record of the ring buffer, fills it in and    *)
(* returns.                                                                *)
(*                                                                         *)
(* A text is a sequence of tokens whose slashes are tokens of their own; a *)
(* prefix of the sequence is a prefix of the text.                         *)
(***************************************************************************)
EXTENDS Integers, FiniteSets, SequencesExt

\* The programs in the order of the source, which is that of attaching.
Programs == <<"execve", "openat", "connect", "file_open", "bprm_check">>

CONSTANTS Tasks,      \* the processes and threads that are observed
          Ways,       \* what an operation meets: programs, each with its text
          Works,      \* which operation each task is to do
          Modes,      \* modes the monitor is started in
          Policies,   \* protected_paths of the policy, line by line
          TextSize,   \* what RUNEGUARD_TARGET_LEN leaves for a text
          MaxPaths,   \* max_entries of blocked_paths
          RingSize,   \* records that fit into the ring buffer
          Faults      \* steps of the loader that may fail

ASSUME SizesAssumption ==
    TextSize \in Nat /\ MaxPaths \in Nat /\ RingSize \in Nat \ {0}
ASSUME WaysAssumption ==
    Ways \subseteq Seq([program : Range(Programs), text : Seq(STRING)])
ASSUME WorksAssumption == Works \subseteq [Tasks -> Ways]
ASSUME PoliciesAssumption == Policies \subseteq Seq(Seq(STRING))
ASSUME ModesAssumption == Modes \subseteq {"trace", "enforce"}

VARIABLES mode, policy,   \* the command line
          loader,     \* the loader's place, poll result and exit status
          maps,       \* enforcement_enabled, blocked_execs, blocked_paths
          attached,   \* the programs that are attached
          exiting,    \* set by the signal handler
          ring,       \* the ring buffer: reserved records, oldest first
          task,       \* each task's operation, and how far it is
          recorded,   \* history: the events that found room, in order
          printed     \* the events printed

kernel == <<ring, task, recorded>>
vars == <<mode, policy, loader, maps, attached, exiting, kernel, printed>>

-----------------------------------------------------------------------------
(* The start of the loader.                                                *)

DefaultExecs == {<<"rm">>, <<"curl">>, <<"nc">>, <<"scp">>, <<"ssh">>}

Idle(way) == [pc |-> "idle", way |-> way, step |-> 1, missed |-> {}, decision |-> "AUDIT"]

Init ==
    /\ mode \in Modes /\ policy \in Policies
    /\ loader = [pc |-> "cli", line |-> 1, err |-> 0]
    /\ maps = [enforce |-> FALSE, execs |-> {}, paths |-> {}]
    /\ attached = {} /\ exiting = FALSE
    /\ ring = <<>> /\ recorded = <<>> /\ printed = <<>>
    /\ \E work \in Works : task = [t \in Tasks |-> Idle(work[t])]

At(pc) == loader.pc = pc
Goto(pc) == loader' = [loader EXCEPT !.pc = pc]

\* goto cleanup with a negative err.
Fail == loader' = [loader EXCEPT !.pc = "detach", !.err = -1]

\* An exception in Python, or open_and_load: nothing to clean up.
Refuse == loader' = [loader EXCEPT !.pc = "ended", !.err = 1]

\* EbpfTracer.start: another system, no loader or no policy raises.
Spawn ==
    /\ At("cli")
    /\ Goto("open") \/ ("cli" \in Faults /\ Refuse)
    /\ UNCHANGED <<mode, policy, maps, attached, exiting, kernel, printed>>

OpenAndLoad ==
    /\ At("open")
    /\ Goto("flag") \/ ("open" \in Faults /\ Refuse)
    /\ UNCHANGED <<mode, policy, maps, attached, exiting, kernel, printed>>

SetFlag ==
    /\ At("flag")
    /\ \/ Goto("seed") /\ maps' = [maps EXCEPT !.enforce = mode = "enforce"]
       \/ "flag" \in Faults /\ Fail /\ UNCHANGED maps
    /\ UNCHANGED <<mode, policy, attached, exiting, kernel, printed>>

SeedExecs ==
    /\ At("seed")
    /\ \/ Goto("paths") /\ maps' = [maps EXCEPT !.execs = DefaultExecs]
       \/ "seed" \in Faults /\ Fail /\ UNCHANGED maps
    /\ UNCHANGED <<mode, policy, attached, exiting, kernel, printed>>

Full(prefix) == prefix \notin maps.paths /\ Cardinality(maps.paths) = MaxPaths

\* Mutant of LoadLine: a line that does not fit is passed over.
LoadLineSkipping ==
    LET prefix == policy[loader.line]
        kept == prefix # <<>> /\ Len(prefix) <= TextSize /\ ~Full(prefix)
    IN  /\ At("paths") /\ loader.line \in DOMAIN policy
        /\ loader' = [loader EXCEPT !.line = @ + 1]
        /\ maps' = [maps EXCEPT !.paths = @ \union {q \in {prefix} : kept}]
        /\ UNCHANGED <<mode, policy, attached, exiting, kernel, printed>>

\* block_path: an empty line is skipped; one that is too long, or one more
\* than the map holds, ends the start.
LoadLine ==
    LET prefix == policy[loader.line]
    IN  /\ At("paths") /\ loader.line \in DOMAIN policy
        /\ IF prefix # <<>> /\ (Len(prefix) > TextSize \/ Full(prefix))
           THEN Fail /\ UNCHANGED maps
           ELSE /\ loader' = [loader EXCEPT !.line = @ + 1]
                /\ maps' = [maps EXCEPT !.paths = @ \union ({prefix} \ {<<>>})]
        /\ UNCHANGED <<mode, policy, attached, exiting, kernel, printed>>

\* The end of the file, or an error in reading it.
PathsLoaded ==
    /\ At("paths") /\ loader.line \notin DOMAIN policy
    /\ Goto("attach") \/ ("paths" \in Faults /\ Fail)
    /\ UNCHANGED <<mode, policy, maps, attached, exiting, kernel, printed>>

AttachNext ==
    /\ At("attach")
    /\ \/ \E i \in DOMAIN Programs :
             /\ i = Cardinality(attached) + 1
             /\ attached' = attached \union {Programs[i]}
             /\ UNCHANGED loader
       \/ attached = Range(Programs) /\ Goto("ring") /\ UNCHANGED attached
       \/ "attach" \in Faults /\ Fail /\ UNCHANGED attached
    /\ UNCHANGED <<mode, policy, maps, exiting, kernel, printed>>

NewRingBuffer ==
    /\ At("ring")
    /\ Goto("check") \/ ("ring" \in Faults /\ Fail)
    /\ UNCHANGED <<mode, policy, maps, attached, exiting, kernel, printed>>

-----------------------------------------------------------------------------
(* The loop of the loader.                                                 *)

CheckExiting ==
    /\ At("check")
    /\ IF exiting THEN Goto("detach") ELSE Goto("poll")
    /\ UNCHANGED <<mode, policy, maps, attached, exiting, kernel, printed>>

\* The loader enters epoll_wait: a signal before this step interrupts nothing.
EnterPoll ==
    /\ At("poll")
    /\ Goto("wait")
    /\ UNCHANGED <<mode, policy, maps, attached, exiting, kernel, printed>>

\* The oldest record can be read when it is filled in.
Ready == ring # <<>> /\ ring[1].ready

\* Mutant of Wait: records are submitted without a wake-up.
WaitUnwoken ==
    /\ At("wait")
    /\ loader' = [loader EXCEPT !.pc = "check", !.err = 0]
    /\ UNCHANGED <<mode, policy, maps, attached, exiting, kernel, printed>>

\* Mutant of Wait: the poll has no timeout.
WaitForever ==
    /\ At("wait") /\ Ready
    /\ loader' = [loader EXCEPT !.pc = "consume", !.err = 0]
    /\ UNCHANGED <<mode, policy, maps, attached, exiting, kernel, printed>>

\* ring_buffer__poll finds records, or returns after 100 ms.
Wait ==
    /\ At("wait")
    /\ loader' = [loader EXCEPT !.pc = IF Ready THEN "consume" ELSE "check", !.err = 0]
    /\ UNCHANGED <<mode, policy, maps, attached, exiting, kernel, printed>>

PollFails ==
    /\ At("wait") /\ "poll" \in Faults
    /\ Fail
    /\ UNCHANGED <<mode, policy, maps, attached, exiting, kernel, printed>>

\* handle_event prints the record, which is then free; err counts.
HandleEvent ==
    /\ At("consume") /\ Ready
    /\ printed' = Append(printed, ring[1].event)
    /\ ring' = Tail(ring)
    /\ loader' = [loader EXCEPT !.err = @ + 1]
    /\ UNCHANGED <<mode, policy, maps, attached, exiting, task, recorded>>

PollReturns ==
    /\ At("consume") /\ ~Ready
    /\ Goto("check")
    /\ UNCHANGED <<mode, policy, maps, attached, exiting, kernel, printed>>

\* runeguard_bpf__destroy detaches the programs one by one.
Detach ==
    /\ At("detach")
    /\ \/ \E i \in DOMAIN Programs :
             /\ Programs[i] \in attached
             /\ \A j \in 1..i - 1 : Programs[j] \notin attached
             /\ attached' = attached \ {Programs[i]}
             /\ UNCHANGED loader
       \/ attached = {} /\ Goto("ended") /\ UNCHANGED attached
    /\ UNCHANGED <<mode, policy, maps, exiting, kernel, printed>>

\* The handler of SIGINT and SIGTERM.  A poll that waits returns -EINTR, for
\* which the loop ends with err 0; anywhere else the flag is all there is.
Signal ==
    /\ ~At("cli") /\ ~At("ended")
    /\ exiting' = TRUE
    /\ IF At("wait") /\ ~Ready
       THEN loader' = [loader EXCEPT !.pc = "detach", !.err = 0]
       ELSE UNCHANGED loader
    /\ UNCHANGED <<mode, policy, maps, attached, kernel, printed>>

\* What main returns, and with it the command.
Status == IF loader.err < 0 THEN -loader.err ELSE loader.err

Load == Spawn \/ OpenAndLoad \/ SetFlag \/ SeedExecs \/ LoadLine \/ PathsLoaded
        \/ AttachNext \/ NewRingBuffer
Loop == CheckExiting \/ EnterPoll \/ Wait \/ HandleEvent \/ PollReturns \/ Detach

-----------------------------------------------------------------------------
(* The programs.                                                           *)

\* basename_key: what follows the last slash.
Basename(text) ==
    LET starts == {i \in 1..Len(text) + 1 : \A j \in i..Len(text) : text[j] # "/"}
        start == CHOOSE i \in starts : \A j \in starts : i <= j
    IN  SubSeq(text, start, Len(text))

\* read_file_path: bpf_d_path has no room for a long path; the last name, which
\* always has, is taken instead.
ReadPath(text) == IF Len(text) > TextSize THEN Basename(text) ELSE text

\* bpf_probe_read_kernel_str into a buffer of RUNEGUARD_TARGET_LEN.
ReadName(text) == IF Len(text) > TextSize THEN SubSeq(text, 1, TextSize) ELSE text

\* match_blocked_path compares up to the end of the prefix.
Matches(prefix, path) ==
    \A i \in DOMAIN prefix : i \in DOMAIN path /\ prefix[i] = path[i]

PathIsBlocked(path) == \E prefix \in maps.paths : Matches(prefix, path)

Blocks(hook) ==
    /\ maps.enforce
    /\ \/ hook.program = "file_open" /\ PathIsBlocked(ReadPath(hook.text))
       \/ hook.program = "bprm_check" /\ Basename(ReadName(hook.text)) \in maps.execs

Decision(hook) ==
    IF hook.program \notin {"file_open", "bprm_check"} \/ ~maps.enforce THEN "AUDIT"
    ELSE IF Blocks(hook) THEN "BLOCK" ELSE "ALLOW"

\* What no program changes.
others == <<mode, policy, loader, maps, attached, exiting, printed>>

\* The program on the way of the task's operation.
OnTheWay(t) == task[t].step \in DOMAIN task[t].way
Hook(t) == task[t].way[task[t].step]

\* One that begins while nothing is attached would meet no other programs
\* than one that begins at the first attachment.
Begin(t) ==
    /\ task[t].pc = "idle" /\ attached # {}
    /\ task' = [task EXCEPT ![t].pc = "enter"]
    /\ UNCHANGED <<others, ring, recorded>>

\* A program that is not attached is passed by.
Pass(t) ==
    /\ task[t].pc = "enter" /\ OnTheWay(t) /\ Hook(t).program \notin attached
    /\ task' = [task EXCEPT ![t].missed = @ \union {task[t].step}, ![t].step = @ + 1]
    /\ UNCHANGED <<others, ring, recorded>>

Decide(t) ==
    /\ task[t].pc = "enter" /\ OnTheWay(t) /\ Hook(t).program \in attached
    /\ task' = [task EXCEPT ![t].pc = "decided", ![t].decision = Decision(Hook(t))]
    /\ UNCHANGED <<others, ring, recorded>>

\* Mutant of Event: the record is filled in before the lists are looked at.
EventBefore(t, step, decision) ==
    [by |-> t, step |-> step, decision |-> IF decision = "BLOCK" THEN "ALLOW" ELSE decision]

\* The task, the program with its text, and what it has decided.
Event(t, step, decision) == [by |-> t, step |-> step, decision |-> decision]

NoEvent == [step |-> 0]
Reserved(t) == [by |-> t, ready |-> FALSE, event |-> NoEvent]

Told(t) == Event(t, task[t].step, task[t].decision)

\* Mutant of Reserve: what cannot be told is not refused.
ReserveUntold(t) ==
    LET full == Len(ring) = RingSize
    IN  /\ task[t].pc = "decided"
        /\ ring' = IF full THEN ring ELSE Append(ring, Reserved(t))
        /\ recorded' = IF full THEN recorded ELSE Append(recorded, Told(t))
        /\ task' = [task EXCEPT ![t].pc = "leave", ![t].decision = IF full THEN "AUDIT" ELSE @]
        /\ UNCHANGED others

\* A record of the ring buffer is reserved, if there is room for it.
Reserve(t) ==
    LET full == Len(ring) = RingSize
    IN  /\ task[t].pc = "decided"
        /\ ring' = IF full THEN ring ELSE Append(ring, Reserved(t))
        /\ recorded' = IF full THEN recorded ELSE Append(recorded, Told(t))
        /\ task' = [task EXCEPT ![t].pc = "leave"]
        /\ UNCHANGED others

\* It is filled in and submitted; the program returns what it has decided.
LeaveProgram(t) ==
    LET filled(rec) == IF rec.by = t /\ ~rec.ready
                       THEN [rec EXCEPT !.ready = TRUE, !.event = Told(t)] ELSE rec
    IN  /\ task[t].pc = "leave"
        /\ ring' = [i \in DOMAIN ring |-> filled(ring[i])]
        /\ task' = IF task[t].decision = "BLOCK"
                   THEN [task EXCEPT ![t].pc = "refused"]
                   ELSE [task EXCEPT ![t].pc = "enter", ![t].step = @ + 1]
        /\ UNCHANGED <<others, recorded>>

\* The operation is done.
Finish(t) ==
    /\ task[t].pc = "enter" /\ ~OnTheWay(t)
    /\ task' = [task EXCEPT ![t].pc = "done"]
    /\ UNCHANGED <<others, ring, recorded>>

Kernel(t) == Pass(t) \/ Decide(t) \/ Reserve(t) \/ LeaveProgram(t) \/ Finish(t)

Next == Load \/ Loop \/ PollFails \/ Signal \/ \E t \in Tasks : Begin(t) \/ Kernel(t)

Spec == Init /\ [][Next]_vars

\* The loader and the tasks inside an operation go on.
FairSpec == Spec /\ WF_vars(Load \/ Loop) /\ \A t \in Tasks : WF_vars(Kernel(t))

-----------------------------------------------------------------------------
(* Properties.                                                             *)

Decisions == {"AUDIT", "ALLOW", "BLOCK"}
Events == [by : Tasks, step : Nat \ {0}, decision : Decisions]
Records == [by : Tasks, ready : BOOLEAN, event : Events \union {NoEvent}]
TaskStates == [pc : {"idle", "enter", "decided", "leave", "done", "refused"}, way : Ways,
               step : Nat \ {0}, missed : SUBSET Nat, decision : Decisions]

\* Types.  The ring buffer never holds more than fits, nor the map.
TypeOK ==
    /\ mode \in Modes /\ policy \in Policies
    /\ loader \in [pc : {"cli", "open", "flag", "seed", "paths", "attach", "ring", "check",
                         "poll", "wait", "consume", "detach", "ended"},
                   line : Nat \ {0}, err : Nat \union {-1}]
    /\ maps \in [enforce : BOOLEAN, execs : SUBSET DefaultExecs, paths : SUBSET Seq(STRING)]
    /\ IsFiniteSet(maps.paths) /\ Cardinality(maps.paths) <= MaxPaths
    /\ attached \subseteq Range(Programs) /\ exiting \in BOOLEAN
    /\ ring \in Seq(Records) /\ Len(ring) <= RingSize
    /\ recorded \in Seq(Events) /\ printed \in Seq(Events \union {NoEvent})
    /\ task \in [Tasks -> TaskStates]
    /\ \A t \in Tasks : task[t].pc \in {"decided", "leave"} => OnTheWay(t)

\* What the command line asks for.
Listed == Range(policy) \ {<<>>}

\* A path is on the policy's list if it continues a listed one, as both are
\* spelled; of a path that is too long only the last name is compared.
UnderListed(path) ==
    \E prefix \in Listed :
        IsPrefix(prefix, IF Len(path) <= TextSize THEN path ELSE Basename(path))

\* A name is blocked if it is that of a command or ends in a slash and it; of
\* a name that is too long what is left of it counts.
BlockedName(name) ==
    LET left == SubSeq(name, 1, IF Len(name) < TextSize THEN Len(name) ELSE TextSize)
    IN  \E n \in DefaultExecs : left = n \/ IsSuffix(<<"/">> \o n, left)

Forbidden(hook) ==
    \/ hook.program = "file_open" /\ UnderListed(hook.text)
    \/ hook.program = "bprm_check" /\ BlockedName(hook.text)

\* An operation is refused exactly if the monitor enforces and a program that
\* was attached when the operation came by finds a file it opens under a
\* listed path, or the name it executes blocked, as early as the first program
\* is attached and also when the ring buffer is full (runeguard.bpf.c:182-223).
Enforced ==
    \A t \in Tasks : task[t].pc \in {"done", "refused"} =>
        (task[t].pc = "refused" <=>
            /\ mode = "enforce"
            /\ \E i \in DOMAIN task[t].way \ task[t].missed : Forbidden(task[t].way[i]))

\* A monitor that has a program attached, is active, or reports success has
\* its whole policy in the maps: a line that cannot be taken over fails the
\* start (runeguard_loader.c:252-282, 308-309).
StartTells ==
    attached # {} \/ At("check") \/ (At("ended") /\ Status = 0)
        => /\ maps.enforce = (mode = "enforce")
           /\ maps.execs = DefaultExecs /\ maps.paths = Listed

\* What a printed event says has happened: the program ran, and the operation
\* was refused there or went on.
Happened(event) ==
    LET told == task[event.by]
    IN  /\ event.step \in DOMAIN told.way \ told.missed
        /\ IF event.decision = "BLOCK" THEN told.pc = "refused" /\ told.step = event.step
           ELSE event.step < told.step

\* The printed events are those that found room, in the order in which they
\* reserved it, none half filled in; each tells what has happened, and those of
\* one operation come in its order, once each (runeguard.bpf.c:35-56,
\* runeguard_loader.c:111-126).
EventsTell ==
    /\ Len(recorded) = Len(printed) + Len(ring)
    /\ \A i \in DOMAIN printed : printed[i] = recorded[i]
    /\ \A i \in DOMAIN printed : Happened(printed[i])
    /\ \A i, j \in DOMAIN printed :
          i < j /\ printed[i].by = printed[j].by => printed[i].step < printed[j].step

\* Unless the monitor ends before, every event that was recorded is printed
\* (runeguard_loader.c:294-304).
Over == At("detach") \/ At("ended")

EventsPrinted == []<>(Over \/ Len(printed) = Len(recorded))

\* After a signal the monitor detaches its programs and ends, wherever the
\* signal meets it (runeguard_loader.c:294-309).
LoaderEnds == exiting ~> At("ended") /\ attached = {}
=============================================================================
