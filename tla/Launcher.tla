------------------------------ MODULE Launcher ------------------------------
(***************************************************************************)
(* A command started under RuneGuard: `runeguard run` and `runeguard agent *)
(* wrap` of runeguard/cli.py, with the prompt, the interceptor, the        *)
(* seccomp, Landlock and Docker backends and the processes that come of    *)
(* it.                                                                     *)
(*                                                                         *)
(* cfg is what one run is started with: its options, what the policy says, *)
(* and the machine it meets.  Process 1 is the command, the others are     *)
(* what the command starts.                                                *)
(***************************************************************************)
EXTENDS Seccomp, FiniteSets

CONSTANTS Configs,      \* what a run may be started with
          Environ,      \* names of the environment variables of the launcher
          MaxProcs,     \* bound on the processes of the command
          Faults        \* what may go wrong: "audit", "copy", "kernel",
                      \* "docker", "interrupt"

ASSUME MaxProcsAssumption == MaxProcs \in Nat \ {0}

\* agent wrap has neither --preload nor --seccomp; landlock is the version of
\* the kernel's Landlock, 0 where it has none.
ASSUME ConfigsAssumption ==
    \A c \in Configs :
        /\ c.decision \in {"allow", "block", "require_approval"}
        /\ c.landlock \in Nat
        /\ c.entry = "agent" => ~c.preload /\ ~c.seccomp

VARIABLES cfg,          \* see above
          main,         \* where the launcher is
          answer,       \* what the user answered at the prompt
          audit,        \* the audit log
          copy,         \* the filtered copy of the workspace exists
          proc,         \* the processes of the command
          interrupted,  \* the launcher was interrupted
          status        \* exit status of the launcher

vars == <<cfg, main, answer, audit, copy, proc, interrupted, status>>

Pids == 1..MaxProcs
NoStatus == 256         \* no exit status is that large

\* A process: how far it is, how it ended, what it may do, and its
\* environment.
NoProc == [state |-> "none", end |-> NoStatus, filter |-> <<>>, domain |-> FALSE,
           network |-> "host", env |-> {}]

-----------------------------------------------------------------------------
(* What the configuration decides.                                         *)

\* The backend of the agent helper defaults to docker where it is reachable.
Backend ==
    IF cfg.backend # "default" THEN cfg.backend
    ELSE IF cfg.docker THEN "docker" ELSE "host"

\* `--backend preload` is the host backend with the shim.
WantsShim == cfg.preload \/ Backend = "preload"
ShimAvailable == cfg.linux /\ cfg.shim

LandlockAvailable == cfg.linux /\ cfg.landlock >= 1

\* Options that do not go together, or a machine without what they ask for:
\* exit status 2, nothing decided.
Refused ==
    IF cfg.entry = "agent" THEN Backend \notin {"docker", "host"}
    ELSE CASE Backend \in {"docker", "landlock"} ->
                \/ cfg.preload \/ cfg.seccomp
                \/ /\ Backend = "docker" /\ cfg.fsLandlock
                   /\ ~LandlockAvailable /\ ~cfg.weak
           [] Backend \in {"preload", "host"} ->
                \/ WantsShim /\ ~ShimAvailable
                \/ cfg.seccomp /\ ~cfg.linux
           [] OTHER -> TRUE

Mechanism ==
    IF Backend \in {"docker", "landlock"} THEN Backend
    ELSE IF cfg.seccomp THEN "seccomp" ELSE "host"

\* The command's first process is forked, not started by subprocess.run.
Forks == Mechanism = "seccomp" \/ (Mechanism = "landlock" /\ LandlockAvailable)

\* The session's approval of the command comes before the policy.
Approved == answer \in {"once", "session"}

\* Mutant of Decision: an answer at the prompt is an approval.
DecisionOfAnyAnswer == IF answer # "none" THEN "allow" ELSE cfg.decision

Decision == IF Approved THEN "allow" ELSE cfg.decision

\* Mutant of FilterEnv: with an allowlist nothing is stripped.
FilterEnvAllowlist(names) ==
    IF cfg.allowedEnv = {} THEN names \ cfg.strippedEnv ELSE names \intersect cfg.allowedEnv

\* filter_child_env.
FilterEnv(names) ==
    (IF cfg.allowedEnv = {} THEN names ELSE names \intersect cfg.allowedEnv)
    \ cfg.strippedEnv

\* RuneGuardInterceptor.env: the shim is put in front.
Preloaded == Environ \union (IF WantsShim THEN {"LD_PRELOAD"} ELSE {})

\* The environment is filtered behind the interceptor, before the start.
ChildEnv == FilterEnv(Preloaded)

\* --network of the container: the option, unless the policy denies.
DockerNetwork ==
    IF cfg.network \in {"deny", "deny_all", "none"} THEN "none"
    ELSE IF cfg.entry = "run" /\ cfg.networkOption # "unset" THEN cfg.networkOption
    ELSE cfg.network

\* _workspace_mount_source, _copy_filtered_workspace: the container gets a
\* copy without what the policy denies, unless the whole workspace is to be
\* writable.
CopiedForDocker == ~cfg.unsafe

\* The workspace or a writable path is a home directory, a place of secrets
\* or outside of the workspace; or the policy asks for a writable workspace
\* and the option for it is not given.
MountRefused ==
    \/ cfg.mounts = "workspace"
    \/ ~cfg.unsafe /\ (cfg.mounts = "writable" \/ ~cfg.readonlyWorkspace)

-----------------------------------------------------------------------------
(* The launcher up to the start of the command.                            *)

End(code) == main' = "ended" /\ status' = code

GoTo(place) == main' = place /\ UNCHANGED status

Record(tool, decision) == [tool |-> tool, decision |-> decision]

\* log_decision, before whatever follows it: a record that cannot be written
\* raises and ends the run.
Logged(record, then) ==
    \/ /\ audit' = IF cfg.auditLog THEN Append(audit, record) ELSE audit
       /\ then
    \/ /\ "audit" \in Faults /\ cfg.auditLog
       /\ UNCHANGED audit /\ End(1)

Init ==
    /\ cfg \in Configs
    /\ main = "start" /\ answer = "none" /\ audit = <<>> /\ copy = FALSE
    /\ proc = [p \in Pids |-> NoProc]
    /\ interrupted = FALSE /\ status = NoStatus

\* The agent helper looks for the program first.  The prompt is shown only
\* for a command the policy does not allow.
Start ==
    /\ main = "start"
    /\ IF cfg.entry = "agent" /\ cfg.program = "missing" THEN End(127)
       ELSE GoTo(IF cfg.ask /\ cfg.decision # "allow" THEN "prompt" ELSE "backend")
    /\ UNCHANGED <<cfg, answer, audit, copy, proc, interrupted>>

Prompt ==
    /\ main = "prompt"
    /\ answer' \in {"once", "session", "deny", "policy"}
    /\ GoTo("backend")
    /\ UNCHANGED <<cfg, audit, copy, proc, interrupted>>

ChooseBackend ==
    /\ main = "backend"
    /\ IF Refused THEN End(2) ELSE GoTo("decide")
    /\ UNCHANGED <<cfg, answer, audit, copy, proc, interrupted>>

\* RuneGuardProxy.call and the host branch of run_agent.
DecideHost ==
    /\ main = "decide" /\ Mechanism = "host"
    /\ Logged(Record("shell", Decision),
              IF Decision = "allow" THEN GoTo("popen") ELSE End(1))
    /\ UNCHANGED <<cfg, answer, copy, proc, interrupted>>

\* The seccomp branch of run: decided without a record.
DecideSeccomp ==
    /\ main = "decide" /\ Mechanism = "seccomp"
    /\ IF Decision = "allow" THEN GoTo("fork") ELSE End(1)
    /\ UNCHANGED <<cfg, answer, audit, copy, proc, interrupted>>

\* LandlockSandboxRunner.run: no record either; without Landlock it ends,
\* or runs the command unconfined when that was asked for.  A file that
\* cannot be copied raises.
DecideLandlock ==
    /\ main = "decide" /\ Mechanism = "landlock"
    /\ IF Decision # "allow" THEN End(1) /\ UNCHANGED copy
       ELSE IF LandlockAvailable
       THEN \/ GoTo("fork") /\ copy' = TRUE
            \/ "copy" \in Faults /\ End(1) /\ UNCHANGED copy
       ELSE /\ IF cfg.weak THEN GoTo("popen") ELSE End(2)
            /\ UNCHANGED copy
    /\ UNCHANGED <<cfg, answer, audit, proc, interrupted>>

\* DockerSandboxRunner.run up to the copy of the workspace; a file that is
\* gone when it is to be copied is reported as a docker that is missing.
DecideDocker ==
    /\ main = "decide" /\ Mechanism = "docker"
    /\ Logged(Record("sandbox.policy", Decision),
              \/ Decision = "allow" /\ GoTo("mount")
              \/ Decision = "allow" /\ "copy" \in Faults /\ CopiedForDocker /\ End(127)
              \/ Decision # "allow" /\ End(1))
    /\ copy' = (main' = "mount" /\ CopiedForDocker)
    /\ UNCHANGED <<cfg, answer, proc, interrupted>>

\* build_docker_argv, then the record of the start.
MountDocker ==
    /\ main = "mount"
    /\ IF MountRefused THEN End(2) /\ UNCHANGED audit
       ELSE Logged(Record("sandbox.docker", "allow"), GoTo("popen"))
    /\ copy' = (copy /\ main' # "ended")
    /\ UNCHANGED <<cfg, answer, proc, interrupted>>

-----------------------------------------------------------------------------
(* The command.                                                            *)

\* The command's first process, with these restrictions.
Command(state, env, network) ==
    [proc EXCEPT ![1] = [NoProc EXCEPT !.state = state, !.env = env, !.network = network]]

\* subprocess.run.  A program, or a docker, that is not there raises
\* FileNotFoundError; docker reports a container it cannot start.
Popen ==
    /\ main = "popen"
    /\ IF Mechanism = "docker"
       THEN \/ /\ cfg.docker /\ cfg.program # "missing"
               /\ proc' = Command("running", {}, DockerNetwork)
               /\ GoTo("wait") /\ UNCHANGED copy
            \/ /\ \/ (~cfg.docker \/ cfg.program = "missing") /\ End(127)
                  \/ cfg.docker /\ "docker" \in Faults /\ End(125)
               /\ copy' = FALSE /\ UNCHANGED proc
       ELSE /\ UNCHANGED copy
            /\ IF cfg.program = "missing" THEN End(1) /\ UNCHANGED proc
               ELSE proc' = Command("running", ChildEnv, "host") /\ GoTo("wait")
    /\ UNCHANGED <<cfg, answer, audit, interrupted>>

\* run_with_seccomp and _fork_exec_with_landlock fork.
Fork ==
    /\ main = "fork"
    /\ proc' = Command("setup", ChildEnv, "host")
    /\ GoTo("wait")
    /\ UNCHANGED <<cfg, answer, audit, copy, interrupted>>

\* Mutant of Fails: the child does not exit.
FailsWithoutExit(p) == [proc EXCEPT ![p].end = 1]

\* A child that fails before exec ends with status 1.
Fails(p) == [proc EXCEPT ![p].state = "failed", ![p].end = 1]

\* What the child restricts itself to, and whether it can: build() has the
\* machine's numbers and the kernel takes the program; Landlock has the rights
\* of its third version and the copy is still there to be opened.
Restricted ==
    IF Mechanism = "seccomp"
    THEN [proc[1] EXCEPT !.filter = Build(cfg.machine, cfg.network)]
    ELSE [proc[1] EXCEPT !.domain = TRUE]

Restrictable ==
    IF Mechanism = "seccomp"
    THEN cfg.machine \in Machines /\ Installable(Build(cfg.machine, cfg.network))
    ELSE cfg.landlock >= 3 /\ copy

\* Mutant of Confine: a failure is reported and the child goes on.
ConfineIfPossible ==
    /\ proc[1].state = "setup"
    /\ \/ /\ Restrictable
          /\ proc' = [proc EXCEPT ![1] = [Restricted EXCEPT !.state = "exec"]]
       \/ /\ ~Restrictable \/ "kernel" \in Faults
          /\ proc' = [proc EXCEPT ![1].state = "exec"]
    /\ UNCHANGED <<cfg, main, answer, audit, copy, interrupted, status>>

\* apply_seccomp_from_policy, apply_landlock.
Confine ==
    /\ proc[1].state = "setup"
    /\ \/ /\ Restrictable
          /\ proc' = [proc EXCEPT ![1] = [Restricted EXCEPT !.state = "exec"]]
       \/ /\ ~Restrictable \/ "kernel" \in Faults
          /\ proc' = Fails(1)
    /\ UNCHANGED <<cfg, main, answer, audit, copy, interrupted, status>>

\* In a Landlock domain only what is in the workspace can be executed.
Executable ==
    /\ cfg.program # "missing"
    /\ proc[1].domain => cfg.program = "workspace" /\ copy

Exec ==
    /\ proc[1].state = "exec"
    /\ proc' = IF Executable THEN [proc EXCEPT ![1].state = "running"] ELSE Fails(1)
    /\ UNCHANGED <<cfg, main, answer, audit, copy, interrupted, status>>

\* A process of the command starts another one, which has its restrictions.
Spawn ==
    /\ \E p, q \in Pids :
          /\ proc[p].state = "running" /\ proc[q].state = "none"
          /\ proc' = [proc EXCEPT ![q] = proc[p]]
    /\ UNCHANGED <<cfg, main, answer, audit, copy, interrupted, status>>

\* A container ends with its first process.
Ended(p, code) ==
    [q \in Pids |->
        IF q = p \/ (p = 1 /\ Mechanism = "docker" /\ proc[q].state = "running")
        THEN [proc[q] EXCEPT !.state = "ended", !.end = code] ELSE proc[q]]

\* It exits, or is killed by a signal, which a container's end reports as an
\* exit status.
Codes == {0, 3}
Killed == -9

ProgramEnds ==
    /\ \E p \in Pids, code \in Codes \union {Killed} :
          /\ proc[p].state = "running"
          /\ proc' = Ended(p, IF code = Killed /\ Mechanism = "docker" THEN 137 ELSE code)
    /\ UNCHANGED <<cfg, main, answer, audit, copy, interrupted, status>>

-----------------------------------------------------------------------------
(* The launcher behind the start of the command.                           *)

\* Mutant of ExitStatus: a killed command counts as done.
ExitStatusOfExit(end) == IF end < 0 THEN 0 ELSE end

\* What the launcher exits with: the negative returncode of subprocess
\* reduced to a byte, or 128 and the signal behind waitpid.
ExitStatus(end) ==
    IF end >= 0 THEN end
    ELSE IF Forks THEN 128 - end
    ELSE end % 256

\* Mutant of Wait: the copy is left behind.
WaitAndKeep ==
    /\ main = "wait"
    /\ proc[1].state \in {"ended", "failed"}
    /\ End(ExitStatus(proc[1].end))
    /\ UNCHANGED <<cfg, answer, audit, copy, proc, interrupted>>

\* subprocess.run or os.waitpid returns; leaving the block of the copy
\* removes it.
Wait ==
    /\ main = "wait"
    /\ proc[1].state \in {"ended", "failed"}
    /\ End(ExitStatus(proc[1].end))
    /\ copy' = FALSE
    /\ UNCHANGED <<cfg, answer, audit, proc, interrupted>>

\* Ctrl-C.  A process of the command may end of it or go on; only
\* subprocess.run kills the process it waits for, which is the command itself
\* where there is no container.
Interrupt ==
    /\ "interrupt" \in Faults
    /\ main # "ended"
    /\ interrupted' = TRUE
    /\ \E code \in {1, 130} : End(code)
    /\ copy' = FALSE
    /\ \E hit \in SUBSET {p \in Pids : proc[p].state \in {"setup", "exec", "running"}} :
          /\ main = "wait" /\ ~Forks /\ Mechanism # "docker" /\ proc[1].state = "running"
                => 1 \in hit
          /\ Mechanism = "docker" /\ 1 \in hit =>
                \A p \in Pids : proc[p].state = "running" => p \in hit
          /\ proc' = [p \in Pids |->
                IF p \notin hit THEN proc[p]
                ELSE IF proc[p].state = "running"
                     THEN [proc[p] EXCEPT !.state = "ended", !.end = Killed]
                     ELSE [proc[p] EXCEPT !.state = "failed", !.end = 1]]
    /\ UNCHANGED <<cfg, answer, audit>>

-----------------------------------------------------------------------------

Decide == DecideHost \/ DecideSeccomp \/ DecideLandlock \/ DecideDocker
Launch == Start \/ ChooseBackend \/ Decide \/ MountDocker \/ Popen \/ Fork \/ Wait
Child == Confine \/ Exec

Next == Launch \/ Prompt \/ Child \/ Spawn \/ ProgramEnds \/ Interrupt

Spec == Init /\ [][Next]_vars

\* The launcher and the child it has forked go on; the user and the command
\* are under no obligation.
FairSpec == Spec /\ WF_vars(Launch) /\ WF_vars(Child)

-----------------------------------------------------------------------------
(* Properties.                                                             *)

Started(p) == proc[p].state \in {"running", "ended"}

\* Type invariant; the launcher has an exit status, of a byte, exactly when it
\* has ended (cli.py:133-295).
TypeOK ==
    /\ main \in {"start", "prompt", "backend", "decide", "mount", "fork", "popen",
                 "wait", "ended"}
    /\ answer \in {"none", "once", "session", "deny", "policy"}
    /\ audit \in Seq([tool : {"shell", "sandbox.policy", "sandbox.docker"},
                      decision : {"allow", "block", "require_approval"}])
    /\ copy \in BOOLEAN /\ interrupted \in BOOLEAN
    /\ status \in (IF main = "ended" THEN 0..255 ELSE {NoStatus})
    /\ \A p \in Pids :
          /\ proc[p].state \in {"none", "setup", "exec", "running", "ended", "failed"}
          /\ proc[p].end \in Codes \union {Killed, 137, 1, NoStatus}
          /\ proc[p].domain \in BOOLEAN
          /\ proc[p].env \subseteq Environ \union {"LD_PRELOAD"}

\* A command is started only if the policy allows it or the user has approved
\* it at the prompt, by whichever of the backends (cli.py:270, agent.py:61,
\* landlock.py:91, docker.py:53, proxy.py:13); where the decision goes to the
\* audit log, the allow is there first and nothing else is.
StartedIsAllowed ==
    Started(1) =>
        /\ cfg.decision = "allow" \/ Approved
        /\ cfg.auditLog /\ Mechanism \in {"host", "docker"} =>
              /\ audit # <<>>
              /\ \A k \in 1..Len(audit) : audit[k].decision = "allow"

\* The calls the policy says nothing about are still possible, those on the
\* list are not, for every process that comes of the command and whatever
\* becomes of the launcher (filter.py:117-125, runner.py:29-41): the filter
\* is on before exec and is inherited.  A Landlock run never goes on without
\* its domain unless that was asked for (landlock.py:95-105, 152-157), nor a
\* container with a network the policy denies (docker.py:153-160).
Forbidden == {"ptrace", "kexec_load", "reboot", "mount"}

Numbers(machine) ==
    {SyscallNr[machine][call] + d : call \in DOMAIN SyscallNr[machine], d \in {-1, 0, 1}}

Filtered(program) ==
    \A nr \in Numbers(cfg.machine) :
        (Verdict(program, nr, AF_UNIX) = "EPERM")
            = (\E call \in Forbidden : nr = SyscallNr[cfg.machine][call])

Denied(network) == network \in {"deny", "deny_all", "none"}

Confined ==
    \A p \in Pids :
        Started(p) =>
            /\ Mechanism = "seccomp" => cfg.machine \in Machines /\ Filtered(proc[p].filter)
            /\ Mechanism = "landlock" =>
                  proc[p].domain \/ (cfg.weak /\ (cfg.landlock = 0 \/ ~cfg.linux))
            /\ Mechanism = "docker" /\ Denied(cfg.network) => proc[p].network = "none"

\* No process on the host has a variable the policy strips or does not list
\* (sandbox.py:39-57), and the command has the shim it was to be run with
\* unless the policy takes LD_PRELOAD away.
EnvFiltered ==
    \A p \in Pids :
        Started(p) =>
            /\ proc[p].env \intersect cfg.strippedEnv = {}
            /\ cfg.allowedEnv # {} => proc[p].env \subseteq cfg.allowedEnv
            /\ WantsShim /\ "LD_PRELOAD" \notin cfg.strippedEnv /\ cfg.allowedEnv = {}
                  => "LD_PRELOAD" \in proc[p].env

\* The exit status can be trusted: zero means that the command ran and ended
\* with zero, a command that ran gives its own status, and the launcher does
\* not end before the command unless it is interrupted (cli.py:295,
\* runner.py:43-50, landlock.py:158-163).
ExitTells ==
    main = "ended" =>
        /\ status = 0 => proc[1].state = "ended" /\ proc[1].end = 0
        /\ ~interrupted => ~(proc[1].state \in {"setup", "exec", "running"})
        /\ ~interrupted /\ proc[1].state = "ended" =>
              IF proc[1].end >= 0 THEN status = proc[1].end ELSE status > 128

\* The filtered copy of the workspace is there as long as the command that
\* works in it, and gone with the launcher (landlock.py:107-111,
\* docker.py:163-172).
CopyLives ==
    /\ ~interrupted /\ proc[1].state = "running" /\ Mechanism = "docker" => copy \/ cfg.unsafe
    /\ ~interrupted /\ proc[1].domain /\ proc[1].state = "running" => copy
    /\ main = "ended" => ~copy

\* Once the user has answered, the launcher comes to an end, unless the
\* command is running: no failure in the child leaves it waiting.
LaunchEnds ==
    main \notin {"start", "prompt"} /\ proc[1].state # "running"
        ~> main = "ended" \/ proc[1].state = "running"

\* Under a policy that denies the network no process opens a socket of the
\* families filter.py:120-123 lists.
NetworkDenied ==
    \A p \in Pids :
        Started(p) /\ Mechanism = "seccomp" /\ Denied(cfg.network) =>
            \A family \in {AF_INET, AF_INET6, AF_NETLINK} :
                Verdict(proc[p].filter, SyscallNr[cfg.machine].socket, family) = "EPERM"
=============================================================================
