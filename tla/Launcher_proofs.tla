--------------------------- MODULE Launcher_proofs --------------------------
(***************************************************************************)
(* What the launcher promises of the command, whatever it is started with, *)
(* whatever fails and however many processes the command starts; and what  *)
(* the kernel makes of the seccomp program that build() returns.           *)
(***************************************************************************)
EXTENDS Launcher, SequenceTheorems, WellFoundedInduction, TLAPS

Undecided == {"start", "prompt", "backend", "decide"}
NotStarted == Undecided \union {"mount", "fork", "popen"}
Places == NotStarted \union {"wait", "ended"}

States == {"none", "setup", "exec", "running", "ended", "failed"}
Ends == Codes \union {Killed, 137, 1, NoStatus}

Filters == {<<>>} \union {Build(c.machine, c.network) : c \in {d \in Configs : d.machine \in Machines}}

Networks == {"host", "none"} \union {c.network : c \in Configs} \union {c.networkOption : c \in Configs}

Processes == [state : States, end : Ends, filter : Filters, domain : BOOLEAN,
              network : Networks, env : SUBSET (Environ \union {"LD_PRELOAD"})]

\* The command's environment and its end, by how far it is.
ProcOK(p) ==
    /\ proc[p].state # "none" =>
          proc[p].env = IF Mechanism = "docker" THEN {} ELSE ChildEnv
    /\ proc[p].state \in {"none", "setup", "exec", "running"} => proc[p].end = NoStatus
    /\ proc[p].state = "ended" => proc[p].end \in Codes \union {Killed, 137}
    /\ proc[p].state = "failed" => proc[p].end = 1
    /\ proc[p].domain => Mechanism = "landlock"
    /\ proc[p].state \in {"setup", "exec"} => Forks

Typed == /\ TypeOK
         /\ cfg \in Configs
         /\ proc \in [Pids -> Processes]

\* The command is where the launcher has got to, and no process comes before
\* the command's own.
InStep ==
    /\ main \in NotStarted => \A p \in Pids : proc[p].state = "none"
    /\ proc[1].state = "none" => \A p \in Pids : proc[p].state = "none"
    /\ main = "ended" /\ ~interrupted => proc[1].state \in {"none", "ended", "failed"}
    /\ interrupted => main = "ended"
    /\ \A p \in Pids : ProcOK(p)

\* Behind the decision the command is an allowed one, on record where it is
\* recorded, and the options go together.
Decided ==
    /\ main \in Undecided => audit = <<>>
    /\ main \in (Places \ Undecided) \ {"ended"} \/ proc[1].state # "none" =>
          /\ Decision = "allow"
          /\ cfg.auditLog /\ Mechanism \in {"host", "docker"} =>
                /\ audit # <<>>
                /\ \A k \in 1..Len(audit) : audit[k].decision = "allow"
    /\ main \in (Places \ {"start", "prompt", "backend", "ended"}) \/ proc[1].state # "none"
          => ~Refused
    /\ main = "mount" => Mechanism = "docker"
    /\ main = "fork" => Forks
    /\ main = "popen" => ~Forks

Copied ==
    /\ main \in {"mount", "popen", "wait"} /\ Mechanism = "docker" => copy = CopiedForDocker
    /\ main \in {"fork", "wait"} /\ Mechanism = "landlock" /\ LandlockAvailable => copy
    /\ main \in Undecided \union {"ended"} => ~copy
    /\ main = "popen" /\ Mechanism # "docker" => ~copy
    /\ \A p \in Pids : proc[p].domain => LandlockAvailable

Reported ==
    /\ main = "ended" /\ proc[1].state \in {"none", "failed"} => status # 0
    /\ main = "ended" /\ interrupted => status # 0
    /\ main = "ended" /\ ~interrupted /\ proc[1].state = "ended" =>
          status = ExitStatus(proc[1].end)

LaunchInv == Typed /\ InStep /\ Decided /\ Copied /\ Reported

-----------------------------------------------------------------------------
(* Facts the cases below share.                                            *)

\* What the configuration decides stays decided: one run is started once, and
\* the user is asked before it is.
LEMMA Settled ==
    ASSUME cfg' = cfg
    PROVE  /\ Mechanism' = Mechanism /\ Forks' = Forks
           /\ ChildEnv' = ChildEnv /\ WantsShim' = WantsShim
           /\ LandlockAvailable' = LandlockAvailable
           /\ CopiedForDocker' = CopiedForDocker
           /\ Refused' = Refused
           /\ answer' = answer => Decision' = Decision
<1>1. Backend' = Backend
    BY DEF Backend
<1>2. WantsShim' = WantsShim /\ LandlockAvailable' = LandlockAvailable
    BY <1>1 DEF WantsShim, LandlockAvailable
<1>3. Mechanism' = Mechanism
    BY <1>1 DEF Mechanism
<1>4. Forks' = Forks
    BY <1>2, <1>3 DEF Forks
<1>5. Refused' = Refused
    BY <1>1, <1>2 DEF Refused, ShimAvailable
<1>6. ChildEnv' = ChildEnv
    BY <1>2 DEF ChildEnv, Preloaded, FilterEnv
<1>7. answer' = answer => Decision' = Decision
    BY DEF Decision, Approved
<1> QED
    BY <1>2, <1>3, <1>4, <1>5, <1>6, <1>7 DEF CopiedForDocker

\* The first process is one of them.
LEMMA FirstPid == 1 \in Pids
    BY MaxProcsAssumption DEF Pids

\* The exit status is one of a byte, and zero for zero only.
LEMMA ExitStatusByte ==
    ASSUME NEW end \in Ends, end # NoStatus
    PROVE  /\ ExitStatus(end) \in 0..255
           /\ ExitStatus(end) = 0 => end = 0
           /\ end >= 0 => ExitStatus(end) = end
           /\ end < 0 => ExitStatus(end) > 128
    BY DEF ExitStatus, Ends, Codes, Killed, NoStatus

-----------------------------------------------------------------------------
(* The two kinds of steps.                                                 *)

Answers == {"none", "once", "session", "deny", "policy"}
Entries == [tool : {"shell", "sandbox.policy", "sandbox.docker"},
            decision : {"allow", "block", "require_approval"}]

\* The log behind a record of an allow, if every record was one before.
LEMMA LoggedAllow ==
    ASSUME NEW log \in Seq(Entries), NEW record \in Entries, record.decision = "allow",
           \A k \in 1..Len(log) : log[k].decision = "allow"
    PROVE  /\ Append(log, record) # <<>>
           /\ \A k \in 1..Len(Append(log, record)) :
                 Append(log, record)[k].decision = "allow"
<1>1. /\ Len(Append(log, record)) = Len(log) + 1
      /\ \A k \in 1..Len(log) : Append(log, record)[k] = log[k]
      /\ Append(log, record)[Len(log) + 1] = record
    OBVIOUS
<1>2. Append(log, record) # <<>>
  <2>1. Len(log) \in Nat /\ Len(<<>>) = 0
    OBVIOUS
  <2> QED
    BY <1>1, <2>1
<1> QED
    BY <1>1, <1>2

\* The launcher up to the start of the command, or up to a failure before it.
LEMMA BeforeStart ==
    ASSUME LaunchInv, main \in NotStarted, UNCHANGED <<cfg, proc, interrupted>>,
           answer' \in Answers, audit' \in Seq(Entries), copy' \in BOOLEAN,
           main' \in NotStarted \union {"ended"},
           main' \in NotStarted => status' = status,
           main' = "ended" => status' \in 0..255 /\ status' # 0
    PROVE  /\ Typed' /\ InStep' /\ Reported'
           /\ \A p \in Pids : proc'[p].state = "none"
<1> USE FirstPid DEF LaunchInv
<1>1. \A p \in Pids : proc[p].state = "none"
    BY DEF InStep
<1>2. ~interrupted
    BY DEF InStep, NotStarted, Undecided
<1>3. Typed'
    BY DEF Typed, TypeOK, Answers, Entries, Places, NotStarted, Undecided, NoStatus
<1>4. \A p \in Pids : ProcOK(p)'
    BY <1>1, Settled DEF InStep, ProcOK
<1>5. InStep'
    BY <1>1, <1>2, <1>4 DEF InStep, NotStarted, Undecided
<1>6. Reported'
    BY <1>1, <1>2 DEF Reported
<1> QED
    BY <1>1, <1>3, <1>5, <1>6

\* The processes, wherever the launcher is.
LEMMA OfProcesses ==
    ASSUME LaunchInv, UNCHANGED <<cfg, main, answer, audit, copy, interrupted, status>>,
           proc' \in [Pids -> Processes],
           \A p \in Pids : ProcOK(p)' /\ (proc'[p].domain => LandlockAvailable),
           proc[1].state # "none", proc'[1].state # "none",
           proc'[1] = proc[1] \/ proc[1].state \in {"setup", "exec", "running"}
    PROVE  LaunchInv'
<1> USE FirstPid DEF LaunchInv
<1>1. main \notin NotStarted
    BY DEF InStep
<1>2. Typed'
    BY DEF Typed, TypeOK, Processes, States, Ends
<1>3. InStep'
    BY <1>1 DEF InStep
<1>4. Decided'
    BY Settled DEF Decided
<1>5. Copied'
    BY Settled DEF Copied
<1>6. main = "ended" /\ ~interrupted => proc'[1] = proc[1]
    BY DEF InStep
<1>7. Reported'
    BY <1>6, Settled DEF Reported, ExitStatus
<1> QED
    BY <1>2, <1>3, <1>4, <1>5, <1>7

-----------------------------------------------------------------------------
(* One lemma per step of the launcher before the command is started.       *)

LEMMA StartKeeps == ASSUME LaunchInv, Start PROVE LaunchInv'
<1> USE FirstPid DEF LaunchInv
<1>1. /\ main \in NotStarted /\ main' \in NotStarted \union {"ended"}
      /\ main' \in NotStarted => status' = status
      /\ main' = "ended" => status' \in 0..255 /\ status' # 0
      /\ main' \in Undecided \union {"ended"}
      /\ main \in Undecided
    BY DEF Start, End, GoTo, NotStarted, Undecided
<1>2. Typed' /\ InStep' /\ Reported' /\ \A p \in Pids : proc'[p].state = "none"
    BY <1>1, BeforeStart DEF Start, Typed, TypeOK, Answers, Entries
<1>3. Decided'
    BY <1>1, <1>2 DEF Start, Decided, GoTo, End, Undecided, Places, NotStarted
<1>4. Copied'
    BY <1>1, <1>2, Settled DEF Start, Copied, Undecided
<1> QED
    BY <1>2, <1>3, <1>4

LEMMA PromptKeeps == ASSUME LaunchInv, Prompt PROVE LaunchInv'
<1> USE FirstPid DEF LaunchInv
<1>1. main = "prompt" /\ main' = "backend" /\ status' = status
    BY DEF Prompt, GoTo
<1>2. Typed' /\ InStep' /\ Reported' /\ \A p \in Pids : proc'[p].state = "none"
    BY <1>1, BeforeStart DEF Prompt, Typed, TypeOK, Answers, Entries, NotStarted, Undecided
<1>3. Decided'
    BY <1>1, <1>2 DEF Prompt, Decided, Undecided, Places, NotStarted
<1>4. Copied'
    BY <1>1, <1>2, Settled DEF Prompt, Copied, Undecided
<1> QED
    BY <1>2, <1>3, <1>4

LEMMA ChooseBackendKeeps == ASSUME LaunchInv, ChooseBackend PROVE LaunchInv'
<1> USE FirstPid DEF LaunchInv
<1>1. /\ main = "backend"
      /\ \/ main' = "ended" /\ status' = 2
         \/ main' = "decide" /\ status' = status /\ ~Refused
    BY DEF ChooseBackend, GoTo, End
<1>2. Typed' /\ InStep' /\ Reported' /\ \A p \in Pids : proc'[p].state = "none"
  <2>1. CASE main' = "ended" /\ status' = 2
    BY <1>1, <2>1, BeforeStart
       DEF ChooseBackend, Typed, TypeOK, Answers, Entries, NotStarted, Undecided
  <2>2. CASE main' = "decide" /\ status' = status
    BY <1>1, <2>2, BeforeStart
       DEF ChooseBackend, Typed, TypeOK, Answers, Entries, NotStarted, Undecided
  <2> QED
    BY <1>1, <2>1, <2>2
<1>3. Decided'
    BY <1>1, <1>2, Settled DEF ChooseBackend, Decided, Undecided, Places, NotStarted
<1>4. Copied'
    BY <1>1, <1>2, Settled DEF ChooseBackend, Copied, Undecided
<1> QED
    BY <1>2, <1>3, <1>4

LEMMA DecideHostKeeps == ASSUME LaunchInv, DecideHost PROVE LaunchInv'
<1> USE FirstPid DEF LaunchInv
<1>1. /\ main = "decide" /\ Mechanism = "host"
      /\ \/ main' = "popen" /\ status' = status /\ Decision = "allow"
         \/ main' = "ended" /\ status' = 1
    BY DEF DecideHost, Logged, GoTo, End
<1>2. Decision \in {"allow", "block", "require_approval"}
    BY ConfigsAssumption DEF Decision, Typed
<1>3. audit' \in Seq(Entries)
  <2>1. Record("shell", Decision) \in Entries
    BY <1>2 DEF Record, Entries
  <2>2. audit \in Seq(Entries)
    BY DEF Typed, TypeOK, Entries
  <2>3. audit' = audit \/ audit' = Append(audit, Record("shell", Decision))
    BY DEF DecideHost, Logged
  <2> QED
    BY <2>1, <2>2, <2>3
<1>4. main' = "popen" /\ cfg.auditLog =>
          /\ audit' # <<>>
          /\ \A k \in 1..Len(audit') : audit'[k].decision = "allow"
  <2> SUFFICES ASSUME main' = "popen", cfg.auditLog
               PROVE  /\ audit' # <<>>
                      /\ \A k \in 1..Len(audit') : audit'[k].decision = "allow"
    OBVIOUS
  <2>1. audit = <<>>
    BY <1>1 DEF Decided, Undecided
  <2>2. audit' = Append(audit, Record("shell", "allow"))
    BY <1>1 DEF DecideHost, Logged, GoTo, End
  <2>3. audit \in Seq(Entries) /\ Record("shell", "allow") \in Entries
    BY DEF Typed, TypeOK, Record, Entries
  <2> QED
    BY <2>1, <2>2, <2>3, LoggedAllow DEF Record
<1>5. Typed' /\ InStep' /\ Reported' /\ \A p \in Pids : proc'[p].state = "none"
    BY <1>1, <1>3, BeforeStart
       DEF DecideHost, Typed, TypeOK, Answers, NotStarted, Undecided
<1>6. Decided'
    BY <1>1, <1>4, <1>5, Settled DEF DecideHost, Decided, Forks, Undecided, Places, NotStarted
<1>7. Copied'
    BY <1>1, <1>5, Settled DEF DecideHost, Copied, Undecided
<1> QED
    BY <1>5, <1>6, <1>7

LEMMA DecideSeccompKeeps == ASSUME LaunchInv, DecideSeccomp PROVE LaunchInv'
<1> USE FirstPid DEF LaunchInv
<1>1. /\ main = "decide" /\ Mechanism = "seccomp"
      /\ \/ main' = "fork" /\ status' = status /\ Decision = "allow"
         \/ main' = "ended" /\ status' = 1
    BY DEF DecideSeccomp, GoTo, End
<1>2. Typed' /\ InStep' /\ Reported' /\ \A p \in Pids : proc'[p].state = "none"
    BY <1>1, BeforeStart
       DEF DecideSeccomp, Typed, TypeOK, Answers, Entries, NotStarted, Undecided
<1>3. Decided'
    BY <1>1, <1>2, Settled
       DEF DecideSeccomp, Decided, Forks, Undecided, Places, NotStarted
<1>4. Copied'
    BY <1>1, <1>2, Settled DEF DecideSeccomp, Copied, Undecided
<1> QED
    BY <1>2, <1>3, <1>4

LEMMA DecideLandlockKeeps == ASSUME LaunchInv, DecideLandlock PROVE LaunchInv'
<1> USE FirstPid DEF LaunchInv
<1>1. /\ main = "decide" /\ Mechanism = "landlock" /\ copy' \in BOOLEAN
      /\ \/ /\ main' = "fork" /\ status' = status
            /\ Decision = "allow" /\ LandlockAvailable /\ copy'
         \/ /\ main' = "popen" /\ status' = status /\ copy' = copy
            /\ Decision = "allow" /\ ~LandlockAvailable
         \/ main' = "ended" /\ status' \in {1, 2} /\ copy' = copy
    BY DEF DecideLandlock, GoTo, End, Typed, TypeOK
<1>2. Typed' /\ InStep' /\ Reported' /\ \A p \in Pids : proc'[p].state = "none"
    BY <1>1, BeforeStart
       DEF DecideLandlock, Typed, TypeOK, Answers, Entries, NotStarted, Undecided
<1>3. Decided'
    BY <1>1, <1>2, Settled
       DEF DecideLandlock, Decided, Forks, Undecided, Places, NotStarted
<1>4. Copied'
    BY <1>1, <1>2, Settled DEF DecideLandlock, Copied, Undecided
<1> QED
    BY <1>2, <1>3, <1>4

LEMMA DecideDockerKeeps == ASSUME LaunchInv, DecideDocker PROVE LaunchInv'
<1> USE FirstPid DEF LaunchInv
<1>1. /\ main = "decide" /\ Mechanism = "docker" /\ copy' \in BOOLEAN
      /\ \/ /\ main' = "mount" /\ status' = status
            /\ Decision = "allow" /\ copy' = CopiedForDocker
         \/ main' = "ended" /\ status' \in {1, 127} /\ ~copy'
    BY DEF DecideDocker, Logged, GoTo, End, CopiedForDocker
<1>2. Decision \in {"allow", "block", "require_approval"}
    BY ConfigsAssumption DEF Decision, Typed
<1>3. audit' \in Seq(Entries)
  <2>1. Record("sandbox.policy", Decision) \in Entries
    BY <1>2 DEF Record, Entries
  <2>2. audit \in Seq(Entries)
    BY DEF Typed, TypeOK, Entries
  <2>3. audit' = audit \/ audit' = Append(audit, Record("sandbox.policy", Decision))
    BY DEF DecideDocker, Logged
  <2> QED
    BY <2>1, <2>2, <2>3
<1>4. main' = "mount" /\ cfg.auditLog =>
          /\ audit' # <<>>
          /\ \A k \in 1..Len(audit') : audit'[k].decision = "allow"
  <2> SUFFICES ASSUME main' = "mount", cfg.auditLog
               PROVE  /\ audit' # <<>>
                      /\ \A k \in 1..Len(audit') : audit'[k].decision = "allow"
    OBVIOUS
  <2>1. audit = <<>>
    BY <1>1 DEF Decided, Undecided
  <2>2. audit' = Append(audit, Record("sandbox.policy", "allow"))
    BY <1>1 DEF DecideDocker, Logged, GoTo, End
  <2>3. audit \in Seq(Entries) /\ Record("sandbox.policy", "allow") \in Entries
    BY DEF Typed, TypeOK, Record, Entries
  <2> QED
    BY <2>1, <2>2, <2>3, LoggedAllow DEF Record
<1>5. Typed' /\ InStep' /\ Reported' /\ \A p \in Pids : proc'[p].state = "none"
    BY <1>1, <1>3, BeforeStart
       DEF DecideDocker, Typed, TypeOK, Answers, NotStarted, Undecided
<1>6. Decided'
    BY <1>1, <1>4, <1>5, Settled DEF DecideDocker, Decided, Forks, Undecided, Places, NotStarted
<1>7. Copied'
    BY <1>1, <1>5, Settled DEF DecideDocker, Copied, Undecided
<1> QED
    BY <1>5, <1>6, <1>7

LEMMA MountDockerKeeps == ASSUME LaunchInv, MountDocker PROVE LaunchInv'
<1> USE FirstPid DEF LaunchInv
<1>1. /\ main = "mount" /\ Mechanism = "docker" /\ Decision = "allow" /\ ~Refused
      /\ \/ main' = "popen" /\ status' = status /\ copy' = copy
         \/ main' = "ended" /\ status' \in {1, 2} /\ copy' = FALSE
    BY DEF MountDocker, Logged, GoTo, End, Decided, Typed, TypeOK, Undecided, Places, NotStarted
<1>2. audit \in Seq(Entries) /\ Record("sandbox.docker", "allow") \in Entries
    BY DEF Typed, TypeOK, Record, Entries
<1>3. audit' \in Seq(Entries)
  <2>1. audit' = audit \/ audit' = Append(audit, Record("sandbox.docker", "allow"))
    BY DEF MountDocker, Logged
  <2> QED
    BY <1>2, <2>1
<1>4. main' = "popen" /\ cfg.auditLog =>
          /\ audit' # <<>>
          /\ \A k \in 1..Len(audit') : audit'[k].decision = "allow"
  <2> SUFFICES ASSUME main' = "popen", cfg.auditLog
               PROVE  /\ audit' # <<>>
                      /\ \A k \in 1..Len(audit') : audit'[k].decision = "allow"
    OBVIOUS
  <2>1. \A k \in 1..Len(audit) : audit[k].decision = "allow"
    BY <1>1 DEF Decided, Undecided, Places, NotStarted
  <2>2. audit' = Append(audit, Record("sandbox.docker", "allow"))
    BY <1>1 DEF MountDocker, Logged, GoTo, End
  <2> QED
    BY <1>2, <2>1, <2>2, LoggedAllow DEF Record
<1>5. Typed' /\ InStep' /\ Reported' /\ \A p \in Pids : proc'[p].state = "none"
    BY <1>1, <1>3, BeforeStart
       DEF MountDocker, Typed, TypeOK, Answers, NotStarted, Undecided
<1>6. Decided'
    BY <1>1, <1>4, <1>5, Settled DEF MountDocker, Decided, Forks, Undecided, Places, NotStarted
<1>7. Copied'
    BY <1>1, <1>5, Settled DEF MountDocker, Copied, Undecided
<1> QED
    BY <1>5, <1>6, <1>7

-----------------------------------------------------------------------------
(* The steps from the start of the command on.                             *)

LEMMA EnvironTypes ==
    ASSUME Typed
    PROVE  /\ ChildEnv \in SUBSET (Environ \union {"LD_PRELOAD"})
           /\ DockerNetwork \in Networks
<1>1. ChildEnv \in SUBSET (Environ \union {"LD_PRELOAD"})
    BY DEF ChildEnv, Preloaded, FilterEnv
<1>2. DockerNetwork \in Networks
    BY DEF DockerNetwork, Networks, Typed
<1> QED
    BY <1>1, <1>2

\* The first process appears.
LEMMA CommandStarts ==
    ASSUME LaunchInv, main \in {"popen", "fork"}, main' = "wait",
           UNCHANGED <<cfg, answer, audit, copy, interrupted, status>>,
           NEW state \in {"setup", "running"},
           NEW env \in SUBSET (Environ \union {"LD_PRELOAD"}), NEW network \in Networks,
           env = IF Mechanism = "docker" THEN {} ELSE ChildEnv, state = "setup" => Forks,
           proc' = Command(state, env, network)
    PROVE  LaunchInv'
<1> USE FirstPid DEF LaunchInv
<1>1. \A p \in Pids : proc[p].state = "none"
    BY DEF InStep, NotStarted
<1> DEFINE first == [NoProc EXCEPT !.state = state, !.env = env, !.network = network]
<1>2. proc' = [proc EXCEPT ![1] = first]
    BY DEF Command
<1>3. /\ first \in Processes
      /\ first.state = state /\ first.env = env /\ first.end = NoStatus /\ ~first.domain
    BY DEF NoProc, Processes, States, Ends, Filters
<1> HIDE DEF first
<1>4. Typed'
  <2>1. proc' \in [Pids -> Processes]
    BY <1>2, <1>3 DEF Typed
  <2> QED
    BY <2>1 DEF Typed, TypeOK, Processes, States, Ends, NoStatus
<1>5. /\ proc'[1] = first
      /\ \A p \in Pids \ {1} : proc'[p] = proc[p]
    BY <1>2 DEF Typed
<1>6. \A p \in Pids : ProcOK(p)'
  <2>1. ProcOK(1)'
    BY <1>3, <1>5, Settled DEF ProcOK
  <2>2. ASSUME NEW p \in Pids \ {1} PROVE ProcOK(p)'
    BY <1>5, Settled DEF InStep, ProcOK
  <2> QED
    BY <2>1, <2>2
<1>7. InStep'
    BY <1>3, <1>5, <1>6 DEF InStep, NotStarted, Undecided
<1>8. Decided'
    BY <1>3, <1>5, Settled DEF Decided, Undecided, Places, NotStarted
<1>9. Copied'
    BY <1>3, <1>5, Settled DEF Copied, Decided, Forks, Undecided
<1>10. Reported'
    BY DEF Reported
<1> QED
    BY <1>4, <1>7, <1>8, <1>9, <1>10

LEMMA PopenKeeps == ASSUME LaunchInv, Popen PROVE LaunchInv'
<1> USE FirstPid DEF LaunchInv
<1>1. main = "popen"
    BY DEF Popen
<1>2. CASE main' = "wait"
  <2>1. UNCHANGED <<cfg, answer, audit, copy, interrupted, status>>
    BY <1>2 DEF Popen, GoTo, End
  <2>2. CASE Mechanism = "docker"
    <3>1. proc' = Command("running", {}, DockerNetwork)
      BY <1>2, <2>2 DEF Popen, GoTo, End
    <3> QED
      BY <1>1, <1>2, <2>1, <2>2, <3>1, EnvironTypes, CommandStarts
  <2>3. CASE Mechanism # "docker"
    <3>1. proc' = Command("running", ChildEnv, "host")
      BY <1>2, <2>3 DEF Popen, GoTo, End
    <3>2. "host" \in Networks
      BY DEF Networks
    <3> QED
      BY <1>1, <1>2, <2>1, <2>3, <3>1, <3>2, EnvironTypes, CommandStarts
  <2> QED
    BY <2>2, <2>3
<1>3. CASE main' # "wait"
  <2>1. /\ main' = "ended" /\ status' \in {1, 125, 127} /\ proc' = proc
        /\ IF Mechanism = "docker" THEN copy' = FALSE ELSE copy' = copy
        /\ UNCHANGED <<cfg, answer, audit, interrupted>>
    BY <1>3 DEF Popen, GoTo, End
  <2>2. copy' = FALSE
    BY <1>1, <2>1 DEF Copied, Typed, TypeOK
  <2>3. /\ main \in NotStarted /\ main' \notin NotStarted
        /\ status' \in 0..255 /\ status' # 0
    BY <1>1, <2>1 DEF NotStarted, Undecided
  <2>4. answer' \in Answers /\ audit' \in Seq(Entries)
    BY <2>1 DEF Typed, TypeOK, Answers, Entries
  <2>5. Typed' /\ InStep' /\ Reported' /\ \A p \in Pids : proc'[p].state = "none"
    BY <2>1, <2>2, <2>3, <2>4, BeforeStart
  <2>6. Decided'
    BY <2>1, <2>5, Settled DEF Decided, Undecided, Places, NotStarted
  <2>7. Copied'
    BY <2>1, <2>2, Settled DEF Copied, Undecided
  <2> QED
    BY <2>5, <2>6, <2>7
<1> QED
    BY <1>2, <1>3

LEMMA ForkKeeps == ASSUME LaunchInv, Fork PROVE LaunchInv'
<1> USE DEF LaunchInv
<1>1. Mechanism # "docker"
    BY DEF Fork, Decided, Forks
<1>2. "host" \in Networks
    BY DEF Networks
<1> QED
    BY <1>1, <1>2, EnvironTypes, CommandStarts DEF Fork, GoTo, Decided

LEMMA WaitKeeps == ASSUME LaunchInv, Wait PROVE LaunchInv'
<1> USE FirstPid DEF LaunchInv
<1>1. /\ main = "wait" /\ main' = "ended" /\ copy' = FALSE
      /\ proc[1].state \in {"ended", "failed"}
      /\ status' = ExitStatus(proc[1].end)
      /\ UNCHANGED <<cfg, answer, audit, proc, interrupted>>
    BY DEF Wait, End
<1>2. /\ proc[1].end \in Ends /\ proc[1].end # NoStatus
      /\ proc[1].state = "failed" => proc[1].end # 0
    BY <1>1 DEF InStep, ProcOK, Ends, Codes, Killed, NoStatus
<1>3. /\ status' \in 0..255
      /\ proc[1].state = "failed" => status' # 0
    BY <1>1, <1>2, ExitStatusByte
<1>4. Typed'
    BY <1>1, <1>3 DEF Typed, TypeOK
<1>5. InStep'
  <2>1. \A p \in Pids : ProcOK(p)'
    BY <1>1, Settled DEF InStep, ProcOK
  <2> QED
    BY <1>1, <2>1 DEF InStep, NotStarted, Undecided
<1>6. Decided'
    BY <1>1, Settled DEF Decided, Undecided, Places, NotStarted
<1>7. Copied'
    BY <1>1, Settled DEF Copied, Undecided
<1>8. ~interrupted
    BY <1>1 DEF InStep
<1>9. status' = ExitStatus(proc[1].end)'
    BY <1>1, Settled DEF ExitStatus
<1>10. Reported'
    BY <1>1, <1>3, <1>8, <1>9 DEF Reported
<1> QED
    BY <1>4, <1>5, <1>6, <1>7, <1>10

LEMMA ConfineKeeps == ASSUME LaunchInv, Confine PROVE LaunchInv'
<1> USE FirstPid DEF LaunchInv
<1>1. /\ proc[1].state = "setup" /\ Forks /\ proc[1] \in Processes
      /\ ProcOK(1)
    BY DEF Confine, InStep, ProcOK, Typed
<1>2. PICK new \in Processes :
          /\ proc' = [proc EXCEPT ![1] = new]
          /\ new.env = proc[1].env
          /\ \/ new.state = "exec" /\ new.end = proc[1].end
             \/ new.state = "failed" /\ new.end = 1
          /\ new.domain => proc[1].domain \/ Mechanism # "seccomp"
  <2>1. CASE /\ Restrictable
             /\ proc' = [proc EXCEPT ![1] = [Restricted EXCEPT !.state = "exec"]]
    <3>1. CASE Mechanism = "seccomp"
      <4>1. Build(cfg.machine, cfg.network) \in Filters
        BY <2>1, <3>1 DEF Restrictable, Filters, Typed
      <4> DEFINE new == [[proc[1] EXCEPT !.filter = Build(cfg.machine, cfg.network)]
                            EXCEPT !.state = "exec"]
      <4>2. /\ new \in Processes /\ new.env = proc[1].env /\ new.state = "exec"
            /\ new.end = proc[1].end /\ new.domain = proc[1].domain
        BY <1>1, <4>1 DEF Processes, States
      <4>3. proc' = [proc EXCEPT ![1] = new]
        BY <2>1, <3>1 DEF Restricted
      <4> HIDE DEF new
      <4> QED
        BY <4>2, <4>3
    <3>2. CASE Mechanism # "seccomp"
      <4> DEFINE new == [[proc[1] EXCEPT !.domain = TRUE] EXCEPT !.state = "exec"]
      <4>1. /\ new \in Processes /\ new.env = proc[1].env /\ new.state = "exec"
            /\ new.end = proc[1].end
        BY <1>1 DEF Processes, States
      <4>2. proc' = [proc EXCEPT ![1] = new]
        BY <2>1, <3>2 DEF Restricted
      <4> HIDE DEF new
      <4> QED
        BY <3>2, <4>1, <4>2
    <3> QED
      BY <3>1, <3>2
  <2>2. CASE proc' = Fails(1)
    <3> DEFINE new == [[proc[1] EXCEPT !.state = "failed"] EXCEPT !.end = 1]
    <3>1. /\ new \in Processes /\ new.env = proc[1].env /\ new.state = "failed"
          /\ new.end = 1 /\ new.domain = proc[1].domain
      BY <1>1 DEF Processes, States, Ends
    <3>2. proc' = [proc EXCEPT ![1] = new]
      BY <2>2 DEF Fails, Typed
    <3> HIDE DEF new
    <3> QED
      BY <3>1, <3>2
  <2> QED
    BY <2>1, <2>2 DEF Confine
<1>3. /\ proc' \in [Pids -> Processes] /\ proc'[1] = new
      /\ \A p \in Pids \ {1} : proc'[p] = proc[p]
    BY <1>2 DEF Typed
<1>4. UNCHANGED <<cfg, main, answer, audit, copy, interrupted, status>>
    BY DEF Confine
<1>5. new.domain => Mechanism = "landlock" /\ LandlockAvailable
    BY <1>1, <1>2 DEF Forks, ProcOK, Copied
<1>6. \A p \in Pids : ProcOK(p)' /\ (proc'[p].domain => LandlockAvailable)
  <2>1. ProcOK(1)'
    BY <1>1, <1>2, <1>3, <1>4, <1>5, Settled DEF ProcOK
  <2>2. ASSUME NEW p \in Pids \ {1} PROVE ProcOK(p)'
    BY <1>3, <1>4, Settled DEF InStep, ProcOK
  <2> QED
    BY <1>3, <1>5, <2>1, <2>2 DEF Copied
<1> QED
    BY <1>1, <1>2, <1>3, <1>4, <1>6, OfProcesses

LEMMA ExecKeeps == ASSUME LaunchInv, Exec PROVE LaunchInv'
<1> USE FirstPid DEF LaunchInv
<1>1. proc[1].state = "exec" /\ proc[1] \in Processes /\ ProcOK(1)
    BY DEF Exec, InStep, Typed
<1>2. PICK new \in Processes :
          /\ proc' = [proc EXCEPT ![1] = new]
          /\ new.env = proc[1].env /\ new.domain = proc[1].domain
          /\ \/ new.state = "running" /\ new.end = proc[1].end
             \/ new.state = "failed" /\ new.end = 1
  <2>1. CASE Executable
    <3> DEFINE new == [proc[1] EXCEPT !.state = "running"]
    <3>1. /\ new \in Processes /\ new.env = proc[1].env /\ new.state = "running"
          /\ new.end = proc[1].end /\ new.domain = proc[1].domain
      BY <1>1 DEF Processes, States
    <3>2. proc' = [proc EXCEPT ![1] = new]
      BY <2>1 DEF Exec, Typed
    <3> HIDE DEF new
    <3> QED
      BY <3>1, <3>2
  <2>2. CASE ~Executable
    <3> DEFINE new == [[proc[1] EXCEPT !.state = "failed"] EXCEPT !.end = 1]
    <3>1. /\ new \in Processes /\ new.env = proc[1].env /\ new.state = "failed"
          /\ new.end = 1 /\ new.domain = proc[1].domain
      BY <1>1 DEF Processes, States, Ends
    <3>2. proc' = [proc EXCEPT ![1] = new]
      BY <2>2 DEF Exec, Fails, Typed
    <3> HIDE DEF new
    <3> QED
      BY <3>1, <3>2
  <2> QED
    BY <2>1, <2>2
<1>3. /\ proc' \in [Pids -> Processes] /\ proc'[1] = new
      /\ \A p \in Pids \ {1} : proc'[p] = proc[p]
    BY <1>2 DEF Typed
<1>4. UNCHANGED <<cfg, main, answer, audit, copy, interrupted, status>>
    BY DEF Exec
<1>5. \A p \in Pids : ProcOK(p)' /\ (proc'[p].domain => LandlockAvailable)
  <2>1. ProcOK(1)'
    BY <1>1, <1>2, <1>3, <1>4, Settled DEF ProcOK
  <2>2. ASSUME NEW p \in Pids \ {1} PROVE ProcOK(p)'
    BY <1>3, <1>4, Settled DEF InStep, ProcOK
  <2> QED
    BY <1>2, <1>3, <2>1, <2>2 DEF Copied
<1> QED
    BY <1>1, <1>2, <1>3, <1>4, <1>5, OfProcesses

LEMMA SpawnKeeps == ASSUME LaunchInv, Spawn PROVE LaunchInv'
<1> USE FirstPid DEF LaunchInv
<1>1. PICK p \in Pids, q \in Pids :
          /\ proc[p].state = "running" /\ proc[q].state = "none"
          /\ proc' = [proc EXCEPT ![q] = proc[p]]
    BY DEF Spawn
<1>2. UNCHANGED <<cfg, main, answer, audit, copy, interrupted, status>>
    BY DEF Spawn
<1>3. proc[1].state # "none" /\ q # 1
    BY <1>1 DEF InStep
<1>4. /\ proc' \in [Pids -> Processes] /\ proc'[1] = proc[1]
      /\ \A r \in Pids : proc'[r] = IF r = q THEN proc[p] ELSE proc[r]
    BY <1>1, <1>3 DEF Typed
<1>5. ASSUME NEW r \in Pids PROVE ProcOK(r)' /\ (proc'[r].domain => LandlockAvailable)
  <2>1. CASE r = q
    BY <1>2, <1>4, <2>1, Settled DEF InStep, ProcOK, Copied
  <2>2. CASE r # q
    BY <1>2, <1>4, <2>2, Settled DEF InStep, ProcOK, Copied
  <2> QED
    BY <2>1, <2>2
<1> QED
    BY <1>2, <1>3, <1>4, <1>5, OfProcesses

LEMMA ProgramEndsKeeps == ASSUME LaunchInv, ProgramEnds PROVE LaunchInv'
<1> USE FirstPid DEF LaunchInv
<1>1. PICK p \in Pids, code \in Codes \union {Killed, 137} :
          proc[p].state = "running" /\ proc' = Ended(p, code)
    BY DEF ProgramEnds
<1>2. UNCHANGED <<cfg, main, answer, audit, copy, interrupted, status>>
    BY DEF ProgramEnds
<1>3. proc[1].state # "none"
    BY <1>1 DEF InStep
<1> DEFINE ended(q) == [[proc[q] EXCEPT !.state = "ended"] EXCEPT !.end = code]
<1>4. ASSUME NEW q \in Pids
      PROVE  /\ ended(q) \in Processes /\ ended(q).env = proc[q].env
             /\ ended(q).state = "ended" /\ ended(q).end = code
             /\ ended(q).domain = proc[q].domain
  <2>1. proc[q] \in Processes /\ code \in Ends
    BY DEF Typed, Ends
  <2> QED
    BY <2>1 DEF Processes, States
<1>5. ASSUME NEW q \in Pids
      PROVE  \/ proc'[q] = proc[q]
             \/ proc[q].state = "running" /\ proc'[q] = ended(q)
    BY <1>1 DEF Ended
<1>6. proc' \in [Pids -> Processes]
  <2>1. proc' = [q \in Pids |-> proc'[q]]
    BY <1>1 DEF Ended
  <2>2. \A q \in Pids : proc'[q] \in Processes
    BY <1>4, <1>5 DEF Typed
  <2> QED
    BY <2>1, <2>2
<1> HIDE DEF ended
<1>7. ASSUME NEW q \in Pids PROVE ProcOK(q)' /\ (proc'[q].domain => LandlockAvailable)
  <2>1. CASE proc'[q] = proc[q]
    BY <1>2, <2>1, Settled DEF InStep, ProcOK, Copied
  <2>2. CASE proc[q].state = "running" /\ proc'[q] = ended(q)
    BY <1>2, <1>4, <2>2, Settled DEF InStep, ProcOK, Copied
  <2> QED
    BY <1>5, <2>1, <2>2
<1> QED
    BY <1>2, <1>3, <1>4, <1>5, <1>6, <1>7, OfProcesses

LEMMA InterruptKeeps == ASSUME LaunchInv, Interrupt PROVE LaunchInv'
<1> USE FirstPid DEF LaunchInv
<1>1. /\ main' = "ended" /\ status' \in {1, 130} /\ interrupted' = TRUE /\ copy' = FALSE
      /\ UNCHANGED <<cfg, answer, audit>>
    BY DEF Interrupt, End
<1>2. PICK hit \in SUBSET {p \in Pids : proc[p].state \in {"setup", "exec", "running"}} :
          proc' = [p \in Pids |->
                IF p \notin hit THEN proc[p]
                ELSE IF proc[p].state = "running"
                     THEN [proc[p] EXCEPT !.state = "ended", !.end = Killed]
                     ELSE [proc[p] EXCEPT !.state = "failed", !.end = 1]]
    BY DEF Interrupt
<1> DEFINE killed(p) == [[proc[p] EXCEPT !.state = "ended"] EXCEPT !.end = Killed]
           failed(p) == [[proc[p] EXCEPT !.state = "failed"] EXCEPT !.end = 1]
<1>3. ASSUME NEW p \in Pids
      PROVE  \/ proc'[p] = proc[p]
             \/ proc[p].state # "none" /\ proc'[p] \in {killed(p), failed(p)}
    BY <1>2
<1>4. ASSUME NEW p \in Pids
      PROVE  /\ killed(p) \in Processes /\ failed(p) \in Processes
             /\ killed(p).env = proc[p].env /\ failed(p).env = proc[p].env
             /\ killed(p).domain = proc[p].domain /\ failed(p).domain = proc[p].domain
             /\ killed(p).state = "ended" /\ failed(p).state = "failed"
             /\ killed(p).end = Killed /\ failed(p).end = 1
  <2>1. proc[p] \in Processes
    BY DEF Typed
  <2> QED
    BY <2>1 DEF Processes, States, Ends
<1>5. proc' \in [Pids -> Processes]
  <2>1. proc' = [p \in Pids |-> proc'[p]]
    BY <1>2
  <2>2. \A p \in Pids : proc'[p] \in Processes
    BY <1>3, <1>4 DEF Typed
  <2> QED
    BY <2>1, <2>2
<1> HIDE DEF killed, failed
<1>6. ASSUME NEW p \in Pids
      PROVE  /\ ProcOK(p)' /\ (proc'[p].domain => LandlockAvailable)
             /\ proc'[p].state = "none" <=> proc[p].state = "none"
  <2>1. CASE proc'[p] = proc[p]
    BY <1>1, <2>1, Settled DEF InStep, ProcOK, Copied
  <2>2. CASE proc[p].state # "none" /\ proc'[p] = killed(p)
    BY <1>1, <1>4, <2>2, Settled DEF InStep, ProcOK, Copied
  <2>3. CASE proc[p].state # "none" /\ proc'[p] = failed(p)
    BY <1>1, <1>4, <2>3, Settled DEF InStep, ProcOK, Copied
  <2> QED
    BY <1>3, <2>1, <2>2, <2>3
<1>7. Typed'
  <2>1. main' = "ended" /\ status' \in 0..255
    BY <1>1
  <2>2. \A p \in Pids :
           /\ proc'[p].state \in States /\ proc'[p].end \in Ends
           /\ proc'[p].domain \in BOOLEAN
           /\ proc'[p].env \subseteq Environ \union {"LD_PRELOAD"}
    BY <1>5 DEF Processes
  <2>3. cfg' \in Configs
    BY <1>1 DEF Typed
  <2>4. copy' \in BOOLEAN /\ interrupted' \in BOOLEAN
    BY <1>1, Zenon
  <2> QED
    BY <1>1, <1>5, <2>1, <2>2, <2>3, <2>4 DEF Typed, TypeOK, States, Ends
<1>8. InStep'
    BY <1>1, <1>6 DEF InStep, NotStarted, Undecided
<1>9. Decided'
    BY <1>1, <1>6, Settled DEF Decided, Undecided, Places, NotStarted
<1>10. Copied'
    BY <1>1, <1>6, Settled DEF Copied, Undecided
<1>11. Reported'
    BY <1>1 DEF Reported
<1> QED
    BY <1>7, <1>8, <1>9, <1>10, <1>11

-----------------------------------------------------------------------------
(* The invariant, and the properties that follow from it.                  *)

LEMMA LaunchInvInit == Init => LaunchInv
<1> SUFFICES ASSUME Init PROVE LaunchInv
    OBVIOUS
<1> USE FirstPid
<1>1. /\ cfg \in Configs /\ main = "start" /\ answer = "none" /\ audit = <<>> /\ ~copy
      /\ copy \in BOOLEAN /\ interrupted = FALSE /\ status = NoStatus
    BY DEF Init
<1>2. NoProc \in Processes /\ NoProc.state = "none" /\ NoProc.end = NoStatus /\ ~NoProc.domain
    BY DEF NoProc, Processes, States, Ends, Filters, Networks
<1>3. /\ proc \in [Pids -> Processes]
      /\ \A p \in Pids : proc[p] = NoProc
    BY <1>2 DEF Init
<1>4. Typed
  <2>1. audit \in Seq(Entries)
    BY <1>1
  <2>2. \A p \in Pids :
           /\ proc[p].state \in States /\ proc[p].end \in Ends
           /\ proc[p].domain \in BOOLEAN
           /\ proc[p].env \subseteq Environ \union {"LD_PRELOAD"}
    BY <1>3 DEF Processes
  <2> QED
    BY <1>1, <1>3, <2>1, <2>2 DEF Typed, TypeOK, Entries, States, Ends
<1>5. InStep
    BY <1>1, <1>2, <1>3 DEF InStep, ProcOK
<1>6. Decided
    BY <1>1, <1>2, <1>3 DEF Decided, Places, NotStarted, Undecided
<1>7. Copied /\ Reported
    BY <1>1, <1>2, <1>3 DEF Copied, Reported
<1> QED
    BY <1>4, <1>5, <1>6, <1>7 DEF LaunchInv

LEMMA LaunchInvNext == LaunchInv /\ [Next]_vars => LaunchInv'
<1> SUFFICES ASSUME LaunchInv, [Next]_vars PROVE LaunchInv'
    OBVIOUS
<1>1. CASE Launch
    BY <1>1, StartKeeps, ChooseBackendKeeps, DecideHostKeeps, DecideSeccompKeeps,
       DecideLandlockKeeps, DecideDockerKeeps, MountDockerKeeps, PopenKeeps, ForkKeeps,
       WaitKeeps DEF Launch, Decide
<1>2. CASE Prompt
    BY <1>2, PromptKeeps
<1>3. CASE Child
    BY <1>3, ConfineKeeps, ExecKeeps DEF Child
<1>4. CASE Spawn
    BY <1>4, SpawnKeeps
<1>5. CASE ProgramEnds
    BY <1>5, ProgramEndsKeeps
<1>6. CASE Interrupt
    BY <1>6, InterruptKeeps
<1>7. CASE UNCHANGED vars
  <2>1. UNCHANGED <<cfg, main, answer, audit, copy, proc, interrupted, status>>
    BY <1>7 DEF vars
  <2>2. Typed'
    BY <2>1 DEF LaunchInv, Typed, TypeOK
  <2>3. InStep'
    BY <2>1, Settled DEF LaunchInv, InStep, ProcOK
  <2>4. Decided' /\ Copied'
    BY <2>1, Settled DEF LaunchInv, Decided, Copied
  <2>5. Reported'
    BY <2>1, Settled DEF LaunchInv, Reported, ExitStatus
  <2> QED
    BY <2>2, <2>3, <2>4, <2>5 DEF LaunchInv
<1> QED
    BY <1>1, <1>2, <1>3, <1>4, <1>5, <1>6, <1>7 DEF Next

\* The launcher's invariant holds, whatever it is started with.
THEOREM Invariance == Spec => []LaunchInv
<1> QED
    BY LaunchInvInit, LaunchInvNext, PTL DEF Spec

\* The types of the launcher and its processes, and an exit status of a byte
\* exactly when it has ended, for any configurations, any environment, any
\* number of processes and any faults.
THEOREM TypeCorrect == Spec => []TypeOK
<1>1. LaunchInv => TypeOK
    BY DEF LaunchInv, Typed
<1> QED
    BY <1>1, Invariance, PTL

\* Nothing is started that neither the policy allows nor the user approved,
\* and where there is a log its allow is in it.
THEOREM OnlyAllowedStarts == Spec => []StartedIsAllowed
<1>1. LaunchInv => StartedIsAllowed
    BY DEF LaunchInv, Decided, StartedIsAllowed, Started, Decision
<1> QED
    BY <1>1, Invariance, PTL

\* No process of the command, however many there are, has a variable the
\* policy keeps from it.
THEOREM EnvironmentFiltered == Spec => []EnvFiltered
<1>1. LaunchInv => EnvFiltered
  <2> SUFFICES ASSUME LaunchInv, NEW p \in Pids, Started(p)
               PROVE  /\ proc[p].env \intersect cfg.strippedEnv = {}
                      /\ cfg.allowedEnv # {} => proc[p].env \subseteq cfg.allowedEnv
                      /\ WantsShim /\ "LD_PRELOAD" \notin cfg.strippedEnv
                         /\ cfg.allowedEnv = {} => "LD_PRELOAD" \in proc[p].env
    BY DEF EnvFiltered
  <2>1. proc[p].env = IF Mechanism = "docker" THEN {} ELSE ChildEnv
    BY DEF LaunchInv, InStep, ProcOK, Started
  <2>2. Mechanism = "docker" => ~WantsShim
    <3> SUFFICES ASSUME Mechanism = "docker" PROVE ~WantsShim
      OBVIOUS
    <3>1. Backend = "docker"
      BY DEF Mechanism
    <3>2. proc[1].state # "none"
      BY DEF LaunchInv, InStep, Started
    <3>3. ~Refused /\ cfg \in Configs
      BY <3>2 DEF LaunchInv, Decided, Typed
    <3>4. ~cfg.preload
      BY <3>1, <3>3, ConfigsAssumption DEF Refused
    <3> QED
      BY <3>1, <3>4 DEF WantsShim
  <2> QED
    BY <2>1, <2>2 DEF ChildEnv, Preloaded, FilterEnv
<1> QED
    BY <1>1, Invariance, PTL

\* The exit status of the launcher tells how the command ended.
THEOREM ExitStatusTells == Spec => []ExitTells
<1>1. LaunchInv => ExitTells
  <2> SUFFICES ASSUME LaunchInv, main = "ended"
               PROVE  /\ status = 0 => proc[1].state = "ended" /\ proc[1].end = 0
                      /\ ~interrupted => ~(proc[1].state \in {"setup", "exec", "running"})
                      /\ ~interrupted /\ proc[1].state = "ended" =>
                            IF proc[1].end >= 0 THEN status = proc[1].end ELSE status > 128
    BY DEF ExitTells
  <2>1. ~interrupted => proc[1].state \in {"none", "ended", "failed"}
    BY DEF LaunchInv, InStep
  <2>2. interrupted \/ proc[1].state \in {"none", "failed"} => status # 0
    BY DEF LaunchInv, Reported
  <2>3. ASSUME ~interrupted, proc[1].state = "ended"
        PROVE  /\ status = ExitStatus(proc[1].end)
               /\ proc[1].end \in Ends /\ proc[1].end # NoStatus
    BY <2>3, FirstPid DEF LaunchInv, Reported, InStep, ProcOK, Ends, Codes, Killed, NoStatus
  <2>4. ~interrupted /\ proc[1].state = "ended" =>
           IF proc[1].end >= 0 THEN status = proc[1].end ELSE status > 128
    BY <2>3, ExitStatusByte DEF Ends, Codes, Killed, NoStatus
  <2>5. status = 0 => proc[1].state = "ended" /\ proc[1].end = 0
    BY <2>1, <2>2, <2>3, ExitStatusByte
  <2> QED
    BY <2>1, <2>4, <2>5
<1> QED
    BY <1>1, Invariance, PTL

\* The filtered copy lives as long as the command that works in it, and not
\* longer than the launcher.
THEOREM CopyLifetime == Spec => []CopyLives
<1>1. LaunchInv => CopyLives
  <2> SUFFICES ASSUME LaunchInv PROVE CopyLives
    OBVIOUS
  <2>1. ~interrupted /\ proc[1].state = "running" => main = "wait"
    BY FirstPid DEF LaunchInv, Typed, TypeOK, InStep, NotStarted, Undecided
  <2>2. /\ main = "wait" /\ Mechanism = "docker" => copy \/ cfg.unsafe
        /\ main = "wait" /\ proc[1].domain => copy
        /\ main = "ended" => ~copy
    BY FirstPid DEF LaunchInv, Copied, CopiedForDocker, InStep, ProcOK
  <2> QED
    BY <2>1, <2>2 DEF CopyLives
<1> QED
    BY <1>1, Invariance, PTL

-----------------------------------------------------------------------------
(* What the kernel's run of a filter gives.                                *)

NatLess == {ss \in Nat \X Nat : ss[1] < ss[2]}

LEMMA NatLessWF == IsWellFoundedOn(NatLess, Nat)
  BY NatLessThanWellFounded DEF OpToRel, NatLess

\* A set of natural numbers that is not empty has a least element.
LEMMA LeastNat ==
  ASSUME NEW S, S \subseteq Nat, S # {}
  PROVE  \E n \in S : \A m \in S : n <= m
<1>1. PICK x \in S : \A y \in S : ~ (<<y, x>> \in NatLess)
  BY NatLessWF, WFMin
<1>2. ASSUME NEW y \in S PROVE x <= y
  <2>1. x \in Nat /\ y \in Nat
    OBVIOUS
  <2>2. ~ (<<y, x>> \in NatLess)
    BY <1>1
  <2> QED
    BY <2>1, <2>2 DEF NatLess
<1> QED
  BY <1>2

\* run is what the program does from each instruction on, those before first
\* left out.
Runs(run, first, program, nr, arg0) ==
    run = [pc \in first..Len(program) |-> From(program, nr, arg0, pc, run)]

\* No jump leaves the program, and no load is at its end.
Closing(program) ==
    /\ Len(program) \in Nat
    /\ \A i \in 1..Len(program) :
          /\ program[i].op \in {"ret", "ld", "jeq"}
          /\ program[i].op = "ld" => i + 1 \in 1..Len(program)
          /\ program[i].op = "jeq" => /\ program[i].jt \in Nat
                                      /\ i + 1 + program[i].jt \in 1..Len(program)

\* What happens from pc on depends on later instructions only.
LEMMA FromLater ==
  ASSUME NEW program, Closing(program), NEW nr, NEW arg0, NEW pc \in 1..Len(program),
         NEW f, NEW g, \A k \in (pc + 1)..Len(program) : f[k] = g[k]
  PROVE  From(program, nr, arg0, pc, f) = From(program, nr, arg0, pc, g)
<1> DEFINE ins == program[pc]
           n == Len(program)
<1>1. /\ ins.op = "ld" => pc + 1 \in (pc + 1)..n
      /\ ins.op = "jeq" => /\ pc + 1 + ins.jt \in (pc + 1)..n
                           /\ pc + 1 + 0 \in (pc + 1)..n
  BY DEF Closing
<1>2. ins.op = "jeq" => \A acc :
         f[pc + 1 + (IF acc = ins.k THEN ins.jt ELSE 0)]
           = g[pc + 1 + (IF acc = ins.k THEN ins.jt ELSE 0)]
  BY <1>1
<1>3. ins.op = "ld" => f[pc + 1] = g[pc + 1]
  BY <1>1
<1>4. ins.op \in {"ret", "ld", "jeq"}
  BY DEF Closing
<1>5. CASE ins.op = "ret"
  BY <1>5 DEF From
<1>6. CASE ins.op = "ld"
  BY <1>3, <1>6 DEF From
<1>7. CASE ins.op = "jeq"
  BY <1>2, <1>7 DEF From
<1> QED
  BY <1>4, <1>5, <1>6, <1>7

LEMMA RunExists ==
  ASSUME NEW program, Closing(program), NEW nr, NEW arg0
  PROVE  \E run : Runs(run, 1, program, nr, arg0)
<1> DEFINE n == Len(program)
           Bad == {k \in 0..n : ~\E run : Runs(run, n - k + 1, program, nr, arg0)}
<1>0. n \in Nat
  BY DEF Closing
<1>a. SUFFICES ASSUME Bad # {} PROVE FALSE
  <2>1. n \in 0..n /\ n - n + 1 = 1
    BY <1>0
  <2>2. n \notin Bad
    BY <1>a
  <2> HIDE DEF n
  <2> QED
    BY <2>1, <2>2
<1>1. PICK m \in Bad : \A k \in Bad : m <= k
  <2>1. Bad \subseteq Nat
    BY <1>0
  <2> HIDE DEF Bad
  <2> QED
    BY <1>a, <2>1, LeastNat
<1>2. m \in 0..n /\ ~\E run : Runs(run, n - m + 1, program, nr, arg0)
  OBVIOUS
<1>3. m # 0
  <2>1. Runs([pc \in {} |-> 0], n + 1, program, nr, arg0)
    <3>1. (n + 1)..n = {}
      BY <1>0
    <3> QED
      BY <3>1 DEF Runs
  <2>2. m = 0 => n - m + 1 = n + 1
    BY <1>0
  <2> HIDE DEF n
  <2> QED
    BY <1>2, <2>1, <2>2
<1> DEFINE at == n - m + 1
<1>4. at \in 1..n /\ m - 1 \in 0..n /\ ~(m <= m - 1) /\ n - (m - 1) + 1 = at + 1
  BY <1>0, <1>2, <1>3
<1>5. PICK g : Runs(g, at + 1, program, nr, arg0)
  BY <1>1, <1>4
<1> HIDE DEF Bad, n, at
<1> DEFINE f == [pc \in at..n |-> IF pc = at THEN From(program, nr, arg0, at, g) ELSE g[pc]]
<1>6. Runs(f, at, program, nr, arg0)
  <2>1. ASSUME NEW pc \in at..n PROVE f[pc] = From(program, nr, arg0, pc, f)
    <3>1. pc \in 1..n /\ \A k \in (pc + 1)..n : k \in at..n /\ k # at
      BY <1>0, <1>4
    <3>2. \A k \in (pc + 1)..Len(program) : f[k] = g[k]
      BY <3>1 DEF n
    <3>3. From(program, nr, arg0, pc, f) = From(program, nr, arg0, pc, g)
      <4> HIDE DEF f
      <4> QED
        BY <3>1, <3>2, FromLater DEF n
    <3>4. pc # at => pc \in (at + 1)..n
      BY <1>0, <1>4
    <3>5. pc # at => g[pc] = From(program, nr, arg0, pc, g)
      BY <1>5, <3>4 DEF Runs, n
    <3> QED
      BY <3>3, <3>5
  <2>2. f = [pc \in at..n |-> f[pc]]
    OBVIOUS
  <2> HIDE DEF f
  <2>3. f = [pc \in at..n |-> From(program, nr, arg0, pc, f)]
    BY <2>1, <2>2
  <2> QED
    BY <2>3 DEF Runs, n
<1> QED
  BY <1>2, <1>6 DEF at

\* The verdict is that of a run.
LEMMA VerdictRuns ==
  ASSUME NEW program, Closing(program), NEW nr, NEW arg0
  PROVE  \E run : /\ Verdict(program, nr, arg0) = run[1][0]
                  /\ \A pc \in 1..Len(program) : run[pc] = From(program, nr, arg0, pc, run)
<1> DEFINE run == CHOOSE run : Runs(run, 1, program, nr, arg0)
<1>1. Verdict(program, nr, arg0) = run[1][0]
  BY DEF Verdict, Runs
<1>2. Runs(run, 1, program, nr, arg0)
  BY RunExists
<1> HIDE DEF run
<1>3. \A pc \in 1..Len(program) : run[pc] = From(program, nr, arg0, pc, run)
  BY <1>2 DEF Runs
<1> QED
  BY <1>1, <1>3

-----------------------------------------------------------------------------
(* The program build() makes.                                              *)

Linear(a, b, c, d) == << Ld("nr"), Jeq(a, 4), Jeq(b, 3), Jeq(c, 2), Jeq(d, 1),
                         Ret("ALLOW"), Ret("EPERM") >>

LEMMA LinearIs ==
  ASSUME NEW a, NEW b, NEW c, NEW d
  PROVE  LinearBlockFilter(<<a, b, c, d>>) = Linear(a, b, c, d)
<1> DEFINE nrs == <<a, b, c, d>>
           tests == [i \in 1..4 |-> Jeq(nrs[i], 4 - i + 1)]
<1>1. LinearBlockFilter(nrs) = <<Ld("nr")>> \o tests \o <<Ret("ALLOW"), Ret("EPERM")>>
  BY DEF LinearBlockFilter
<1>2. tests = <<Jeq(a, 4), Jeq(b, 3), Jeq(c, 2), Jeq(d, 1)>>
  OBVIOUS
<1> HIDE DEF tests
<1> QED
  BY <1>1, <1>2 DEF Linear

\* Whatever stands behind them, the first seven instructions close on
\* themselves.
LEMMA LinearRuns ==
  ASSUME NEW a, NEW b, NEW c, NEW d, NEW program, Closing(program),
         Len(program) >= 7, \A i \in 1..7 : program[i] = Linear(a, b, c, d)[i],
         NEW nr, NEW arg0
  PROVE  (Verdict(program, nr, arg0) = "EPERM") = (nr \in {a, b, c, d})
<1> DEFINE n == Len(program)
<1>1. PICK run : /\ Verdict(program, nr, arg0) = run[1][0]
                 /\ \A pc \in 1..n : run[pc] = From(program, nr, arg0, pc, run)
  BY VerdictRuns
<1>2. n \in Nat /\ \A i \in 1..7 : i \in 1..n
  BY DEF Closing
<1> HIDE DEF n
<1>3. /\ program[1] = Ld("nr") /\ program[2] = Jeq(a, 4) /\ program[3] = Jeq(b, 3)
      /\ program[4] = Jeq(c, 2) /\ program[5] = Jeq(d, 1)
      /\ program[6] = Ret("ALLOW") /\ program[7] = Ret("EPERM")
  BY DEF Linear
<1>4. run[7][nr] = "EPERM" /\ run[6][nr] = "ALLOW"
  <2>1. run[7] = From(program, nr, arg0, 7, run) /\ run[6] = From(program, nr, arg0, 6, run)
    BY <1>1, <1>2
  <2> QED
    BY <1>3, <2>1 DEF From, Ret
<1>5. ASSUME NEW i \in 2..5, NEW k, NEW jt, program[i] = Jeq(k, jt), i + 1 + jt = 7
      PROVE  run[i][nr] = IF nr = k THEN "EPERM" ELSE run[i + 1][nr]
  <2>1. run[i] = From(program, nr, arg0, i, run)
    BY <1>1, <1>2
  <2>2. program[i].op = "jeq" /\ program[i].k = k /\ program[i].jt = jt
    BY <1>5 DEF Jeq
  <2>3. run[i][nr] = run[i + 1 + (IF nr = k THEN jt ELSE 0)][nr]
    BY <2>1, <2>2 DEF From
  <2> QED
    BY <1>4, <1>5, <2>3
<1>6. /\ run[2][nr] = IF nr = a THEN "EPERM" ELSE run[3][nr]
      /\ run[3][nr] = IF nr = b THEN "EPERM" ELSE run[4][nr]
      /\ run[4][nr] = IF nr = c THEN "EPERM" ELSE run[5][nr]
      /\ run[5][nr] = IF nr = d THEN "EPERM" ELSE run[6][nr]
  BY <1>3, <1>5
<1>7. run[1][0] = run[2][nr]
  <2>1. run[1] = From(program, nr, arg0, 1, run)
    BY <1>1, <1>2
  <2>2. program[1].op = "ld" /\ program[1].k = "nr"
    BY <1>3 DEF Ld
  <2> QED
    BY <2>1, <2>2 DEF From
<1> QED
  BY <1>1, <1>4, <1>6, <1>7

LEMMA SevenAndNine ==
  ASSUME NEW a1, NEW a2, NEW a3, NEW a4, NEW a5, NEW a6, NEW a7,
         NEW b1, NEW b2, NEW b3, NEW b4, NEW b5, NEW b6, NEW b7, NEW b8, NEW b9
  PROVE  <<a1, a2, a3, a4, a5, a6, a7>> \o <<b1, b2, b3, b4, b5, b6, b7, b8, b9>>
           = <<a1, a2, a3, a4, a5, a6, a7, b1, b2, b3, b4, b5, b6, b7, b8, b9>>
<1> DEFINE S == {a1, a2, a3, a4, a5, a6, a7, b1, b2, b3, b4, b5, b6, b7, b8, b9}
           a == <<a1, a2, a3, a4, a5, a6, a7>>
           b == <<b1, b2, b3, b4, b5, b6, b7, b8, b9>>
           c == <<a1, a2, a3, a4, a5, a6, a7, b1, b2, b3, b4, b5, b6, b7, b8, b9>>
<1>1. a \in Seq(S) /\ Len(a) = 7 /\ b \in Seq(S) /\ Len(b) = 9
  OBVIOUS
<1>2. c \in Seq(S) /\ Len(c) = 16
  OBVIOUS
<1>3. /\ \A i \in 1..7 : c[i] = a[i]
      /\ \A i \in 8..16 : c[i] = b[i - 7]
  OBVIOUS
<1> HIDE DEF S, a, b, c
<1>4. /\ a \o b \in Seq(S) /\ Len(a \o b) = 16
      /\ \A i \in 1..16 : (a \o b)[i] = IF i <= 7 THEN a[i] ELSE b[i - 7]
  <2>1. /\ a \o b \in Seq(S) /\ Len(a \o b) = Len(a) + Len(b)
        /\ \A i \in 1..Len(a) + Len(b) :
              (a \o b)[i] = IF i <= Len(a) THEN a[i] ELSE b[i - Len(a)]
    BY <1>1, ConcatProperties
  <2>2. Len(a) + Len(b) = 16
    BY <1>1
  <2> QED
    BY <1>1, <2>1, <2>2
<1>5. ASSUME NEW i \in 1..16 PROVE (a \o b)[i] = c[i]
  <2>1. (i \in 1..7 /\ i <= 7) \/ (i \in 8..16 /\ ~(i <= 7))
    OBVIOUS
  <2>2. (a \o b)[i] = IF i <= 7 THEN a[i] ELSE b[i - 7]
    BY <1>4
  <2>3. CASE i \in 1..7 /\ i <= 7
    <3>1. c[i] = a[i]
      BY <1>3, <2>3
    <3> QED
      BY <2>2, <2>3, <3>1
  <2>4. CASE i \in 8..16 /\ ~(i <= 7)
    <3>1. c[i] = b[i - 7]
      BY <1>3, <2>4
    <3> QED
      BY <2>2, <2>4, <3>1
  <2> QED
    BY <2>1, <2>3, <2>4
<1>6. a \o b = c
  BY <1>2, <1>4, <1>5, SeqEqual
<1> QED
  BY <1>6 DEF a, b, c

LEMMA BuiltRuns ==
  ASSUME NEW machine \in Machines, NEW network, NEW nr, NEW arg0
  PROVE  LET calls == SyscallNr[machine]
         IN  (Verdict(Build(machine, network), nr, arg0) = "EPERM")
               = (nr \in {calls.ptrace, calls.kexec_load, calls.reboot, calls.mount})
<1> DEFINE calls == SyscallNr[machine]
           first == Linear(calls.ptrace, calls.kexec_load, calls.reboot, calls.mount)
           second == SocketFamilyBlockFilter(calls.socket)
           program == Build(machine, network)
<1>1. program = first \o <<>> \/ program = first \o second
  BY LinearIs DEF Build
<1> HIDE DEF program, calls
<1>2. /\ Len(program) >= 7 /\ Closing(program)
      /\ \A i \in 1..7 : program[i] = first[i]
  <2>1. CASE program = first \o <<>>
    <3>1. program = first
      BY <2>1 DEF Linear
    <3>2. Len(first) = 7
      BY DEF Linear
    <3>3. \A i \in 1..7 :
             /\ first[i].op \in {"ret", "ld", "jeq"}
             /\ first[i].op = "ld" => i + 1 \in 1..7
             /\ first[i].op = "jeq" => first[i].jt \in Nat /\ i + 1 + first[i].jt \in 1..7
      BY DEF Linear, Ld, Jeq, Ret
    <3> HIDE DEF first
    <3> QED
      BY <3>1, <3>2, <3>3 DEF Closing
  <2>2. CASE program = first \o second
    <3>1. program = << first[1], first[2], first[3], first[4], first[5], first[6], first[7],
                       second[1], second[2], second[3], second[4], second[5], second[6],
                       second[7], second[8], second[9] >>
      BY <2>2, SevenAndNine DEF Linear, SocketFamilyBlockFilter
    <3>2. Len(program) = 16
      BY <3>1
    <3>3. \A i \in 1..7 : program[i] = first[i]
      BY <3>1
    <3>4. \A i \in 1..16 :
             /\ program[i].op \in {"ret", "ld", "jeq"}
             /\ program[i].op = "ld" => i + 1 \in 1..16
             /\ program[i].op = "jeq" => program[i].jt \in Nat /\ i + 1 + program[i].jt \in 1..16
      BY <3>1 DEF Linear, SocketFamilyBlockFilter, Ld, Jeq, Ret
    <3> HIDE DEF first, second
    <3> QED
      BY <3>2, <3>3, <3>4 DEF Closing
  <2> QED
    BY <1>1, <2>1, <2>2
<1> HIDE DEF first
<1> QED
  BY <1>2, LinearRuns DEF first, program, calls

-----------------------------------------------------------------------------
(* Restrictions.                                                           *)

\* What a process that is past its setup lives under.
Restrained(p) ==
    proc[p].state \in {"exec", "running", "ended"} =>
        /\ Mechanism = "seccomp" =>
              cfg.machine \in Machines /\ proc[p].filter = Build(cfg.machine, cfg.network)
        /\ Mechanism = "landlock" => proc[p].domain \/ (cfg.weak /\ ~LandlockAvailable)
        /\ Mechanism = "docker" => proc[p].network = DockerNetwork

RestrainedInv ==
    /\ main = "popen" /\ Mechanism = "landlock" => cfg.weak
    /\ \A p \in Pids : Restrained(p)

\* A process goes on under what it, or the one that started it, lived under.
LEMMA GoesOnRestrained ==
    ASSUME RestrainedInv, cfg' = cfg,
           main' = "popen" => main = "popen",
           \A p \in Pids : proc'[p].state \in {"exec", "running", "ended"} =>
              \E q \in Pids : /\ proc[q].state \in {"exec", "running", "ended"}
                              /\ proc'[p].filter = proc[q].filter
                              /\ proc'[p].domain = proc[q].domain
                              /\ proc'[p].network = proc[q].network
    PROVE  RestrainedInv'
<1>1. Mechanism' = Mechanism /\ LandlockAvailable' = LandlockAvailable
    BY Settled
<1>2. DockerNetwork' = DockerNetwork
    BY DEF DockerNetwork
<1> QED
    BY <1>1, <1>2 DEF RestrainedInv, Restrained

\* Up to the start there is no process.
LEMMA NoneRestrained ==
    ASSUME LaunchInv, RestrainedInv, main \in NotStarted, cfg' = cfg, proc' = proc,
           main' = "popen" /\ Mechanism = "landlock" => cfg.weak
    PROVE  RestrainedInv'
<1>1. \A p \in Pids : proc'[p].state = "none"
    BY DEF LaunchInv, InStep
<1>2. Mechanism' = Mechanism
    BY Settled
<1> QED
    BY <1>1, <1>2 DEF RestrainedInv, Restrained

LEMMA FirstRestrained ==
    ASSUME LaunchInv, RestrainedInv, main \in NotStarted, cfg' = cfg, main' = "wait",
           NEW state, NEW env, NEW network, proc' = Command(state, env, network),
           state = "setup" \/ (/\ Mechanism # "seccomp"
                               /\ Mechanism = "landlock" => cfg.weak /\ ~LandlockAvailable
                               /\ Mechanism = "docker" => network = DockerNetwork)
    PROVE  RestrainedInv'
<1> DEFINE first == [NoProc EXCEPT !.state = state, !.env = env, !.network = network]
<1>1. first.state = state /\ first.network = network
    BY DEF NoProc
<1>2. proc' = [proc EXCEPT ![1] = first]
    BY DEF Command
<1> HIDE DEF first
<1>3. /\ proc'[1] = first
      /\ \A p \in Pids \ {1} : proc'[p].state = "none"
    BY <1>2, FirstPid DEF LaunchInv, Typed, InStep
<1>4. Mechanism' = Mechanism /\ LandlockAvailable' = LandlockAvailable
    BY Settled
<1>5. DockerNetwork' = DockerNetwork
    BY DEF DockerNetwork
<1>6. Restrained(1)'
    BY <1>1, <1>3, <1>4, <1>5 DEF Restrained
<1>7. \A p \in Pids \ {1} : Restrained(p)'
    BY <1>3 DEF Restrained
<1> QED
    BY <1>6, <1>7 DEF RestrainedInv

\* The child restricts itself before it may go on.
LEMMA ConfineRestrains == ASSUME LaunchInv, RestrainedInv, Confine PROVE RestrainedInv'
<1> USE FirstPid
<1>1. /\ proc[1].state = "setup" /\ Forks /\ proc[1] \in Processes
      /\ proc \in [Pids -> Processes] /\ UNCHANGED <<cfg, main>>
    BY DEF Confine, LaunchInv, InStep, ProcOK, Typed
<1>2. PICK new : /\ proc' = [proc EXCEPT ![1] = new]
                 /\ \/ new.state = "failed"
                    \/ /\ Mechanism = "seccomp" => cfg.machine \in Machines
                                      /\ new.filter = Build(cfg.machine, cfg.network)
                       /\ Mechanism # "seccomp" => new.domain
  <2>1. CASE /\ Restrictable
             /\ proc' = [proc EXCEPT ![1] = [Restricted EXCEPT !.state = "exec"]]
    <3>1. CASE Mechanism = "seccomp"
      <4> DEFINE new == [[proc[1] EXCEPT !.filter = Build(cfg.machine, cfg.network)]
                            EXCEPT !.state = "exec"]
      <4>1. new.filter = Build(cfg.machine, cfg.network)
        BY <1>1 DEF Processes
      <4>2. proc' = [proc EXCEPT ![1] = new] /\ cfg.machine \in Machines
        BY <2>1, <3>1 DEF Restricted, Restrictable
      <4> HIDE DEF new
      <4> QED
        BY <3>1, <4>1, <4>2
    <3>2. CASE Mechanism # "seccomp"
      <4> DEFINE new == [[proc[1] EXCEPT !.domain = TRUE] EXCEPT !.state = "exec"]
      <4>1. new.domain
        BY <1>1 DEF Processes
      <4>2. proc' = [proc EXCEPT ![1] = new]
        BY <2>1, <3>2 DEF Restricted
      <4> HIDE DEF new
      <4> QED
        BY <3>2, <4>1, <4>2
    <3> QED
      BY <3>1, <3>2
  <2>2. CASE proc' = Fails(1)
    <3> DEFINE new == [[proc[1] EXCEPT !.state = "failed"] EXCEPT !.end = 1]
    <3>1. new.state = "failed"
      BY <1>1 DEF Processes
    <3>2. proc' = [proc EXCEPT ![1] = new]
      BY <1>1, <2>2 DEF Fails
    <3> HIDE DEF new
    <3> QED
      BY <3>1, <3>2
  <2> QED
    BY <2>1, <2>2 DEF Confine
<1>3. /\ proc'[1] = new
      /\ \A p \in Pids \ {1} : proc'[p] = proc[p]
    BY <1>1, <1>2
<1>4. Mechanism' = Mechanism /\ LandlockAvailable' = LandlockAvailable
    BY <1>1, Settled
<1>5. Mechanism # "docker"
    BY <1>1 DEF Forks
<1>6. Restrained(1)'
    BY <1>1, <1>2, <1>3, <1>4, <1>5 DEF Restrained
<1>7. ASSUME NEW p \in Pids \ {1} PROVE Restrained(p)'
    BY <1>1, <1>3, <1>4, <1>5 DEF Restrained, RestrainedInv
<1> QED
    BY <1>1, <1>4, <1>6, <1>7 DEF RestrainedInv

LEMMA RestrainedNext == LaunchInv /\ RestrainedInv /\ [Next]_vars => RestrainedInv'
<1> SUFFICES ASSUME LaunchInv, RestrainedInv, [Next]_vars PROVE RestrainedInv'
    OBVIOUS
<1> USE FirstPid
<1>0. proc \in [Pids -> Processes]
    BY DEF LaunchInv, Typed
<1>1. CASE Start \/ Prompt \/ ChooseBackend \/ DecideHost \/ DecideSeccomp
           \/ DecideLandlock \/ DecideDocker \/ MountDocker
  <2>1. main \in NotStarted /\ UNCHANGED <<cfg, proc>>
    BY <1>1 DEF Start, Prompt, ChooseBackend, DecideHost, DecideSeccomp, DecideLandlock,
                DecideDocker, MountDocker, NotStarted, Undecided
  <2>2. ASSUME main' = "popen", Mechanism = "landlock" PROVE cfg.weak
    <3>1. ~(Start \/ Prompt \/ ChooseBackend)
      BY <2>2 DEF Start, Prompt, ChooseBackend, GoTo, End
    <3>2. ~(DecideHost \/ DecideSeccomp \/ DecideDocker)
      BY <2>2 DEF DecideHost, DecideSeccomp, DecideDocker
    <3>3. MountDocker => Mechanism = "docker"
      BY DEF MountDocker, LaunchInv, Decided
    <3>4. DecideLandlock => cfg.weak
      BY <2>2 DEF DecideLandlock, GoTo, End
    <3> QED
      BY <1>1, <2>2, <3>1, <3>2, <3>3, <3>4
  <2> QED
    BY <2>1, <2>2, NoneRestrained
<1>2. CASE Popen
  <2>1. main = "popen" /\ main \in NotStarted /\ cfg' = cfg /\ ~Forks
    BY <1>2 DEF Popen, NotStarted, Undecided, LaunchInv, Decided
  <2>2. CASE proc' = proc
    BY <1>2, <2>1, <2>2, NoneRestrained DEF RestrainedInv
  <2>3. CASE proc' # proc
    <3>1. main' = "wait"
      BY <1>2, <2>3 DEF Popen, GoTo
    <3>2. CASE Mechanism = "docker"
      <4>1. proc' = Command("running", {}, DockerNetwork)
        BY <1>2, <2>3, <3>2 DEF Popen
      <4> QED
        BY <2>1, <3>1, <3>2, <4>1, FirstRestrained
    <3>3. CASE Mechanism # "docker"
      <4>1. proc' = Command("running", ChildEnv, "host")
        BY <1>2, <2>3, <3>3 DEF Popen
      <4>2. /\ Mechanism # "seccomp"
            /\ Mechanism = "landlock" => cfg.weak /\ ~LandlockAvailable
        BY <2>1 DEF Forks, RestrainedInv
      <4> QED
        BY <2>1, <3>1, <3>3, <4>1, <4>2, FirstRestrained
    <3> QED
      BY <3>2, <3>3
  <2> QED
    BY <2>2, <2>3
<1>3. CASE Fork
  <2>1. main \in NotStarted /\ cfg' = cfg /\ main' = "wait"
    BY <1>3 DEF Fork, GoTo, NotStarted, Undecided
  <2> QED
    BY <1>3, <2>1, FirstRestrained DEF Fork
<1>4. CASE Wait
  <2>1. UNCHANGED <<cfg, proc>> /\ main' = "ended"
    BY <1>4 DEF Wait, End
  <2> QED
    BY <2>1, GoesOnRestrained
<1>5. CASE Confine
    BY <1>5, ConfineRestrains
<1>6. CASE Exec
  <2>1. UNCHANGED <<cfg, main>> /\ proc[1].state = "exec"
    BY <1>6 DEF Exec
  <2> DEFINE runs == [proc[1] EXCEPT !.state = "running"]
             fails == [[proc[1] EXCEPT !.state = "failed"] EXCEPT !.end = 1]
  <2>2. /\ runs.filter = proc[1].filter /\ runs.domain = proc[1].domain
        /\ runs.network = proc[1].network /\ fails.state = "failed"
    BY <1>0 DEF Processes
  <2>3. proc' = [proc EXCEPT ![1] = runs] \/ proc' = [proc EXCEPT ![1] = fails]
    BY <1>0, <1>6 DEF Exec, Fails
  <2> HIDE DEF runs, fails
  <2>4. /\ proc'[1] \in {runs, fails}
        /\ \A p \in Pids \ {1} : proc'[p] = proc[p]
    BY <1>0, <2>3
  <2> QED
    BY <2>1, <2>2, <2>4, GoesOnRestrained
<1>7. CASE Spawn
  <2>1. UNCHANGED <<cfg, main>>
    BY <1>7 DEF Spawn
  <2>2. PICK p \in Pids, q \in Pids :
            proc[p].state = "running" /\ proc' = [proc EXCEPT ![q] = proc[p]]
    BY <1>7 DEF Spawn
  <2>3. \A r \in Pids : proc'[r] = IF r = q THEN proc[p] ELSE proc[r]
    BY <1>0, <2>2
  <2> QED
    BY <2>1, <2>2, <2>3, GoesOnRestrained
<1>8. CASE ProgramEnds
  <2>1. UNCHANGED <<cfg, main>>
    BY <1>8 DEF ProgramEnds
  <2>2. PICK p \in Pids, code \in Codes \union {Killed, 137} :
            proc[p].state = "running" /\ proc' = Ended(p, code)
    BY <1>8 DEF ProgramEnds
  <2> DEFINE ended(q) == [[proc[q] EXCEPT !.state = "ended"] EXCEPT !.end = code]
  <2>3. \A q \in Pids : /\ ended(q).filter = proc[q].filter
                        /\ ended(q).domain = proc[q].domain
                        /\ ended(q).network = proc[q].network
    BY <1>0 DEF Processes
  <2>4. \A q \in Pids : \/ proc'[q] = proc[q]
                        \/ proc[q].state = "running" /\ proc'[q] = ended(q)
    BY <2>2 DEF Ended
  <2> HIDE DEF ended
  <2> QED
    BY <2>1, <2>3, <2>4, GoesOnRestrained
<1>9. CASE Interrupt
  <2>1. cfg' = cfg /\ main' = "ended"
    BY <1>9 DEF Interrupt, End
  <2> DEFINE killed(p) == [[proc[p] EXCEPT !.state = "ended"] EXCEPT !.end = Killed]
             failed(p) == [[proc[p] EXCEPT !.state = "failed"] EXCEPT !.end = 1]
  <2>2. \A p \in Pids : /\ killed(p).filter = proc[p].filter
                        /\ killed(p).domain = proc[p].domain
                        /\ killed(p).network = proc[p].network
                        /\ failed(p).state = "failed"
    BY <1>0 DEF Processes
  <2>3. \A p \in Pids : \/ proc'[p] = proc[p]
                        \/ proc[p].state = "running" /\ proc'[p] = killed(p)
                        \/ proc'[p] = failed(p)
    <3>1. PICK hit \in SUBSET {p \in Pids : proc[p].state \in {"setup", "exec", "running"}} :
              proc' = [p \in Pids |->
                    IF p \notin hit THEN proc[p]
                    ELSE IF proc[p].state = "running"
                         THEN [proc[p] EXCEPT !.state = "ended", !.end = Killed]
                         ELSE [proc[p] EXCEPT !.state = "failed", !.end = 1]]
      BY <1>9 DEF Interrupt
    <3> QED
      BY <3>1
  <2> HIDE DEF killed, failed
  <2> QED
    BY <2>1, <2>2, <2>3, GoesOnRestrained
<1>10. CASE UNCHANGED vars
  <2>1. UNCHANGED <<cfg, main, proc>>
    BY <1>10 DEF vars
  <2> QED
    BY <2>1, GoesOnRestrained
<1> QED
    BY <1>1, <1>2, <1>3, <1>4, <1>5, <1>6, <1>7, <1>8, <1>9, <1>10
       DEF Next, Launch, Decide, Child

\* The filter denies what it lists and nothing else the model looks at.
LEMMA BuiltFilters ==
    ASSUME cfg.machine \in Machines, NEW network
    PROVE  Filtered(Build(cfg.machine, network))
<1> DEFINE calls == SyscallNr[cfg.machine]
           program == Build(cfg.machine, network)
<1>2. /\ calls.ptrace = calls["ptrace"] /\ calls.kexec_load = calls["kexec_load"]
      /\ calls.reboot = calls["reboot"] /\ calls.mount = calls["mount"]
  <2>1. CASE cfg.machine = "x86_64"
    BY <2>1 DEF SyscallNr
  <2>2. CASE cfg.machine = "aarch64"
    BY <2>2 DEF SyscallNr
  <2> QED
    BY <2>1, <2>2 DEF Machines
<1>1. ASSUME NEW nr
      PROVE  (Verdict(program, nr, AF_UNIX) = "EPERM")
                = (\E call \in Forbidden : nr = calls[call])
  <2>1. (Verdict(program, nr, AF_UNIX) = "EPERM")
           = (nr \in {calls.ptrace, calls.kexec_load, calls.reboot, calls.mount})
    BY BuiltRuns
  <2> HIDE DEF program, calls
  <2>2. (\E call \in Forbidden : nr = calls[call])
           = \/ nr = calls["ptrace"] \/ nr = calls["kexec_load"]
             \/ nr = calls["reboot"] \/ nr = calls["mount"]
    BY DEF Forbidden
  <2>3. {calls.ptrace, calls.kexec_load, calls.reboot, calls.mount}
           = {calls["ptrace"], calls["kexec_load"], calls["reboot"], calls["mount"]}
    BY <1>2
  <2>4. nr \in {calls["ptrace"], calls["kexec_load"], calls["reboot"], calls["mount"]}
           <=> \/ nr = calls["ptrace"] \/ nr = calls["kexec_load"]
               \/ nr = calls["reboot"] \/ nr = calls["mount"]
    OBVIOUS
  <2>5. (Verdict(program, nr, AF_UNIX) = "EPERM")
           <=> \E call \in Forbidden : nr = calls[call]
    BY <2>1, <2>2, <2>3, <2>4
  <2> QED
    BY <2>5
<1> QED
    BY <1>1 DEF Filtered

\* Every process of the command lives under the restrictions of its backend,
\* from before its first instruction on, whatever fails on the way and
\* whatever becomes of the launcher: the filter is the one build() makes, and
\* what the kernel makes of it is to refuse the calls it lists.
THEOREM ConfinedThroughout == Spec => []Confined
<1>1. Init => RestrainedInv
  <2> SUFFICES ASSUME Init PROVE RestrainedInv
    OBVIOUS
  <2>1. \A p \in Pids : proc[p].state = "none"
    BY DEF Init, NoProc
  <2> QED
    BY <2>1 DEF Init, RestrainedInv, Restrained
<1>2. LaunchInv /\ RestrainedInv => Confined
  <2> SUFFICES ASSUME LaunchInv, RestrainedInv, NEW p \in Pids, Started(p)
               PROVE  /\ Mechanism = "seccomp" =>
                            cfg.machine \in Machines /\ Filtered(proc[p].filter)
                      /\ Mechanism = "landlock" =>
                            proc[p].domain \/ (cfg.weak /\ (cfg.landlock = 0 \/ ~cfg.linux))
                      /\ Mechanism = "docker" /\ Denied(cfg.network) => proc[p].network = "none"
    BY DEF Confined
  <2>1. Restrained(p) /\ proc[p].state \in {"exec", "running", "ended"}
    BY DEF RestrainedInv, Started
  <2>2. Mechanism = "seccomp" => cfg.machine \in Machines /\ Filtered(proc[p].filter)
    BY <2>1, BuiltFilters DEF Restrained
  <2>3. ~LandlockAvailable => cfg.landlock = 0 \/ ~cfg.linux
    <3>1. cfg.landlock \in Nat
      BY ConfigsAssumption DEF LaunchInv, Typed
    <3> QED
      BY <3>1 DEF LandlockAvailable
  <2>4. Denied(cfg.network) => DockerNetwork = "none"
    BY DEF Denied, DockerNetwork
  <2> QED
    BY <2>1, <2>2, <2>3, <2>4 DEF Restrained
<1> QED
    BY <1>1, <1>2, RestrainedNext, Invariance, PTL DEF Spec
=============================================================================
