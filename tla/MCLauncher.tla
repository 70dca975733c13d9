----------------------------- MODULE MCLauncher ----------------------------
(***************************************************************************)
(* Small instances of Launcher for TLC: for each backend every combination *)
(* of the options and of the features of the machine that it looks at.     *)
(***************************************************************************)
EXTENDS Launcher

MCEnviron == {"PATH", "AWS_KEY"}

\* A run that is allowed, on a machine that has everything.
Base ==
    [entry |-> "run", backend |-> "host", preload |-> FALSE, seccomp |-> FALSE,
     ask |-> FALSE, weak |-> FALSE, unsafe |-> FALSE, auditLog |-> TRUE,
     networkOption |-> "unset", program |-> "system",
     decision |-> "allow", network |-> "deny", allowedEnv |-> {}, strippedEnv |-> {"AWS_KEY"},
     fsLandlock |-> FALSE, readonlyWorkspace |-> TRUE, mounts |-> "safe",
     linux |-> TRUE, machine |-> "x86_64", landlock |-> 3, docker |-> TRUE, shim |-> TRUE]

Decisions == {"allow", "block", "require_approval"}

\* The profile for CI has an allowlist; the others only strip.
HostRuns ==
    { [Base EXCEPT !.backend = b, !.preload = l, !.ask = a, !.decision = d,
                   !.allowedEnv = e, !.shim = s, !.program = g, !.auditLog = u] :
        b \in {"host", "preload"}, l \in BOOLEAN, a \in BOOLEAN, d \in Decisions,
        e \in {{}, {"PATH", "AWS_KEY"}}, s \in BOOLEAN, g \in {"system", "missing"},
        u \in BOOLEAN }

SeccompRuns ==
    { [Base EXCEPT !.seccomp = TRUE, !.preload = l, !.ask = a, !.decision = d, !.network = n,
                   !.linux = m # "darwin", !.machine = m, !.program = g] :
        l \in BOOLEAN, a \in BOOLEAN, d \in {"allow", "block"}, n \in {"deny", "host"},
        m \in {"x86_64", "aarch64", "riscv64", "darwin"}, g \in {"system", "missing"} }

LandlockRuns ==
    { [Base EXCEPT !.backend = "landlock", !.weak = w, !.ask = a, !.decision = d,
                   !.seccomp = s, !.landlock = v, !.program = g] :
        w \in BOOLEAN, a \in BOOLEAN, d \in {"allow", "block"}, s \in BOOLEAN,
        v \in {0, 1, 3}, g \in {"system", "workspace", "missing"} }

DockerRuns ==
    { [Base EXCEPT !.backend = "docker", !.fsLandlock = f, !.landlock = v, !.weak = w,
                   !.unsafe = u, !.readonlyWorkspace = r, !.docker = k, !.decision = d,
                   !.network = n[1], !.networkOption = n[2], !.mounts = t] :
        f \in BOOLEAN, v \in {0, 3}, w \in BOOLEAN, u \in BOOLEAN, r \in BOOLEAN,
        k \in BOOLEAN, d \in {"allow", "block"},
        t \in {"safe", "workspace", "writable"},
        n \in {<<"deny", "unset">>, <<"deny", "host">>, <<"host", "unset">>} }

AgentRuns ==
    { [Base EXCEPT !.entry = "agent", !.backend = b, !.docker = k, !.ask = a, !.decision = d,
                   !.program = g, !.readonlyWorkspace = r] :
        b \in {"default", "docker", "host", "landlock"}, k \in BOOLEAN, a \in BOOLEAN,
        d \in Decisions, g \in {"system", "missing"}, r \in BOOLEAN }

MCConfigs ==
    HostRuns \union SeccompRuns \union LandlockRuns \union DockerRuns \union AgentRuns
    \union {[Base EXCEPT !.backend = "podman"]}

MCSeccompRun == {[Base EXCEPT !.seccomp = TRUE]}
=============================================================================
