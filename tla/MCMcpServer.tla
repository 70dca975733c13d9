---------------------------- MODULE MCMcpServer -----------------------------
(***************************************************************************)
(* A small instance of McpServer for TLC: calls that pass and calls that   *)
(* are refused by one rule each, and commands that read the pipe.          *)
(***************************************************************************)
EXTENDS McpServer, TLC

MCFlags == {"-r"}
MCGlobbed == {}
MCHome == <<"/", "home", "u">>
MCLabels == "ok.io" :> <<"ok", "io">>

Plain(parts) ==
    [home |-> FALSE, dir |-> FALSE, parts |-> parts, plain |-> parts,
     real |-> <<"/", "ws">> \o parts]

\* "link" is a symbolic link to the vault.
MCPathOf ==
    [word \in {"doc", "key", "rm", "-n1"} |-> Plain(<<word>>)]
    @@ "link/a" :> [Plain(<<"link", "a">>) EXCEPT !.real = <<"/", "ws", "vault", "a">>]
    @@ "vault/" :> [Plain(<<"vault">>) EXCEPT !.dir = TRUE]

MCReading == {<<"head", "-n1">>}
MCDraining == {<<"cat">>}

Text(kind) == [kind |-> kind]
File(tool, path, fits) == [kind |-> "call", tool |-> tool, path |-> path, fits |-> fits]
Shell(command) == [kind |-> "call", tool |-> "shell", command |-> command, fits |-> TRUE]

MCBodies ==
    { Text("blank"), Text("garbled"), Text("junk"),
      File("read_file", "link/a", TRUE), File("write_file", "doc", FALSE),
      File("write_file", "doc", TRUE), File("fetch", "doc", TRUE),
      Shell(<<"cat">>), Shell(<<"head", "-n1">>), Shell(<<"cat", "key">>) }

MCPolicies ==
    { [require_approval |-> {}, protected_paths |-> {"key", "vault/"},
       blocked_commands |-> {<<"rm", "-r">>}] }

\* What the theorems suppose of the paths.
ASSUME PathsAgree == PlainPaths(Policies, DOMAIN PathOf) /\ PathsMeant(Policies, DOMAIN PathOf)
=============================================================================
