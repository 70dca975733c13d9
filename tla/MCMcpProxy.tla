---------------------------- MODULE MCMcpProxy -----------------------------
(***************************************************************************)
(* Small instances of McpProxy for TLC.  Every line touches several rules, *)
(* so that a check left out, or one that stops at an earlier allow, shows. *)
(***************************************************************************)
EXTENDS McpProxy, TLC

MCFlags == {"-r"}
MCGlobbed == {<<<<"curl*">>, <<"curl", "x.io">>>>}

MCHome == <<"/", "home", "u">>

Plain(parts) ==
    [home |-> FALSE, dir |-> FALSE, parts |-> parts, plain |-> parts,
     real |-> <<"/", "ws">> \o parts]

\* "link" is a symbolic link to the vault.
MCPathOf ==
    [word \in {"doc", "key", "keys", "x.io", "rm", "out"} |-> Plain(<<word>>)]
    @@ "out/a" :> Plain(<<"out", "a">>)
    @@ "link/a" :> [Plain(<<"link", "a">>) EXCEPT !.real = <<"/", "ws", "vault", "a">>]
    @@ "a/.ssh/id" :> Plain(<<"a", ".ssh", "id">>)
    @@ "vault/" :> [Plain(<<"vault">>) EXCEPT !.dir = TRUE]
    @@ "~/.ssh/**" :> [home |-> TRUE, dir |-> FALSE, parts |-> <<".ssh", "**">>,
                       plain |-> <<"~", ".ssh", "**">>, real |-> MCHome \o <<".ssh", "**">>]

MCLabels ==
    "ok.io" :> <<"ok", "io">> @@ "x.io" :> <<"x", "io">>
    @@ "api.ok.io" :> <<"api", "ok", "io">> @@ "*.ok.io" :> <<"*", "ok", "io">>

MCReadTools == {"read_file"}
MCWriteTools == {"write_file"}

Body(kind) == [kind |-> kind]
Read(path) == [kind |-> "read", path |-> path]
Call(tool, path, command, hosts) ==
    [kind |-> "call", tool |-> tool, path |-> path, command |-> command, hosts |-> hosts]

\* Lines that pass and lines that each rule refuses.
MCBodies ==
    { Body("text"), Body("value"), Body("other"), Body("list"), Body("badcall"),
      Read("link/a"),
      Call("read_file", "a/.ssh/id", <<>>, <<>>),
      Call("write_file", "out/a", <<"ls", "keys">>, <<"api.ok.io">>),
      Call("read_file", "doc", <<"cat", "-r", "key">>, <<>>),
      Call("write_file", "doc", <<>>, <<>>),
      Call("write_file", "out/a", <<"ls", "doc">>, <<"ok.io", "x.io">>),
      Call("run", NoPath, <<"sudo", "rm", "-r">>, <<>>),
      Call("run", "key", <<"ls", "-r">>, <<"ok.io">>) }

BasePolicy ==
    [require_approval |-> {}, protected_paths |-> {"key", "vault/", "~/.ssh/**"}, writable_paths |-> {"out"},
     blocked_commands |-> {<<"rm", "-r">>, <<"curl*">>},
     allowed_domains |-> {"*.ok.io"},
     allowed_mcp_servers |-> {}, denied_mcp_servers |-> {"evil"},
     allowed_mcp_tools |-> {}, denied_mcp_tools |-> {"drop"}]

\* One policy that lists what may be used, one that wants approval for the
\* server, one that refuses it.
MCPolicies ==
    { BasePolicy,
      [BasePolicy EXCEPT !.allowed_mcp_servers = {"up"}, !.allowed_mcp_tools = {"run"},
                         !.require_approval = {"read_file"}],
      [BasePolicy EXCEPT !.require_approval = {"mcp_server"}],
      [BasePolicy EXCEPT !.denied_mcp_servers = {"up"}] }

\* What the theorems suppose of the paths.
ASSUME PathsAgree == PlainPaths(Policies, DOMAIN PathOf) /\ PathsMeant(Policies, DOMAIN PathOf)
=============================================================================
