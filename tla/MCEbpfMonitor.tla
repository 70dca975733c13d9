--------------------------- MODULE MCEbpfMonitor ----------------------------
(* Two tasks, files under and beside a protected path, blocked programs.   *)
EXTENDS EbpfMonitor

CONSTANTS t1, t2

TwoTasks == {t1, t2}

\* The ways of operations through the kernel.  A program is opened before its
\* name is checked, and then the interpreter of a script is, before the name is
\* checked once more.  The programs are linked statically; openat2 and execveat
\* meet no program of the monitor but those of the LSM hooks.
Meets(program, text) == [program |-> program, text |-> text]
Opens(path) == Meets("file_open", path)
Checks(name) == Meets("bprm_check", name)

Key == <<"/", "ws", "/", "key">>
Far == <<"/", "a", "/", "b", "/", "rm", "foo">>
Tool == <<"/", "bin", "/", "box">>

\* A file whose name only begins with the protected one.
OpenBeside == <<Meets("openat", <<>>), Opens(Key \o <<"ring">>)>>

\* Behind a long path, the last name is one that begins like a listed line.
OpenFar == <<Opens(Far)>>

\* A link of a blocked name to another program.
ExecLink == <<Meets("execve", <<>>), Opens(Tool), Checks(<<".", "/", "rm">>)>>

\* A long name is cut off right behind a blocked one.
ExecFar == <<Opens(Tool), Checks(Far)>>

\* A script whose interpreter is a protected file.
ExecScript == <<Opens(<<"/", "run">>), Checks(<<"run">>), Opens(Key), Checks(<<"run">>)>>

Connect == <<Meets("connect", <<>>)>>

MCWays == {OpenBeside, OpenFar, ExecLink, ExecFar, ExecScript, Connect}

\* The operations two and two.
Both(a, b) == [t \in TwoTasks |-> IF t = t1 THEN a ELSE b]
MCWorks == {Both(OpenBeside, ExecLink), Both(OpenFar, ExecFar), Both(ExecScript, Connect)}

\* A line twice, an empty one and one that is no absolute path; one line too
\* many; one line that is too long.
MCPolicies ==
    { <<Key, <<>>, Key, <<"rm">>>>, <<Key, <<"rm">>, <<"/", "opt">>>>, <<Far>> }

MCModes == {"trace", "enforce"}
MCFaults == {"cli", "open", "flag", "seed", "paths", "attach", "ring", "poll"}
=============================================================================
