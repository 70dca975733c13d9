------------------------------- MODULE Policy -------------------------------
(***************************************************************************)
(* Policy.decide of runeguard/policy.py for the yaml backend, one operator *)
(* per family of tools.                                                    *)
(*                                                                         *)
(* A command is the sequence of words shlex splits it into.  What a word   *)
(* means as a path is data, for paths and for files.deny patterns alike:   *)
(*   home   whether it begins with "~/",                                   *)
(*   dir    whether it ends with "/",                                      *)
(*   parts  Path(word).parts, without the "~",                             *)
(*   plain  its parts behind leading dots and slashes,                     *)
(*   real   the parts of the file it leads to: Path.resolve(), which       *)
(*          follows symbolic links.                                        *)
(* A host is split into its labels, in lower case and without a final dot. *)
(***************************************************************************)
EXTENDS Integers, Sequences, SequencesExt

CONSTANTS Flags,      \* words that begin with a dash
          Globbed,    \* pairs <<pattern, words or parts>> that fnmatch accepts
          Home,       \* the parts of the home directory
          PathOf,     \* what each word means as a path
          Labels      \* the labels of each host

ASSUME PathsAssumption ==
    /\ Home \in Seq(STRING)
    /\ \A word \in DOMAIN PathOf :
          PathOf[word] \in [home : BOOLEAN, dir : BOOLEAN, parts : Seq(STRING),
                           plain : Seq(STRING), real : Seq(STRING)]

ASSUME LabelsAssumption ==
    \A host \in DOMAIN Labels : Labels[host] \in Seq(STRING) \ {<<>>}

NoName == ""          \* a name that is missing or empty
NoPath == ""
NoHost == ""

Decisions == {"allow", "block", "require_approval"}

\* Approval comes before every rule, a rule before the final allow.
Decide(policy, tool, broken) ==
    IF tool \in policy.require_approval THEN "require_approval"
    ELSE IF broken THEN "block" ELSE "allow"

Absolute(word) == PathOf[word].home \/ IsPrefix(<<"/">>, PathOf[word].parts)

\* A path as it is spelled, "~" expanded.
Spelled(word) ==
    IF PathOf[word].home THEN Home \o PathOf[word].parts ELSE PathOf[word].parts

\* A pattern that covers what is below it: "dir/" stands for "dir/**".
IsSubtree(pattern) ==
    \/ PathOf[pattern].dir
    \/ Len(PathOf[pattern].parts) > 1 /\ Last(PathOf[pattern].parts) = "**"

\* is_denied_workspace_path: the path as it is spelled, or its last part, by
\* fnmatch and by the prefix of a subtree; a subtree of the home directory
\* is secret wherever its name occurs.
DeniedBySpelling(pattern, word) ==
    LET p == PathOf[pattern]
        path == Spelled(word)
        glob == p.parts \o (IF p.dir THEN <<"**">> ELSE <<>>)
        above == IF p.dir THEN p.parts ELSE Front(p.parts)
        names == {path} \union (IF path = <<>> THEN {} ELSE {<<Last(path)>>})
    IN  \/ \E name \in names :
              \/ name = glob \/ <<glob, name>> \in Globbed
              \/ IsSubtree(pattern) /\ IsPrefix(above, name)
        \/ /\ p.home /\ IsSubtree(pattern)
           /\ \E i \in 1..Len(path) : IsStrictPrefix(above, SubSeq(path, i, Len(path)))

BelowDirectory(name, file) == \E i \in 1..(Len(file) - 1) : file[i] = name

EndsWith(parts, file) == parts # <<>> /\ IsSuffix(parts, file)

\* The rest of _is_protected_path: the file that the path leads to.  A
\* relative "a/b/" protects what is below any directory b; a pattern of one
\* part (_is_filename_only) is the suffix of length one.
DeniedByFile(pattern, word) ==
    LET p == PathOf[pattern]
        file == PathOf[word].real
    IN  \/ file = p.real
        \/ p.dir /\ Absolute(pattern) /\ IsPrefix(p.real, file)
        \/ p.dir /\ ~Absolute(pattern) /\ BelowDirectory(Last(p.parts), file)
        \/ ~Absolute(pattern) /\ EndsWith(p.parts, file)

\* What each pattern protects, as a function for TLC to evaluate once.
Protects ==
    [pattern \in DOMAIN PathOf |-> [word \in DOMAIN PathOf |->
        DeniedBySpelling(pattern, word) \/ DeniedByFile(pattern, word)]]

IsProtected(policy, word) ==
    \E pattern \in policy.protected_paths : Protects[pattern][word]

\* read_file, write_file, open, openat.
FileDecision(policy, tool, path) ==
    Decide(policy, tool, IsProtected(policy, path))

\* _matches_command_pattern: the words of the pattern stand side by side in
\* the command.
MatchesPattern(pattern, command) ==
    /\ pattern # <<>>
    /\ \E i \in 0..(Len(command) - Len(pattern)) :
          \A j \in 1..Len(pattern) : command[i + j] = pattern[j]

\* Mutant of ProtectedArgument: only the first argument is looked at.
ProtectedFirstArgument(policy, command) ==
    Len(command) > 1 /\ command[2] \notin Flags /\ IsProtected(policy, command[2])

\* _protected_shell_arg: an argument, not a flag, that is a protected path.
ProtectedArgument(policy, command) ==
    \E i \in 2..Len(command) :
        /\ command[i] \notin Flags
        /\ IsProtected(policy, command[i])

\* shell, execve.
ShellDecision(policy, tool, command) ==
    Decide(policy, tool,
           \/ \E pattern \in policy.blocked_commands :
                 \/ <<pattern, command>> \in Globbed
                 \/ MatchesPattern(pattern, command)
           \/ ProtectedArgument(policy, command))

\* _is_allowed_domain: the domain itself; of "*.d" also d and all below it.
AdmitsDomain ==
    [allowed \in DOMAIN Labels |-> [host \in DOMAIN Labels |->
        \/ Labels[host] = Labels[allowed]
        \/ /\ IsStrictPrefix(<<"*">>, Labels[allowed])
           /\ IsSuffix(Tail(Labels[allowed]), Labels[host])]]

IsAllowedDomain(policy, host) ==
    \E allowed \in policy.allowed_domains : AdmitsDomain[allowed][host]

\* http_post, connect, socket: a host that is missing or not admitted.
ConnectDecision(policy, tool, host) ==
    Decide(policy, tool, host = NoHost \/ ~IsAllowedDomain(policy, host))

\* mcp_server, mcp_tool.  An empty allowlist admits every name, and a name
\* that is empty passes every list.
McpDecision(policy, tool, server, name) ==
    Decide(policy, tool,
           \/ /\ server # NoName
              /\ \/ server \in policy.denied_mcp_servers
                 \/ /\ policy.allowed_mcp_servers # {}
                    /\ server \notin policy.allowed_mcp_servers
           \/ /\ name # NoName
              /\ \/ /\ policy.allowed_mcp_tools # {}
                    /\ name \notin policy.allowed_mcp_tools
                 \/ name \in policy.denied_mcp_tools)
=============================================================================
