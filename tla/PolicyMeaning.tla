--------------------------- MODULE PolicyMeaning ---------------------------
(***************************************************************************)
(* What a policy file asks for, stated without the case distinctions and   *)
(* the order of the checks in Policy.decide: the reference that the        *)
(* properties of the components compare the decisions with.                *)
(***************************************************************************)
EXTENDS Policy

\* A tool that wants approval is admitted by none of the paths that cannot
\* ask for it.
Admits(policy, tool, condition) == tool \notin policy.require_approval /\ condition

Listed(name, allowed, denied) ==
    name = NoName \/ (name \notin denied /\ (allowed = {} \/ name \in allowed))

EndsInStars(pattern) == Last(PathOf[pattern].parts) = "**"

Named(pattern, name) ==
    LET parts == IF EndsInStars(pattern) THEN Front(PathOf[pattern].parts)
                 ELSE PathOf[pattern].parts
    IN  \/ name = PathOf[pattern].real
        \/ \E i \in 1..Len(name) : SubSeq(name, i, Len(name)) = parts

\* What a pattern names, and what is below it where the pattern covers that.
Covered(pattern, name) ==
    \E n \in 1..Len(name) :
        /\ Named(pattern, SubSeq(name, 1, n))
        /\ n < Len(name) => IsSubtree(pattern)

\* A path is kept from the agent if what it is spelled as, or the file it
\* leads to, is covered by a pattern.  A pattern with wildcards speaks of the
\* spelling only.
Kept(policy, path) ==
    \E pattern \in policy.protected_paths :
        \/ Covered(pattern, Spelled(path))
        \/ ~EndsInStars(pattern) /\ Covered(pattern, PathOf[path].real)

\* The code's two ways to judge a path find what Kept says.
PathsMeant(policies, paths) ==
    \A policy \in policies, path \in paths :
        IsProtected(policy, path) <=> Kept(policy, path)

\* A pattern that is a name, an absolute path, a directory written "name/" or
\* as an absolute path, or "~/name/**"; not one whose way leads through a
\* symbolic link.
PlainPattern(pattern) ==
    LET p == PathOf[pattern] IN
    /\ pattern \in DOMAIN PathOf /\ p.parts # <<>>
    /\ IF p.home
       THEN /\ ~p.dir /\ Len(p.parts) = 2 /\ EndsInStars(pattern)
            /\ p.real = Home \o p.parts
       ELSE /\ ~EndsInStars(pattern)
            /\ IF Absolute(pattern) THEN p.real = p.parts
               ELSE /\ IsSuffix(p.parts, p.real)
                    /\ p.dir => Len(p.parts) = 1

\* fnmatch of a pattern without other wildcards is equality, or being below.
PlainlyMatched(pattern) ==
    LET p == PathOf[pattern]
        glob == p.parts \o (IF p.dir THEN <<"**">> ELSE <<>>)
    IN  \A match \in Globbed : match[1] = glob =>
            \/ match[2] = glob
            \/ Last(glob) = "**" /\ IsStrictPrefix(Front(glob), match[2])

\* The paths of a file system and a policy of which the theorems show that
\* PathsMeant holds: the patterns are plain, only the first part of a path is
\* the root, and no symbolic link leads out of what a pattern covers, nor to
\* a file with the name of a wildcard.
PlainPaths(policies, paths) ==
    /\ \A path \in paths :
          /\ path \in DOMAIN PathOf
          /\ \A i \in 2..Len(Spelled(path)) : Spelled(path)[i] # "/"
          /\ \A i \in 2..Len(PathOf[path].real) : PathOf[path].real[i] # "/"
    /\ \A policy \in policies : \A pattern \in policy.protected_paths :
          /\ PlainPattern(pattern) /\ PlainlyMatched(pattern)
          /\ \A path \in paths :
                IF EndsInStars(pattern)
                THEN PathOf[path].real = PathOf[pattern].real => Covered(pattern, Spelled(path))
                ELSE Covered(pattern, Spelled(path)) => Covered(pattern, PathOf[path].real)

\* The words of a command that are looked at as paths.
Arguments(command) == {command[i] : i \in 2..Len(command)} \ Flags

HostListed(policy, host) ==
    host # NoHost /\
    \E i \in 1..Len(Labels[host]), allowed \in policy.allowed_domains :
        LET top == SubSeq(Labels[host], i, Len(Labels[host]))
        IN  Labels[allowed] = <<"*">> \o top \/ (i = 1 /\ Labels[allowed] = top)

CommandObeys(policy, command) ==
    Admits(policy, "shell",
           /\ \A pattern \in policy.blocked_commands :
                 /\ <<pattern, command>> \notin Globbed
                 /\ \A i, j \in 1..Len(command) :
                       SubSeq(command, i, j) = pattern => pattern = <<>>
           /\ \A i \in 2..Len(command) :
                 command[i] \notin Flags => ~Kept(policy, command[i]))
=============================================================================
