------------------------------ MODULE Seccomp ------------------------------
(***************************************************************************)
(* The BPF programs of runeguard/seccomp/filter.py, instruction by         *)
(* instruction, and what the kernel makes of them: the check when one is   *)
(* installed, and the verdict on a system call.                            *)
(***************************************************************************)
EXTENDS Integers, Sequences

\* _SYSCALL_NR, for the machines build() supports.
Machines == {"x86_64", "aarch64"}

SyscallNr ==
    [x86_64 |-> [ptrace |-> 101, kexec_load |-> 246, reboot |-> 169,
                 mount |-> 165, socket |-> 41],
     aarch64 |-> [ptrace |-> 117, kexec_load |-> 104, reboot |-> 142,
                  mount |-> 40, socket |-> 198]]

AF_UNIX == 1
AF_INET == 2
AF_INET6 == 10
AF_NETLINK == 16

\* Load a field of the call into the accumulator; skip jt instructions if it
\* holds k; return a verdict.
Ld(field) == [op |-> "ld", k |-> field, jt |-> 0]
Jeq(k, jt) == [op |-> "jeq", k |-> k, jt |-> jt]
Ret(verdict) == [op |-> "ret", k |-> verdict, jt |-> 0]

-----------------------------------------------------------------------------

\* _linear_block_filter: each comparison jumps to the last instruction.
LinearBlockFilter(nrs) ==
    <<Ld("nr")>> \o [i \in 1..Len(nrs) |-> Jeq(nrs[i], Len(nrs) - i + 1)]
                 \o <<Ret("ALLOW"), Ret("EPERM")>>

\* _socket_family_block_filter.
SocketFamilyBlockFilter(socket) ==
    << Ld("nr"), Jeq(socket, 1), Ret("ALLOW"), Ld("arg0"),
       Jeq(AF_INET, 3), Jeq(AF_INET6, 2), Jeq(AF_NETLINK, 1),
       Ret("ALLOW"), Ret("EPERM") >>

\* build: the second filter is put behind the first.
Build(machine, network) ==
    LET nr == SyscallNr[machine]
    IN  LinearBlockFilter(<<nr.ptrace, nr.kexec_load, nr.reboot, nr.mount>>)
        \o IF network \in {"deny", "deny_all", "none"}
           THEN SocketFamilyBlockFilter(nr.socket) ELSE <<>>

-----------------------------------------------------------------------------
(* The kernel.                                                             *)

\* What prctl(PR_SET_SECCOMP) asks of a program: no jump leaves it and its
\* last instruction returns.
Installable(program) ==
    /\ program # <<>> /\ program[Len(program)].op = "ret"
    /\ \A i \in 1..Len(program) :
          program[i].op = "jeq" => i + 1 + program[i].jt <= Len(program)

\* What it does from instruction pc on, given what it does from each later one:
\* its verdict for each content of the accumulator.
From(program, nr, arg0, pc, later) ==
    LET ins == program[pc]
    IN  [acc \in {0, nr, arg0} |->
            CASE ins.op = "ret" -> ins.k
              [] ins.op = "ld" -> later[pc + 1][IF ins.k = "nr" THEN nr ELSE arg0]
              [] ins.op = "jeq" -> later[pc + 1 + (IF acc = ins.k THEN ins.jt ELSE 0)][acc]]

\* Its verdict on a call with this number and first argument.
Verdict(program, nr, arg0) ==
    LET run[pc \in 1..Len(program)] == From(program, nr, arg0, pc, run)
    IN  run[1][0]
=============================================================================
