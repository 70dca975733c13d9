--------------------------- MODULE DecisionDaemon ---------------------------
(***************************************************************************)
(* The decision daemon, runeguard/daemon.py, and those who ask it over its *)
(* Unix socket: programs under the LD_PRELOAD shim, runeguard/shim/        *)
(* preload.c, and callers of ask_daemon.                                   *)
(*                                                                         *)
(* A daemon binds the socket path, accepts connections in its main thread  *)
(* and answers each in a thread of its own.  It ends by stop(), which a    *)
(* program that embeds it calls from another thread, by SIGINT, or it is   *)
(* killed; the next one may be started at any time.  A client sends one    *)
(* request on a connection and reads one answer.                           *)
(***************************************************************************)
EXTENDS Integers, Sequences

CONSTANTS MaxDaemons,       \* bound on the daemons started
          Clients,          \* threads that make calls
          Targets,          \* paths, commands and hosts
          TargetsOf,        \* what each client calls
          TypeOf,           \* the policy's decision on each, or "UNREADABLE"
          FallbackBlocks,   \* the targets fallback_policy refuses
          Kinds,            \* how the clients may ask: "closed", "fallback", "ask"
          Backlog,          \* of listen()
          MaxCalls,         \* bound on the calls of a client
          AuditFails        \* whether a write of the audit log may fail

DecisionTypes == {"ALLOW", "BLOCK", "REQUIRE_APPROVAL"}

ASSUME TypeOfAssumption == TypeOf \in [Targets -> DecisionTypes \union {"UNREADABLE"}]
ASSUME TargetsOfAssumption == TargetsOf \in [Clients -> SUBSET Targets]
ASSUME KindsAssumption == Kinds \subseteq [Clients -> {"closed", "fallback", "ask"}]
ASSUME BoundAssumption ==
    Backlog \in Nat \ {0} /\ MaxCalls \in Nat /\ MaxDaemons \in Nat

VARIABLES path,        \* the daemon whose socket is at the socket path
          daemon,      \* state of each daemon's main thread
          conn,        \* the connection of each request, with its thread
          client,      \* state of each client
          kind,        \* how each client asks
          result,      \* how each call ended
          audit,       \* the decisions in the audit log
          overlapped   \* a daemon was started while another one was up

vars == <<path, daemon, conn, client, kind, result, audit, overlapped>>

\* Daemon d is the d-th to be started.
Daemons == 1..MaxDaemons
NoSocket == 0
NoTarget == "no-target"

\* The n-th call of client c.
Requests == Clients \X (1..MaxCalls)
Current(c) == <<c, client[c].calls>>

\* A connection that is not there: not yet, or not any more.
Connection(pc, gone) ==
    [pc |-> pc, at |-> NoSocket, data |-> NoTarget, answer |-> "none", gone |-> gone]
Over == Connection("over", TRUE)

Init ==
    /\ path = NoSocket
    /\ daemon = [d \in Daemons |-> [pc |-> "new", running |-> FALSE,
                                    interrupted |-> FALSE, backlog |-> <<>>]]
    /\ conn = [r \in Requests |-> Connection("none", FALSE)]
    /\ client = [c \in Clients |-> [pc |-> "run", calls |-> 0, target |-> NoTarget]]
    /\ kind \in Kinds
    /\ result = [r \in Requests |-> "none"]
    /\ audit = {}
    /\ overlapped = FALSE

-----------------------------------------------------------------------------
(* The daemon's main thread.                                               *)

At(d, pc) == daemon[d].pc = pc
Ended == [pc |-> "ended", running |-> FALSE, interrupted |-> FALSE, backlog |-> <<>>]
Goto(d, pc) == daemon' = [daemon EXCEPT ![d].pc = pc]

\* A thread blocked in accept() keeps the socket listening though stop() has
\* closed its descriptor.
Listening(d) == At(d, "accept") \/ (At(d, "loop") /\ daemon[d].running)

\* What the peer of a connection sees when its end at the daemon goes away.
\* An answer that was sent is still there to read.
Reset(cut) ==
    [r \in Requests |->
        IF r \in cut /\ conn[r].pc \in {"queued", "recv", "decide", "send"}
        THEN IF conn[r].gone THEN Over ELSE [conn[r] EXCEPT !.pc = "reset"]
        ELSE conn[r]]

Waiting(d) == {daemon[d].backlog[i] : i \in 1..Len(daemon[d].backlog)}
Served(d) == {r \in Requests : conn[r].at = d}

Start(d) ==
    /\ At(d, "new")
    /\ d > 1 => ~At(d - 1, "new")
    /\ daemon' = [daemon EXCEPT ![d].pc = "unlink", ![d].running = TRUE]
    /\ overlapped' = (overlapped \/ \E e \in Daemons : daemon[e].pc \notin {"new", "ended", "failed"})
    /\ UNCHANGED <<path, conn, client, kind, result, audit>>

UnlinkStale(d) ==
    /\ At(d, "unlink")
    /\ path' = NoSocket
    /\ Goto(d, "bind")
    /\ UNCHANGED <<conn, client, kind, result, audit, overlapped>>

\* Mutant of Bind: the stale socket is removed after the bind.
BindThenUnlink(d) ==
    /\ At(d, "bind")
    /\ path' = NoSocket
    /\ Goto(d, "loop")
    /\ UNCHANGED <<conn, client, kind, result, audit, overlapped>>

\* bind raises when the path is taken; then listen.
Bind(d) ==
    /\ At(d, "bind")
    /\ IF path = NoSocket THEN path' = d /\ Goto(d, "loop")
                          ELSE Goto(d, "failed") /\ UNCHANGED path
    /\ UNCHANGED <<conn, client, kind, result, audit, overlapped>>

\* while self.running
Loop(d) ==
    /\ At(d, "loop")
    /\ Goto(d, IF daemon[d].running THEN "accept" ELSE "close")
    /\ UNCHANGED <<path, conn, client, kind, result, audit, overlapped>>

\* Mutant of Accept: the connection stays in the backlog.
AcceptAgain(d) ==
    /\ At(d, "accept")
    /\ daemon[d].backlog # <<>>
    /\ conn' = [conn EXCEPT ![Head(daemon[d].backlog)].pc = "recv"]
    /\ Goto(d, "loop")
    /\ UNCHANGED <<path, client, kind, result, audit, overlapped>>

\* accept() and the start of the thread.  The last reference to a socket
\* that stop() has closed goes with it, and with that the connections that
\* are still waiting.
Accept(d) ==
    LET r == Head(daemon[d].backlog)
        rest == Tail(daemon[d].backlog)
        up == daemon[d].running
    IN  /\ At(d, "accept")
        /\ daemon[d].backlog # <<>>
        /\ conn' = [(IF up THEN conn ELSE Reset(Waiting(d) \ {r})) EXCEPT ![r].pc = "recv"]
        /\ daemon' = [daemon EXCEPT ![d].pc = "loop", ![d].backlog = IF up THEN rest ELSE <<>>]
        /\ UNCHANGED <<path, client, kind, result, audit, overlapped>>

\* stop(): a thread blocked in accept() does not notice.
Stop(d) ==
    /\ Listening(d) /\ daemon[d].running
    /\ IF At(d, "accept")
       THEN /\ daemon' = [daemon EXCEPT ![d].running = FALSE]
            /\ UNCHANGED conn
       ELSE /\ daemon' = [daemon EXCEPT ![d].running = FALSE, ![d].backlog = <<>>]
            /\ conn' = Reset(Waiting(d))
    /\ UNCHANGED <<path, client, kind, result, audit, overlapped>>

\* SIGINT raises in the main thread, and the process ends with start().
Interrupt(d) ==
    /\ Listening(d)
    /\ daemon' = [daemon EXCEPT ![d].pc = "close", ![d].interrupted = TRUE]
    /\ UNCHANGED <<path, conn, client, kind, result, audit, overlapped>>

\* finally: the socket is closed and what is at the path is removed,
\* whosesoever.  Daemon threads go with the process.
Close(d) ==
    /\ At(d, "close")
    /\ path' = NoSocket
    /\ daemon' = [daemon EXCEPT ![d] = Ended]
    /\ conn' = Reset(IF daemon[d].interrupted THEN Served(d) ELSE Waiting(d))
    /\ UNCHANGED <<client, kind, result, audit, overlapped>>

\* The process is killed.
Crash(d) ==
    /\ daemon[d].pc \notin {"new", "ended", "failed"}
    /\ daemon' = [daemon EXCEPT ![d] = Ended]
    /\ conn' = Reset(Served(d))
    /\ UNCHANGED <<path, client, kind, result, audit, overlapped>>

-----------------------------------------------------------------------------
(* A thread of the daemon: _handle_client.                                 *)

\* Mutant of Receive: the request is read to the end of the input.
ReceiveAll(r) ==
    /\ conn[r].pc = "recv" /\ conn[r].gone
    /\ conn' = IF conn[r].data # NoTarget THEN [conn EXCEPT ![r].pc = "decide"]
               ELSE [conn EXCEPT ![r].pc = "send", ![r].answer = "ERROR"]
    /\ UNCHANGED <<path, daemon, client, kind, result, audit, overlapped>>

\* recv returns the request, or nothing when the client has hung up.
Receive(r) ==
    /\ conn[r].pc = "recv"
    /\ \/ conn[r].data # NoTarget /\ conn' = [conn EXCEPT ![r].pc = "decide"]
       \/ /\ conn[r].data = NoTarget /\ conn[r].gone
          /\ conn' = [conn EXCEPT ![r].pc = "send", ![r].answer = "ERROR"]
    /\ UNCHANGED <<path, daemon, client, kind, result, audit, overlapped>>

\* Mutant of Handle: a decision that cannot be recorded stands.
HandleUnrecorded(r) ==
    LET type == TypeOf[conn[r].data]
    IN  /\ conn[r].pc = "decide"
        /\ conn' = [conn EXCEPT ![r].pc = "send",
                                ![r].answer = IF type = "UNREADABLE" THEN "ERROR" ELSE type]
        /\ \/ type # "UNREADABLE" /\ audit' = audit \union {<<r, type>>}
           \/ (type = "UNREADABLE" \/ AuditFails) /\ UNCHANGED audit
        /\ UNCHANGED <<path, daemon, client, kind, result, overlapped>>

\* decide_request: the decision is recorded before it is answered; a request
\* that is no JSON and a record that cannot be written are answered as
\* errors.
Handle(r) ==
    LET type == TypeOf[conn[r].data]
    IN  /\ conn[r].pc = "decide"
        /\ \/ /\ type # "UNREADABLE"
              /\ audit' = audit \union {<<r, type>>}
              /\ conn' = [conn EXCEPT ![r].pc = "send", ![r].answer = type]
           \/ /\ type = "UNREADABLE" \/ AuditFails
              /\ conn' = [conn EXCEPT ![r].pc = "send", ![r].answer = "ERROR"]
              /\ UNCHANGED audit
        /\ UNCHANGED <<path, daemon, client, kind, result, overlapped>>

\* sendall raises when the client has hung up; the thread ends either way.
Send(r) ==
    /\ conn[r].pc = "send"
    /\ conn' = [conn EXCEPT ![r] = IF @.gone THEN Over ELSE [@ EXCEPT !.pc = "sent"]]
    /\ UNCHANGED <<path, daemon, client, kind, result, audit, overlapped>>

-----------------------------------------------------------------------------
(* Clients: check_policy and daemon_allows of the shim, ask_daemon.        *)

Call(c) ==
    /\ client[c].pc = "run"
    /\ client[c].calls < MaxCalls
    /\ \E target \in TargetsOf[c] :
          client' = [client EXCEPT ![c] = [pc |-> "connect", calls |-> @.calls + 1,
                                           target |-> target]]
    /\ UNCHANGED <<path, daemon, conn, kind, result, audit, overlapped>>

\* The call ends and its connection, if there is one, is closed.
End(c, pc, how) ==
    /\ client' = [client EXCEPT ![c].pc = pc, ![c].target = NoTarget]
    /\ result' = [result EXCEPT ![Current(c)] = how]
    /\ conn' = [conn EXCEPT ![Current(c)] =
                  IF @.pc \in {"none", "sent", "reset"} THEN Over ELSE [@ EXCEPT !.gone = TRUE]]

\* No answer: the shim blocks the call or, with RUNEGUARD_FAIL_CLOSED=0, asks
\* its own list; ask_daemon raises.
Unavailable(c) ==
    CASE kind[c] = "closed" -> "blocked"
      [] kind[c] = "fallback" ->
            IF client[c].target \in FallbackBlocks THEN "blocked" ELSE "fallback"
      [] kind[c] = "ask" -> "raised"

\* connect is refused, or waits for room in the backlog.
Connect(c) ==
    LET r == Current(c)
    IN  /\ client[c].pc = "connect"
        /\ IF path # NoSocket /\ Listening(path)
           THEN /\ Len(daemon[path].backlog) < Backlog
                /\ daemon' = [daemon EXCEPT ![path].backlog = Append(@, r)]
                /\ conn' = [conn EXCEPT ![r].pc = "queued", ![r].at = path]
                /\ client' = [client EXCEPT ![c].pc = "write"]
                /\ UNCHANGED result
           ELSE End(c, "run", Unavailable(c)) /\ UNCHANGED daemon
        /\ UNCHANGED <<path, kind, audit, overlapped>>

\* A write to a connection that was reset raises SIGPIPE, which ends a
\* program that does not ignore it.
Write(c) ==
    LET r == Current(c)
    IN  /\ client[c].pc = "write"
        /\ \/ /\ conn[r].pc # "reset"
              /\ conn' = [conn EXCEPT ![r].data = client[c].target]
              /\ client' = [client EXCEPT ![c].pc = "read"]
              /\ UNCHANGED result
           \/ conn[r].pc = "reset" /\ End(c, "run", Unavailable(c))
           \/ conn[r].pc = "reset" /\ kind[c] # "ask" /\ End(c, "killed", "killed")
        /\ UNCHANGED <<path, daemon, kind, audit, overlapped>>

\* The answer, or the end of a connection that was reset.
Read(c) ==
    LET r == Current(c)
    IN  /\ client[c].pc = "read"
        /\ \/ /\ conn[r].pc = "sent"
              /\ End(c, "run", IF conn[r].answer = "ALLOW" THEN "passed" ELSE "blocked")
           \/ conn[r].pc = "reset" /\ End(c, "run", Unavailable(c))
        /\ UNCHANGED <<path, daemon, kind, audit, overlapped>>

\* ask_daemon gives up after its timeout, the shim never does.
TimeOut(c) ==
    /\ kind[c] = "ask"
    /\ \/ /\ client[c].pc = "connect"
          /\ path # NoSocket /\ Listening(path)
          /\ Len(daemon[path].backlog) = Backlog
       \/ client[c].pc = "read" /\ conn[Current(c)].pc \notin {"sent", "reset"}
    /\ End(c, "run", "raised")
    /\ UNCHANGED <<path, daemon, kind, audit, overlapped>>

-----------------------------------------------------------------------------

MainThread(d) ==
    UnlinkStale(d) \/ Bind(d) \/ Loop(d) \/ Accept(d) \/ Close(d)
Handler(r) == Receive(r) \/ Handle(r) \/ Send(r)
Asks(c) == Connect(c) \/ Write(c) \/ Read(c)

Next ==
    \/ \E d \in Daemons : Start(d) \/ MainThread(d) \/ Stop(d) \/ Interrupt(d) \/ Crash(d)
    \/ \E r \in Requests : Handler(r)
    \/ \E c \in Clients : Call(c) \/ Asks(c) \/ TimeOut(c)

Spec == Init /\ [][Next]_vars

\* Threads that can go on do.
FairSpec ==
    /\ Spec
    /\ \A d \in Daemons : WF_vars(MainThread(d))
    /\ \A r \in Requests : WF_vars(Handler(r))
    /\ \A c \in Clients : WF_vars(Asks(c))

-----------------------------------------------------------------------------
(* Properties.                                                             *)

DaemonStates ==
    [pc : {"new", "unlink", "bind", "loop", "accept", "close", "ended", "failed"},
     running : BOOLEAN, interrupted : BOOLEAN, backlog : Seq(Requests)]
ConnStates ==
    [pc : {"none", "queued", "recv", "decide", "send", "sent", "reset", "over"},
     at : Daemons \union {NoSocket}, data : Targets \union {NoTarget},
     answer : DecisionTypes \union {"none", "ERROR"}, gone : BOOLEAN]
ClientStates ==
    [pc : {"run", "connect", "write", "read", "killed"}, calls : 0..MaxCalls,
     target : Targets \union {NoTarget}]

\* A backlog holds the connections of its daemon that are queued, once each
\* and no more than listen(16) allows.
BacklogOK(d) ==
    LET backlog == daemon[d].backlog
    IN  /\ Len(backlog) <= Backlog
        /\ Waiting(d) = {r \in Served(d) : conn[r].pc = "queued"}
        /\ \A i, j \in 1..Len(backlog) : backlog[i] = backlog[j] => i = j

\* Type invariant, with the backlogs (daemon.py:41, 47).
TypeOK ==
    /\ path \in Daemons \union {NoSocket}
    /\ daemon \in [Daemons -> DaemonStates] /\ \A d \in Daemons : BacklogOK(d)
    /\ conn \in [Requests -> ConnStates] /\ client \in [Clients -> ClientStates]
    /\ kind \in Kinds
    /\ result \in [Requests -> {"none", "passed", "blocked", "fallback", "raised", "killed"}]
    /\ audit \subseteq Requests \X DecisionTypes
    /\ overlapped \in BOOLEAN

\* A call passes on the daemon's word only with an ALLOW for this very call
\* in the audit log and nothing else; one that asks fail-closed passes in no
\* other way, whatever the daemons and the audit log go through (daemon.py:
\* 70-86, preload.c:126-137).
PassedIsAllowed ==
    \A r \in Requests :
        /\ result[r] = "passed" => {x \in audit : x[1] = r} = {<<r, "ALLOW">>}
        /\ result[r] = "fallback" => kind[r[1]] = "fallback"

\* As long as daemons are run one after the other, the one that listens is
\* the one the path leads to (daemon.py:33-53).
Reachable == ~overlapped => \A d \in Daemons : Listening(d) => path = d

\* Every intercepted call comes back or its program is killed: nobody waits
\* for an answer for ever, though the shim has no timeout (preload.c:98).
CallsEnd == \A c \in Clients : client[c].pc # "run" ~> client[c].pc \in {"run", "killed"}
=============================================================================
