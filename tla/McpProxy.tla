------------------------------ MODULE McpProxy ------------------------------
(***************************************************************************)
(* The MCP stdio proxy, MCPPolicyProxy of runeguard/mcp/proxy.py.          *)
(*                                                                         *)
(* Two coroutines of one event loop relay lines: c2s from the client to    *)
(* the server, checking each against the policy, and s2c back.  Both call  *)
(* blocking reads and writes in executor threads, so the loop runs the     *)
(* other one meanwhile.  run() gathers them, then stops the server; at the *)
(* end asyncio.run cancels what is left and joins the threads.             *)
(*                                                                         *)
(* The client and the server are the environment: the client sends lines,  *)
(* closes its end or dies; the server answers each request it reads, exits *)
(* when its input ends or on SIGTERM, or crashes.  Line n is the n-th line *)
(* the client has sent.                                                    *)
(***************************************************************************)
EXTENDS PolicyMeaning

CONSTANTS Bodies,       \* what a line of the client may hold
          Policies,     \* the policies the proxy may be started with
          ServerName,   \* --server-name
          ReadTools, WriteTools,  \* tool names that look like a read, a write
          MaxLines,     \* bound on the lines the client sends
          Faults        \* what may go wrong: "audit", "server", "client", "large"

\* check_client_message sees what json.loads makes of a line.  Text that is
\* no JSON is forwarded unseen, and so is a message without a method or with
\* a notification's; JSON that is no object raises at msg.get.
Unchecked == {"text", "response", "notification"}
Checked == {"list", "sampling", "read", "call", "badcall"}

\* A line is of one of these kinds, with the fields its check looks at.
ASSUME BodiesAssumption ==
    /\ MaxLines \in Nat
    /\ \A body \in Bodies :
          /\ body.kind \in Unchecked \union {"value", "other"} \union Checked
          /\ body.kind = "read" => body.path \in DOMAIN PathOf
          /\ body.kind = "call" =>
                /\ body.path \in DOMAIN PathOf \union {NoPath}
                /\ body.command \in Seq(STRING)
                /\ Arguments(body.command) \subseteq DOMAIN PathOf
                /\ body.hosts \in Seq(DOMAIN Labels \union {NoHost})

\* The paths and hosts that a policy lists have a meaning.
ASSUME PoliciesAssumption ==
    \A p \in Policies :
        /\ p.protected_paths \union p.writable_paths \subseteq DOMAIN PathOf
        /\ p.allowed_domains \subseteq DOMAIN Labels
        /\ \A pattern \in p.blocked_commands : pattern \in Seq(STRING)

VARIABLES policy,       \* the policy loaded at the start
          sent,         \* the lines the client has sent
          client,       \* "open", "closed" (its output), or "gone"
          taken,        \* how many lines a readline has returned
          c2s,          \* the coroutine _client_to_server
          s2c,          \* the coroutine _server_to_client
          main,         \* where run() is
          toServer,     \* lines in the server's input pipe
          stdinOpen,    \* the proxy has not closed the server's input
          served,       \* lines the server has read
          server,       \* "running", "exited" or "crashed"
          sigterm,      \* terminate() was called
          wrote,        \* lines the server has written
          relayed,      \* how many of them s2c has read
          toClient,     \* messages the client has received
          audit         \* the audit log

environment == <<policy, sent, client>>
pipes == <<toServer, stdinOpen, served, server, sigterm, wrote, relayed>>
vars == <<environment, taken, c2s, s2c, main, pipes, toClient, audit>>

-----------------------------------------------------------------------------
(* Checking a line.                                                        *)

Record(n, tool, decision) == [line |-> n, tool |-> tool, decision |-> decision]

\* _is_writable: a writable path or one below it, as it is spelled.
IsWritable(path) ==
    \E writable \in policy.writable_paths :
        LET top == PathOf[writable].plain
        IN  \/ PathOf[path].plain = top
            \/ top # <<>> /\ IsPrefix(top, PathOf[path].plain)

\* _tool_call_decision: the decisions that apply, in order; the first that
\* is not allow is the result.
ToolCallDecision(body) ==
    LET tool == McpDecision(policy, "mcp_tool", ServerName, body.tool)
        read == FileDecision(policy, "read_file", body.path)
        write == FileDecision(policy, "write_file", body.path)
        shell == ShellDecision(policy, "shell", body.command)
        connect(host) == ConnectDecision(policy, "connect", host)
        refused == {i \in 1..Len(body.hosts) : connect(body.hosts[i]) # "allow"}
    IN  IF tool # "allow" THEN tool
        ELSE IF body.tool \in ReadTools /\ body.path # NoPath /\ read # "allow" THEN read
        ELSE IF body.tool \in WriteTools /\ body.path # NoPath /\ write # "allow" THEN write
        ELSE IF /\ body.tool \in WriteTools /\ body.path # NoPath
                /\ policy.writable_paths # {} /\ ~IsWritable(body.path)
             THEN "block"
        ELSE IF body.command # <<>> /\ shell # "allow" THEN shell
        ELSE IF refused # {} THEN connect(body.hosts[Min(refused)])
        ELSE "allow"

\* The decision of a checked method, once the server is allowed.
OwnDecision(body) ==
    CASE body.kind \in {"list", "sampling"} -> "allow"
      [] body.kind = "read" -> FileDecision(policy, "read_file", body.path)
      [] body.kind = "call" -> ToolCallDecision(body)

ServerDecision == McpDecision(policy, "mcp_server", ServerName, NoName)

\* Mutant of Records: a refusal returns before it is logged.
RecordsOfAllowed(n) ==
    LET body == sent[n]
    IN  IF body.kind \notin Checked \/ ServerDecision # "allow" THEN <<>>
        ELSE <<Record(n, "mcp_server", "allow")>>
             \o (IF body.kind = "badcall" \/ OwnDecision(body) # "allow" THEN <<>>
                 ELSE <<Record(n, body.kind, "allow")>>)

\* The audit records check_client_message writes of line n, in order.  A call
\* whose params are no object raises after the record of the server.
Records(n) ==
    LET body == sent[n]
    IN  IF body.kind \in Unchecked \union {"value"} THEN <<>>
        ELSE IF body.kind = "other" THEN <<Record(n, "other", "allow")>>
        ELSE <<Record(n, "mcp_server", ServerDecision)>>
             \o (IF ServerDecision # "allow" \/ body.kind = "badcall" THEN <<>>
                 ELSE <<Record(n, body.kind, OwnDecision(body))>>)

\* How it ends, when every record can be written.
Outcome(body) ==
    IF body.kind \in Unchecked \union {"other"} THEN "forward"
    ELSE IF body.kind = "value" THEN "raise"
    ELSE IF ServerDecision # "allow" THEN "refuse"
    ELSE IF body.kind = "badcall" THEN "raise"
    ELSE IF OwnDecision(body) = "allow" THEN "forward" ELSE "refuse"

-----------------------------------------------------------------------------
(* The environment.                                                        *)

Init ==
    /\ policy \in Policies
    /\ sent = <<>> /\ client = "open" /\ taken = 0
    /\ c2s = [pc |-> "read", line |-> 0]
    /\ s2c = [pc |-> "read", line |-> 0]
    /\ main = "gather"
    /\ toServer = <<>> /\ stdinOpen = TRUE /\ served = <<>>
    /\ server = "running" /\ sigterm = FALSE
    /\ wrote = <<>> /\ relayed = 0
    /\ toClient = <<>> /\ audit = <<>>

IsRequest(body) == body.kind \notin {"text", "value", "response", "notification"}

ClientSends ==
    /\ client = "open"
    /\ Len(sent) < MaxLines
    /\ \E body \in Bodies : sent' = Append(sent, body)
    /\ UNCHANGED <<policy, client, taken, c2s, s2c, main, pipes, toClient, audit>>

ClientCloses ==
    /\ client = "open"
    /\ client' \in {"closed"} \union (IF "client" \in Faults THEN {"gone"} ELSE {})
    /\ UNCHANGED <<policy, sent, taken, c2s, s2c, main, pipes, toClient, audit>>

\* The server reads a line and answers it, if it is a request.
ServerServes ==
    /\ server = "running"
    /\ toServer # <<>>
    /\ toServer' = Tail(toServer)
    /\ served' = Append(served, Head(toServer))
    /\ IF IsRequest(sent[Head(toServer)])
       THEN \E size \in {"line"} \union (Faults \intersect {"large"}) :
               wrote' = Append(wrote, [line |-> Head(toServer), size |-> size])
       ELSE UNCHANGED wrote
    /\ UNCHANGED <<environment, taken, c2s, s2c, main, stdinOpen, server,
                   sigterm, relayed, toClient, audit>>

\* It exits at the end of its input and on SIGTERM ...
ServerExits ==
    /\ server = "running"
    /\ sigterm \/ (~stdinOpen /\ toServer = <<>>)
    /\ server' = "exited"
    /\ UNCHANGED <<environment, taken, c2s, s2c, main, toServer, stdinOpen,
                   served, sigterm, wrote, relayed, toClient, audit>>

\* ... or crashes.
ServerCrashes ==
    /\ "server" \in Faults
    /\ server = "running"
    /\ server' = "crashed"
    /\ UNCHANGED <<environment, taken, c2s, s2c, main, toServer, stdinOpen,
                   served, sigterm, wrote, relayed, toClient, audit>>

-----------------------------------------------------------------------------
(* _client_to_server.                                                      *)

\* The loop has not cancelled its tasks yet.
Looping == main \in {"gather", "wait"}

\* readline returns a line, or the end of the input.
ReadLine ==
    /\ Looping /\ c2s.pc = "read"
    /\ \/ /\ taken < Len(sent)
          /\ taken' = taken + 1
          /\ c2s' = [pc |-> "check", line |-> taken + 1]
       \/ /\ taken = Len(sent) /\ client # "open"
          /\ c2s' = [c2s EXCEPT !.pc = "close"]
          /\ UNCHANGED taken
    /\ UNCHANGED <<environment, s2c, main, pipes, toClient, audit>>

\* Mutant of After: a refused line is skipped without an answer.
AfterSilently(outcome) ==
    CASE outcome = "forward" -> "drain" [] outcome = "refuse" -> "read"
      [] outcome = "raise" -> "failed"

\* Where the coroutine goes after the check.
After(outcome) ==
    CASE outcome = "forward" -> "drain" [] outcome = "refuse" -> "respond"
      [] outcome = "raise" -> "failed"

\* writer.write of a line: dropped when the server is not there.
Forwarded(n) == IF server = "running" THEN Append(toServer, n) ELSE toServer

\* check_client_message and the write run without giving up the loop.  A
\* record is on the disk before the next step; one that cannot be written
\* raises.
CheckLine ==
    LET n == c2s.line
        records == Records(n)
        logged(k) == audit \o SubSeq(records, 1, k)
        end(outcome) == c2s' = [c2s EXCEPT !.pc = After(outcome)]
    IN  /\ Looping /\ c2s.pc = "check"
        /\ \/ /\ audit' = logged(Len(records))
              /\ end(Outcome(sent[n]))
              /\ toServer' = IF Outcome(sent[n]) = "forward" THEN Forwarded(n) ELSE toServer
           \/ /\ "audit" \in Faults
              /\ \E k \in 0..(Len(records) - 1) : audit' = logged(k)
              /\ end("raise")
              /\ UNCHANGED toServer
        /\ UNCHANGED <<environment, taken, s2c, main, stdinOpen, served, server,
                       sigterm, wrote, relayed, toClient>>

\* writer.drain raises once the loop has noticed that the server is gone.
Drain ==
    /\ Looping /\ c2s.pc = "drain"
    /\ \/ c2s' = [c2s EXCEPT !.pc = "read"]
       \/ server # "running" /\ c2s' = [c2s EXCEPT !.pc = "failed"]
    /\ UNCHANGED <<environment, taken, s2c, main, pipes, toClient, audit>>

Message(from, n) == [from |-> from, line |-> n]

\* Mutant of Respond: the refused line is forwarded as well.
RespondAndForward ==
    /\ Looping /\ c2s.pc = "respond" /\ client # "gone"
    /\ toClient' = Append(toClient, Message("proxy", c2s.line))
    /\ toServer' = Forwarded(c2s.line)
    /\ c2s' = [c2s EXCEPT !.pc = "drain"]
    /\ UNCHANGED <<environment, taken, s2c, main, stdinOpen, served, server,
                   sigterm, wrote, relayed, audit>>

\* The error for a refused line goes to the client; a client that is gone
\* makes the write raise.
Respond ==
    /\ Looping /\ c2s.pc = "respond"
    /\ IF client = "gone"
       THEN c2s' = [c2s EXCEPT !.pc = "failed"] /\ UNCHANGED toClient
       ELSE /\ toClient' = Append(toClient, Message("proxy", c2s.line))
            /\ c2s' = [c2s EXCEPT !.pc = "read"]
    /\ UNCHANGED <<environment, taken, s2c, main, pipes, audit>>

\* At the end of the input: writer.close, wait_closed.
CloseServer ==
    /\ Looping /\ c2s.pc = "close"
    /\ stdinOpen' = FALSE
    /\ \/ c2s' = [c2s EXCEPT !.pc = "done"]
       \/ server # "running" /\ c2s' = [c2s EXCEPT !.pc = "failed"]
    /\ UNCHANGED <<environment, taken, s2c, main, toServer, served, server,
                   sigterm, wrote, relayed, toClient, audit>>

-----------------------------------------------------------------------------
(* _server_to_client.                                                      *)

\* readline of the server's output.  A line over the limit of the stream
\* reader makes it raise.
ReadReply ==
    /\ Looping /\ s2c.pc = "read"
    /\ \/ /\ relayed < Len(wrote)
          /\ relayed' = relayed + 1
          /\ s2c' = [pc |-> IF wrote[relayed + 1].size = "large" THEN "failed" ELSE "write",
                     line |-> wrote[relayed + 1].line]
       \/ /\ relayed = Len(wrote) /\ server # "running"
          /\ s2c' = [s2c EXCEPT !.pc = "done"]
          /\ UNCHANGED relayed
    /\ UNCHANGED <<environment, taken, c2s, main, toServer, stdinOpen, served,
                   server, sigterm, wrote, toClient, audit>>

WriteReply ==
    /\ Looping /\ s2c.pc = "write"
    /\ IF client = "gone"
       THEN s2c' = [s2c EXCEPT !.pc = "failed"] /\ UNCHANGED toClient
       ELSE /\ toClient' = Append(toClient, Message("server", s2c.line))
            /\ s2c' = [s2c EXCEPT !.pc = "read"]
    /\ UNCHANGED <<environment, taken, c2s, main, pipes, audit>>

-----------------------------------------------------------------------------
(* run().                                                                  *)

\* Mutant of GatherEnds: the server is not terminated.
GatherEndsQuietly ==
    /\ main = "gather"
    /\ "failed" \in {c2s.pc, s2c.pc} \/ {c2s.pc, s2c.pc} = {"done"}
    /\ main' = "wait"
    /\ UNCHANGED <<environment, taken, c2s, s2c, pipes, toClient, audit>>

\* gather ends with the first exception, or when both coroutines are done;
\* the finally clause terminates a server that is still running.
GatherEnds ==
    /\ main = "gather"
    /\ \/ "failed" \in {c2s.pc, s2c.pc}
       \/ {c2s.pc, s2c.pc} = {"done"}
    /\ sigterm' = (server = "running")
    /\ main' = "wait"
    /\ UNCHANGED <<environment, taken, c2s, s2c, toServer, stdinOpen, served,
                   server, wrote, relayed, toClient, audit>>

\* What becomes of a coroutine that waits for a thread.
ThreadOf == [read |-> "thread_read", respond |-> "thread_respond", write |-> "thread_write"]

\* Mutant of Cancelled: only what waits for a thread is cancelled.
CancelledThread(coroutine, blocking) ==
    [coroutine EXCEPT !.pc = IF @ \in blocking THEN ThreadOf[@] ELSE @]

\* asyncio.run cancels the coroutine that is left.  A thread it is waiting
\* for is not cancelled.
Cancelled(coroutine, blocking) ==
    [coroutine EXCEPT !.pc = IF @ \in blocking THEN ThreadOf[@]
                             ELSE IF @ = "failed" THEN @ ELSE "done"]

Cancel ==
    /\ main = "wait"
    /\ server # "running"
    /\ c2s' = Cancelled(c2s, {"read", "respond"})
    /\ s2c' = Cancelled(s2c, {"write"})
    /\ main' = "join"
    /\ UNCHANGED <<environment, taken, pipes, toClient, audit>>

\* What the threads still do, for nobody: a line is read and lost, a message
\* is written.
ThreadEnds ==
    /\ \/ /\ c2s.pc = "thread_read"
          /\ \/ taken < Len(sent) /\ taken' = taken + 1
             \/ taken = Len(sent) /\ client # "open" /\ UNCHANGED taken
          /\ c2s' = [c2s EXCEPT !.pc = "done"]
          /\ UNCHANGED <<s2c, toClient>>
       \/ /\ c2s.pc = "thread_respond"
          /\ c2s' = [c2s EXCEPT !.pc = "done"]
          /\ toClient' = IF client = "gone" THEN toClient
                         ELSE Append(toClient, Message("proxy", c2s.line))
          /\ UNCHANGED <<taken, s2c>>
       \/ /\ s2c.pc = "thread_write"
          /\ s2c' = [s2c EXCEPT !.pc = "done"]
          /\ toClient' = IF client = "gone" THEN toClient
                         ELSE Append(toClient, Message("server", s2c.line))
          /\ UNCHANGED <<taken, c2s>>
    /\ UNCHANGED <<environment, main, pipes, audit>>

\* The executor's threads have been joined: the process ends.
End ==
    /\ main = "join"
    /\ c2s.pc \in {"done", "failed"} /\ s2c.pc \in {"done", "failed"}
    /\ main' = "ended"
    /\ UNCHANGED <<environment, taken, c2s, s2c, pipes, toClient, audit>>

-----------------------------------------------------------------------------

ClientToServer == ReadLine \/ CheckLine \/ Drain \/ Respond \/ CloseServer
ServerToClient == ReadReply \/ WriteReply
Run == GatherEnds \/ Cancel \/ ThreadEnds \/ End
Server == ServerServes \/ ServerExits

Next ==
    \/ ClientSends \/ ClientCloses \/ Server \/ ServerCrashes
    \/ ClientToServer \/ ServerToClient \/ Run

Spec == Init /\ [][Next]_vars

\* The event loop runs every coroutine that is ready, a thread that can
\* finish does; a server that has not crashed serves and exits.
FairSpec ==
    /\ Spec
    /\ WF_vars(ClientToServer) /\ WF_vars(ServerToClient) /\ WF_vars(Run)
    /\ WF_vars(Server)

-----------------------------------------------------------------------------
(* Properties.                                                             *)

\* Behind the cancellation (proxy.py:340) no coroutine is left but for the
\* threads the loop cannot cancel.
ClientPlaces ==
    IF Looping THEN {"read", "check", "drain", "respond", "close", "done", "failed"}
    ELSE {"thread_read", "thread_respond", "done", "failed"}

ServerPlaces ==
    IF Looping THEN {"read", "write", "done", "failed"} ELSE {"thread_write", "done", "failed"}

CoroutinesTyped ==
    /\ c2s \in [pc : ClientPlaces, line : 0..taken]
    /\ s2c \in [pc : ServerPlaces, line : 0..taken]

AuditRecords(lines) ==
    [line : lines, decision : Decisions,
     tool : {"mcp_server", "other", "list", "sampling", "read", "call"}]

LinesTyped ==
    /\ toServer \in Seq(1..taken) /\ served \in Seq(1..taken)
    /\ wrote \in Seq([line : 1..taken, size : {"line", "large"}])
    /\ relayed \in 0..Len(wrote)
    /\ toClient \in Seq([from : {"proxy", "server"}, line : 1..taken])
    /\ audit \in Seq(AuditRecords(1..taken))

\* Type invariant: every line number names a line that was taken.
TypeOK ==
    /\ policy \in Policies
    /\ sent \in Seq(Bodies) /\ Len(sent) <= MaxLines
    /\ client \in {"open", "closed", "gone"}
    /\ taken \in 0..Len(sent)
    /\ main \in {"gather", "wait", "join", "ended"}
    /\ stdinOpen \in BOOLEAN /\ sigterm \in BOOLEAN
    /\ server \in {"running", "exited", "crashed"}
    /\ CoroutinesTyped /\ LinesTyped

\* What the policy asks of a line: every rule that the line touches must
\* admit it, whatever the order of the code's checks.
ServerListed ==
    Listed(ServerName, policy.allowed_mcp_servers, policy.denied_mcp_servers)

ServerObeys == Admits(policy, "mcp_server", ServerListed)

ReadObeys(path) == Admits(policy, "read_file", ~Kept(policy, path))

WriteObeys(path) ==
    Admits(policy, "write_file",
           /\ ~Kept(policy, path)
           /\ policy.writable_paths # {} =>
                 \E writable \in policy.writable_paths :
                    \/ PathOf[path].plain = PathOf[writable].plain
                    \/ \E n \in 1..Len(PathOf[path].plain) :
                          SubSeq(PathOf[path].plain, 1, n) = PathOf[writable].plain)

CallObeys(body) ==
    /\ Admits(policy, "mcp_tool",
              /\ ServerListed
              /\ Listed(body.tool, policy.allowed_mcp_tools, policy.denied_mcp_tools))
    /\ body.tool \in ReadTools /\ body.path # NoPath => ReadObeys(body.path)
    /\ body.tool \in WriteTools /\ body.path # NoPath => WriteObeys(body.path)
    /\ body.command # <<>> => CommandObeys(policy, body.command)
    /\ \A i \in 1..Len(body.hosts) :
          Admits(policy, "connect", HostListed(policy, body.hosts[i]))

Obeys(body) ==
    \/ body.kind \in Unchecked \union {"other"}
    \/ body.kind \in {"list", "sampling"} /\ ServerObeys
    \/ body.kind = "read" /\ ServerObeys /\ ReadObeys(body.path)
    \/ body.kind = "call" /\ ServerObeys /\ CallObeys(body)

\* The server reads, in the client's order and once each, exactly the lines
\* that obey the policy: none that does not, whatever else happens to the
\* relay (proxy.py:94-119), and while the relay runs none is missing.
Delivered == served \o toServer

ForwardsExactly ==
    /\ \A i \in 1..Len(Delivered) : Obeys(sent[Delivered[i]])
    /\ \A i, j \in 1..Len(Delivered) : i < j => Delivered[i] < Delivered[j]
    /\ c2s.pc = "read" /\ server = "running" =>
          \A n \in 1..taken :
             Obeys(sent[n]) => \E i \in 1..Len(Delivered) : Delivered[i] = n

\* The audit is written ahead: a checked line reaches the server only behind
\* the allow records of its server and its method, a refusal reaches the
\* client only behind a record that is not allow (proxy.py:165-204).
Logged(n, tool, allowed) ==
    \E k \in 1..Len(audit) :
        audit[k].line = n /\ audit[k].tool = tool /\ (audit[k].decision = "allow") = allowed

AuditedFirst ==
    /\ \A i \in 1..Len(Delivered) :
          LET n == Delivered[i]
          IN  /\ sent[n].kind = "other" => Logged(n, "other", TRUE)
              /\ sent[n].kind \in Checked =>
                    Logged(n, "mcp_server", TRUE) /\ Logged(n, sent[n].kind, TRUE)
    /\ \A k \in 1..Len(toClient) :
          toClient[k].from = "proxy" =>
             \E tool \in {"mcp_server", sent[toClient[k].line].kind} :
                Logged(toClient[k].line, tool, FALSE)

\* No line is answered twice, by whichever of the two coroutines or the
\* threads they leave behind (proxy.py:113, 133): the proxy answers only what
\* the server never sees, the server's answers keep their order.
AnswersMatch ==
    /\ \A k, l \in 1..Len(toClient) :
          k # l => toClient[k].line # toClient[l].line
    /\ \A k \in 1..Len(toClient) :
          toClient[k].from = "proxy" =>
             \A i \in 1..Len(Delivered) : Delivered[i] # toClient[k].line
    /\ \A k, l \in 1..Len(toClient) :
          k < l /\ toClient[k].from = "server" /\ toClient[l].from = "server" =>
             toClient[k].line < toClient[l].line

\* A session ends, and its server with it, once the client closes its end,
\* whatever has failed before (proxy.py:82-85, 340).
SessionEnds == client # "open" ~> main = "ended" /\ server # "running"

\* Every request gets an answer, also after the client has closed its
\* output, unless a coroutine failed, the server crashed or the client is
\* gone (proxy.py:96-99: the server's answers are relayed to their end).
Broken == client = "gone" \/ server = "crashed" \/ "failed" \in {c2s.pc, s2c.pc}

Answered(n) == \E k \in 1..Len(toClient) : toClient[k].line = n

RequestsAnswered ==
    \A n \in 1..MaxLines :
        n <= Len(sent) /\ IsRequest(sent[n]) ~> Broken \/ Answered(n)
=============================================================================
