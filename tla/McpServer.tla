----------------------------- MODULE McpServer ------------------------------
(***************************************************************************)
(* RuneGuard's own MCP server, RuneGuardMCPServer of                       *)
(* runeguard/mcp/server.py with RuneGuardProxy.call of runeguard/proxy.py: *)
(* one loop that reads a line, decides, records, runs the tool and answers.*)
(*                                                                         *)
(* The shell tool's command is started with the server's own standard      *)
(* input, so the pipe from the client has two readers: the server, which   *)
(* reads ahead whatever is there, and a command that reads its input.      *)
(* Line n is the n-th line the client has sent.                            *)
(***************************************************************************)
EXTENDS PolicyMeaning

CONSTANTS Bodies,       \* what a line of the client may hold
          Policies,     \* the policies the server may be started with
          Reading,      \* commands that read a line of their input
          Draining,     \* commands that read their input to its end
          MaxLines,     \* bound on the lines the client sends
          Faults        \* what may go wrong: "audit", "print", "tool", "client"

ASSUME CommandsAssumption == Reading \intersect Draining = {}

Tools == {"read_file", "write_file", "shell"}

\* A line is of one of these kinds, "garbled" when it is no UTF-8 text; a call
\* has the fields its tool looks at.
ASSUME BodiesAssumption ==
    /\ MaxLines \in Nat
    /\ \A body \in Bodies :
          /\ body.kind \in {"blank", "notification", "junk", "method", "call", "garbled"}
          /\ body.kind = "call" /\ body.tool = "shell" =>
                /\ body.command \in Seq(STRING)
                /\ Arguments(body.command) \subseteq DOMAIN PathOf
          /\ body.kind = "call" /\ body.tool \in Tools \ {"shell"} => body.path \in DOMAIN PathOf

\* The paths that a policy lists have a meaning.
ASSUME PoliciesAssumption ==
    \A p \in Policies :
        /\ p.protected_paths \subseteq DOMAIN PathOf
        /\ \A pattern \in p.blocked_commands : pattern \in Seq(STRING)

VARIABLES policy,       \* the policy loaded at the start
          sent,         \* the lines the client has sent
          client,       \* "open", "closed" (its output), or "gone"
          pipe,         \* lines in the server's standard input
          ahead,        \* lines the server has read ahead
          server,       \* where serve() is, with which line and answer
          eaten,        \* lines that commands have read
          audit,        \* the audit log
          done,         \* lines whose tool has taken effect
          stdout        \* what the client is sent: answers and other text

vars == <<policy, sent, client, pipe, ahead, server, eaten, audit, done, stdout>>

Init ==
    /\ policy \in Policies
    /\ sent = <<>> /\ client = "open" /\ pipe = <<>> /\ ahead = <<>>
    /\ server = [pc |-> "read", line |-> 0, status |-> "none"]
    /\ eaten = <<>> /\ audit = <<>> /\ done = <<>> /\ stdout = <<>>

At(pc) == server.pc = pc
Body == sent[server.line]
Goto(pc) == server' = [server EXCEPT !.pc = pc]
Item(n, status) == [line |-> n, status |-> status]
AnswerWith(status) == server' = [server EXCEPT !.pc = "answer", !.status = status]

-----------------------------------------------------------------------------
(* The client.                                                             *)

ClientSends ==
    /\ client = "open" /\ Len(sent) < MaxLines
    /\ \E body \in Bodies : sent' = Append(sent, body)
    /\ pipe' = Append(pipe, Len(sent) + 1)
    /\ UNCHANGED <<policy, client, ahead, server, eaten, audit, done, stdout>>

ClientEnds ==
    /\ \/ client = "open" /\ client' = "closed"
       \/ client # "gone" /\ "client" \in Faults /\ client' = "gone"
    /\ UNCHANGED <<policy, sent, pipe, ahead, server, eaten, audit, done, stdout>>

-----------------------------------------------------------------------------
(* serve().                                                                *)

\* Mutant of ReadAhead: the lines stay in the pipe.
ReadAheadPeeks ==
    /\ At("read") /\ ahead = <<>> /\ pipe # <<>>
    /\ ahead' = pipe
    /\ UNCHANGED <<policy, sent, client, pipe, server, eaten, audit, done, stdout>>

Garbled(n) == sent[n].kind = "garbled"

\* sys.stdin has no line left: the next read takes what the pipe holds.
ReadAhead ==
    /\ At("read") /\ ahead = <<>> /\ pipe # <<>>
    /\ \A i \in 1..Len(pipe) : ~Garbled(pipe[i])
    /\ ahead' = pipe /\ pipe' = <<>>
    /\ UNCHANGED <<policy, sent, client, server, eaten, audit, done, stdout>>

\* What was read is decoded before it is divided into lines: a byte that is no
\* text raises outside the try, and every line read with it is lost.
ReadGarbled ==
    /\ At("read") /\ ahead = <<>>
    /\ \E i \in 1..Len(pipe) : Garbled(pipe[i])
    /\ Goto("failed") /\ pipe' = <<>>
    /\ UNCHANGED <<policy, sent, client, ahead, eaten, audit, done, stdout>>

\* Mutant of NextPc: what raises is passed over.
NextPcSilent(kind) ==
    CASE kind \in {"blank", "notification", "junk"} -> "read"
      [] kind = "method" -> "answer"
      [] kind = "call" -> "decide"

\* _handle: blank lines and notifications have no answer; text that is no
\* JSON object, and a call whose params are none, raise; every other method
\* than tools/call is answered at once, with or without an id.
NextPc(kind) ==
    CASE kind \in {"blank", "notification"} -> "read"
      [] kind \in {"junk", "method"} -> "answer"
      [] kind = "call" -> "decide"

TakeLine ==
    /\ At("read") /\ ahead # <<>>
    /\ LET n == Head(ahead)
       IN  server' = [pc |-> NextPc(sent[n].kind), line |-> n,
                      status |-> IF sent[n].kind = "junk" THEN "raised" ELSE "result"]
    /\ ahead' = Tail(ahead)
    /\ UNCHANGED <<policy, sent, client, pipe, eaten, audit, done, stdout>>

\* Policy.decide for the server's three tools.
Decision(body) ==
    IF body.tool = "shell" THEN ShellDecision(policy, "shell", body.command)
    ELSE FileDecision(policy, body.tool, body.path)

\* What no step of a tool call changes.
taken == <<policy, sent, client, ahead>>

\* Mutant of CallDecides: the call goes on when its record cannot be written.
CallDecidesUnrecorded ==
    LET decision == Decision(Body)
    IN  /\ At("decide") /\ Body.tool \in Tools
        /\ \/ audit' = Append(audit, [line |-> server.line, decision |-> decision])
           \/ "audit" \in Faults /\ UNCHANGED audit
        /\ IF decision = "allow" THEN Goto("run") ELSE AnswerWith("blocked")
        /\ UNCHANGED <<taken, pipe, eaten, done, stdout>>

\* RuneGuardProxy.call up to the tool: the decision is recorded, then printed
\* on stdout.  The print may raise, and does once nobody reads stdout; so may
\* the record, before or behind the line in the log, and a PermissionError of
\* its own is answered like a refusal.
CallDecides ==
    LET decision == Decision(Body)
        recorded == Append(audit, [line |-> server.line, decision |-> decision])
    IN  /\ At("decide") /\ Body.tool \in Tools
        /\ \/ /\ client # "gone" /\ audit' = recorded
              /\ stdout' = Append(stdout, Item(server.line, "text"))
              /\ IF decision = "allow" THEN Goto("run") ELSE AnswerWith("blocked")
           \/ /\ client = "gone" \/ "print" \in Faults
              /\ audit' = recorded
              /\ AnswerWith("raised") /\ UNCHANGED stdout
           \/ /\ "audit" \in Faults /\ audit' \in {audit, recorded}
              /\ AnswerWith("raised") \/ AnswerWith("blocked")
              /\ UNCHANGED stdout
        /\ UNCHANGED <<taken, pipe, eaten, done>>

UnknownTool ==
    /\ At("decide") /\ Body.tool \notin Tools
    /\ AnswerWith("result")
    /\ UNCHANGED <<taken, pipe, eaten, audit, done, stdout>>

\* Mutant of RunTool: what the tool raises is not looked at.
RunToolRegardless ==
    /\ At("run")
    /\ IF Body.tool = "shell" THEN Goto("wait") ELSE AnswerWith("result")
    /\ \/ Body.fits /\ done' = Append(done, server.line)
       \/ (~Body.fits \/ "tool" \in Faults) /\ UNCHANGED done
    /\ UNCHANGED <<taken, pipe, eaten, audit, stdout>>

\* fn(**kwargs).  Arguments that are missing or too many raise TypeError; a
\* file that cannot be opened or a shell that cannot be started raises, and a
\* PermissionError is answered like a refusal; a write may raise behind its
\* effect.
RunTool ==
    /\ At("run")
    /\ \/ ~Body.fits /\ AnswerWith("raised") /\ UNCHANGED done
       \/ /\ Body.fits /\ done' = Append(done, server.line)
          /\ IF Body.tool = "shell" THEN Goto("wait") ELSE AnswerWith("result")
       \/ /\ Body.fits /\ "tool" \in Faults
          /\ AnswerWith("blocked") \/ AnswerWith("raised")
          /\ UNCHANGED done
       \/ /\ Body.fits /\ "tool" \in Faults /\ Body.tool = "write_file"
          /\ AnswerWith("raised") /\ done' = Append(done, server.line)
    /\ UNCHANGED <<taken, pipe, eaten, audit, stdout>>

HasRead == \E k \in 1..Len(eaten) : eaten[k].by = server.line

\* The command, which subprocess.run waits for without a limit, reads the
\* standard input it has from the server.
CommandReads ==
    /\ At("wait") /\ pipe # <<>>
    /\ \/ Body.command \in Draining
       \/ Body.command \in Reading /\ ~HasRead
    /\ eaten' = Append(eaten, [line |-> Head(pipe), by |-> server.line])
    /\ pipe' = Tail(pipe)
    /\ UNCHANGED <<taken, server, audit, done, stdout>>

\* A command that waits for input ends when it has read it, or at its end.
\* Output that is no text raises.
CommandEnds ==
    /\ At("wait")
    /\ Body.command \in Draining => pipe = <<>> /\ client # "open"
    /\ Body.command \in Reading =>
          \/ HasRead
          \/ pipe = <<>> /\ client # "open"
    /\ AnswerWith("result") \/ ("tool" \in Faults /\ AnswerWith("raised"))
    /\ UNCHANGED <<taken, pipe, eaten, audit, done, stdout>>

\* Mutant of WriteAnswer: an answer that cannot be written is tried again.
WriteAnswerRetried ==
    /\ At("answer") /\ client # "gone"
    /\ Goto("read")
    /\ stdout' = Append(stdout, Item(server.line, server.status))
    /\ UNCHANGED <<taken, pipe, eaten, audit, done>>

\* An answer has the id of its line, but null when something raised; to a
\* client that is gone it cannot be written, which ends the server.
WriteAnswer ==
    /\ At("answer")
    /\ IF client = "gone" THEN Goto("failed") /\ UNCHANGED stdout
       ELSE /\ Goto("read")
            /\ stdout' = Append(stdout, Item(server.line, server.status))
    /\ UNCHANGED <<taken, pipe, eaten, audit, done>>

EndOfInput ==
    /\ At("read") /\ ahead = <<>> /\ pipe = <<>> /\ client # "open"
    /\ Goto("ended")
    /\ UNCHANGED <<taken, pipe, eaten, audit, done, stdout>>

Serve ==
    \/ ReadAhead \/ ReadGarbled \/ TakeLine \/ CallDecides \/ UnknownTool
    \/ RunTool \/ CommandReads \/ CommandEnds \/ WriteAnswer \/ EndOfInput

Next == ClientSends \/ ClientEnds \/ Serve

Spec == Init /\ [][Next]_vars

\* The server goes on, and so does a command that waits for nothing.
FairSpec == Spec /\ WF_vars(Serve)

-----------------------------------------------------------------------------
(* Properties.                                                             *)

Statuses == {"result", "blocked", "raised"}

\* Where serve() is; the line it works on, if any, has a number.
ServerStates ==
    [pc : {"read", "decide", "run", "wait", "answer", "ended", "failed"},
     line : 0..Len(sent), status : Statuses \union {"none"}]

Ascending(lines) == \A i, j \in 1..Len(lines) : i < j => lines[i] < lines[j]

\* Types; a line waits in one place, in the client's order, and what is read
\* ahead is text.
TypeOK ==
    /\ policy \in Policies /\ sent \in Seq(Bodies) /\ Len(sent) <= MaxLines
    /\ client \in {"open", "closed", "gone"}
    /\ ahead \in Seq(1..Len(sent)) /\ pipe \in Seq(1..Len(sent))
    /\ Ascending(ahead) /\ Ascending(pipe)
    /\ \A i \in 1..Len(ahead), j \in 1..Len(pipe) : ahead[i] < pipe[j]
    /\ \A i \in 1..Len(ahead) : ~Garbled(ahead[i])
    /\ server \in ServerStates
    /\ At("read") \/ At("ended") \/ At("failed") \/ server.line > 0
    /\ audit \in Seq([line : 1..Len(sent), decision : Decisions])
    /\ done \in Seq(1..Len(sent))
    /\ eaten \in Seq([line : 1..Len(sent), by : 1..Len(sent)])
    /\ stdout \in Seq([line : 1..Len(sent), status : Statuses \union {"text"}])

\* What a call asks for, and whether the policy wants it (policy.py:112-182).
Obeys(body) ==
    IF body.tool = "shell" THEN CommandObeys(policy, body.command)
    ELSE Admits(policy, body.tool, ~Kept(policy, body.path))

Recorded(n) == \E k \in 1..Len(audit) : audit[k].line = n /\ audit[k].decision = "allow"

\* A tool takes effect only for a call that obeys the policy and is on record
\* as allowed, in the client's order and once, and never for a line that a
\* command has read: whatever fails and whoever reads the pipe
\* (proxy.py:12-34, server.py:119-131).
EffectsObey ==
    /\ \A i \in 1..Len(done) :
          /\ Obeys(sent[done[i]]) /\ Recorded(done[i])
          /\ \A k \in 1..Len(eaten) : eaten[k].line # done[i]
    /\ Ascending(done)

\* An answer tells what has happened: a result comes behind the effect, and
\* what is answered like a refusal, whether the policy, the record or the tool
\* refused it, has had none; lines are answered in their order and once, and
\* none that a command has read (server.py:58-72, 139-161).
IsAnswer(item) == item.status # "text"

AnswersTell ==
    /\ \A i \in 1..Len(stdout) :
          LET n == stdout[i].line
              ran == \E k \in 1..Len(done) : done[k] = n
              call == sent[n].kind = "call" /\ sent[n].tool \in Tools
          IN  /\ stdout[i].status = "result" => ran = call
              /\ stdout[i].status = "blocked" => ~ran
              /\ IsAnswer(stdout[i]) => \A k \in 1..Len(eaten) : eaten[k].line # n
    /\ \A i, j \in 1..Len(stdout) :
          i < j /\ IsAnswer(stdout[i]) /\ IsAnswer(stdout[j]) => stdout[i].line < stdout[j].line

\* Every request is answered, if only with the id null, or read by a command
\* that an earlier call has started, as long as the client is there and sends
\* text, and no command waits for an end of input that the client does not
\* give (server.py:58-72).
Waiting == At("wait") /\ Body.command \in Reading \union Draining
HasEaten(n) == \E k \in 1..Len(eaten) : eaten[k].line = n
Undecoded == At("failed") /\ \E n \in 1..Len(sent) : Garbled(n) /\ ~HasEaten(n)

RequestsAnswered ==
    \A n \in 1..MaxLines :
        \/ n <= Len(sent) /\ sent[n].kind \in {"junk", "method", "call"} ~>
              \/ client = "gone" \/ Undecoded \/ HasEaten(n)
              \/ \E k \in 1..Len(stdout) : IsAnswer(stdout[k]) /\ stdout[k].line = n
        \/ <>[]Waiting

\* The server ends once the client closes its end, also behind a command
\* that reads its input (server.py:59).
ServerEnds == client # "open" ~> At("ended") \/ At("failed")
=============================================================================
