------------------------ MODULE DecisionDaemon_proofs -----------------------
(***************************************************************************)
(* What the decision daemon and its clients promise for any number of      *)
(* daemons, clients and calls, stopped, interrupted or killed anywhere.    *)
(***************************************************************************)
EXTENDS DecisionDaemon, TLAPS

Open == {"queued", "recv", "decide", "send"}
Asking == {"connect", "write", "read"}

\* How far a call has come, and what is at the daemon for it.
CallInv ==
    /\ \A c \in Clients : client[c].pc \in Asking =>
          client[c].calls # 0 /\ client[c].target \in Targets
    /\ \A c \in Clients : client[c].pc = "connect" => conn[Current(c)].pc = "none"
    /\ \A c \in Clients, n \in 1..MaxCalls :
          n > client[c].calls => conn[<<c, n>>].pc = "none"
    /\ \A r \in Requests : conn[r].pc = "decide" => conn[r].data \in Targets

\* The records of a request follow its connection.
RecordsOf(r) == {x \in audit : x[1] = r}

RecordInv(r) ==
    /\ conn[r].pc \in {"none", "queued", "recv", "decide"} => RecordsOf(r) = {}
    /\ conn[r].pc \in {"send", "sent"} /\ conn[r].answer = "ALLOW" =>
          RecordsOf(r) = {<<r, "ALLOW">>}
    /\ result[r] = "passed" => conn[r].pc = "over" /\ RecordsOf(r) = {<<r, "ALLOW">>}
    /\ result[r] = "fallback" => kind[r[1]] = "fallback"

AuditInv == \A r \in Requests : RecordInv(r)

DaemonInv == TypeOK /\ CallInv /\ AuditInv

-----------------------------------------------------------------------------
(* Connections and backlogs.                                               *)

LEMMA RequestOf ==
    ASSUME NEW r \in Requests
    PROVE  r[1] \in Clients /\ r[2] \in 1..MaxCalls /\ r = <<r[1], r[2]>>
    BY DEF Requests

LEMMA CurrentRequest ==
    ASSUME TypeOK, CallInv, NEW c \in Clients, client[c].pc \in Asking
    PROVE  /\ Current(c) \in Requests /\ client[c].target \in Targets
           /\ client[c] \in ClientStates
<1>1. client[c] \in ClientStates
    BY DEF TypeOK
<1>2. client[c].calls \in 1..MaxCalls
    BY <1>1, BoundAssumption DEF CallInv, ClientStates
<1> QED
    BY <1>1, <1>2 DEF CallInv, Current, Requests

LEMMA OverTyped == Over \in ConnStates /\ Over.pc = "over" /\ Over.at = NoSocket
    BY DEF Over, Connection, ConnStates

\* A connection goes on.
LEMMA ConnSet ==
    ASSUME NEW k \in ConnStates, NEW pc \in {"recv", "decide", "send", "sent"}
    PROVE  /\ [k EXCEPT !.pc = pc] \in ConnStates
           /\ [k EXCEPT !.pc = pc].pc = pc /\ [k EXCEPT !.pc = pc].answer = k.answer
           /\ [k EXCEPT !.pc = pc].data = k.data
    BY DEF ConnStates

LEMMA AnswerSet ==
    ASSUME NEW k \in ConnStates, NEW answer \in DecisionTypes \union {"ERROR"}
    PROVE  /\ [k EXCEPT !.pc = "send", !.answer = answer] \in ConnStates
           /\ [k EXCEPT !.pc = "send", !.answer = answer].pc = "send"
           /\ [k EXCEPT !.pc = "send", !.answer = answer].answer = answer
    BY DEF ConnStates

\* A reset ends the connections it is for and leaves the others alone.
LEMMA ResetOne ==
    ASSUME TypeOK, NEW cut, NEW r \in Requests
    PROVE  /\ Reset(cut)[r] \in ConnStates
           /\ r \in cut /\ conn[r].pc \in Open => Reset(cut)[r].pc \in {"reset", "over"}
           /\ r \notin cut \/ conn[r].pc \notin Open => Reset(cut)[r] = conn[r]
<1>1. conn[r] \in ConnStates
    BY DEF TypeOK
<1>2. Reset(cut)[r] =
         IF r \in cut /\ conn[r].pc \in Open
         THEN IF conn[r].gone THEN Over ELSE [conn[r] EXCEPT !.pc = "reset"]
         ELSE conn[r]
    BY DEF Reset, Open
<1>3. [conn[r] EXCEPT !.pc = "reset"] \in ConnStates
      /\ [conn[r] EXCEPT !.pc = "reset"].pc = "reset"
    BY <1>1 DEF ConnStates
<1> QED
    BY <1>1, <1>2, <1>3, OverTyped

LEMMA ResetTyped ==
    ASSUME TypeOK, NEW cut
    PROVE  Reset(cut) \in [Requests -> ConnStates]
<1>1. \A r \in Requests : Reset(cut)[r] \in ConnStates
    BY ResetOne
<1>2. Reset(cut) = [r \in Requests |-> Reset(cut)[r]]
    BY DEF Reset
<1> QED
    BY <1>1, <1>2

\* Backlogs only look at the queued connections.
LEMMA BacklogKept ==
    ASSUME TypeOK, NEW d \in Daemons, BacklogOK(d), daemon'[d].backlog = daemon[d].backlog,
           \A r \in Requests : conn'[r].pc = "queued" /\ conn'[r].at = d <=>
                               conn[r].pc = "queued" /\ conn[r].at = d
    PROVE  BacklogOK(d)'
    BY DEF BacklogOK, Waiting, Served

LEMMA BacklogEmptied ==
    ASSUME NEW d \in Daemons, daemon'[d].backlog = <<>>,
           \A r \in Requests : ~(conn'[r].pc = "queued" /\ conn'[r].at = d)
    PROVE  BacklogOK(d)'
<1>1. Len(daemon'[d].backlog) = 0 /\ 0 <= Backlog
    BY BoundAssumption
<1>2. Waiting(d)' = {}
    BY <1>1 DEF Waiting
<1> QED
    BY <1>1, <1>2 DEF BacklogOK, Served

\* A backlog is set with the rest of the state.
LEMMA BacklogSet ==
    ASSUME NEW s \in DaemonStates, NEW backlog \in Seq(Requests), NEW running \in BOOLEAN
    PROVE  /\ [s EXCEPT !.running = running, !.backlog = backlog] \in DaemonStates
           /\ [s EXCEPT !.running = running, !.backlog = backlog].backlog = backlog
           /\ [s EXCEPT !.pc = "loop", !.backlog = backlog] \in DaemonStates
           /\ [s EXCEPT !.pc = "loop", !.backlog = backlog].backlog = backlog
    BY DEF DaemonStates

LEMMA EmptyBacklog == <<>> \in Seq(Requests)
    OBVIOUS

LEMMA EndedTyped == Ended \in DaemonStates /\ Ended.backlog = <<>>
    BY DEF Ended, DaemonStates

-----------------------------------------------------------------------------
(* How the connections move: what the records depend on.                   *)

\* The connection of r goes where no record is needed, and none is written.
Harmless(r) ==
    \/ conn'[r].pc = conn[r].pc /\ conn'[r].answer = conn[r].answer
    \/ conn'[r].pc = "over"
    \/ conn'[r].pc = "reset" /\ conn[r].pc # "over"
    \/ conn[r].pc \in {"none", "queued", "recv"} /\ conn'[r].pc \in {"queued", "recv", "decide"}
    \/ conn[r].pc # "over" /\ conn'[r].pc = "send" /\ conn'[r].answer = "ERROR"
    \/ conn[r].pc = "send" /\ conn'[r].pc = "sent" /\ conn'[r].answer = conn[r].answer

LEMMA RecordKept ==
    ASSUME NEW r \in Requests, RecordInv(r), Harmless(r), RecordsOf(r)' = RecordsOf(r),
           result'[r] = result[r], kind' = kind
    PROVE  RecordInv(r)'
    BY DEF RecordInv, Harmless

LEMMA RecordsKept ==
    ASSUME AuditInv, \A r \in Requests : Harmless(r), UNCHANGED <<result, audit, kind>>
    PROVE  AuditInv'
<1>1. \A r \in Requests : RecordsOf(r)' = RecordsOf(r)
    BY DEF RecordsOf
<1> QED
    BY <1>1, RecordKept DEF AuditInv

LEMMA SameHarmless ==
    ASSUME NEW r \in Requests, conn'[r] = conn[r]
    PROVE  Harmless(r)
    BY DEF Harmless

-----------------------------------------------------------------------------
(* The steps of a daemon's main thread.                                    *)

\* One that touches no connection and no backlog.
LEMMA MainAlone ==
    ASSUME DaemonInv, NEW d \in Daemons, NEW s \in DaemonStates,
           daemon' = [daemon EXCEPT ![d] = s], s.backlog = daemon[d].backlog,
           path' \in Daemons \union {NoSocket}, overlapped' \in BOOLEAN,
           UNCHANGED <<conn, client, kind, result, audit>>
    PROVE  DaemonInv'
<1>1. daemon' \in [Daemons -> DaemonStates]
      /\ \A e \in Daemons : daemon'[e].backlog = daemon[e].backlog
    BY DEF DaemonInv, TypeOK
<1>2. \A e \in Daemons : BacklogOK(e)'
    BY <1>1, BacklogKept DEF DaemonInv, TypeOK
<1>3. TypeOK'
    BY <1>1, <1>2 DEF DaemonInv, TypeOK
<1>4. CallInv'
    BY DEF DaemonInv, CallInv, Current
<1>5. AuditInv'
    BY SameHarmless, RecordsKept DEF DaemonInv
<1> QED
    BY <1>3, <1>4, <1>5 DEF DaemonInv

LEMMA MainSteps ==
    ASSUME DaemonInv, NEW d \in Daemons,
           Start(d) \/ UnlinkStale(d) \/ Bind(d) \/ Loop(d) \/ Interrupt(d)
    PROVE  DaemonInv'
<1>0. daemon[d] \in DaemonStates /\ daemon \in [Daemons -> DaemonStates]
      /\ path \in Daemons \union {NoSocket} /\ overlapped \in BOOLEAN
    BY DEF DaemonInv, TypeOK
<1>1. CASE Start(d)
  <2> DEFINE s == [daemon[d] EXCEPT !.pc = "unlink", !.running = TRUE]
  <2>1. s \in DaemonStates /\ s.backlog = daemon[d].backlog
    BY <1>0 DEF DaemonStates
  <2>2. daemon' = [daemon EXCEPT ![d] = s]
    BY <1>0, <1>1 DEF Start
  <2>3. overlapped' \in BOOLEAN
    BY <1>0, <1>1 DEF Start
  <2> QED
    BY <1>0, <1>1, <2>1, <2>2, <2>3, MainAlone DEF Start
<1>2. ASSUME NEW pc \in {"bind", "loop", "failed", "accept", "close"}, Goto(d, pc),
             path' \in Daemons \union {NoSocket},
             UNCHANGED <<conn, client, kind, result, audit, overlapped>>
      PROVE  DaemonInv'
  <2> DEFINE s == [daemon[d] EXCEPT !.pc = pc]
  <2>1. s \in DaemonStates /\ s.backlog = daemon[d].backlog
    BY <1>0 DEF DaemonStates
  <2>2. daemon' = [daemon EXCEPT ![d] = s]
    BY <1>0, <1>2 DEF Goto
  <2> QED
    BY <1>0, <1>2, <2>1, <2>2, MainAlone
<1>3. CASE UnlinkStale(d)
    BY <1>2, <1>3 DEF UnlinkStale
<1>4. CASE Bind(d)
    BY <1>0, <1>2, <1>4 DEF Bind
<1>5. CASE Loop(d)
    BY <1>0, <1>2, <1>5 DEF Loop
<1>6. CASE Interrupt(d)
  <2> DEFINE s == [daemon[d] EXCEPT !.pc = "close", !.interrupted = TRUE]
  <2>1. s \in DaemonStates /\ s.backlog = daemon[d].backlog
    BY <1>0 DEF DaemonStates
  <2>2. daemon' = [daemon EXCEPT ![d] = s]
    BY <1>0, <1>6 DEF Interrupt
  <2> QED
    BY <1>0, <1>6, <2>1, <2>2, MainAlone DEF Interrupt
<1> QED
    BY <1>1, <1>3, <1>4, <1>5, <1>6

\* One that resets connections, all that are queued at d with them.
LEMMA MainCuts ==
    ASSUME DaemonInv, NEW d \in Daemons, NEW s \in DaemonStates, NEW cut,
           daemon' = [daemon EXCEPT ![d] = s], s.backlog = <<>>,
           Waiting(d) \subseteq cut, cut \subseteq Served(d),
           conn' = Reset(cut), path' \in Daemons \union {NoSocket},
           UNCHANGED <<client, kind, result, audit, overlapped>>
    PROVE  DaemonInv'
<1>1. /\ daemon' \in [Daemons -> DaemonStates] /\ daemon'[d] = s
      /\ \A e \in Daemons \ {d} : daemon'[e] = daemon[e]
    BY DEF DaemonInv, TypeOK
<1>2. \A r \in Requests :
         /\ conn'[r] \in ConnStates
         /\ r \in cut /\ conn[r].pc \in Open => conn'[r].pc \in {"reset", "over"}
         /\ r \notin cut \/ conn[r].pc \notin Open => conn'[r] = conn[r]
    BY ResetOne DEF DaemonInv
<1>3. BacklogOK(d)'
  <2>1. \A r \in Requests : conn[r].pc = "queued" /\ conn[r].at = d => r \in cut
    BY DEF DaemonInv, TypeOK, BacklogOK, Served
  <2>2. \A r \in Requests : ~(conn'[r].pc = "queued" /\ conn'[r].at = d)
    BY <1>2, <2>1 DEF Open
  <2> QED
    BY <1>1, <2>2, BacklogEmptied
<1>4. ASSUME NEW e \in Daemons \ {d} PROVE BacklogOK(e)'
  <2>1. \A r \in Requests : r \in cut => conn[r].at # e
    BY <1>4 DEF Served
  <2>2. \A r \in Requests : conn'[r].pc = "queued" /\ conn'[r].at = e <=>
                            conn[r].pc = "queued" /\ conn[r].at = e
    BY <1>2, <2>1
  <2> QED
    BY <1>1, <2>2, BacklogKept DEF DaemonInv, TypeOK
<1>5. conn' \in [Requests -> ConnStates]
    BY ResetTyped DEF DaemonInv
<1>6. TypeOK'
    BY <1>1, <1>3, <1>4, <1>5 DEF DaemonInv, TypeOK
<1>7. \A r \in Requests : Harmless(r)
    BY <1>2 DEF Harmless, Open
<1>8. CallInv'
  <2>1. \A r \in Requests : /\ conn[r].pc = "none" => conn'[r].pc = "none"
                            /\ conn'[r].pc = "decide" => conn'[r] = conn[r]
    BY <1>2 DEF Open
  <2>2. \A c \in Clients, n \in 1..MaxCalls : <<c, n>> \in Requests
    BY DEF Requests
  <2>3. \A c \in Clients : client[c].pc = "connect" => Current(c) \in Requests
    BY CurrentRequest DEF DaemonInv, Asking
  <2>4. \A c \in Clients : Current(c)' = Current(c)
    BY DEF Current
  <2> QED
    BY <2>1, <2>2, <2>3, <2>4 DEF DaemonInv, CallInv
<1> QED
    BY <1>6, <1>7, <1>8, RecordsKept DEF DaemonInv

LEMMA WaitingServed ==
    ASSUME DaemonInv, NEW d \in Daemons
    PROVE  Waiting(d) \subseteq Served(d)
    BY DEF DaemonInv, TypeOK, BacklogOK

LEMMA EndingSteps ==
    ASSUME DaemonInv, NEW d \in Daemons, Stop(d) \/ Close(d) \/ Crash(d)
    PROVE  DaemonInv'
<1>0. daemon[d] \in DaemonStates /\ daemon \in [Daemons -> DaemonStates]
      /\ path \in Daemons \union {NoSocket} /\ NoSocket \in Daemons \union {NoSocket}
      /\ overlapped \in BOOLEAN
    BY DEF DaemonInv, TypeOK
<1>1. CASE Stop(d)
  <2>1. CASE At(d, "accept")
    <3> DEFINE s == [daemon[d] EXCEPT !.running = FALSE]
    <3>1. s \in DaemonStates /\ s.backlog = daemon[d].backlog
      BY <1>0 DEF DaemonStates
    <3>2. daemon' = [daemon EXCEPT ![d] = s] /\ UNCHANGED conn
      BY <1>0, <1>1, <2>1 DEF Stop
    <3> QED
      BY <1>0, <1>1, <3>1, <3>2, MainAlone DEF Stop
  <2>2. CASE ~At(d, "accept")
    <3> DEFINE s == [daemon[d] EXCEPT !.running = FALSE, !.backlog = <<>>]
    <3>1. s \in DaemonStates /\ s.backlog = <<>>
      BY <1>0, BacklogSet, EmptyBacklog
    <3>2. daemon' = [daemon EXCEPT ![d] = s] /\ conn' = Reset(Waiting(d))
      BY <1>0, <1>1, <2>2 DEF Stop
    <3> QED
      BY <1>0, <1>1, <3>1, <3>2, MainCuts, WaitingServed DEF Stop
  <2> QED
    BY <2>1, <2>2
<1>2. CASE Close(d)
  <2> DEFINE cut == IF daemon[d].interrupted THEN Served(d) ELSE Waiting(d)
  <2>1. Waiting(d) \subseteq cut /\ cut \subseteq Served(d)
    BY WaitingServed
  <2>2. daemon' = [daemon EXCEPT ![d] = Ended] /\ conn' = Reset(cut) /\ path' = NoSocket
        /\ UNCHANGED <<client, kind, result, audit, overlapped>>
    BY <1>2 DEF Close
  <2> HIDE DEF cut
  <2> QED
    BY <1>0, <2>1, <2>2, EndedTyped, MainCuts
<1>3. CASE Crash(d)
  <2>1. daemon' = [daemon EXCEPT ![d] = Ended] /\ conn' = Reset(Served(d))
        /\ UNCHANGED <<path, client, kind, result, audit, overlapped>>
    BY <1>3 DEF Crash
  <2> QED
    BY <1>0, <2>1, EndedTyped, MainCuts, WaitingServed
<1> QED
    BY <1>1, <1>2, <1>3

\* What accept() takes from the backlog, and what it leaves.
LEMMA HeadOfBacklog ==
    ASSUME NEW S, NEW backlog \in Seq(S), backlog # <<>>,
           \A i, j \in 1..Len(backlog) : backlog[i] = backlog[j] => i = j
    PROVE  /\ Head(backlog) \in S /\ Tail(backlog) \in Seq(S)
           /\ Len(Tail(backlog)) = Len(backlog) - 1
           /\ Head(backlog) \in {backlog[i] : i \in 1..Len(backlog)}
           /\ {Tail(backlog)[i] : i \in 1..Len(Tail(backlog))} =
                 {backlog[i] : i \in 1..Len(backlog)} \ {Head(backlog)}
           /\ \A i, j \in 1..Len(Tail(backlog)) : Tail(backlog)[i] = Tail(backlog)[j] => i = j
<1> DEFINE n == Len(backlog)
           rest == Tail(backlog)
<1>1. /\ n \in Nat /\ n >= 1 /\ Head(backlog) = backlog[1] /\ Head(backlog) \in S
      /\ rest \in Seq(S) /\ Len(rest) = n - 1
    OBVIOUS
<1>2. \A i \in 1..Len(rest) : rest[i] = backlog[i + 1] /\ i + 1 \in 1..n /\ i + 1 # 1
    BY <1>1
<1>3. \A i \in 1..n : i = 1 \/ (i - 1 \in 1..Len(rest) /\ backlog[i] = rest[i - 1])
  <2> SUFFICES ASSUME NEW i \in 1..n, i # 1
               PROVE  i - 1 \in 1..Len(rest) /\ backlog[i] = rest[i - 1]
    OBVIOUS
  <2>1. i - 1 \in 1..Len(rest) /\ (i - 1) + 1 = i
    BY <1>1
  <2> QED
    BY <2>1, <1>2
<1>4. \A i, j \in 1..Len(rest) : rest[i] = rest[j] => i = j
  <2> SUFFICES ASSUME NEW i \in 1..Len(rest), NEW j \in 1..Len(rest), rest[i] = rest[j]
               PROVE  i = j
    OBVIOUS
  <2>1. backlog[i + 1] = backlog[j + 1] /\ i + 1 \in 1..n /\ j + 1 \in 1..n
    BY <1>2
  <2>2. i + 1 = j + 1
    BY <2>1
  <2> QED
    BY <2>2, <1>1
<1>5. 1 \in 1..n
    BY <1>1
<1>6. {rest[i] : i \in 1..Len(rest)} = {backlog[i] : i \in 1..n} \ {backlog[1]}
  <2>1. ASSUME NEW i \in 1..Len(rest)
        PROVE  rest[i] \in {backlog[k] : k \in 1..n} /\ rest[i] # backlog[1]
    BY <1>2, <1>5
  <2>2. ASSUME NEW i \in 1..n, backlog[i] # backlog[1]
        PROVE  backlog[i] \in {rest[k] : k \in 1..Len(rest)}
    BY <2>2, <1>3
  <2> HIDE DEF rest, n
  <2> QED
    BY <2>1, <2>2, Zenon
<1> QED
    BY <1>1, <1>4, <1>5, <1>6

LEMMA AcceptStep ==
    ASSUME DaemonInv, NEW d \in Daemons, Accept(d)
    PROVE  DaemonInv'
<1> DEFINE backlog == daemon[d].backlog
           r == Head(backlog)
           up == daemon[d].running
           before == IF up THEN conn ELSE Reset(Waiting(d) \ {r})
           s == [daemon[d] EXCEPT !.pc = "loop", !.backlog = IF up THEN Tail(backlog) ELSE <<>>]
<1>0. /\ daemon[d] \in DaemonStates /\ daemon \in [Daemons -> DaemonStates]
      /\ conn \in [Requests -> ConnStates] /\ backlog \in Seq(Requests) /\ backlog # <<>>
      /\ BacklogOK(d)
    BY DEF DaemonInv, TypeOK, DaemonStates, Accept
<1>1. \A i, j \in 1..Len(backlog) : backlog[i] = backlog[j] => i = j
    BY <1>0 DEF BacklogOK
<1>2. /\ r \in Requests /\ Tail(backlog) \in Seq(Requests) /\ Len(Tail(backlog)) = Len(backlog) - 1
      /\ r \in Waiting(d)
      /\ {Tail(backlog)[i] : i \in 1..Len(Tail(backlog))} = Waiting(d) \ {r}
      /\ \A i, j \in 1..Len(Tail(backlog)) : Tail(backlog)[i] = Tail(backlog)[j] => i = j
    BY <1>0, <1>1, HeadOfBacklog DEF Waiting
<1>3. conn[r].pc = "queued" /\ conn[r].at = d
    BY <1>0, <1>2 DEF BacklogOK, Served
<1>4. s \in DaemonStates /\ s.backlog = IF up THEN Tail(backlog) ELSE <<>>
    BY <1>0, <1>2, BacklogSet, EmptyBacklog
<1>5. daemon' = [daemon EXCEPT ![d] = s]
    BY <1>0 DEF Accept
<1>6. before \in [Requests -> ConnStates]
    BY <1>0, ResetTyped DEF DaemonInv
<1>7. conn' = [before EXCEPT ![r].pc = "recv"]
    BY DEF Accept
<1>8. before[r] = conn[r]
    BY <1>2, ResetOne DEF DaemonInv
<1>9. /\ conn' \in [Requests -> ConnStates]
      /\ conn'[r].pc = "recv" /\ conn'[r].answer = conn[r].answer
      /\ \A q \in Requests \ {r} : conn'[q] = before[q]
  <2> DEFINE rec == [before[r] EXCEPT !.pc = "recv"]
  <2>1. rec \in ConnStates /\ rec.pc = "recv" /\ rec.answer = conn[r].answer
    <3>1. conn[r] \in ConnStates /\ rec = [conn[r] EXCEPT !.pc = "recv"]
      BY <1>0, <1>2, <1>8
    <3> HIDE DEF rec
    <3> QED
      BY <3>1, ConnSet
  <2>2. conn' = [before EXCEPT ![r] = rec]
    BY <1>7
  <2> HIDE DEF rec, before
  <2> QED
    BY <1>2, <1>6, <2>1, <2>2
<1>10. \A q \in Requests \ {r} :
         \/ conn'[q] = conn[q] /\ (up \/ q \notin Waiting(d))
         \/ ~up /\ q \in Waiting(d) /\ conn[q].pc = "queued" /\ conn'[q].pc \in {"reset", "over"}
  <2> SUFFICES ASSUME NEW q \in Requests \ {r}
               PROVE  \/ conn'[q] = conn[q] /\ (up \/ q \notin Waiting(d))
                      \/ /\ ~up /\ q \in Waiting(d) /\ conn[q].pc = "queued"
                         /\ conn'[q].pc \in {"reset", "over"}
    OBVIOUS
  <2>1. CASE up
    BY <1>9, <2>1
  <2>2. CASE ~up
    <3>1. conn'[q] = Reset(Waiting(d) \ {r})[q]
      BY <1>9, <2>2
    <3>2. q \in Waiting(d) => conn[q].pc = "queued"
      BY <1>0 DEF BacklogOK
    <3> QED
      BY <2>2, <3>1, <3>2, ResetOne DEF DaemonInv, Open
  <2> QED
    BY <2>1, <2>2
<1> HIDE DEF s, before
<1>11. /\ daemon' \in [Daemons -> DaemonStates] /\ daemon'[d] = s
       /\ \A e \in Daemons \ {d} : daemon'[e] = daemon[e]
    BY <1>0, <1>4, <1>5
<1>12. BacklogOK(d)'
  <2>1. CASE up
    <3>1. daemon'[d].backlog = Tail(backlog)
      BY <2>1, <1>4, <1>11
    <3>2. Waiting(d)' = Waiting(d) \ {r}
      BY <3>1, <1>2 DEF Waiting
    <3>3. \A q \in Requests : conn'[q].pc = "queued" /\ conn'[q].at = d <=>
                              q # r /\ conn[q].pc = "queued" /\ conn[q].at = d
      BY <1>9, <1>10, <2>1
    <3>4. Waiting(d)' = {q \in Served(d) : conn[q].pc = "queued"}'
      BY <3>2, <3>3, <1>0 DEF BacklogOK, Served
    <3>5. Len(Tail(backlog)) <= Backlog
      BY <1>0, <1>2, BoundAssumption DEF BacklogOK
    <3> QED
      BY <3>1, <3>4, <3>5, <1>2 DEF BacklogOK
  <2>2. CASE ~up
    <3>1. \A q \in Requests : ~(conn'[q].pc = "queued" /\ conn'[q].at = d)
      BY <1>0, <1>9, <1>10, <2>2 DEF BacklogOK, Served
    <3> QED
      BY <3>1, <2>2, <1>4, <1>11, BacklogEmptied
  <2> QED
    BY <2>1, <2>2
<1>13. ASSUME NEW e \in Daemons \ {d} PROVE BacklogOK(e)'
  <2>1. \A q \in Requests : conn'[q].pc = "queued" /\ conn'[q].at = e <=>
                            conn[q].pc = "queued" /\ conn[q].at = e
    <3>1. \A q \in Waiting(d) : conn[q].at = d
      BY <1>0 DEF BacklogOK, Served
    <3> QED
      BY <1>3, <1>9, <1>10, <3>1
  <2> QED
    BY <1>11, <2>1, BacklogKept DEF DaemonInv, TypeOK
<1>14. TypeOK'
    BY <1>9, <1>11, <1>12, <1>13 DEF DaemonInv, TypeOK, Accept
<1>15. \A q \in Requests : Harmless(q)
    BY <1>3, <1>9, <1>10 DEF Harmless
<1>16. AuditInv'
    BY <1>15, RecordsKept DEF DaemonInv, Accept
<1>17. CallInv'
  <2>1. \A q \in Requests : /\ conn[q].pc = "none" => conn'[q].pc = "none"
                            /\ conn'[q].pc = "decide" => conn'[q] = conn[q]
    BY <1>3, <1>9, <1>10
  <2>2. \A c \in Clients, n \in 1..MaxCalls : <<c, n>> \in Requests
    BY DEF Requests
  <2>3. \A c \in Clients : client[c].pc = "connect" => Current(c) \in Requests
    BY CurrentRequest DEF DaemonInv, Asking
  <2>4. UNCHANGED client /\ \A c \in Clients : Current(c)' = Current(c)
    BY DEF Current, Accept
  <2> QED
    BY <2>1, <2>2, <2>3, <2>4 DEF DaemonInv, CallInv
<1> QED
    BY <1>14, <1>16, <1>17 DEF DaemonInv

-----------------------------------------------------------------------------
(* The steps of the threads that answer.                                   *)

\* One that moves the connection of r, and the records of r at most.
LEMMA HandlerAlone ==
    ASSUME DaemonInv, NEW r \in Requests, NEW k \in ConnStates,
           conn[r].pc \in {"recv", "decide", "send"}, conn' = [conn EXCEPT ![r] = k],
           k.pc \in {"decide", "send", "sent", "over"}, k.pc = "decide" => k.data \in Targets,
           audit' \subseteq Requests \X DecisionTypes,
           \A q \in Requests \ {r} : RecordsOf(q)' = RecordsOf(q), RecordInv(r)',
           UNCHANGED <<path, daemon, client, kind, result, overlapped>>
    PROVE  DaemonInv'
<1>1. /\ conn' \in [Requests -> ConnStates] /\ conn'[r] = k
      /\ \A q \in Requests \ {r} : conn'[q] = conn[q]
    BY DEF DaemonInv, TypeOK
<1>2. \A d \in Daemons : BacklogOK(d)'
  <2> TAKE d \in Daemons
  <2>1. \A q \in Requests : conn'[q].pc = "queued" /\ conn'[q].at = d <=>
                            conn[q].pc = "queued" /\ conn[q].at = d
    BY <1>1
  <2> QED
    BY <2>1, BacklogKept DEF DaemonInv, TypeOK
<1>3. TypeOK'
    BY <1>1, <1>2 DEF DaemonInv, TypeOK
<1>4. CallInv'
  <2>1. \A q \in Requests : /\ conn[q].pc = "none" => conn'[q].pc = "none"
                            /\ conn'[q].pc = "decide" => conn'[q].data \in Targets
    BY <1>1 DEF DaemonInv, CallInv
  <2>2. \A c \in Clients, n \in 1..MaxCalls : <<c, n>> \in Requests
    BY DEF Requests
  <2>3. \A c \in Clients : client[c].pc = "connect" => Current(c) \in Requests
    BY CurrentRequest DEF DaemonInv, Asking
  <2>4. \A c \in Clients : Current(c)' = Current(c)
    BY DEF Current
  <2> QED
    BY <2>1, <2>2, <2>3, <2>4 DEF DaemonInv, CallInv
<1>5. \A q \in Requests \ {r} : RecordInv(q)'
    BY <1>1, SameHarmless, RecordKept DEF DaemonInv, AuditInv
<1> QED
    BY <1>3, <1>4, <1>5 DEF DaemonInv, AuditInv

LEMMA HandlerSteps ==
    ASSUME DaemonInv, NEW r \in Requests, Handler(r)
    PROVE  DaemonInv'
<1>0. /\ conn[r] \in ConnStates /\ conn \in [Requests -> ConnStates]
      /\ audit \subseteq Requests \X DecisionTypes /\ RecordInv(r)
      /\ conn[r].pc = "decide" => conn[r].data \in Targets
    BY DEF DaemonInv, TypeOK, AuditInv, CallInv
<1>1. ASSUME NEW k \in ConnStates, conn' = [conn EXCEPT ![r] = k], UNCHANGED audit,
             k.pc \in {"decide", "send", "sent", "over"}, k.pc = "decide" => k.data \in Targets,
             conn[r].pc \in {"recv", "decide", "send"}, Harmless(r),
             UNCHANGED <<path, daemon, client, kind, result, overlapped>>
      PROVE  DaemonInv'
  <2>1. \A q \in Requests : RecordsOf(q)' = RecordsOf(q)
    BY <1>1 DEF RecordsOf
  <2>2. RecordInv(r)'
    BY <1>0, <1>1, <2>1, RecordKept
  <2> QED
    BY <1>0, <1>1, <2>1, <2>2, HandlerAlone
<1>2. CASE Receive(r)
  <2>1. CASE conn[r].data # NoTarget /\ conn' = [conn EXCEPT ![r].pc = "decide"]
    <3> DEFINE k == [conn[r] EXCEPT !.pc = "decide"]
    <3>1. k \in ConnStates /\ k.pc = "decide" /\ k.data = conn[r].data
      BY <1>0, ConnSet
    <3>2. conn[r].data \in Targets
      BY <1>0, <2>1 DEF ConnStates
    <3>3. conn' = [conn EXCEPT ![r] = k] /\ conn[r].pc = "recv"
      BY <1>0, <1>2, <2>1 DEF Receive
    <3> HIDE DEF k
    <3>4. conn'[r] = k
      BY <1>0, <3>3
    <3>5. Harmless(r)
      BY <3>1, <3>3, <3>4 DEF Harmless
    <3> QED
      BY <1>1, <1>2, <3>1, <3>2, <3>3, <3>5 DEF Receive
  <2>2. CASE conn' = [conn EXCEPT ![r].pc = "send", ![r].answer = "ERROR"]
    <3> DEFINE k == [conn[r] EXCEPT !.pc = "send", !.answer = "ERROR"]
    <3>1. k \in ConnStates /\ k.pc = "send" /\ k.answer = "ERROR"
      BY <1>0, AnswerSet
    <3>2. conn' = [conn EXCEPT ![r] = k] /\ conn[r].pc = "recv"
      BY <1>0, <1>2, <2>2 DEF Receive
    <3> HIDE DEF k
    <3>3. conn'[r] = k
      BY <1>0, <3>2
    <3>4. Harmless(r)
      BY <3>1, <3>2, <3>3 DEF Harmless
    <3> QED
      BY <1>1, <1>2, <3>1, <3>2, <3>4 DEF Receive
  <2> QED
    BY <1>2, <2>1, <2>2 DEF Receive
<1>3. CASE Handle(r)
  <2> DEFINE type == TypeOf[conn[r].data]
  <2>0. conn[r].pc = "decide" /\ type \in DecisionTypes \union {"UNREADABLE"}
    BY <1>0, <1>3, TypeOfAssumption DEF Handle
  <2>1. CASE /\ type # "UNREADABLE" /\ audit' = audit \union {<<r, type>>}
             /\ conn' = [conn EXCEPT ![r].pc = "send", ![r].answer = type]
    <3> DEFINE k == [conn[r] EXCEPT !.pc = "send", !.answer = type]
    <3> HIDE DEF type
    <3>1. type \in DecisionTypes
      BY <2>0, <2>1
    <3>2. k \in ConnStates /\ k.pc = "send" /\ k.answer = type
      BY <1>0, <3>1, AnswerSet
    <3>3. conn' = [conn EXCEPT ![r] = k]
      BY <1>0, <2>1
    <3> HIDE DEF k
    <3>4. conn'[r] = k
      BY <1>0, <3>3
    <3>5. RecordsOf(r) = {} /\ result[r] # "passed"
      BY <1>0, <2>0 DEF RecordInv
    <3>6. RecordsOf(r)' = {<<r, type>>}
      BY <2>1, <3>5 DEF RecordsOf
    <3>7. \A q \in Requests \ {r} : RecordsOf(q)' = RecordsOf(q)
      BY <2>1 DEF RecordsOf
    <3>8. RecordInv(r)'
      BY <1>0, <1>3, <3>2, <3>4, <3>5, <3>6 DEF RecordInv, Handle
    <3>9. audit' \subseteq Requests \X DecisionTypes
      BY <1>0, <2>1, <3>1
    <3> QED
      BY <1>3, <2>0, <3>2, <3>3, <3>7, <3>8, <3>9, HandlerAlone DEF Handle
  <2>2. CASE UNCHANGED audit /\ conn' = [conn EXCEPT ![r].pc = "send", ![r].answer = "ERROR"]
    <3> DEFINE k == [conn[r] EXCEPT !.pc = "send", !.answer = "ERROR"]
    <3>1. k \in ConnStates /\ k.pc = "send" /\ k.answer = "ERROR"
      BY <1>0, AnswerSet
    <3>2. conn' = [conn EXCEPT ![r] = k]
      BY <1>0, <2>2
    <3> HIDE DEF k
    <3>3. conn'[r] = k
      BY <1>0, <3>2
    <3>4. Harmless(r)
      BY <2>0, <3>1, <3>3 DEF Harmless
    <3> QED
      BY <1>1, <1>3, <2>0, <2>2, <3>1, <3>2, <3>4 DEF Handle
  <2> QED
    BY <1>3, <2>1, <2>2 DEF Handle
<1>4. CASE Send(r)
  <2> DEFINE k == IF conn[r].gone THEN Over ELSE [conn[r] EXCEPT !.pc = "sent"]
  <2>1. /\ k \in ConnStates /\ k.pc \in {"sent", "over"}
        /\ k.pc = "sent" => k.answer = conn[r].answer
    BY <1>0, ConnSet, OverTyped DEF DecisionTypes
  <2>2. conn' = [conn EXCEPT ![r] = k] /\ conn[r].pc = "send"
    BY <1>0, <1>4 DEF Send
  <2> HIDE DEF k
  <2>3. conn'[r] = k
    BY <1>0, <2>2
  <2>4. Harmless(r)
    BY <2>1, <2>2, <2>3 DEF Harmless
  <2> QED
    BY <1>1, <1>4, <2>1, <2>2, <2>4 DEF Send
<1> QED
    BY <1>2, <1>3, <1>4 DEF Handler

-----------------------------------------------------------------------------
(* The steps of the clients.                                               *)

\* Calls of others are other calls.
LEMMA OtherCalls ==
    ASSUME DaemonInv, NEW c \in Clients, NEW e \in Clients \ {c}, NEW n
    PROVE  <<e, n>> # Current(c) /\ Current(e) # Current(c)
    BY DEF Current

\* One that moves client c on in its call, from k to the state s.
LEMMA ClientAlone ==
    ASSUME DaemonInv, NEW c \in Clients, client[c].pc \in Asking, NEW s \in ClientStates,
           client' = [client EXCEPT ![c] = s], s.calls = client[c].calls,
           s.pc \in Asking => s.pc # "connect" /\ s.target = client[c].target,
           NEW k \in ConnStates, conn' = [conn EXCEPT ![Current(c)] = k],
           k.pc = "decide" => conn[Current(c)].pc = "decide" /\ k.data \in Targets
    PROVE  CallInv' /\ client' \in [Clients -> ClientStates] /\ conn' \in [Requests -> ConnStates]
<1>1. Current(c) \in Requests /\ client[c].target \in Targets
    BY CurrentRequest DEF DaemonInv
<1>2. /\ client' \in [Clients -> ClientStates] /\ client'[c] = s
      /\ \A e \in Clients \ {c} : client'[e] = client[e]
    BY DEF DaemonInv, TypeOK
<1>3. /\ conn' \in [Requests -> ConnStates] /\ conn'[Current(c)] = k
      /\ \A q \in Requests \ {Current(c)} : conn'[q] = conn[q]
    BY <1>1 DEF DaemonInv, TypeOK
<1>4. \A e \in Clients : client'[e].calls = client[e].calls
    BY <1>2
<1>5. \A e \in Clients : client'[e].pc \in Asking =>
         client'[e].calls # 0 /\ client'[e].target \in Targets
    BY <1>1, <1>2, <1>4 DEF DaemonInv, CallInv
<1>6. ASSUME NEW e \in Clients, client'[e].pc = "connect"
      PROVE  conn'[Current(e)'].pc = "none"
  <2>1. e # c /\ client'[e] = client[e]
    BY <1>2, <1>6 DEF Asking
  <2>2. Current(e)' = Current(e) /\ Current(e) # Current(c) /\ client[e].pc = "connect"
    BY <1>6, <2>1, OtherCalls DEF Current
  <2>3. Current(e) \in Requests
    BY <2>2, CurrentRequest DEF DaemonInv, Asking
  <2> QED
    BY <1>3, <2>2, <2>3 DEF DaemonInv, CallInv
<1>7. ASSUME NEW e \in Clients, NEW n \in 1..MaxCalls, n > client'[e].calls
      PROVE  conn'[<<e, n>>].pc = "none"
  <2>1. client[e] \in ClientStates /\ n > client[e].calls
    BY <1>4, <1>7 DEF DaemonInv, TypeOK
  <2>2. <<e, n>> \in Requests /\ n # client[e].calls
    BY <2>1, BoundAssumption DEF Requests, ClientStates
  <2>3. <<e, n>> # Current(c)
    BY <2>2 DEF Current
  <2> QED
    BY <1>3, <2>1, <2>2, <2>3 DEF DaemonInv, CallInv
<1>8. \A q \in Requests : conn'[q].pc = "decide" => conn'[q].data \in Targets
    BY <1>3 DEF DaemonInv, CallInv
<1> QED
    BY <1>2, <1>3, <1>5, <1>6, <1>7, <1>8 DEF CallInv

Outcomes == {"passed", "blocked", "fallback", "raised", "killed"}

LEMMA EndStep ==
    ASSUME DaemonInv, NEW c \in Clients, client[c].pc \in Asking, NEW pc \in {"run", "killed"},
           NEW how \in Outcomes, End(c, pc, how), UNCHANGED <<path, daemon, kind, audit, overlapped>>,
           how = "fallback" => kind[c] = "fallback",
           how = "passed" => conn[Current(c)].pc = "sent" /\ conn[Current(c)].answer = "ALLOW"
    PROVE  DaemonInv'
<1> DEFINE r == Current(c)
           s == [client[c] EXCEPT !.pc = pc, !.target = NoTarget]
           k == IF conn[r].pc \in {"none", "sent", "reset"} THEN Over
                ELSE [conn[r] EXCEPT !.gone = TRUE]
<1>1. r \in Requests /\ client[c] \in ClientStates /\ r[1] = c
    BY CurrentRequest DEF DaemonInv, Current
<1>2. conn[r] \in ConnStates /\ conn \in [Requests -> ConnStates]
    BY <1>1 DEF DaemonInv, TypeOK
<1>3. s \in ClientStates /\ s.pc = pc /\ s.calls = client[c].calls
    BY <1>1 DEF ClientStates
<1>4. [conn[r] EXCEPT !.gone = TRUE] \in ConnStates
      /\ [conn[r] EXCEPT !.gone = TRUE].pc = conn[r].pc
      /\ [conn[r] EXCEPT !.gone = TRUE].at = conn[r].at
      /\ [conn[r] EXCEPT !.gone = TRUE].answer = conn[r].answer
      /\ [conn[r] EXCEPT !.gone = TRUE].data = conn[r].data
    BY <1>2 DEF ConnStates
<1>5. /\ k \in ConnStates
      /\ conn[r].pc \in {"none", "sent", "reset"} => k.pc = "over"
      /\ conn[r].pc \notin {"none", "sent", "reset"} =>
            k.pc = conn[r].pc /\ k.at = conn[r].at /\ k.answer = conn[r].answer
            /\ k.data = conn[r].data
    BY <1>4, OverTyped
<1>6. /\ client' = [client EXCEPT ![c] = s] /\ conn' = [conn EXCEPT ![r] = k]
      /\ result' = [result EXCEPT ![r] = how]
    BY DEF End, DaemonInv, TypeOK
<1> HIDE DEF k, s
<1>7. /\ conn'[r] = k /\ \A q \in Requests \ {r} : conn'[q] = conn[q]
    BY <1>1, <1>2, <1>6
<1>8. /\ result' \in [Requests -> {"none"} \union Outcomes] /\ result'[r] = how
      /\ \A q \in Requests \ {r} : result'[q] = result[q]
    BY <1>1, <1>6 DEF DaemonInv, TypeOK, Outcomes
<1>9. CallInv' /\ client' \in [Clients -> ClientStates] /\ conn' \in [Requests -> ConnStates]
  <2>1. k.pc = "decide" => conn[r].pc = "decide" /\ k.data \in Targets
    BY <1>1, <1>5 DEF DaemonInv, CallInv
  <2>2. s.pc \notin Asking
    BY <1>3 DEF Asking
  <2> QED
    BY <1>3, <1>5, <1>6, <2>1, <2>2, ClientAlone
<1>10. \A d \in Daemons : BacklogOK(d)'
  <2> TAKE d \in Daemons
  <2>1. \A q \in Requests : conn'[q].pc = "queued" /\ conn'[q].at = d <=>
                            conn[q].pc = "queued" /\ conn[q].at = d
    BY <1>5, <1>7
  <2> QED
    BY <2>1, BacklogKept DEF DaemonInv, TypeOK
<1>11. TypeOK'
    BY <1>8, <1>9, <1>10 DEF DaemonInv, TypeOK, Outcomes
<1>12. \A q \in Requests : RecordsOf(q)' = RecordsOf(q)
    BY DEF RecordsOf
<1>13. \A q \in Requests \ {r} : RecordInv(q)'
    BY <1>7, <1>8, <1>12, SameHarmless, RecordKept DEF DaemonInv, AuditInv
<1>14. ASSUME NEW q \in Requests, q = r PROVE RecordInv(q)'
  <2> HIDE DEF r
  <2>1. RecordInv(q)
    BY DEF DaemonInv, AuditInv
  <2>2. how = "passed" => k.pc = "over" /\ RecordsOf(q) = {<<q, "ALLOW">>}
    BY <1>5, <1>14, <2>1 DEF RecordInv, r
  <2>3. result'[q] = how /\ conn'[q] = k /\ RecordsOf(q)' = RecordsOf(q) /\ q[1] = c
    BY <1>1, <1>7, <1>8, <1>12, <1>14
  <2>4. k.pc = "over" \/ (k.pc = conn[q].pc /\ k.answer = conn[q].answer)
    BY <1>5, <1>14
  <2> QED
    BY <2>1, <2>2, <2>3, <2>4 DEF RecordInv
<1> QED
    BY <1>9, <1>11, <1>13, <1>14 DEF DaemonInv, AuditInv

\* What happens to a call that gets no answer.
LEMMA UnavailableEnds ==
    ASSUME DaemonInv, NEW c \in Clients
    PROVE  /\ Unavailable(c) \in Outcomes /\ Unavailable(c) # "passed"
           /\ Unavailable(c) = "fallback" => kind[c] = "fallback"
<1>1. kind[c] \in {"closed", "fallback", "ask"}
    BY KindsAssumption DEF DaemonInv, TypeOK
<1> QED
    BY <1>1 DEF Unavailable, Outcomes

LEMMA CallStep ==
    ASSUME DaemonInv, NEW c \in Clients, Call(c)
    PROVE  DaemonInv'
<1>1. /\ client \in [Clients -> ClientStates] /\ client[c] \in ClientStates
      /\ client[c].calls < MaxCalls /\ UNCHANGED <<path, daemon, conn, kind, result, audit, overlapped>>
    BY DEF DaemonInv, TypeOK, Call
<1>2. PICK target \in TargetsOf[c] :
         client' = [client EXCEPT ![c] = [pc |-> "connect", calls |-> @.calls + 1,
                                          target |-> target]]
    BY DEF Call
<1> DEFINE s == [pc |-> "connect", calls |-> client[c].calls + 1, target |-> target]
           n == client[c].calls + 1
<1>3. target \in Targets
    BY <1>2, TargetsOfAssumption
<1>4. n \in 1..MaxCalls /\ n > client[c].calls
    BY <1>1, BoundAssumption DEF ClientStates
<1>5. s \in ClientStates /\ s.pc = "connect" /\ s.calls = n /\ s.target = target
    BY <1>3, <1>4 DEF ClientStates
<1>6. client' = [client EXCEPT ![c] = s]
    BY <1>1, <1>2
<1> HIDE DEF s, n
<1>7. /\ client' \in [Clients -> ClientStates] /\ client'[c] = s
      /\ \A e \in Clients \ {c} : client'[e] = client[e]
    BY <1>1, <1>5, <1>6
<1>8. \A d \in Daemons : BacklogOK(d)'
    BY <1>1, BacklogKept DEF DaemonInv, TypeOK
<1>9. TypeOK'
    BY <1>1, <1>7, <1>8 DEF DaemonInv, TypeOK
<1>10. AuditInv'
    BY <1>1, SameHarmless, RecordsKept DEF DaemonInv
<1>11. conn[<<c, n>>].pc = "none" /\ Current(c)' = <<c, n>>
    BY <1>4, <1>5, <1>7 DEF DaemonInv, CallInv, Current
<1>12. \A e \in Clients \ {c} : Current(e)' = Current(e)
    BY <1>7 DEF Current
<1>13. ASSUME NEW e \in Clients, NEW m \in 1..MaxCalls, m > client'[e].calls
       PROVE  conn[<<e, m>>].pc = "none"
  <2>1. m > client[e].calls
    BY <1>1, <1>4, <1>5, <1>7, <1>13 DEF ClientStates
  <2> QED
    BY <2>1 DEF DaemonInv, CallInv
<1>14. n # 0
    BY <1>4
<1>15. CallInv'
    BY <1>1, <1>3, <1>5, <1>7, <1>11, <1>12, <1>13, <1>14 DEF DaemonInv, CallInv
<1> QED
    BY <1>9, <1>10, <1>15 DEF DaemonInv

\* A call gets no answer.
LEMMA NoAnswer ==
    ASSUME DaemonInv, NEW c \in Clients, client[c].pc \in Asking,
           \/ End(c, "run", Unavailable(c)) \/ End(c, "killed", "killed")
           \/ End(c, "run", "raised"),
           UNCHANGED <<path, daemon, kind, audit, overlapped>>
    PROVE  DaemonInv'
<1>1. ASSUME NEW how, how = Unavailable(c), End(c, "run", how) PROVE DaemonInv'
    BY <1>1, EndStep, UnavailableEnds
<1>2. ASSUME End(c, "killed", "killed") PROVE DaemonInv'
    BY <1>2, EndStep DEF Outcomes
<1>3. ASSUME End(c, "run", "raised") PROVE DaemonInv'
    BY <1>3, EndStep DEF Outcomes
<1> QED
    BY <1>1, <1>2, <1>3

\* A connection is put in a backlog that has room for it.
LEMMA BacklogJoined ==
    ASSUME NEW S, NEW backlog \in Seq(S), NEW r \in S,
           r \notin {backlog[i] : i \in 1..Len(backlog)},
           \A i, j \in 1..Len(backlog) : backlog[i] = backlog[j] => i = j
    PROVE  LET more == Append(backlog, r)
           IN  /\ more \in Seq(S) /\ Len(more) = Len(backlog) + 1
               /\ {more[i] : i \in 1..Len(more)} = {backlog[i] : i \in 1..Len(backlog)} \union {r}
               /\ \A i, j \in 1..Len(more) : more[i] = more[j] => i = j
<1> DEFINE n == Len(backlog)
           more == Append(backlog, r)
<1>1. n \in Nat /\ more \in Seq(S) /\ Len(more) = n + 1 /\ more[n + 1] = r
    OBVIOUS
<1>2. \A i \in 1..n : more[i] = backlog[i]
    OBVIOUS
<1>3. \A i \in 1..(n + 1) : i = n + 1 \/ i \in 1..n
    BY <1>1
<1>4. n + 1 \in 1..(n + 1) /\ \A i \in 1..n : i \in 1..(n + 1)
    BY <1>1
<1> HIDE DEF more, n
<1>5. {more[i] : i \in 1..(n + 1)} = {backlog[i] : i \in 1..n} \union {r}
  <2>1. \A i \in 1..(n + 1) : more[i] \in {backlog[k] : k \in 1..n} \union {r}
    BY <1>1, <1>2, <1>3
  <2>2. \A i \in 1..n : backlog[i] \in {more[k] : k \in 1..(n + 1)}
    BY <1>2, <1>4
  <2>3. r \in {more[k] : k \in 1..(n + 1)}
    BY <1>1, <1>4
  <2> QED
    BY <2>1, <2>2, <2>3
<1>6. \A i, j \in 1..(n + 1) : more[i] = more[j] => i = j
    BY <1>1, <1>2, <1>3 DEF n
<1> QED
    BY <1>1, <1>5, <1>6 DEF n, more

LEMMA QueueStep ==
    ASSUME DaemonInv, NEW c \in Clients, Connect(c), path # NoSocket, Listening(path)
    PROVE  DaemonInv'
<1>0. /\ client[c].pc = "connect" /\ Len(daemon[path].backlog) < Backlog
      /\ daemon' = [daemon EXCEPT ![path].backlog = Append(@, Current(c))]
      /\ conn' = [conn EXCEPT ![Current(c)].pc = "queued", ![Current(c)].at = path]
      /\ client' = [client EXCEPT ![c].pc = "write"]
      /\ UNCHANGED <<path, kind, result, audit, overlapped>>
    BY DEF Connect
<1>1. PICK r \in Requests : r = Current(c)
    BY <1>0, CurrentRequest DEF DaemonInv, Asking
<1>2. PICK d \in Daemons : d = path
    BY DEF DaemonInv, TypeOK
<1>3. /\ daemon \in [Daemons -> DaemonStates] /\ daemon[d] \in DaemonStates
      /\ conn \in [Requests -> ConnStates] /\ conn[r] \in ConnStates
      /\ client \in [Clients -> ClientStates] /\ client[c] \in ClientStates
      /\ BacklogOK(d) /\ conn[r].pc = "none" /\ daemon[d].backlog \in Seq(Requests)
    BY <1>0, <1>1 DEF DaemonInv, TypeOK, CallInv, DaemonStates
<1> DEFINE more == Append(daemon[d].backlog, r)
           s == [daemon[d] EXCEPT !.backlog = more]
           k == [conn[r] EXCEPT !.pc = "queued", !.at = d]
           e == [client[c] EXCEPT !.pc = "write"]
<1>4. r \notin Waiting(d)
    BY <1>3 DEF BacklogOK
<1>5. /\ more \in Seq(Requests) /\ Len(more) = Len(daemon[d].backlog) + 1
      /\ {more[i] : i \in 1..Len(more)} = Waiting(d) \union {r}
      /\ \A i, j \in 1..Len(more) : more[i] = more[j] => i = j
    BY <1>3, <1>4, BacklogJoined DEF Waiting, BacklogOK
<1> HIDE DEF more
<1>6. s \in DaemonStates /\ s.backlog = more
    BY <1>3, <1>5 DEF DaemonStates
<1>7. k \in ConnStates /\ k.pc = "queued" /\ k.at = d
    BY <1>3 DEF ConnStates
<1>8. e \in ClientStates /\ e.pc = "write" /\ e.calls = client[c].calls
      /\ e.target = client[c].target
    BY <1>3 DEF ClientStates
<1>9. daemon' = [daemon EXCEPT ![d] = s]
    BY <1>0, <1>1, <1>2, <1>3 DEF more
<1>10. conn' = [conn EXCEPT ![r] = k] /\ client' = [client EXCEPT ![c] = e]
    BY <1>0, <1>1, <1>2, <1>3
<1> HIDE DEF s, k, e
<1>11. /\ daemon' \in [Daemons -> DaemonStates] /\ daemon'[d] = s
       /\ \A f \in Daemons \ {d} : daemon'[f] = daemon[f]
    BY <1>3, <1>6, <1>9
<1>12. conn'[r] = k /\ \A q \in Requests \ {r} : conn'[q] = conn[q]
    BY <1>3, <1>10
<1>13. CallInv' /\ client' \in [Clients -> ClientStates] /\ conn' \in [Requests -> ConnStates]
  <2>1. client[c].pc \in Asking /\ e.pc # "connect"
    BY <1>0, <1>8 DEF Asking
  <2>2. k.pc # "decide"
    BY <1>7
  <2> QED
    BY <1>1, <1>7, <1>8, <1>10, <2>1, <2>2, ClientAlone
<1>14. BacklogOK(d)'
  <2>1. daemon'[d].backlog = more
    BY <1>6, <1>11
  <2>2. Waiting(d)' = Waiting(d) \union {r}
    <3>1. Waiting(d)' = {more[i] : i \in 1..Len(more)}
      BY <2>1, Zenon DEF Waiting
    <3> QED
      BY <3>1, <1>5, Zenon
  <2>3. Waiting(d) \union {r} = {q \in Served(d) : conn[q].pc = "queued"}'
    BY <1>3, <1>7, <1>12 DEF BacklogOK, Served
  <2>4. Len(more) <= Backlog
    BY <1>0, <1>2, <1>3, <1>5, BoundAssumption
  <2> QED
    BY <2>1, <2>2, <2>3, <2>4, <1>5 DEF BacklogOK
<1>15. ASSUME NEW f \in Daemons \ {d} PROVE BacklogOK(f)'
  <2>1. \A q \in Requests : conn'[q].pc = "queued" /\ conn'[q].at = f <=>
                            conn[q].pc = "queued" /\ conn[q].at = f
    BY <1>3, <1>7, <1>12
  <2> QED
    BY <1>11, <2>1, BacklogKept DEF DaemonInv, TypeOK
<1>16. TypeOK'
    BY <1>0, <1>11, <1>13, <1>14, <1>15 DEF DaemonInv, TypeOK
<1>17. \A q \in Requests : Harmless(q)
    BY <1>3, <1>7, <1>12 DEF Harmless
<1> QED
    BY <1>0, <1>13, <1>16, <1>17, RecordsKept DEF DaemonInv

LEMMA SendRequestStep ==
    ASSUME DaemonInv, NEW c \in Clients, Write(c), conn[Current(c)].pc # "reset"
    PROVE  DaemonInv'
<1>0. /\ client[c].pc = "write"
      /\ conn' = [conn EXCEPT ![Current(c)].data = client[c].target]
      /\ client' = [client EXCEPT ![c].pc = "read"]
      /\ UNCHANGED <<path, daemon, kind, result, audit, overlapped>>
    BY DEF Write
<1>1. PICK r \in Requests : r = Current(c)
    BY <1>0, CurrentRequest DEF DaemonInv, Asking
<1>2. /\ conn \in [Requests -> ConnStates] /\ conn[r] \in ConnStates
      /\ client \in [Clients -> ClientStates] /\ client[c] \in ClientStates
      /\ client[c].target \in Targets
    BY <1>0, CurrentRequest DEF DaemonInv, TypeOK, Asking
<1> DEFINE k == [conn[r] EXCEPT !.data = client[c].target]
           e == [client[c] EXCEPT !.pc = "read"]
<1>3. /\ k \in ConnStates /\ k.pc = conn[r].pc /\ k.at = conn[r].at
      /\ k.answer = conn[r].answer /\ k.data = client[c].target
    BY <1>2 DEF ConnStates
<1>4. e \in ClientStates /\ e.pc = "read" /\ e.calls = client[c].calls
      /\ e.target = client[c].target
    BY <1>2 DEF ClientStates
<1>5. conn' = [conn EXCEPT ![r] = k] /\ client' = [client EXCEPT ![c] = e]
    BY <1>0, <1>1, <1>2
<1> HIDE DEF k, e
<1>6. conn'[r] = k /\ \A q \in Requests \ {r} : conn'[q] = conn[q]
    BY <1>2, <1>5
<1>7. CallInv' /\ client' \in [Clients -> ClientStates] /\ conn' \in [Requests -> ConnStates]
  <2>1. client[c].pc \in Asking /\ e.pc # "connect"
    BY <1>0, <1>4 DEF Asking
  <2>2. k.pc = "decide" => conn[Current(c)].pc = "decide" /\ k.data \in Targets
    BY <1>1, <1>2, <1>3
  <2> QED
    BY <1>1, <1>3, <1>4, <1>5, <2>1, <2>2, ClientAlone
<1>8. \A d \in Daemons : BacklogOK(d)'
  <2> TAKE d \in Daemons
  <2>1. \A q \in Requests : conn'[q].pc = "queued" /\ conn'[q].at = d <=>
                            conn[q].pc = "queued" /\ conn[q].at = d
    BY <1>3, <1>6
  <2> QED
    BY <1>0, <2>1, BacklogKept DEF DaemonInv, TypeOK
<1>9. TypeOK'
    BY <1>0, <1>7, <1>8 DEF DaemonInv, TypeOK
<1>10. \A q \in Requests : Harmless(q)
    BY <1>3, <1>6 DEF Harmless
<1> QED
    BY <1>0, <1>7, <1>9, <1>10, RecordsKept DEF DaemonInv

LEMMA ClientSteps ==
    ASSUME DaemonInv, NEW c \in Clients, Call(c) \/ Asks(c) \/ TimeOut(c)
    PROVE  DaemonInv'
<1>1. CASE Connect(c)
    BY <1>1, QueueStep, NoAnswer DEF Connect, Asking
<1>2. CASE Write(c)
    BY <1>2, SendRequestStep, NoAnswer DEF Write, Asking
<1>3. CASE Read(c)
  <2>1. client[c].pc \in Asking /\ UNCHANGED <<path, daemon, kind, audit, overlapped>>
    BY <1>3 DEF Read, Asking
  <2>2. ASSUME conn[Current(c)].pc = "sent",
               NEW how, how = IF conn[Current(c)].answer = "ALLOW" THEN "passed" ELSE "blocked",
               End(c, "run", how)
        PROVE  DaemonInv'
    BY <2>1, <2>2, EndStep DEF Outcomes
  <2> QED
    BY <1>3, <2>1, <2>2, NoAnswer DEF Read
<1>4. CASE TimeOut(c)
    BY <1>4, NoAnswer DEF TimeOut, Asking
<1> QED
    BY <1>1, <1>2, <1>3, <1>4, CallStep DEF Asks

-----------------------------------------------------------------------------
(* The theorems.                                                           *)

LEMMA DaemonInit == Init => DaemonInv
<1> SUFFICES ASSUME Init PROVE DaemonInv
    OBVIOUS
<1>1. /\ conn \in [Requests -> ConnStates]
      /\ \A r \in Requests : conn[r].pc = "none" /\ conn[r].at = NoSocket
    BY DEF Init, Connection, ConnStates
<1>2. [pc |-> "new", running |-> FALSE, interrupted |-> FALSE, backlog |-> <<>>] \in DaemonStates
    BY DEF DaemonStates
<1>3. daemon \in [Daemons -> DaemonStates] /\ \A d \in Daemons : daemon[d].backlog = <<>>
    BY <1>2 DEF Init
<1>4. \A d \in Daemons : BacklogOK(d)
  <2> TAKE d \in Daemons
  <2>1. Len(daemon[d].backlog) = 0
    BY <1>3
  <2>2. Waiting(d) = {} /\ Len(daemon[d].backlog) <= Backlog
    BY <2>1, BoundAssumption DEF Waiting
  <2> QED
    BY <1>1, <2>1, <2>2 DEF BacklogOK, Served
<1>5. client \in [Clients -> ClientStates] /\ \A c \in Clients : client[c].pc = "run"
    BY BoundAssumption DEF Init, ClientStates
<1>6. TypeOK
    BY <1>1, <1>3, <1>4, <1>5 DEF Init, TypeOK
<1>7. CallInv
    BY <1>1, <1>5 DEF CallInv, Asking, Requests
<1>8. AuditInv
    BY <1>1 DEF Init, AuditInv, RecordInv, RecordsOf
<1> QED
    BY <1>6, <1>7, <1>8 DEF DaemonInv

LEMMA DaemonStep == DaemonInv /\ [Next]_vars => DaemonInv'
<1> SUFFICES ASSUME DaemonInv, [Next]_vars PROVE DaemonInv'
    OBVIOUS
<1>1. ASSUME NEW d \in Daemons,
             Start(d) \/ MainThread(d) \/ Stop(d) \/ Interrupt(d) \/ Crash(d)
      PROVE  DaemonInv'
    BY <1>1, MainSteps, EndingSteps, AcceptStep DEF MainThread
<1>2. CASE UNCHANGED vars
    BY <1>2 DEF vars, DaemonInv, TypeOK, BacklogOK, Waiting, Served, CallInv, Current,
                AuditInv, RecordInv, RecordsOf
<1> QED
    BY <1>1, <1>2, HandlerSteps, ClientSteps DEF Next

\* The types, with the backlogs: a daemon's backlog holds its connections
\* that are queued, once each, and never more than listen() allows, whoever
\* stops, interrupts or kills the daemon (daemon.py:30-65).
THEOREM TypeCorrect == Spec => []TypeOK
<1>1. DaemonInv => TypeOK
    BY DEF DaemonInv
<1> QED
    BY <1>1, DaemonInit, DaemonStep, PTL DEF Spec

\* A call passes on the daemon's word only with its own ALLOW in the audit
\* log and nothing else, and a fail-closed one in no other way (daemon.py:
\* 70-86, preload.c:126-137).
THEOREM PassedOnlyAllowed == Spec => []PassedIsAllowed
<1>1. DaemonInv => PassedIsAllowed
    BY DEF DaemonInv, AuditInv, RecordInv, RecordsOf, PassedIsAllowed
<1> QED
    BY <1>1, DaemonInit, DaemonStep, PTL DEF Spec

-----------------------------------------------------------------------------
(* Daemons that are run one after the other.                               *)

Up(d) == daemon[d].pc \notin {"new", "ended", "failed"}

\* A daemon that is up alone has the path from its bind on.
AloneInv ==
    ~overlapped => \A d \in Daemons : Up(d) =>
        /\ \A e \in Daemons : Up(e) => e = d
        /\ daemon[d].pc \in {"loop", "accept"} => path = d

\* A step of a daemon that was up.
LEMMA AloneKept ==
    ASSUME TypeOK, AloneInv, NEW d \in Daemons, Up(d), UNCHANGED overlapped,
           \A e \in Daemons \ {d} : daemon'[e].pc = daemon[e].pc,
           daemon'[d].pc \in {"loop", "accept"} =>
              path' = d \/ (daemon[d].pc \in {"loop", "accept"} /\ path' = path)
    PROVE  AloneInv'
    BY DEF AloneInv, Up

LEMMA AloneMain ==
    ASSUME TypeOK, AloneInv, NEW d \in Daemons,
           Start(d) \/ MainThread(d) \/ Stop(d) \/ Interrupt(d) \/ Crash(d)
    PROVE  AloneInv'
<1>0. daemon \in [Daemons -> DaemonStates]
    BY DEF TypeOK
<1>1. CASE Start(d)
  <2>1. /\ \A e \in Daemons \ {d} : daemon'[e].pc = daemon[e].pc
        /\ overlapped' = (overlapped \/ \E e \in Daemons : Up(e))
        /\ daemon'[d].pc = "unlink" /\ ~Up(d) /\ UNCHANGED path
    BY <1>0, <1>1 DEF Start, At, DaemonStates, Up
  <2> QED
    BY <2>1 DEF AloneInv, Up
<1>2. ASSUME ~Start(d)
      PROVE  /\ Up(d) /\ UNCHANGED overlapped
             /\ \A e \in Daemons \ {d} : daemon'[e].pc = daemon[e].pc
             /\ daemon'[d].pc \in {"loop", "accept"} =>
                   path' = d \/ (daemon[d].pc \in {"loop", "accept"} /\ path' = path)
  <2>1. CASE UnlinkStale(d)
    BY <1>0, <2>1 DEF UnlinkStale, At, Goto, Up, DaemonStates
  <2>2. CASE Bind(d)
    BY <1>0, <2>2 DEF Bind, At, Goto, Up, DaemonStates
  <2>3. CASE Loop(d)
    BY <1>0, <2>3 DEF Loop, At, Goto, Up, DaemonStates
  <2>4. CASE Accept(d)
    BY <1>0, <2>4 DEF Accept, At, Up, DaemonStates
  <2>5. CASE Close(d)
    BY <1>0, <2>5 DEF Close, At, Up, Ended
  <2>6. CASE Stop(d)
    BY <1>0, <2>6 DEF Stop, Listening, At, Up, DaemonStates
  <2>7. CASE Interrupt(d)
    BY <1>0, <2>7 DEF Interrupt, Listening, At, Up, DaemonStates
  <2>8. CASE Crash(d)
    BY <1>0, <2>8 DEF Crash, Up, Ended
  <2> QED
    BY <1>2, <2>1, <2>2, <2>3, <2>4, <2>5, <2>6, <2>7, <2>8 DEF MainThread
<1> QED
    BY <1>1, <1>2, AloneKept

LEMMA AloneStep == TypeOK /\ AloneInv /\ [Next]_vars => AloneInv'
<1> SUFFICES ASSUME TypeOK, AloneInv, [Next]_vars PROVE AloneInv'
    OBVIOUS
<1>1. daemon \in [Daemons -> DaemonStates]
    BY DEF TypeOK
<1>2. ASSUME UNCHANGED <<path, overlapped>>, \A d \in Daemons : daemon'[d].pc = daemon[d].pc
      PROVE  AloneInv'
    BY <1>2 DEF AloneInv, Up
<1>3. CASE UNCHANGED vars
    BY <1>2, <1>3 DEF vars
<1>4. ASSUME NEW r \in Requests, Handler(r) PROVE AloneInv'
    BY <1>2, <1>4 DEF Handler, Receive, Handle, Send
<1>5. ASSUME NEW c \in Clients, Call(c) \/ Asks(c) \/ TimeOut(c) PROVE AloneInv'
  <2>1. CASE Connect(c)
    <3>1. UNCHANGED <<path, overlapped>>
      BY <2>1 DEF Connect
    <3>2. \/ UNCHANGED daemon
          \/ daemon' = [daemon EXCEPT ![path].backlog = Append(@, Current(c))]
      BY <2>1 DEF Connect
    <3>3. \A d \in Daemons : daemon'[d].pc = daemon[d].pc
      BY <1>1, <3>2 DEF DaemonStates
    <3> QED
      BY <1>2, <3>1, <3>3
  <2>2. CASE ~Connect(c)
    BY <1>2, <1>5, <2>2 DEF Call, Asks, Write, Read, TimeOut
  <2> QED
    BY <2>1, <2>2
<1> QED
    BY <1>3, <1>4, <1>5, AloneMain DEF Next

\* As long as no daemon is started while another is up, the daemon that
\* listens is the one the path leads to, in every order of stops, interrupts,
\* crashes and restarts (daemon.py:33-53).
THEOREM ReachableAlone == Spec => []Reachable
<1>1. Init => AloneInv
    BY DEF Init, AloneInv, Up
<1>2. AloneInv => Reachable
    BY DEF AloneInv, Reachable, Listening, At, Up
<1> QED
    BY <1>1, <1>2, AloneStep, TypeCorrect, PTL DEF Spec
=============================================================================
