-------------------------- MODULE McpServer_proofs --------------------------
(***************************************************************************)
(* Theorems about RuneGuard's own MCP server, for any lines, policies,     *)
(* commands, number of lines and failures.                                 *)
(***************************************************************************)
EXTENDS McpServer, SequenceTheorems, TLAPS

-----------------------------------------------------------------------------
(* What Policy.decide answers is what PolicyMeaning asks for.              *)

\* A pattern matches where its words are the words from some i to some j.
LEMMA PatternIsPart ==
  ASSUME NEW S, NEW pattern \in Seq(S), NEW command \in Seq(S)
  PROVE  MatchesPattern(pattern, command)
         <=> pattern # <<>> /\ \E i, j \in 1..Len(command) : SubSeq(command, i, j) = pattern
<1>1. Len(command) \in Nat /\ Len(pattern) \in Nat
  OBVIOUS
<1>2. ASSUME NEW i \in 1..Len(command), NEW j \in 1..Len(command)
      PROVE  /\ SubSeq(command, i, j) \in Seq(S)
             /\ Len(SubSeq(command, i, j)) = IF i <= j THEN j - i + 1 ELSE 0
             /\ \A k \in 1..(j - i + 1) : SubSeq(command, i, j)[k] = command[i + k - 1]
  <2>1. i \in Int /\ j \in Int /\ \A k \in i..j : command[k] \in S
    OBVIOUS
  <2> QED
    BY <2>1, SubSeqProperties
<1>3. ASSUME pattern # <<>>, NEW n \in 0..(Len(command) - Len(pattern)),
             \A k \in 1..Len(pattern) : command[n + k] = pattern[k]
      PROVE  \E i, j \in 1..Len(command) : SubSeq(command, i, j) = pattern
  <2> DEFINE i == n + 1
             j == n + Len(pattern)
  <2>1. Len(pattern) >= 1
    BY <1>1, <1>3, EmptySeq
  <2>2. i \in 1..Len(command) /\ j \in 1..Len(command) /\ i <= j /\ j - i + 1 = Len(pattern)
    BY <1>1, <2>1
  <2>3. \A k \in 1..Len(pattern) : i + k - 1 = n + k
    BY <1>1
  <2> HIDE DEF i, j
  <2>4. /\ SubSeq(command, i, j) \in Seq(S) /\ Len(SubSeq(command, i, j)) = Len(pattern)
        /\ \A k \in 1..Len(pattern) : SubSeq(command, i, j)[k] = pattern[k]
    <3>1. \A k \in 1..Len(pattern) : SubSeq(command, i, j)[k] = command[i + k - 1]
      BY <1>2, <2>2
    <3>2. \A k \in 1..Len(pattern) : command[i + k - 1] = pattern[k]
      BY <1>3, <2>3
    <3> QED
      BY <1>2, <2>2, <3>1, <3>2
  <2>5. SubSeq(command, i, j) = pattern
    BY <2>4, SeqEqual
  <2> QED
    BY <2>2, <2>5
<1>4. ASSUME pattern # <<>>, NEW i \in 1..Len(command), NEW j \in 1..Len(command),
             SubSeq(command, i, j) = pattern
      PROVE  \E n \in 0..(Len(command) - Len(pattern)) :
                \A k \in 1..Len(pattern) : command[n + k] = pattern[k]
  <2>1. Len(pattern) >= 1
    BY <1>1, <1>4, EmptySeq
  <2>2. i <= j /\ Len(pattern) = j - i + 1
    BY <1>2, <1>4, <2>1
  <2>3. ASSUME NEW k \in 1..Len(pattern)
        PROVE  command[(i - 1) + k] = pattern[k]
    <3>1. k \in 1..(j - i + 1) /\ (i - 1) + k = i + k - 1
      BY <2>2
    <3> QED
      BY <3>1, <1>2, <1>4
  <2>4. i - 1 \in 0..(Len(command) - Len(pattern))
    BY <1>1, <2>2
  <2> QED
    BY <2>3, <2>4
<1> QED
  BY <1>3, <1>4 DEF MatchesPattern

LEMMA CommandAdmitted ==
  ASSUME PathsMeant(Policies, DOMAIN PathOf), NEW p \in Policies,
         NEW command \in Seq(STRING), Arguments(command) \subseteq DOMAIN PathOf
  PROVE  ShellDecision(p, "shell", command) = "allow" <=> CommandObeys(p, command)
<1>1. ASSUME NEW pattern \in p.blocked_commands
      PROVE  MatchesPattern(pattern, command)
             <=> ~ \A i, j \in 1..Len(command) :
                      SubSeq(command, i, j) = pattern => pattern = <<>>
  <2>1. pattern \in Seq(STRING)
    BY PoliciesAssumption
  <2>2. MatchesPattern(pattern, command)
        <=> pattern # <<>> /\ \E i, j \in 1..Len(command) : SubSeq(command, i, j) = pattern
    BY <2>1, PatternIsPart
  <2> QED
    BY <2>2, Zenon
<1>2. ASSUME NEW i \in 2..Len(command), command[i] \notin Flags
      PROVE  IsProtected(p, command[i]) <=> Kept(p, command[i])
  <2>1. command[i] \in DOMAIN PathOf
    BY <1>2 DEF Arguments
  <2> QED
    BY <2>1 DEF PathsMeant
<1>3. ProtectedArgument(p, command)
      <=> ~ \A i \in 2..Len(command) : command[i] \notin Flags => ~Kept(p, command[i])
  BY <1>2, Zenon DEF ProtectedArgument
<1> DEFINE broken == \/ \E pattern \in p.blocked_commands :
                           \/ <<pattern, command>> \in Globbed
                           \/ MatchesPattern(pattern, command)
                     \/ ProtectedArgument(p, command)
           obeys == /\ \A pattern \in p.blocked_commands :
                         /\ <<pattern, command>> \notin Globbed
                         /\ \A i, j \in 1..Len(command) :
                               SubSeq(command, i, j) = pattern => pattern = <<>>
                    /\ \A i \in 2..Len(command) :
                         command[i] \notin Flags => ~Kept(p, command[i])
<1>4. broken <=> ~obeys
  BY <1>1, <1>3, Zenon
<1>5. ShellDecision(p, "shell", command) = Decide(p, "shell", broken)
  BY DEF ShellDecision
<1>6. CommandObeys(p, command) <=> Admits(p, "shell", obeys)
  BY DEF CommandObeys
<1> HIDE DEF broken, obeys
<1> QED
  BY <1>4, <1>5, <1>6 DEF Decide, Admits

LEMMA DecideTyped ==
  ASSUME NEW p, NEW tool, NEW broken
  PROVE  /\ Decide(p, tool, broken) \in Decisions
         /\ Decide(p, tool, broken) = "allow" <=> tool \notin p.require_approval /\ ~broken
  BY DEF Decide, Decisions

LEMMA CallAdmitted ==
  ASSUME PathsMeant(Policies, DOMAIN PathOf), policy \in Policies,
         NEW body \in Bodies, body.kind = "call", body.tool \in Tools
  PROVE  Decision(body) = "allow" <=> Obeys(body)
<1>1. CASE body.tool = "shell"
  <2>1. body.command \in Seq(STRING) /\ Arguments(body.command) \subseteq DOMAIN PathOf
    BY <1>1, BodiesAssumption
  <2>2. ShellDecision(policy, "shell", body.command) = "allow" <=> CommandObeys(policy, body.command)
    BY <2>1, CommandAdmitted
  <2> QED
    BY <1>1, <2>2 DEF Decision, Obeys
<1>2. CASE body.tool # "shell"
  <2>1. body.path \in DOMAIN PathOf
    BY <1>2, BodiesAssumption
  <2>2. IsProtected(policy, body.path) <=> Kept(policy, body.path)
    BY <2>1 DEF PathsMeant
  <2> QED
    BY <1>2, <2>2, DecideTyped DEF FileDecision, Decision, Obeys, Admits
<1> QED
  BY <1>1, <1>2

LEMMA DecisionTyped ==
  ASSUME NEW body
  PROVE  Decision(body) \in Decisions
  BY DecideTyped DEF Decision, FileDecision, ShellDecision

-----------------------------------------------------------------------------
(* Sequences of lines.                                                     *)

LEMMA AppendFacts ==
  ASSUME NEW S, NEW s \in Seq(S), NEW x \in S
  PROVE  /\ Append(s, x) \in Seq(S) /\ Len(Append(s, x)) = Len(s) + 1
         /\ Append(s, x)[Len(s) + 1] = x
         /\ \A i \in 1..Len(s) : Append(s, x)[i] = s[i]
         /\ \A i \in 1..Len(Append(s, x)) : i \in 1..Len(s) \/ i = Len(s) + 1
         /\ 1..Len(s) \subseteq 1..Len(Append(s, x)) /\ Len(s) + 1 \in 1..Len(Append(s, x))
  OBVIOUS

LEMMA TailFacts ==
  ASSUME NEW S, NEW s \in Seq(S), s # <<>>
  PROVE  /\ Tail(s) \in Seq(S) /\ Head(s) = s[1] /\ Head(s) \in S
         /\ 1 \in 1..Len(s) /\ Len(Tail(s)) = Len(s) - 1
         /\ \A i \in 1..Len(Tail(s)) : i + 1 \in 1..Len(s) /\ Tail(s)[i] = s[i + 1]
<1>1. Len(s) \in Nat /\ Len(s) > 0
  BY EmptySeq
<1> QED
  BY <1>1, HeadTailProperties

LEMMA AscendingAppend ==
  ASSUME NEW s \in Seq(Nat), NEW x \in Nat, Ascending(s), \A i \in 1..Len(s) : s[i] < x
  PROVE  Ascending(Append(s, x))
<1>1. SUFFICES ASSUME NEW i \in 1..Len(Append(s, x)), NEW j \in 1..Len(Append(s, x)), i < j
               PROVE  Append(s, x)[i] < Append(s, x)[j]
  BY DEF Ascending
<1>2. Len(s) \in Nat /\ i \in 1..Len(s) /\ (j \in 1..Len(s) \/ j = Len(s) + 1)
  BY <1>1, AppendFacts
<1> QED
  BY <1>1, <1>2, AppendFacts DEF Ascending

LEMMA AscendingTail ==
  ASSUME NEW s \in Seq(Nat), s # <<>>, Ascending(s)
  PROVE  Ascending(Tail(s)) /\ \A i \in 1..Len(Tail(s)) : Head(s) < Tail(s)[i]
<1>1. Len(s) \in Nat
  OBVIOUS
<1> QED
  BY <1>1, TailFacts DEF Ascending

-----------------------------------------------------------------------------
(* Types.                                                                  *)

Pcs == {"read", "decide", "run", "wait", "answer", "ended", "failed"}

\* What the state holds about lines, of which there are n.
Typed(n) ==
    /\ ahead \in Seq(1..n) /\ pipe \in Seq(1..n)
    /\ server \in [pc : Pcs, line : 0..n, status : Statuses \union {"none"}]
    /\ audit \in Seq([line : 1..n, decision : Decisions])
    /\ done \in Seq(1..n)
    /\ eaten \in Seq([line : 1..n, by : 1..n])
    /\ stdout \in Seq([line : 1..n, status : Statuses \union {"text"}])

\* Who is where: the lines that wait, and the line in work.
Ordered ==
    /\ Ascending(ahead) /\ Ascending(pipe)
    /\ \A i \in 1..Len(ahead), j \in 1..Len(pipe) : ahead[i] < pipe[j]
    /\ \A i \in 1..Len(ahead) : ~Garbled(ahead[i])
    /\ At("read") \/ At("ended") \/ At("failed") \/ server.line > 0

Given ==
    /\ policy \in Policies /\ sent \in Seq(Bodies) /\ Len(sent) <= MaxLines
    /\ client \in {"open", "closed", "gone"}

LEMMA Parts == TypeOK <=> Given /\ Typed(Len(sent)) /\ Ordered
  BY DEF TypeOK, Given, Typed, Ordered, ServerStates, Pcs

LEMMA PartsNext == Given' /\ Typed(Len(sent))' /\ Ordered' => TypeOK'
  BY DEF TypeOK, Given, Typed, Ordered, ServerStates, Pcs

LEMMA TypedGrows ==
  ASSUME NEW n \in Nat, NEW m \in Nat, n <= m, Typed(n)
  PROVE  Typed(m)
<1> DEFINE L == 1..n
           M == 1..m
           R(X) == [line : X, decision : Decisions]
           E(X) == [line : X, by : X]
           O(X) == [line : X, status : Statuses \union {"text"}]
<1>1. L \subseteq M /\ 0..n \subseteq 0..m
  OBVIOUS
<1>2. R(L) \subseteq R(M) /\ E(L) \subseteq E(M) /\ O(L) \subseteq O(M)
  BY <1>1
<1>3. /\ ahead \in Seq(M) /\ pipe \in Seq(M) /\ done \in Seq(M)
      /\ audit \in Seq(R(M)) /\ eaten \in Seq(E(M)) /\ stdout \in Seq(O(M))
  <2>1. /\ ahead \in Seq(L) /\ pipe \in Seq(L) /\ done \in Seq(L)
        /\ audit \in Seq(R(L)) /\ eaten \in Seq(E(L)) /\ stdout \in Seq(O(L))
    BY DEF Typed
  <2> HIDE DEF L, M, R, E, O
  <2> QED
    BY <1>1, <1>2, <2>1, SeqMonotonic
<1>4. server \in [pc : Pcs, line : 0..m, status : Statuses \union {"none"}]
  BY <1>1 DEF Typed
<1> QED
  BY <1>3, <1>4 DEF Typed

\* Where serve() goes, with the line it works on.
LEMMA Moves ==
  ASSUME NEW n \in Nat, Typed(n), NEW pc \in Pcs, NEW status \in Statuses
  PROVE  /\ Goto(pc) =>
               /\ server' \in [pc : Pcs, line : 0..n, status : Statuses \union {"none"}]
               /\ server'.pc = pc /\ server'.line = server.line /\ server'.status = server.status
         /\ AnswerWith(status) =>
               /\ server' \in [pc : Pcs, line : 0..n, status : Statuses \union {"none"}]
               /\ server'.pc = "answer" /\ server'.line = server.line /\ server'.status = status
  BY DEF Typed, Goto, AnswerWith, Pcs

LEMMA ServerTyped ==
  ASSUME TypeOK
  PROVE  /\ Len(sent) \in Nat /\ server.line \in 0..Len(sent) /\ server.line \in Nat
         /\ server.pc \in Pcs /\ server.status \in Statuses \union {"none"}
         /\ server.pc \notin {"read", "ended", "failed"} => server.line \in 1..Len(sent) /\ Body \in Bodies
<1>1. Typed(Len(sent)) /\ Ordered /\ sent \in Seq(Bodies)
  BY Parts DEF Given
<1>2. Len(sent) \in Nat
  BY <1>1
<1>3. /\ server.line \in 0..Len(sent) /\ server.line \in Nat
      /\ server.pc \in Pcs /\ server.status \in Statuses \union {"none"}
  BY <1>1, <1>2 DEF Typed
<1>4. ASSUME server.pc \notin {"read", "ended", "failed"}
      PROVE  server.line \in 1..Len(sent) /\ Body \in Bodies
  <2>1. server.line > 0
    BY <1>1, <1>4 DEF Ordered, At
  <2>2. server.line \in 1..Len(sent)
    BY <2>1, <1>2, <1>3
  <2> QED
    BY <2>2, <1>1 DEF Body
<1> QED
  BY <1>2, <1>3, <1>4

LEMMA TypeInit == Init => TypeOK
<1> SUFFICES ASSUME Init PROVE TypeOK
  OBVIOUS
<1>1. Given
  BY BodiesAssumption DEF Init, Given
<1>2. Len(sent) \in Nat
  BY <1>1 DEF Given
<1>3. Typed(Len(sent))
  BY <1>2 DEF Init, Typed, Pcs
<1>4. Ordered
  BY DEF Init, Ordered, Ascending, At
<1> QED
  BY <1>1, <1>3, <1>4, Parts

LEMMA TypeClientSends == TypeOK /\ ClientSends => TypeOK'
<1> SUFFICES ASSUME TypeOK, ClientSends PROVE TypeOK'
  OBVIOUS
<1>0. PICK n : n = Len(sent)
  OBVIOUS
<1> DEFINE M == 1..(n + 1)
<1>1. Given /\ Typed(n) /\ Ordered
  BY <1>0, Parts
<1>2. /\ n \in Nat /\ n + 1 \in Nat /\ n < MaxLines /\ MaxLines \in Nat
      /\ client' = client /\ policy' = policy
      /\ pipe' = Append(pipe, n + 1)
      /\ UNCHANGED <<ahead, server, eaten, audit, done, stdout>>
  BY <1>0, <1>1, BodiesAssumption DEF ClientSends, Given
<1>3. PICK body \in Bodies : sent' = Append(sent, body)
  BY DEF ClientSends
<1>4. sent' \in Seq(Bodies) /\ Len(sent') = n + 1
  BY <1>0, <1>1, <1>3, AppendFacts DEF Given
<1>5. Given'
  BY <1>1, <1>2, <1>4 DEF Given
<1>6. Typed(n + 1)
  BY <1>1, <1>2, TypedGrows
<1>7. Len(sent)' = n + 1
  BY <1>4
<1>8. Typed(Len(sent))'
  <2>1. pipe \in Seq(M) /\ n + 1 \in M
    BY <1>2, <1>6 DEF Typed
  <2>2. pipe' \in Seq(M)
    <3> HIDE DEF M
    <3> QED
      BY <1>2, <2>1, AppendFacts
  <2>3. Typed(n + 1)'
    BY <1>2, <1>6, <2>2 DEF Typed
  <2> QED
    BY <1>7, <2>3 DEF Typed
<1>9. Ordered'
  <2>1. ahead \in Seq(1..n) /\ pipe \in Seq(1..n)
    BY <1>1 DEF Typed
  <2>2. /\ pipe \in Seq(Nat)
        /\ \A i \in 1..Len(pipe) : pipe[i] \in Nat /\ pipe[i] < n + 1
        /\ \A i \in 1..Len(ahead) : ahead[i] \in Nat /\ ahead[i] < n + 1
    <3>1. \A i \in 1..Len(pipe) : pipe[i] \in 1..n
      BY <2>1, ElementOfSeq
    <3>2. \A i \in 1..Len(ahead) : ahead[i] \in 1..n
      BY <2>1, ElementOfSeq
    <3>3. 1..n \subseteq Nat
      BY <1>2
    <3>4. pipe \in Seq(Nat)
      BY <2>1, <3>3, SeqMonotonic
    <3> QED
      BY <3>1, <3>2, <3>4, <1>2
  <2>3. Ascending(pipe')
    BY <1>1, <1>2, <2>2, AscendingAppend DEF Ordered
  <2>4. \A i \in 1..Len(ahead), j \in 1..Len(pipe') : ahead[i] < pipe'[j]
    <3>1. \A j \in 1..Len(pipe') : (j \in 1..Len(pipe) /\ pipe'[j] = pipe[j]) \/ pipe'[j] = n + 1
      BY <1>2, <2>2, AppendFacts
    <3> QED
      BY <1>1, <2>2, <3>1 DEF Ordered
  <2>5. \A i \in 1..Len(ahead) : ~Garbled(ahead[i])'
    <3>1. ASSUME NEW i \in 1..Len(ahead)
          PROVE  ahead[i] \in 1..Len(sent) /\ sent'[ahead[i]] = sent[ahead[i]]
      <4>1. ahead[i] \in 1..Len(sent)
        BY <1>0, <2>1, ElementOfSeq
      <4> QED
        BY <1>1, <1>3, <4>1, AppendFacts DEF Given
    <3> QED
      BY <1>1, <1>2, <3>1 DEF Ordered, Garbled
  <2> QED
    BY <1>1, <1>2, <2>3, <2>4, <2>5 DEF Ordered, At, Ascending
<1> QED
  BY <1>5, <1>8, <1>9, PartsNext

LEMMA TypeStep ==
  ASSUME TypeOK, UNCHANGED <<sent, policy>>, client' \in {"open", "closed", "gone"}, Ordered',
         \A n \in Nat : n = Len(sent) /\ Typed(n) => Typed(n)'
  PROVE  TypeOK'
<1>0. PICK n : n = Len(sent)
  OBVIOUS
<1>1. Given /\ Typed(n)
  BY <1>0, Parts
<1>2. Given' /\ n \in Nat
  BY <1>0, <1>1 DEF Given
<1>3. Typed(n)'
  BY <1>0, <1>1, <1>2
<1>4. Len(sent)' = n
  BY <1>0
<1>5. Typed(Len(sent))'
  BY <1>3, <1>4 DEF Typed
<1> QED
  BY <1>2, <1>5, PartsNext

LEMMA TypeClientEnds == TypeOK /\ ClientEnds => TypeOK'
<1> SUFFICES ASSUME TypeOK, ClientEnds PROVE TypeOK'
  OBVIOUS
<1>1. /\ UNCHANGED <<policy, sent, pipe, ahead, server, eaten, audit, done, stdout>>
      /\ client' \in {"open", "closed", "gone"} /\ Ordered
  BY Parts DEF ClientEnds
<1>2. Ordered' /\ \A n \in Nat : Typed(n) => Typed(n)'
  BY <1>1 DEF Ordered, Typed, At, Ascending, Garbled
<1> QED
  BY <1>1, <1>2, TypeStep

LEMMA TypeReadAhead == TypeOK /\ ReadAhead => TypeOK'
<1> SUFFICES ASSUME TypeOK, ReadAhead PROVE TypeOK'
  OBVIOUS
<1>1. Ordered /\ Given
  BY Parts
<1>2. Ordered'
  BY <1>1 DEF Ordered, ReadAhead, At, Ascending, Garbled
<1>3. \A n \in Nat : Typed(n) => Typed(n)'
  BY DEF Typed, ReadAhead
<1> QED
  BY <1>1, <1>2, <1>3, TypeStep DEF ReadAhead, Given

LEMMA TypeReadGarbled == TypeOK /\ ReadGarbled => TypeOK'
<1> SUFFICES ASSUME TypeOK, ReadGarbled PROVE TypeOK'
  OBVIOUS
<1>1. /\ UNCHANGED <<policy, sent, client, ahead, eaten, audit, done, stdout>>
      /\ Goto("failed") /\ pipe' = <<>> /\ ahead = <<>>
  BY DEF ReadGarbled
<1>2. Typed(Len(sent)) /\ Len(sent) \in Nat
  BY Parts, ServerTyped
<1>3. server'.pc = "failed"
  BY <1>1, <1>2, Moves DEF Pcs, Statuses
<1>4. Ordered'
  <2>1. Len(ahead') = 0 /\ Len(pipe') = 0
    BY <1>1
  <2> QED
    BY <1>3, <2>1 DEF Ordered, At, Ascending
<1>5. ASSUME NEW n \in Nat, n = Len(sent), Typed(n)
      PROVE  Typed(n)'
  <2>1. server' \in [pc : Pcs, line : 0..n, status : Statuses \union {"none"}]
    BY <1>1, <1>5, Moves DEF Pcs, Statuses
  <2> QED
    BY <1>1, <1>5, <2>1 DEF Typed
<1> QED
  BY <1>1, <1>4, <1>5, TypeStep DEF TypeOK

\* The next line is taken from those read ahead.
LEMMA TakeLineFacts ==
  ASSUME TypeOK, TakeLine
  PROVE  /\ Head(ahead) \in 1..Len(sent) /\ sent[Head(ahead)] \in Bodies
         /\ server'.line = Head(ahead) /\ server'.pc = NextPc(sent[Head(ahead)].kind)
         /\ server'.status = IF sent[Head(ahead)].kind = "junk" THEN "raised" ELSE "result"
         /\ server' = [pc |-> server'.pc, line |-> server'.line, status |-> server'.status]
         /\ server'.pc \in {"read", "answer", "decide"}
<1> DEFINE n == Head(ahead)
<1>1. ahead \in Seq(1..Len(sent)) /\ sent \in Seq(Bodies) /\ ahead # <<>>
  BY DEF TypeOK, TakeLine
<1>2. n \in 1..Len(sent)
  <2> DEFINE L == 1..Len(sent)
  <2> HIDE DEF L
  <2>1. ahead \in Seq(L)
    BY <1>1 DEF L
  <2>2. n \in L
    BY <1>1, <2>1, TailFacts
  <2> QED
    BY <2>2 DEF L
<1>3. sent[n] \in Bodies
  BY <1>1, <1>2, ElementOfSeq
<1> HIDE DEF n
<1>4. server' = [pc |-> NextPc(sent[n].kind), line |-> n,
                 status |-> IF sent[n].kind = "junk" THEN "raised" ELSE "result"]
  BY DEF TakeLine, n
<1>5. NextPc(sent[n].kind) \in {"read", "answer", "decide"}
  <2>1. Head(ahead) = ahead[1] /\ 1 \in 1..Len(ahead)
    BY <1>1, TailFacts
  <2>2. ~Garbled(n)
    BY <2>1 DEF TypeOK, n
  <2> QED
    BY <1>3, <2>2, BodiesAssumption DEF NextPc, Garbled
<1> QED
  BY <1>2, <1>3, <1>4, <1>5 DEF n

LEMMA TypeTakeLine == TypeOK /\ TakeLine => TypeOK'
<1> SUFFICES ASSUME TypeOK, TakeLine PROVE TypeOK'
  OBVIOUS
<1>1. /\ UNCHANGED <<policy, sent, client, pipe, eaten, audit, done, stdout>>
      /\ ahead # <<>> /\ ahead' = Tail(ahead) /\ client \in {"open", "closed", "gone"}
  BY DEF TakeLine, TypeOK
<1>2. ASSUME NEW n \in Nat, n = Len(sent), Typed(n)
      PROVE  Typed(n)'
  <2>1. /\ server'.line \in 1..n /\ server'.pc \in Pcs
        /\ server'.status \in Statuses
        /\ server' = [pc |-> server'.pc, line |-> server'.line, status |-> server'.status]
    BY <1>2, TakeLineFacts DEF Pcs, Statuses
  <2>2. server' \in [pc : Pcs, line : 0..n, status : Statuses \union {"none"}]
    <3>1. server'.line \in 0..n
      BY <1>2, <2>1
    <3> QED
      BY <2>1, <3>1
  <2>3. ahead' \in Seq(1..n)
    BY <1>1, <1>2, TailFacts DEF Typed
  <2> QED
    BY <1>1, <1>2, <2>2, <2>3 DEF Typed
<1>3. Ordered'
  <2>1. ahead \in Seq(1..Len(sent)) /\ Ordered
    BY Parts DEF TypeOK
  <2>2. ahead \in Seq(Nat)
    <3>1. 1..Len(sent) \subseteq Nat
      BY ServerTyped
    <3> QED
      BY <2>1, <3>1, SeqMonotonic
  <2>3. Ascending(ahead')
    BY <1>1, <2>1, <2>2, AscendingTail DEF Ordered
  <2>4. \A i \in 1..Len(ahead') : i + 1 \in 1..Len(ahead) /\ ahead'[i] = ahead[i + 1]
    BY <1>1, <2>2, TailFacts
  <2>5. \A i \in 1..Len(ahead'), j \in 1..Len(pipe) : ahead'[i] < pipe[j]
    BY <2>1, <2>4 DEF Ordered
  <2>6. server'.line > 0
    <3>1. server'.line \in 1..Len(sent) /\ Len(sent) \in Nat
      BY TakeLineFacts, ServerTyped
    <3> QED
      BY <3>1
  <2>7. \A i \in 1..Len(ahead') : ~Garbled(ahead[i])'
    BY <1>1, <2>1, <2>4 DEF Ordered, Garbled
  <2> QED
    BY <1>1, <2>1, <2>3, <2>5, <2>6, <2>7 DEF Ordered, Ascending
<1> QED
  BY <1>1, <1>2, <1>3, TypeStep

\* A step of serve() that takes no line: the queue keeps its order.
LEMMA TypeWork ==
  ASSUME TypeOK, UNCHANGED <<policy, sent, client, pipe, ahead>>,
         server'.line = server.line, server.pc \notin {"read", "ended", "failed"},
         \A n \in Nat : n = Len(sent) /\ Typed(n) => Typed(n)'
  PROVE  TypeOK'
<1>1. server.line > 0
  BY ServerTyped
<1>2. Ordered'
  BY <1>1, Parts DEF Ordered, Ascending, Garbled
<1> QED
  BY <1>2, TypeStep DEF TypeOK

\* A tool call is decided: recorded, printed and obeyed, or it raises.
Deciding == [line |-> server.line, decision |-> Decision(Body)]

LEMMA DecideFacts ==
  ASSUME TypeOK, CallDecides
  PROVE  /\ server.pc = "decide" /\ Body.tool \in Tools
         /\ UNCHANGED <<policy, sent, client, pipe, ahead, eaten, done>>
         /\ audit' = Append(audit, Deciding) \/ audit' = audit
         /\ \/ /\ audit' = Append(audit, Deciding)
               /\ stdout' = Append(stdout, Item(server.line, "text"))
               /\ \/ Decision(Body) = "allow" /\ Goto("run")
                  \/ AnswerWith("blocked")
            \/ stdout' = stdout /\ (AnswerWith("raised") \/ AnswerWith("blocked"))
  BY DEF CallDecides, At, taken, Deciding

LEMMA TypeCallDecides == TypeOK /\ CallDecides => TypeOK'
<1> SUFFICES ASSUME TypeOK, CallDecides PROVE TypeOK'
  OBVIOUS
<1>1. /\ UNCHANGED <<policy, sent, client, pipe, ahead, eaten, done>> /\ server.pc = "decide"
      /\ audit' = Append(audit, Deciding) \/ audit' = audit
      /\ stdout' = Append(stdout, Item(server.line, "text")) \/ stdout' = stdout
      /\ Goto("run") \/ AnswerWith("blocked") \/ AnswerWith("raised")
  BY DecideFacts
<1>2. Typed(Len(sent)) /\ Len(sent) \in Nat /\ server.line \in 1..Len(sent)
  BY <1>1, Parts, ServerTyped
<1>3. server'.line = server.line
  BY <1>1, <1>2, Moves DEF Pcs, Statuses
<1>4. ASSUME NEW n \in Nat, n = Len(sent), Typed(n)
      PROVE  Typed(n)'
  <2> DEFINE R == [line : 1..n, decision : Decisions]
             O == [line : 1..n, status : Statuses \union {"text"}]
  <2>1. Deciding \in R /\ Item(server.line, "text") \in O
    BY <1>2, <1>4, DecisionTyped DEF Deciding, Item
  <2>2. audit \in Seq(R) /\ stdout \in Seq(O)
    BY <1>4 DEF Typed
  <2>3. audit' \in Seq(R) /\ stdout' \in Seq(O)
    <3> DEFINE item == Item(server.line, "text")
    <3>1. item \in O /\ (stdout' = Append(stdout, item) \/ stdout' = stdout)
      BY <1>1, <2>1
    <3> HIDE DEF R, O, item
    <3>2. audit' \in Seq(R)
      BY <1>1, <2>1, <2>2, AppendFacts
    <3>3. stdout' \in Seq(O)
      BY <2>2, <3>1, AppendFacts
    <3> QED
      BY <3>2, <3>3
  <2>4. server' \in [pc : Pcs, line : 0..n, status : Statuses \union {"none"}]
    BY <1>1, <1>4, Moves DEF Pcs, Statuses
  <2> QED
    BY <1>1, <1>4, <2>3, <2>4 DEF Typed
<1> QED
  BY <1>1, <1>3, <1>4, TypeWork

\* The other steps of a call, and where they lead.
LEMMA RunFacts ==
  ASSUME TypeOK, RunTool
  PROVE  /\ server.pc = "run" /\ UNCHANGED <<policy, sent, client, pipe, ahead, eaten, audit, stdout>>
         /\ \/ done' = done /\ (AnswerWith("raised") \/ AnswerWith("blocked"))
            \/ /\ done' = Append(done, server.line)
               /\ Goto("wait") \/ AnswerWith("result") \/ AnswerWith("raised")
  BY DEF RunTool, At, taken

LEMMA TypeRunTool == TypeOK /\ RunTool => TypeOK'
<1> SUFFICES ASSUME TypeOK, RunTool PROVE TypeOK'
  OBVIOUS
<1>1. /\ server.pc = "run" /\ UNCHANGED <<policy, sent, client, pipe, ahead, eaten, audit, stdout>>
      /\ done' = done \/ done' = Append(done, server.line)
      /\ Goto("wait") \/ AnswerWith("result") \/ AnswerWith("blocked") \/ AnswerWith("raised")
  BY RunFacts
<1>2. Typed(Len(sent)) /\ Len(sent) \in Nat /\ server.line \in 1..Len(sent)
  BY <1>1, Parts, ServerTyped
<1>3. server'.line = server.line
  BY <1>1, <1>2, Moves DEF Pcs, Statuses
<1>4. ASSUME NEW n \in Nat, n = Len(sent), Typed(n)
      PROVE  Typed(n)'
  <2> DEFINE L == 1..n
  <2>0. done \in Seq(L) /\ server.line \in L
    BY <1>2, <1>4 DEF Typed
  <2>1. done' \in Seq(L)
    <3> HIDE DEF L
    <3> QED
      BY <1>1, <2>0, AppendFacts
  <2>2. server' \in [pc : Pcs, line : 0..n, status : Statuses \union {"none"}]
    BY <1>1, <1>4, Moves DEF Pcs, Statuses
  <2> QED
    BY <1>1, <1>4, <2>1, <2>2 DEF Typed
<1> QED
  BY <1>1, <1>3, <1>4, TypeWork

\* A command reads the first line in the pipe.
LEMMA ReadsFacts ==
  ASSUME TypeOK, CommandReads
  PROVE  /\ server.pc = "wait" /\ UNCHANGED <<policy, sent, client, ahead, server, audit, done, stdout>>
         /\ pipe # <<>> /\ pipe' = Tail(pipe) /\ Head(pipe) \in 1..Len(sent)
         /\ eaten' = Append(eaten, [line |-> Head(pipe), by |-> server.line])
<1>1. /\ server.pc = "wait" /\ UNCHANGED <<policy, sent, client, ahead, server, audit, done, stdout>>
      /\ pipe # <<>> /\ pipe' = Tail(pipe)
      /\ eaten' = Append(eaten, [line |-> Head(pipe), by |-> server.line])
  BY DEF CommandReads, At, taken
<1> DEFINE L == 1..Len(sent)
<1>2. pipe \in Seq(L)
  BY DEF TypeOK
<1>3. Head(pipe) \in L
  <2> HIDE DEF L
  <2> QED
    BY <1>1, <1>2, TailFacts
<1> QED
  BY <1>1, <1>3

LEMMA TypeCommandReads == TypeOK /\ CommandReads => TypeOK'
<1> SUFFICES ASSUME TypeOK, CommandReads PROVE TypeOK'
  OBVIOUS
<1>1. /\ server.pc = "wait" /\ UNCHANGED <<policy, sent, client, ahead, server, audit, done, stdout>>
      /\ pipe # <<>> /\ pipe' = Tail(pipe) /\ Head(pipe) \in 1..Len(sent)
      /\ eaten' = Append(eaten, [line |-> Head(pipe), by |-> server.line])
  BY ReadsFacts
<1>2. server.line \in 1..Len(sent) /\ Len(sent) \in Nat
  BY <1>1, ServerTyped
<1>3. ASSUME NEW n \in Nat, n = Len(sent), Typed(n)
      PROVE  Typed(n)'
  <2> DEFINE E == [line : 1..n, by : 1..n]
             e == [line |-> Head(pipe), by |-> server.line]
  <2>1. e \in E /\ eaten \in Seq(E)
    BY <1>1, <1>2, <1>3 DEF Typed
  <2>2. eaten' \in Seq(E)
    <3>1. eaten' = Append(eaten, e)
      BY <1>1
    <3> HIDE DEF E, e
    <3> QED
      BY <2>1, <3>1, AppendFacts
  <2>3. pipe' \in Seq(1..n)
    BY <1>1, <1>3, TailFacts DEF Typed
  <2> QED
    BY <1>1, <1>3, <2>2, <2>3 DEF Typed
<1>4. Ordered'
  <2>1. pipe \in Seq(1..Len(sent)) /\ Ordered
    BY Parts DEF TypeOK
  <2>2. pipe \in Seq(Nat)
    <3>1. 1..Len(sent) \subseteq Nat
      BY ServerTyped
    <3> QED
      BY <2>1, <3>1, SeqMonotonic
  <2>3. Ascending(pipe')
    BY <1>1, <2>1, <2>2, AscendingTail DEF Ordered
  <2>4. \A i \in 1..Len(pipe') : i + 1 \in 1..Len(pipe) /\ pipe'[i] = pipe[i + 1]
    BY <1>1, <2>2, TailFacts
  <2>5. \A i \in 1..Len(ahead), j \in 1..Len(pipe') : ahead[i] < pipe'[j]
    BY <2>1, <2>4 DEF Ordered
  <2> QED
    BY <1>1, <2>1, <2>3, <2>5 DEF Ordered, Ascending, At, Garbled
<1> QED
  BY <1>1, <1>3, <1>4, TypeStep DEF TypeOK

\* An answer is written, or the server fails.
LEMMA AnswerFacts ==
  ASSUME TypeOK, WriteAnswer
  PROVE  /\ server.pc = "answer" /\ UNCHANGED <<policy, sent, client, pipe, ahead, eaten, audit, done>>
         /\ \/ Goto("failed") /\ stdout' = stdout
            \/ Goto("read") /\ stdout' = Append(stdout, Item(server.line, server.status))
  BY DEF WriteAnswer, At, taken

LEMMA TypeWriteAnswer ==
  ASSUME TypeOK, WriteAnswer, server.status # "none"
  PROVE  TypeOK'
<1>1. /\ server.pc = "answer" /\ UNCHANGED <<policy, sent, client, pipe, ahead, eaten, audit, done>>
      /\ stdout' = stdout \/ stdout' = Append(stdout, Item(server.line, server.status))
      /\ Goto("failed") \/ Goto("read")
  BY AnswerFacts
<1>2. /\ Typed(Len(sent)) /\ Len(sent) \in Nat /\ server.line \in 1..Len(sent)
      /\ server.status \in Statuses
  BY <1>1, Parts, ServerTyped
<1>3. server'.line = server.line
  BY <1>1, <1>2, Moves DEF Pcs
<1>4. ASSUME NEW n \in Nat, n = Len(sent), Typed(n)
      PROVE  Typed(n)'
  <2> DEFINE O == [line : 1..n, status : Statuses \union {"text"}]
             item == Item(server.line, server.status)
  <2>1. /\ item \in O /\ stdout \in Seq(O)
        /\ stdout' = Append(stdout, item) \/ stdout' = stdout
    BY <1>1, <1>2, <1>4 DEF Item, Typed
  <2>2. stdout' \in Seq(O)
    <3> HIDE DEF O, item
    <3> QED
      BY <2>1, AppendFacts
  <2>3. server' \in [pc : Pcs, line : 0..n, status : Statuses \union {"none"}]
    BY <1>1, <1>4, Moves DEF Pcs, Statuses
  <2> QED
    BY <1>1, <1>4, <2>2, <2>3 DEF Typed
<1> QED
  BY <1>1, <1>3, <1>4, TypeWork

LEMMA TypeFinish ==
  ASSUME TypeOK, UnknownTool \/ CommandEnds
  PROVE  TypeOK'
<1>1. /\ server.pc \in {"decide", "wait"}
      /\ UNCHANGED <<policy, sent, client, pipe, ahead, eaten, audit, done, stdout>>
      /\ AnswerWith("result") \/ AnswerWith("raised")
  BY DEF UnknownTool, CommandEnds, At, taken
<1>2. Typed(Len(sent)) /\ Len(sent) \in Nat
  BY Parts, ServerTyped
<1>3. server'.line = server.line
  BY <1>1, <1>2, Moves DEF Pcs, Statuses
<1>4. ASSUME NEW n \in Nat, n = Len(sent), Typed(n)
      PROVE  Typed(n)'
  <2>1. server' \in [pc : Pcs, line : 0..n, status : Statuses \union {"none"}]
    BY <1>1, <1>4, Moves DEF Pcs, Statuses
  <2> QED
    BY <1>1, <1>4, <2>1 DEF Typed
<1> QED
  BY <1>1, <1>3, <1>4, TypeWork

LEMMA TypeEndOfInput == TypeOK /\ EndOfInput => TypeOK'
<1> SUFFICES ASSUME TypeOK, EndOfInput PROVE TypeOK'
  OBVIOUS
<1>1. /\ UNCHANGED <<policy, sent, client, pipe, ahead, eaten, audit, done, stdout>>
      /\ Goto("ended")
  BY DEF EndOfInput, taken
<1>2. Typed(Len(sent)) /\ Len(sent) \in Nat /\ Ordered
  BY Parts, ServerTyped
<1>3. server'.pc = "ended"
  BY <1>1, <1>2, Moves DEF Pcs, Statuses
<1>4. Ordered'
  BY <1>1, <1>2, <1>3 DEF Ordered, At, Ascending, Garbled
<1>5. ASSUME NEW n \in Nat, n = Len(sent), Typed(n)
      PROVE  Typed(n)'
  <2>1. server' \in [pc : Pcs, line : 0..n, status : Statuses \union {"none"}]
    BY <1>1, <1>5, Moves DEF Pcs, Statuses
  <2> QED
    BY <1>1, <1>5, <2>1 DEF Typed
<1> QED
  BY <1>1, <1>4, <1>5, TypeStep DEF TypeOK

-----------------------------------------------------------------------------
(* The inductive invariant.                                                *)

\* The calls of a tool, those that the decision allows, and those on record as
\* allowed; the lines whose tool has taken effect, and those a command has read.
Calls == {n \in 1..Len(sent) : sent[n].kind = "call" /\ sent[n].tool \in Tools}
Allowed == {n \in Calls : Decision(sent[n]) = "allow"}
Granted == {n \in 1..Len(sent) : Recorded(n)}
Ran == {done[i] : i \in 1..Len(done)}
Eaten == {eaten[k].line : k \in 1..Len(eaten)}

\* The lines that wait: all behind the line in work, and none was read twice.
Waits == {ahead[i] : i \in 1..Len(ahead)} \union {pipe[i] : i \in 1..Len(pipe)}

QueueInv ==
    /\ \A n \in Waits : server.line < n /\ n \notin Eaten
    /\ server.line \notin Eaten

\* What an answer to line n may say.
Truthful(n, status) ==
    /\ n \notin Eaten
    /\ status = "result" => (n \in Ran <=> n \in Calls)
    /\ status = "blocked" => n \notin Ran

\* What the line in work has behind it at each step.
CallInv ==
    /\ server.pc \in {"decide", "run", "wait"} => Body.kind = "call"
    /\ server.pc \in {"run", "wait"} => server.line \in Allowed \intersect Granted
    /\ server.pc = "wait" => server.line \in Ran
    /\ server.pc = "answer" => server.status # "none" /\ Truthful(server.line, server.status)

\* The effects: allowed, on record, in order, not of a line read by a command;
\* the line in work has none until its tool runs.
DoneInv ==
    /\ Ran \subseteq Allowed \intersect Granted
    /\ Ran \intersect Eaten = {}
    /\ \A n \in Ran : n <= server.line /\ (server.pc \in {"decide", "run"} => n < server.line)
    /\ Ascending(done)

\* The answers: true, in order, and none yet to the line in work.
Answered(n) ==
    n <= server.line /\ (server.pc \in {"decide", "run", "wait", "answer"} => n < server.line)

AnswerInv ==
    /\ \A i \in 1..Len(stdout) :
          IsAnswer(stdout[i]) =>
             Answered(stdout[i].line) /\ Truthful(stdout[i].line, stdout[i].status)
    /\ \A i, j \in 1..Len(stdout) :
          i < j /\ IsAnswer(stdout[i]) /\ IsAnswer(stdout[j]) => stdout[i].line < stdout[j].line

ServerInv == TypeOK /\ QueueInv /\ CallInv /\ DoneInv /\ AnswerInv

-----------------------------------------------------------------------------
(* What every step keeps.                                                  *)

Steadily ==
    \A n \in 1..Len(sent) :
        /\ n \in Calls' <=> n \in Calls
        /\ n \in Allowed' <=> n \in Allowed
        /\ n \in Granted => n \in Granted'

LEMMA SteadyStep ==
  ASSUME TypeOK, UNCHANGED policy, 1..Len(sent) \subseteq 1..Len(sent'),
         \A n \in 1..Len(sent) : sent'[n] = sent[n],
         1..Len(audit) \subseteq 1..Len(audit'),
         \A k \in 1..Len(audit) : audit'[k] = audit[k]
  PROVE  Steadily
<1> SUFFICES ASSUME NEW n \in 1..Len(sent)
             PROVE  /\ n \in Calls' <=> n \in Calls
                    /\ n \in Allowed' <=> n \in Allowed
                    /\ n \in Granted => n \in Granted'
  BY DEF Steadily
<1>1. n \in 1..Len(sent') /\ sent'[n] = sent[n]
  OBVIOUS
<1>2. n \in Calls' <=> n \in Calls
  BY <1>1 DEF Calls
<1>3. Decision(sent[n])' = Decision(sent[n])
  BY <1>1 DEF Decision
<1>4. n \in Allowed' <=> n \in Allowed
  BY <1>2, <1>3 DEF Allowed
<1>5. ASSUME n \in Granted
      PROVE  n \in Granted'
  BY <1>1, <1>5 DEF Granted, Recorded
<1> QED
  BY <1>2, <1>4, <1>5

\* An answer stays true as long as its line neither runs nor is read.
LEMMA StaysTrue ==
  ASSUME Steadily, NEW n \in 1..Len(sent), NEW status, Truthful(n, status),
         n \in Ran' <=> n \in Ran, n \in Eaten' => n \in Eaten
  PROVE  Truthful(n, status)'
  BY DEF Steadily, Truthful

LEMMA LinesOf ==
  ASSUME TypeOK
  PROVE  /\ Waits \subseteq 1..Len(sent) /\ Ran \subseteq 1..Len(sent) /\ Eaten \subseteq 1..Len(sent)
         /\ \A i \in 1..Len(stdout) :
               stdout[i].line \in 1..Len(sent) /\ stdout[i].status \in Statuses \union {"text"}
         /\ 1..Len(sent) \subseteq Nat
<1>1. /\ ahead \in Seq(1..Len(sent)) /\ pipe \in Seq(1..Len(sent)) /\ done \in Seq(1..Len(sent))
      /\ eaten \in Seq([line : 1..Len(sent), by : 1..Len(sent)])
      /\ stdout \in Seq([line : 1..Len(sent), status : Statuses \union {"text"}])
      /\ Len(sent) \in Nat
  BY ServerTyped DEF TypeOK
<1>2. Waits \subseteq 1..Len(sent) /\ Ran \subseteq 1..Len(sent)
  BY <1>1, ElementOfSeq DEF Waits, Ran
<1>3. Eaten \subseteq 1..Len(sent)
  <2>1. \A k \in 1..Len(eaten) : eaten[k] \in [line : 1..Len(sent), by : 1..Len(sent)]
    BY <1>1, ElementOfSeq
  <2> QED
    BY <2>1 DEF Eaten
<1>4. \A i \in 1..Len(stdout) : stdout[i] \in [line : 1..Len(sent), status : Statuses \union {"text"}]
  BY <1>1, ElementOfSeq
<1> QED
  BY <1>1, <1>2, <1>3, <1>4

LEMMA DoneKept ==
  ASSUME DoneInv, TypeOK, Steadily, UNCHANGED done, QueueInv, Eaten' \subseteq Eaten \union Waits,
         server.line \in Nat, server'.line \in Nat, server.line <= server'.line,
         server'.pc \in {"decide", "run"} =>
            server.pc \in {"decide", "run"} \/ server.line < server'.line
  PROVE  DoneInv'
<1>1. Ran' = Ran /\ Ran \subseteq 1..Len(sent) /\ Waits \subseteq Nat /\ Ran \subseteq Nat
  BY LinesOf DEF Ran
<1>2. Ran' \subseteq (Allowed \intersect Granted)'
  BY <1>1 DEF DoneInv, Steadily
<1>3. ASSUME NEW n \in Ran PROVE n \notin Eaten'
  BY <1>1, <1>3 DEF DoneInv, QueueInv
<1>4. \A n \in Ran' : n <= server'.line /\ (server'.pc \in {"decide", "run"} => n < server'.line)
  BY <1>1 DEF DoneInv
<1> QED
  BY <1>1, <1>2, <1>3, <1>4 DEF DoneInv, Ascending

LEMMA AnswersKept ==
  ASSUME AnswerInv, TypeOK, Steadily, UNCHANGED stdout,
         \A n \in 1..Len(sent) : Answered(n) =>
            Answered(n)' /\ (n \in Ran' <=> n \in Ran) /\ (n \in Eaten' => n \in Eaten)
  PROVE  AnswerInv'
<1>1. ASSUME NEW i \in 1..Len(stdout), IsAnswer(stdout[i])
      PROVE  (Answered(stdout[i].line) /\ Truthful(stdout[i].line, stdout[i].status))'
  <2>1. PICK n, status : n = stdout[i].line /\ status = stdout[i].status
    OBVIOUS
  <2>2. n \in 1..Len(sent) /\ Answered(n) /\ Truthful(n, status)
    BY <1>1, <2>1, LinesOf DEF AnswerInv
  <2>3. Answered(n)' /\ Truthful(n, status)'
    BY <2>2, StaysTrue
  <2>4. stdout'[i].line = n /\ stdout'[i].status = status
    BY <2>1
  <2> QED
    BY <2>3, <2>4 DEF Answered, Truthful
<1> QED
  BY <1>1 DEF AnswerInv, IsAnswer

\* One more item: text, or the answer to the line in work.
LEMMA AnswersGrow ==
  ASSUME AnswerInv, TypeOK, Steadily, NEW n \in 1..Len(sent), NEW status \in Statuses \union {"text"},
         stdout' = Append(stdout, Item(n, status)),
         Ran' = Ran, Eaten' = Eaten,
         \A m \in 1..Len(sent) : Answered(m) => Answered(m)',
         status # "text" => /\ Truthful(n, status) /\ Answered(n)'
                            /\ \A m \in 1..Len(sent) : Answered(m) => m < n
  PROVE  AnswerInv'
<1> DEFINE O == [line : 1..Len(sent), status : Statuses \union {"text"}]
           item == Item(n, status)
<1>1. stdout \in Seq(O) /\ item \in O /\ item.line = n /\ item.status = status
  BY DEF TypeOK, Item
<1>2. /\ \A i \in 1..Len(stdout) : stdout'[i] = stdout[i]
      /\ \A i \in 1..Len(stdout') : i \in 1..Len(stdout) \/ i = Len(stdout) + 1
      /\ stdout'[Len(stdout) + 1] = item /\ Len(stdout) \in Nat
  <2>1. stdout' = Append(stdout, item)
    OBVIOUS
  <2> HIDE DEF O, item
  <2> QED
    BY <1>1, <2>1, AppendFacts
<1> HIDE DEF O, item
<1>3. ASSUME NEW i \in 1..Len(stdout'), IsAnswer(stdout'[i])
      PROVE  (Answered(stdout[i].line) /\ Truthful(stdout[i].line, stdout[i].status))'
  <2>1. PICK m, s : m = stdout'[i].line /\ s = stdout'[i].status
    OBVIOUS
  <2>2. Answered(m)' /\ Truthful(m, s)'
    <3>1. CASE i \in 1..Len(stdout)
      <4>1. m = stdout[i].line /\ s = stdout[i].status /\ IsAnswer(stdout[i])
        BY <1>2, <1>3, <2>1, <3>1 DEF IsAnswer
      <4>2. m \in 1..Len(sent) /\ Answered(m) /\ Truthful(m, s)
        BY <3>1, <4>1, LinesOf DEF AnswerInv
      <4> QED
        BY <4>2, StaysTrue
    <3>2. CASE i = Len(stdout) + 1
      <4>1. m = n /\ s = status /\ status # "text"
        BY <1>1, <1>2, <1>3, <2>1, <3>2 DEF IsAnswer
      <4>2. Answered(n)' /\ Truthful(n, status)'
        BY <4>1, StaysTrue
      <4> QED
        BY <4>1, <4>2
    <3> QED
      BY <1>2, <3>1, <3>2
  <2> QED
    BY <2>1, <2>2 DEF Answered, Truthful
<1>4. ASSUME NEW i \in 1..Len(stdout'), NEW j \in 1..Len(stdout'),
             i < j, IsAnswer(stdout'[i]), IsAnswer(stdout'[j])
      PROVE  stdout'[i].line < stdout'[j].line
  <2>1. i \in 1..Len(stdout) /\ stdout'[i] = stdout[i]
    BY <1>2, <1>4
  <2>2. IsAnswer(stdout[i])
    BY <1>4, <2>1
  <2>3. Answered(stdout[i].line) /\ stdout[i].line \in 1..Len(sent)
    BY <2>1, <2>2, LinesOf DEF AnswerInv
  <2>4. CASE j \in 1..Len(stdout)
    BY <1>2, <1>4, <2>1, <2>2, <2>4 DEF AnswerInv
  <2>5. CASE j = Len(stdout) + 1
    <3>1. status # "text" /\ stdout'[j].line = n
      BY <1>1, <1>2, <1>4, <2>5 DEF IsAnswer
    <3> QED
      BY <2>1, <2>3, <3>1
  <2> QED
    BY <1>2, <2>4, <2>5
<1> QED
  BY <1>3, <1>4, Zenon DEF AnswerInv

-----------------------------------------------------------------------------
(* The invariant is inductive.                                             *)

LEMMA InvariantInit == Init => ServerInv
<1> SUFFICES ASSUME Init PROVE ServerInv
  OBVIOUS
<1>1. /\ server.pc = "read" /\ server.line = 0 /\ Len(done) = 0 /\ Len(stdout) = 0
      /\ Len(ahead) = 0 /\ Len(pipe) = 0 /\ Len(eaten) = 0
  BY DEF Init
<1>2. Waits = {} /\ Ran = {} /\ Eaten = {}
  BY <1>1 DEF Waits, Ran, Eaten
<1> QED
  BY <1>1, <1>2, TypeInit DEF ServerInv, QueueInv, CallInv, DoneInv, AnswerInv, Ascending

\* A step that leaves the log and the client's lines alone.
LEMMA SteadyQuiet ==
  ASSUME TypeOK, UNCHANGED <<policy, sent, audit>>
  PROVE  Steadily /\ Granted' = Granted
<1>1. Steadily
  BY SteadyStep
<1> QED
  BY <1>1 DEF Granted, Recorded

LEMMA BodyKept ==
  ASSUME TypeOK, server'.line = server.line, server.pc \notin {"read", "ended", "failed"},
         \A n \in 1..Len(sent) : sent'[n] = sent[n]
  PROVE  Body' = Body
<1>1. server.line \in 1..Len(sent)
  BY ServerTyped
<1> QED
  BY <1>1 DEF Body

\* The environment's steps and the reading ahead change nothing but what waits.
LEMMA InvariantAside ==
  ASSUME ServerInv, TypeOK', UNCHANGED <<policy, server, eaten, done, stdout>>, Steadily,
         \A n \in 1..Len(sent) : sent'[n] = sent[n],
         \A n \in Waits' : n \in Waits \/ (server.line < n /\ n \notin Eaten)
  PROVE  ServerInv'
<1>0. TypeOK /\ QueueInv /\ CallInv /\ DoneInv /\ AnswerInv
  BY DEF ServerInv
<1>1. Eaten' = Eaten /\ Ran' = Ran
  BY DEF Eaten, Ran
<1>2. QueueInv'
  BY <1>0, <1>1 DEF QueueInv
<1>3. CallInv'
  <2>1. server.line \in Nat /\ (server.pc \notin {"read", "ended", "failed"} => server.line \in 1..Len(sent))
    BY <1>0, ServerTyped
  <2>2. server.pc \in {"decide", "run", "wait"} => Body'.kind = "call"
    BY <1>0, BodyKept DEF CallInv
  <2>3. server.pc \in {"run", "wait"} => server.line \in (Allowed \intersect Granted)'
    BY <1>0, <2>1 DEF CallInv, Steadily
  <2>4. server.pc = "answer" => server.status # "none" /\ Truthful(server.line, server.status)'
    <3>1. PICK n, status : n = server.line /\ status = server.status
      OBVIOUS
    <3>2. server.pc = "answer" => Truthful(n, status)'
      BY <1>0, <1>1, <2>1, <3>1, StaysTrue DEF CallInv
    <3> QED
      BY <1>0, <3>1, <3>2 DEF CallInv, Truthful
  <2> QED
    BY <1>0, <1>1, <2>2, <2>3, <2>4 DEF CallInv
<1>4. DoneInv'
  BY <1>0, <1>1, ServerTyped, DoneKept
<1>5. AnswerInv'
  BY <1>0, <1>1, AnswersKept DEF Answered
<1> QED
  BY <1>2, <1>3, <1>4, <1>5 DEF ServerInv

LEMMA InvariantClientSends == ServerInv /\ ClientSends => ServerInv'
<1> SUFFICES ASSUME ServerInv, ClientSends PROVE ServerInv'
  OBVIOUS
<1>1. TypeOK /\ TypeOK'
  BY TypeClientSends DEF ServerInv
<1>2. PICK n \in Nat : n = Len(sent)
  BY <1>1, ServerTyped
<1>3. /\ UNCHANGED <<policy, ahead, server, eaten, audit, done, stdout>>
      /\ pipe' = Append(pipe, n + 1)
  BY <1>2 DEF ClientSends
<1>4. \A k \in 1..n : sent'[k] = sent[k]
  BY <1>1, <1>2, AppendFacts DEF ClientSends, TypeOK
<1>5. Len(sent') = n + 1
  BY <1>1, <1>2, AppendFacts DEF ClientSends, TypeOK
<1>6. Steadily
  BY <1>1, <1>2, <1>3, <1>4, <1>5, SteadyStep
<1>7. Waits' \subseteq Waits \union {n + 1}
  <2>1. pipe \in Seq(Nat)
    <3>1. 1..Len(sent) \subseteq Nat /\ pipe \in Seq(1..Len(sent))
      BY <1>1, LinesOf DEF TypeOK
    <3> QED
      BY <3>1, SeqMonotonic
  <2>2. \A i \in 1..Len(pipe') : (i \in 1..Len(pipe) /\ pipe'[i] = pipe[i]) \/ pipe'[i] = n + 1
    BY <1>3, <2>1, AppendFacts
  <2> QED
    BY <1>3, <2>2 DEF Waits
<1>8. server.line < n + 1 /\ n + 1 \notin Eaten
  BY <1>1, <1>2, ServerTyped, LinesOf
<1> QED
  BY <1>1, <1>2, <1>3, <1>4, <1>6, <1>7, <1>8, InvariantAside

LEMMA InvariantClientEnds == ServerInv /\ ClientEnds => ServerInv'
<1> SUFFICES ASSUME ServerInv, ClientEnds PROVE ServerInv'
  OBVIOUS
<1>1. TypeOK /\ TypeOK' /\ UNCHANGED <<policy, sent, pipe, ahead, server, eaten, audit, done, stdout>>
  BY TypeClientEnds DEF ServerInv, ClientEnds
<1>2. Waits' = Waits
  BY <1>1 DEF Waits
<1> QED
  BY <1>1, <1>2, SteadyQuiet, InvariantAside

LEMMA InvariantReadAhead == ServerInv /\ ReadAhead => ServerInv'
<1> SUFFICES ASSUME ServerInv, ReadAhead PROVE ServerInv'
  OBVIOUS
<1>1. /\ TypeOK /\ TypeOK' /\ UNCHANGED <<policy, sent, server, eaten, audit, done, stdout>>
      /\ ahead' = pipe /\ pipe' = <<>>
  BY TypeReadAhead DEF ServerInv, ReadAhead
<1>2. Waits' \subseteq Waits
  BY <1>1 DEF Waits
<1> QED
  BY <1>1, <1>2, SteadyQuiet, InvariantAside

LEMMA InvariantReadGarbled == ServerInv /\ ReadGarbled => ServerInv'
<1> SUFFICES ASSUME ServerInv, ReadGarbled PROVE ServerInv'
  OBVIOUS
<1>0. TypeOK /\ TypeOK' /\ QueueInv /\ CallInv /\ DoneInv /\ AnswerInv
  BY TypeReadGarbled DEF ServerInv
<1>1. /\ server.pc = "read" /\ Goto("failed") /\ pipe' = <<>>
      /\ UNCHANGED <<policy, sent, client, ahead, eaten, audit, done, stdout>>
  BY DEF ReadGarbled, At
<1>2. Typed(Len(sent)) /\ Len(sent) \in Nat /\ server.line \in Nat
  BY <1>0, Parts, ServerTyped
<1>3. server'.line = server.line /\ server'.pc = "failed"
  BY <1>1, <1>2, Moves DEF Pcs, Statuses
<1>4. Steadily /\ Eaten' = Eaten /\ Ran' = Ran
  BY <1>0, <1>1, SteadyQuiet DEF Eaten, Ran
<1>5. QueueInv'
  <2>1. Waits' \subseteq Waits
    BY <1>1 DEF Waits
  <2> QED
    BY <1>0, <1>3, <1>4, <2>1 DEF QueueInv
<1>6. CallInv'
  BY <1>3 DEF CallInv
<1>7. DoneInv'
  BY <1>0, <1>1, <1>2, <1>3, <1>4, DoneKept
<1>8. AnswerInv'
  <2>1. \A m \in 1..Len(sent) : Answered(m) => Answered(m)'
    BY <1>3 DEF Answered
  <2> QED
    BY <1>0, <1>1, <1>4, <2>1, AnswersKept
<1> QED
  BY <1>0, <1>5, <1>6, <1>7, <1>8 DEF ServerInv

LEMMA InvariantTakeLine == ServerInv /\ TakeLine => ServerInv'
<1> SUFFICES ASSUME ServerInv, TakeLine PROVE ServerInv'
  OBVIOUS
<1>0. TypeOK /\ TypeOK' /\ QueueInv /\ CallInv /\ DoneInv /\ AnswerInv
  BY TypeTakeLine DEF ServerInv
<1>1. PICK h : h = Head(ahead)
  OBVIOUS
<1>2. /\ UNCHANGED <<policy, sent, pipe, eaten, audit, done, stdout>>
      /\ ahead # <<>> /\ ahead' = Tail(ahead)
  BY DEF TakeLine
<1>3. /\ h \in 1..Len(sent) /\ sent[h] \in Bodies
      /\ server'.line = h /\ server'.pc = NextPc(sent[h].kind)
      /\ server'.status = IF sent[h].kind = "junk" THEN "raised" ELSE "result"
  BY <1>0, <1>1, TakeLineFacts
<1>4. Steadily /\ Eaten' = Eaten /\ Ran' = Ran
  BY <1>0, <1>2, SteadyQuiet DEF Eaten, Ran
<1>5. h \in Waits /\ Waits' \subseteq Waits /\ \A n \in Waits' : h < n
  <2>1. 1..Len(sent) \subseteq Nat /\ ahead \in Seq(1..Len(sent))
    BY <1>0, LinesOf DEF TypeOK
  <2>2. ahead \in Seq(Nat)
    BY <2>1, SeqMonotonic
  <2>3. /\ 1 \in 1..Len(ahead) /\ h = ahead[1]
        /\ \A i \in 1..Len(ahead') : i + 1 \in 1..Len(ahead) /\ ahead'[i] = ahead[i + 1]
        /\ \A i \in 1..Len(ahead') : h < ahead'[i]
    BY <1>0, <1>1, <1>2, <2>2, TailFacts, AscendingTail DEF TypeOK
  <2>4. \A j \in 1..Len(pipe) : h < pipe[j]
    BY <1>0, <2>3 DEF TypeOK
  <2> QED
    BY <1>2, <2>3, <2>4 DEF Waits
<1>6. server.line < h /\ h \notin Eaten /\ server.line \in Nat /\ h \in Nat /\ server.line <= h
  <2>1. server.line < h /\ h \notin Eaten
    BY <1>0, <1>5 DEF QueueInv
  <2>2. server.line \in Nat /\ h \in Nat
    BY <1>0, <1>3, ServerTyped, LinesOf
  <2> QED
    BY <2>1, <2>2
<1>7. QueueInv'
  BY <1>0, <1>3, <1>4, <1>5, <1>6 DEF QueueInv
<1>8. CallInv'
  <2>1. /\ sent[h].kind = "junk" => server'.status = "raised"
        /\ sent[h].kind # "junk" => server'.status = "result"
        /\ server'.pc = "decide" => sent[h].kind = "call"
        /\ server'.pc = "answer" => sent[h].kind \in {"junk", "method"}
        /\ server'.pc \notin {"run", "wait"}
    <3>1. Head(ahead) = ahead[1] /\ 1 \in 1..Len(ahead)
      BY <1>0, <1>2, TailFacts DEF TypeOK
    <3>2. ~Garbled(h)
      BY <1>0, <1>1, <3>1 DEF TypeOK
    <3> QED
      BY <1>3, <3>2, BodiesAssumption DEF NextPc, Garbled
  <2>2. h \notin Ran
    BY <1>0, <1>6, LinesOf DEF DoneInv
  <2>3. Body' = sent[h]
    BY <1>2, <1>3 DEF Body
  <2>4. ASSUME server'.pc = "answer"
        PROVE  Truthful(server.line, server.status)'
    <3>1. h \notin Calls'
      BY <1>2, <2>1, <2>4 DEF Calls
    <3> QED
      BY <1>3, <1>4, <1>6, <2>1, <2>2, <3>1 DEF Truthful
  <2> QED
    BY <2>1, <2>3, <2>4 DEF CallInv
<1>9. DoneInv'
  BY <1>0, <1>2, <1>3, <1>4, <1>6, DoneKept
<1>10. AnswerInv'
  <2>1. ASSUME NEW n \in 1..Len(sent), Answered(n)
        PROVE  Answered(n)'
    <3>1. n \in Nat /\ n <= server.line
      BY <1>0, <2>1, LinesOf DEF Answered
    <3>2. n < h
      BY <1>6, <3>1
    <3> QED
      BY <1>3, <1>6, <3>1, <3>2 DEF Answered
  <2> QED
    BY <1>0, <1>2, <1>4, <2>1, AnswersKept
<1> QED
  BY <1>0, <1>7, <1>8, <1>9, <1>10 DEF ServerInv

\* The line in work stays, and so do the lines that wait.
LEMMA QueueKept ==
  ASSUME QueueInv, UNCHANGED <<ahead, pipe, eaten>>, server'.line = server.line
  PROVE  QueueInv' /\ Eaten' = Eaten
  BY DEF QueueInv, Waits, Eaten

LEMMA InvariantCallDecides == ServerInv /\ CallDecides => ServerInv'
<1> SUFFICES ASSUME ServerInv, CallDecides PROVE ServerInv'
  OBVIOUS
<1>0. TypeOK /\ TypeOK' /\ QueueInv /\ CallInv /\ DoneInv /\ AnswerInv
  BY TypeCallDecides DEF ServerInv
<1>1. /\ server.pc = "decide" /\ Body.tool \in Tools
      /\ UNCHANGED <<policy, sent, client, pipe, ahead, eaten, done>>
      /\ audit' = Append(audit, Deciding) \/ audit' = audit
  BY <1>0, DecideFacts
<1>2. PICK n : n = server.line
  OBVIOUS
<1>3. /\ n \in 1..Len(sent) /\ n \in Nat /\ Typed(Len(sent)) /\ Len(sent) \in Nat
      /\ Body = sent[n] /\ Body.kind = "call"
  BY <1>0, <1>1, <1>2, ServerTyped, Parts DEF CallInv, Body
<1>4. \/ Goto("run") \/ AnswerWith("blocked") \/ AnswerWith("raised")
  BY <1>0, DecideFacts
<1>5. server'.line = n /\ server'.pc \in {"run", "answer"}
  BY <1>2, <1>3, <1>4, Moves DEF Pcs, Statuses
<1>6. /\ audit' = Append(audit, Deciding) =>
            audit'[Len(audit) + 1] = Deciding /\ Len(audit) + 1 \in 1..Len(audit')
      /\ 1..Len(audit) \subseteq 1..Len(audit') /\ \A k \in 1..Len(audit) : audit'[k] = audit[k]
  <2> DEFINE R == [line : 1..Len(sent), decision : Decisions]
  <2>1. audit \in Seq(R) /\ Deciding \in R
    BY <1>2, <1>3, DecisionTyped DEF Typed, Deciding
  <2> HIDE DEF R
  <2> QED
    BY <1>1, <2>1, AppendFacts
<1>7. Steadily
  BY <1>0, <1>1, <1>6, SteadyStep
<1>8. ASSUME audit' = Append(audit, Deciding), Decision(Body) = "allow"
      PROVE  n \in Granted'
  <2>1. Deciding.line = n /\ Deciding.decision = Decision(Body)
    BY <1>2 DEF Deciding
  <2>2. n \in 1..Len(sent')
    BY <1>1, <1>3
  <2> QED
    BY <1>6, <1>8, <2>1, <2>2 DEF Granted, Recorded
<1>9. QueueInv' /\ Eaten' = Eaten /\ Ran' = Ran /\ n \notin Eaten
  BY <1>0, <1>1, <1>2, <1>5, QueueKept DEF Ran, QueueInv
<1>10. n \notin Ran /\ n \in Calls
  <2>1. n \notin Ran
    BY <1>0, <1>1, <1>2, <1>3 DEF DoneInv
  <2> QED
    BY <1>1, <1>3, <2>1 DEF Calls
<1> DEFINE Recording == /\ audit' = Append(audit, Deciding)
                        /\ stdout' = Append(stdout, Item(server.line, "text"))
<1>11. \/ Recording /\ Decision(Body) = "allow" /\ Goto("run")
       \/ Recording /\ AnswerWith("blocked")
       \/ stdout' = stdout /\ (AnswerWith("raised") \/ AnswerWith("blocked"))
  BY <1>0, DecideFacts
<1>12. CallInv'
  <2>1. Body' = Body
    BY <1>1, <1>2, <1>5 DEF Body
  <2>2. CASE Recording /\ Decision(Body) = "allow" /\ Goto("run")
    <3>1. server'.pc = "run"
      BY <1>3, <2>2, Moves DEF Pcs, Statuses
    <3>2. n \in Allowed /\ n \in Granted'
      BY <1>3, <1>8, <1>10, <2>2 DEF Allowed
    <3>3. n \in Allowed'
      BY <1>3, <1>7, <3>2 DEF Steadily
    <3> QED
      BY <1>3, <1>5, <2>1, <3>1, <3>2, <3>3 DEF CallInv
  <2>3. CASE AnswerWith("raised") \/ AnswerWith("blocked")
    <3>1. server'.pc = "answer" /\ server'.status \in {"raised", "blocked"}
      BY <1>3, <2>3, Moves DEF Pcs, Statuses
    <3>2. Truthful(server.line, server.status)'
      BY <1>5, <1>9, <1>10, <3>1 DEF Truthful
    <3> QED
      BY <3>1, <3>2 DEF CallInv
  <2> QED
    BY <1>11, <2>2, <2>3
<1>13. DoneInv'
  BY <1>0, <1>1, <1>2, <1>3, <1>5, <1>7, <1>9, DoneKept
<1>14. AnswerInv'
  <2>1. \A m \in 1..Len(sent) : Answered(m) => Answered(m)'
    BY <1>1, <1>2, <1>5 DEF Answered
  <2>2. CASE stdout' = stdout
    BY <1>0, <1>7, <1>9, <2>1, <2>2, AnswersKept
  <2>3. CASE stdout' = Append(stdout, Item(server.line, "text"))
    <3>1. stdout' = Append(stdout, Item(n, "text"))
      BY <1>2, <2>3
    <3> QED
      BY <1>0, <1>3, <1>7, <1>9, <2>1, <3>1, AnswersGrow
  <2> QED
    BY <1>11, <2>2, <2>3
<1> QED
  BY <1>0, <1>9, <1>12, <1>13, <1>14 DEF ServerInv

LEMMA InvariantRunTool == ServerInv /\ RunTool => ServerInv'
<1> SUFFICES ASSUME ServerInv, RunTool PROVE ServerInv'
  OBVIOUS
<1>0. TypeOK /\ TypeOK' /\ QueueInv /\ CallInv /\ DoneInv /\ AnswerInv
  BY TypeRunTool DEF ServerInv
<1>1. /\ server.pc = "run" /\ UNCHANGED <<policy, sent, client, pipe, ahead, eaten, audit, stdout>>
      /\ \/ done' = done /\ (AnswerWith("raised") \/ AnswerWith("blocked"))
         \/ /\ done' = Append(done, server.line)
            /\ Goto("wait") \/ AnswerWith("result") \/ AnswerWith("raised")
  BY <1>0, RunFacts
<1>2. PICK n : n = server.line
  OBVIOUS
<1>3. /\ n \in 1..Len(sent) /\ n \in Nat /\ Typed(Len(sent)) /\ Len(sent) \in Nat
      /\ Body.kind = "call" /\ n \in Allowed /\ n \in Granted
  BY <1>0, <1>1, <1>2, ServerTyped, Parts DEF CallInv
<1>4. server'.line = n /\ server'.pc \in {"wait", "answer"} /\ Body' = Body
  <2>1. server'.line = n /\ server'.pc \in {"wait", "answer"}
    BY <1>1, <1>2, <1>3, Moves DEF Pcs, Statuses
  <2> QED
    BY <1>1, <1>2, <2>1 DEF Body
<1>5. /\ Steadily /\ QueueInv' /\ Eaten' = Eaten /\ n \notin Eaten
      /\ n \in Allowed' /\ n \in Granted' /\ n \in Calls /\ n \in Calls'
  BY <1>0, <1>1, <1>2, <1>3, <1>4, SteadyQuiet, QueueKept DEF QueueInv, Steadily, Allowed
<1>6. n \notin Ran /\ \A m \in Ran : m < n
  BY <1>0, <1>1, <1>2, <1>3 DEF DoneInv
<1>7. CASE done' = done /\ (AnswerWith("raised") \/ AnswerWith("blocked"))
  <2>1. server'.pc = "answer" /\ server'.status \in {"raised", "blocked"} /\ Ran' = Ran
    BY <1>3, <1>7, Moves DEF Pcs, Statuses, Ran
  <2>2. CallInv'
    BY <1>4, <1>5, <1>6, <2>1 DEF CallInv, Truthful
  <2>3. DoneInv'
    BY <1>0, <1>1, <1>2, <1>3, <1>4, <1>5, <1>7, DoneKept
  <2>4. \A m \in 1..Len(sent) : Answered(m) => Answered(m)'
    BY <1>1, <1>2, <1>4 DEF Answered
  <2>5. AnswerInv'
    BY <1>0, <1>1, <1>5, <2>1, <2>4, AnswersKept
  <2> QED
    BY <1>0, <1>5, <2>2, <2>3, <2>5 DEF ServerInv
<1>8. CASE /\ done' = Append(done, server.line)
           /\ Goto("wait") \/ AnswerWith("result") \/ AnswerWith("raised")
  <2>1. \/ server'.pc = "wait"
        \/ server'.pc = "answer" /\ server'.status \in {"result", "raised"}
    BY <1>3, <1>8, Moves DEF Pcs, Statuses
  <2>2. done \in Seq(Nat)
    <3>1. 1..Len(sent) \subseteq Nat /\ done \in Seq(1..Len(sent))
      BY <1>3 DEF Typed
    <3> QED
      BY <3>1, SeqMonotonic
  <2>3. Ran' = Ran \union {n}
    <3>1. /\ \A i \in 1..Len(done) : done'[i] = done[i] /\ i \in 1..Len(done')
          /\ \A i \in 1..Len(done') : i \in 1..Len(done) \/ i = Len(done) + 1
          /\ done'[Len(done) + 1] = n /\ Len(done) + 1 \in 1..Len(done')
      BY <1>2, <1>3, <1>8, <2>2, AppendFacts
    <3> QED
      BY <3>1 DEF Ran
  <2>4. Ascending(done')
    <3>1. \A i \in 1..Len(done) : done[i] < n
      BY <1>6 DEF Ran
    <3> QED
      BY <1>0, <1>2, <1>3, <1>8, <2>2, <3>1, AscendingAppend DEF DoneInv
  <2>5. CallInv'
    BY <1>3, <1>4, <1>5, <2>1, <2>3 DEF CallInv, Truthful
  <2>6. DoneInv'
    <3>1. Ran \subseteq 1..Len(sent)
      BY <1>0, LinesOf
    <3>2. Ran' \subseteq (Allowed \intersect Granted)'
      BY <1>0, <1>5, <2>3, <3>1 DEF DoneInv, Steadily
    <3>3. Ran' \intersect Eaten' = {}
      BY <1>0, <1>5, <2>3 DEF DoneInv
    <3>4. \A m \in Ran' : m <= n
      BY <1>0, <1>2, <1>3, <2>3 DEF DoneInv
    <3> QED
      BY <1>4, <2>4, <3>2, <3>3, <3>4 DEF DoneInv, Ascending
  <2>7. \A m \in 1..Len(sent) : Answered(m) => Answered(m)' /\ m # n
    BY <1>1, <1>2, <1>3, <1>4 DEF Answered
  <2>8. AnswerInv'
    BY <1>0, <1>1, <1>5, <2>3, <2>7, AnswersKept
  <2> QED
    BY <1>0, <1>5, <2>5, <2>6, <2>8 DEF ServerInv
<1> QED
  BY <1>1, <1>7, <1>8

LEMMA InvariantCommandReads == ServerInv /\ CommandReads => ServerInv'
<1> SUFFICES ASSUME ServerInv, CommandReads PROVE ServerInv'
  OBVIOUS
<1>0. TypeOK /\ TypeOK' /\ QueueInv /\ CallInv /\ DoneInv /\ AnswerInv
  BY TypeCommandReads DEF ServerInv
<1>1. PICK h : h = Head(pipe)
  OBVIOUS
<1>2. /\ server.pc = "wait" /\ UNCHANGED <<policy, sent, client, ahead, server, audit, done, stdout>>
      /\ pipe # <<>> /\ pipe' = Tail(pipe) /\ h \in 1..Len(sent)
      /\ eaten' = Append(eaten, [line |-> h, by |-> server.line])
  BY <1>0, <1>1, ReadsFacts
<1>3. server.line \in 1..Len(sent) /\ 1..Len(sent) \subseteq Nat
  BY <1>0, <1>2, ServerTyped, LinesOf
<1>4. Eaten' = Eaten \union {h}
  <2> DEFINE E == [line : 1..Len(sent), by : 1..Len(sent)]
             e == [line |-> h, by |-> server.line]
  <2>1. eaten \in Seq(E) /\ e \in E /\ e.line = h /\ eaten' = Append(eaten, e)
    BY <1>0, <1>2, <1>3 DEF TypeOK
  <2> HIDE DEF E, e
  <2>2. /\ \A i \in 1..Len(eaten) : eaten'[i] = eaten[i] /\ i \in 1..Len(eaten')
        /\ \A i \in 1..Len(eaten') : i \in 1..Len(eaten) \/ i = Len(eaten) + 1
        /\ eaten'[Len(eaten) + 1] = e /\ Len(eaten) + 1 \in 1..Len(eaten')
    BY <2>1, AppendFacts
  <2> QED
    BY <2>1, <2>2 DEF Eaten
<1>5. h \in Waits /\ Waits' \subseteq Waits \ {h}
  <2>1. ahead \in Seq(Nat) /\ pipe \in Seq(Nat)
    <3>1. ahead \in Seq(1..Len(sent)) /\ pipe \in Seq(1..Len(sent))
      BY <1>0 DEF TypeOK
    <3> QED
      BY <1>3, <3>1, SeqMonotonic
  <2>2. /\ 1 \in 1..Len(pipe) /\ h = pipe[1]
        /\ \A i \in 1..Len(pipe') : i + 1 \in 1..Len(pipe) /\ pipe'[i] = pipe[i + 1]
        /\ \A i \in 1..Len(pipe') : h < pipe'[i]
    BY <1>0, <1>1, <1>2, <2>1, TailFacts, AscendingTail DEF TypeOK
  <2>3. \A i \in 1..Len(ahead) : ahead[i] < h /\ ahead[i] \in Nat
    <3>1. \A i \in 1..Len(ahead) : ahead[i] \in Nat
      BY <2>1, ElementOfSeq
    <3>2. \A i \in 1..Len(ahead), j \in 1..Len(pipe) : ahead[i] < pipe[j]
      BY <1>0 DEF TypeOK
    <3> QED
      BY <2>2, <3>1, <3>2
  <2>4. h \in Nat /\ \A i \in 1..Len(pipe') : pipe'[i] \in Nat
    BY <1>2, <1>3, <2>1, <2>2
  <2>5. Waits' = {ahead[i] : i \in 1..Len(ahead)} \union {pipe'[i] : i \in 1..Len(pipe')}
    BY <1>2 DEF Waits
  <2>6. h \in Waits
    BY <2>2 DEF Waits
  <2>7. \A i \in 1..Len(pipe') : pipe'[i] \in Waits /\ pipe'[i] # h
    BY <1>2, <1>3, <2>2, <2>4 DEF Waits
  <2>8. \A i \in 1..Len(ahead) : ahead[i] \in Waits /\ ahead[i] # h
    BY <1>2, <1>3, <2>3, <2>4 DEF Waits
  <2> QED
    BY <2>5, <2>6, <2>7, <2>8
<1>6. server.line < h /\ h \in Nat /\ Ran' = Ran /\ Body' = Body
  BY <1>0, <1>2, <1>3, <1>5 DEF QueueInv, Ran, Body
<1>7. Steadily /\ Granted' = Granted
  BY <1>0, <1>2, SteadyQuiet
<1>8. QueueInv'
  BY <1>0, <1>2, <1>3, <1>4, <1>5, <1>6 DEF QueueInv
<1>9. CallInv'
  <2>1. server.line \in Allowed'
    BY <1>0, <1>2, <1>3, <1>7 DEF CallInv, Steadily
  <2> QED
    BY <1>0, <1>2, <1>6, <1>7, <2>1 DEF CallInv
<1>10. DoneInv'
  BY <1>0, <1>2, <1>3, <1>4, <1>5, <1>7, DoneKept
<1>11. AnswerInv'
  <2>1. \A n \in 1..Len(sent) : Answered(n) => Answered(n)' /\ n # h
    BY <1>2, <1>3, <1>6 DEF Answered
  <2> QED
    BY <1>0, <1>2, <1>4, <1>6, <1>7, <2>1, AnswersKept
<1> QED
  BY <1>0, <1>8, <1>9, <1>10, <1>11 DEF ServerInv

LEMMA InvariantFinish ==
  ASSUME ServerInv, UnknownTool \/ CommandEnds
  PROVE  ServerInv'
<1>0. TypeOK /\ TypeOK' /\ QueueInv /\ CallInv /\ DoneInv /\ AnswerInv
  BY TypeFinish DEF ServerInv
<1>1. /\ server.pc \in {"decide", "wait"}
      /\ UNCHANGED <<policy, sent, client, pipe, ahead, eaten, audit, done, stdout>>
      /\ AnswerWith("result") \/ AnswerWith("raised")
  BY DEF UnknownTool, CommandEnds, At, taken
<1>2. PICK n : n = server.line
  OBVIOUS
<1>3. n \in 1..Len(sent) /\ n \in Nat /\ Typed(Len(sent)) /\ Len(sent) \in Nat
  BY <1>0, <1>1, <1>2, ServerTyped, Parts
<1>4. server'.line = n /\ server'.pc = "answer" /\ server'.status \in {"result", "raised"}
  BY <1>1, <1>2, <1>3, Moves DEF Pcs, Statuses
<1>5. Steadily /\ QueueInv' /\ Eaten' = Eaten /\ Ran' = Ran /\ n \notin Eaten
  BY <1>0, <1>1, <1>2, <1>4, SteadyQuiet, QueueKept DEF QueueInv, Ran
<1>6. n \in Ran' <=> n \in Calls'
  <2>1. n \in Ran <=> n \in Calls
    <3>1. CASE UnknownTool
      <4>1. n \notin Calls /\ server.pc = "decide"
        BY <1>2, <3>1 DEF Calls, UnknownTool, Body, At
      <4>2. n \notin Ran
        BY <1>0, <1>2, <1>3, <4>1 DEF DoneInv
      <4> QED
        BY <4>1, <4>2
    <3>2. CASE CommandEnds
      BY <1>0, <1>2, <3>2 DEF CommandEnds, At, CallInv, Allowed
    <3> QED
      BY <3>1, <3>2
  <2> QED
    BY <1>3, <1>5, <2>1 DEF Steadily
<1>7. CallInv'
  BY <1>4, <1>5, <1>6 DEF CallInv, Truthful
<1>8. DoneInv'
  BY <1>0, <1>1, <1>2, <1>3, <1>4, <1>5, DoneKept
<1>9. AnswerInv'
  <2>1. \A m \in 1..Len(sent) : Answered(m) => Answered(m)'
    BY <1>1, <1>2, <1>4 DEF Answered
  <2> QED
    BY <1>0, <1>1, <1>5, <2>1, AnswersKept
<1> QED
  BY <1>0, <1>5, <1>7, <1>8, <1>9 DEF ServerInv

LEMMA InvariantWriteAnswer == ServerInv /\ WriteAnswer => ServerInv'
<1> SUFFICES ASSUME ServerInv, WriteAnswer PROVE ServerInv'
  OBVIOUS
<1>1. TypeOK /\ QueueInv /\ CallInv /\ DoneInv /\ AnswerInv
  BY DEF ServerInv
<1>2. /\ server.pc = "answer" /\ UNCHANGED <<policy, sent, client, pipe, ahead, eaten, audit, done>>
      /\ \/ Goto("failed") /\ stdout' = stdout
         \/ Goto("read") /\ stdout' = Append(stdout, Item(server.line, server.status))
  BY <1>1, AnswerFacts
<1>3. PICK n, status : n = server.line /\ status = server.status
  OBVIOUS
<1>4. /\ n \in 1..Len(sent) /\ n \in Nat /\ Typed(Len(sent)) /\ Len(sent) \in Nat
      /\ status \in Statuses /\ Truthful(n, status)
  BY <1>1, <1>2, <1>3, ServerTyped, Parts DEF CallInv
<1>5. TypeOK'
  BY <1>1, <1>2, TypeWriteAnswer DEF CallInv
<1>6. server'.line = n /\ server'.pc \in {"read", "failed"}
  BY <1>2, <1>3, <1>4, Moves DEF Pcs, Statuses
<1>7. Steadily /\ QueueInv' /\ Eaten' = Eaten /\ Ran' = Ran
  BY <1>1, <1>2, <1>3, <1>6, SteadyQuiet, QueueKept DEF Ran
<1>8. CallInv'
  BY <1>6 DEF CallInv
<1>9. DoneInv'
  BY <1>1, <1>2, <1>3, <1>4, <1>6, <1>7, DoneKept
<1>10. /\ Answered(n)'
       /\ \A m \in 1..Len(sent) : Answered(m) => Answered(m)' /\ m < n
  BY <1>2, <1>3, <1>4, <1>6 DEF Answered
<1>11. AnswerInv'
  <2>1. CASE stdout' = stdout
    BY <1>1, <1>7, <1>10, <2>1, AnswersKept
  <2>2. CASE stdout' = Append(stdout, Item(server.line, server.status))
    <3>1. stdout' = Append(stdout, Item(n, status)) /\ status \in Statuses \union {"text"}
      BY <1>3, <1>4, <2>2
    <3> QED
      BY <1>1, <1>4, <1>7, <1>10, <3>1, AnswersGrow
  <2> QED
    BY <1>2, <2>1, <2>2
<1> QED
  BY <1>5, <1>7, <1>8, <1>9, <1>11 DEF ServerInv

LEMMA InvariantEndOfInput == ServerInv /\ EndOfInput => ServerInv'
<1> SUFFICES ASSUME ServerInv, EndOfInput PROVE ServerInv'
  OBVIOUS
<1>0. TypeOK /\ TypeOK' /\ QueueInv /\ CallInv /\ DoneInv /\ AnswerInv
  BY TypeEndOfInput DEF ServerInv
<1>1. /\ server.pc = "read" /\ Goto("ended")
      /\ UNCHANGED <<policy, sent, client, pipe, ahead, eaten, audit, done, stdout>>
  BY DEF EndOfInput, taken, At
<1>2. Typed(Len(sent)) /\ Len(sent) \in Nat /\ server.line \in Nat
  BY <1>0, Parts, ServerTyped
<1>3. server'.line = server.line /\ server'.pc = "ended"
  BY <1>1, <1>2, Moves DEF Pcs, Statuses
<1>4. Steadily /\ QueueInv' /\ Eaten' = Eaten /\ Ran' = Ran
  BY <1>0, <1>1, <1>3, SteadyQuiet, QueueKept DEF Ran
<1>5. CallInv'
  BY <1>3 DEF CallInv
<1>6. DoneInv'
  BY <1>0, <1>1, <1>2, <1>3, <1>4, DoneKept
<1>7. AnswerInv'
  <2>1. \A m \in 1..Len(sent) : Answered(m) => Answered(m)'
    BY <1>3 DEF Answered
  <2> QED
    BY <1>0, <1>1, <1>4, <2>1, AnswersKept
<1> QED
  BY <1>0, <1>4, <1>5, <1>6, <1>7 DEF ServerInv

LEMMA InvariantStep == ServerInv /\ [Next]_vars => ServerInv'
<1> SUFFICES ASSUME ServerInv, [Next]_vars PROVE ServerInv'
  OBVIOUS
<1>1. CASE ClientSends
  BY <1>1, InvariantClientSends
<1>2. CASE ClientEnds
  BY <1>2, InvariantClientEnds
<1>3. CASE Serve
  BY <1>3, InvariantReadAhead, InvariantReadGarbled, InvariantTakeLine,
     InvariantCallDecides, InvariantRunTool, InvariantCommandReads, InvariantFinish,
     InvariantWriteAnswer, InvariantEndOfInput
     DEF Serve
<1>4. CASE UNCHANGED vars
  <2>1. UNCHANGED <<policy, sent, client, pipe, ahead, server, eaten, audit, done, stdout>>
    BY <1>4 DEF vars
  <2>2. TypeOK /\ Waits' = Waits
    BY <2>1 DEF ServerInv, Waits
  <2>3. TypeOK'
    BY <2>1, <2>2, PartsNext, Parts DEF Given, Typed, Ordered, At, Ascending, Garbled
  <2> QED
    BY <2>1, <2>2, <2>3, SteadyQuiet, InvariantAside
<1> QED
  BY <1>1, <1>2, <1>3, <1>4 DEF Next

LEMMA Invariant == Spec => []ServerInv
<1>1. Init => ServerInv
  BY InvariantInit
<1>2. ServerInv /\ [Next]_vars => ServerInv'
  BY InvariantStep
<1> QED
  BY <1>1, <1>2, PTL DEF Spec

-----------------------------------------------------------------------------
(* The theorems.                                                           *)

\* The state has its types, and a line waits in one place, in the client's
\* order.
THEOREM TypeCorrect == Spec => []TypeOK
<1>1. ServerInv => TypeOK
  BY DEF ServerInv
<1> QED
  BY <1>1, Invariant, PTL

LEMMA AllowedObeys ==
  ASSUME PathsMeant(Policies, DOMAIN PathOf), TypeOK, NEW n \in Allowed
  PROVE  Obeys(sent[n])
<1>1. n \in 1..Len(sent) /\ sent[n].kind = "call" /\ sent[n].tool \in Tools
  BY DEF Allowed, Calls
<1>2. policy \in Policies /\ sent[n] \in Bodies
  BY <1>1, ElementOfSeq DEF TypeOK
<1> QED
  BY <1>1, <1>2, CallAdmitted DEF Allowed

\* Whatever fails and whoever reads the pipe, a tool takes effect only for a
\* call that obeys the policy and is on record as allowed, in the client's
\* order, once, and never for a line a command has read; wherever the two ways
\* in which the code judges a path find what the policy's pattern means.
THEOREM EffectsObeying ==
  ASSUME PathsMeant(Policies, DOMAIN PathOf)
  PROVE  Spec => []EffectsObey
<1>1. ServerInv => EffectsObey
  <2> SUFFICES ASSUME ServerInv PROVE EffectsObey
    OBVIOUS
  <2>1. TypeOK /\ DoneInv
    BY DEF ServerInv
  <2>2. ASSUME NEW i \in 1..Len(done)
        PROVE  /\ Obeys(sent[done[i]]) /\ Recorded(done[i])
               /\ \A k \in 1..Len(eaten) : eaten[k].line # done[i]
    <3>1. done[i] \in Allowed /\ done[i] \in Granted /\ done[i] \notin Eaten
      BY <2>1 DEF DoneInv, Ran
    <3> QED
      BY <2>1, <3>1, AllowedObeys DEF Granted, Eaten
  <2> QED
    BY <2>1, <2>2 DEF EffectsObey, DoneInv
<1> QED
  BY <1>1, Invariant, PTL

\* An answer tells what has happened: a result comes behind the effect, what
\* is answered like a refusal has had none, and lines are answered in their
\* order and once; for any policies and calls and whatever fails.
THEOREM AnswersTrue == Spec => []AnswersTell
<1>1. ServerInv => AnswersTell
  <2> SUFFICES ASSUME ServerInv PROVE AnswersTell
    OBVIOUS
  <2>1. TypeOK /\ AnswerInv
    BY DEF ServerInv
  <2> DEFINE Tells(i) ==
        LET n == stdout[i].line
            ran == \E k \in 1..Len(done) : done[k] = n
            call == sent[n].kind = "call" /\ sent[n].tool \in Tools
        IN  /\ stdout[i].status = "result" => ran = call
            /\ stdout[i].status = "blocked" => ~ran
            /\ IsAnswer(stdout[i]) => \A k \in 1..Len(eaten) : eaten[k].line # n
  <2>2. ASSUME NEW i \in 1..Len(stdout)
        PROVE  Tells(i)
    <3>1. CASE ~IsAnswer(stdout[i])
      BY <3>1 DEF IsAnswer
    <3>2. CASE IsAnswer(stdout[i])
      <4>1. PICK n, status : n = stdout[i].line /\ status = stdout[i].status
        OBVIOUS
      <4>2. Truthful(n, status) /\ n \in 1..Len(sent)
        BY <2>1, <3>2, <4>1, LinesOf DEF AnswerInv
      <4>3. (\E k \in 1..Len(done) : done[k] = n) <=> n \in Ran
        BY DEF Ran
      <4>4. sent[n].kind = "call" /\ sent[n].tool \in Tools <=> n \in Calls
        BY <4>2 DEF Calls
      <4>5. \A k \in 1..Len(eaten) : eaten[k].line # n
        BY <4>2 DEF Truthful, Eaten
      <4>6. status = "blocked" => n \notin Ran
        BY <4>2 DEF Truthful
      <4>7. status = "result" => (n \in Ran <=> n \in Calls)
        BY <4>2 DEF Truthful
      <4> QED
        BY <4>1, <4>3, <4>4, <4>5, <4>6, <4>7
    <3> QED
      BY <3>1, <3>2
  <2> HIDE DEF Tells
  <2>3. \A i \in 1..Len(stdout) : Tells(i)
    BY <2>2
  <2> QED
    BY <2>1, <2>3 DEF AnswersTell, AnswerInv, Tells
<1> QED
  BY <1>1, Invariant, PTL
=============================================================================
