-------------------------- MODULE AuditChain_proofs --------------------------
(***************************************************************************)
(* Facts about the chained records of AuditChain, for logs of any length:  *)
(* what verify_log accepts, that an append keeps a chain a chain, and that *)
(* the head hash of a chain determines every record before it.             *)
(***************************************************************************)
EXTENDS AuditChain, SequencesExt, SequenceTheorems, FiniteSetTheorems,
        FunctionTheorems, WellFoundedInduction, TLAPS

-----------------------------------------------------------------------------
(* Induction over the natural numbers, as a least element.                 *)

NatLess == {ss \in Nat \X Nat : ss[1] < ss[2]}

LEMMA NatLessWF == IsWellFoundedOn(NatLess, Nat)
  BY NatLessThanWellFounded DEF OpToRel, NatLess

\* A set of natural numbers that is not empty has a least element.
LEMMA LeastNat ==
  ASSUME NEW S, S \subseteq Nat, S # {}
  PROVE  \E n \in S : \A m \in S : n <= m
<1>1. PICK x \in S : \A y \in S : ~ (<<y, x>> \in NatLess)
  BY NatLessWF, WFMin
<1>2. ASSUME NEW y \in S PROVE x <= y
  <2>1. x \in Nat /\ y \in Nat
    OBVIOUS
  <2>2. ~ (<<y, x>> \in NatLess)
    BY <1>1
  <2> QED
    BY <2>1, <2>2 DEF NatLess
<1> QED
  BY <1>2

-----------------------------------------------------------------------------
(* Sequences of lines.  Lines have no set of their own, so a log is a      *)
(* sequence over the set of its own elements.                              *)

Elements(log) == {log[i] : i \in DOMAIN log}
IsLog(log) == log \in Seq(Elements(log))

LEMMA LogFacts ==
  ASSUME NEW log, IsLog(log)
  PROVE  /\ Len(log) \in Nat
         /\ DOMAIN log = 1..Len(log)
         /\ log = <<>> <=> Len(log) = 0
<1> DEFINE S == Elements(log)
<1>1. log \in Seq(S)
  BY DEF IsLog
<1> HIDE DEF S
<1> QED
  BY <1>1, LenProperties, EmptySeq

LEMMA SeqIsLog ==
  ASSUME NEW S, NEW log \in Seq(S)
  PROVE  IsLog(log)
<1>1. log \in [1..Len(log) -> S] /\ Len(log) \in Nat
  BY LenProperties
<1>2. log \in [1..Len(log) -> Elements(log)]
  BY <1>1 DEF Elements
<1>3. \A T : \A n \in Nat : [1..n -> T] \subseteq Seq(T)
  BY SeqDef
<1> QED
  BY <1>1, <1>2, <1>3 DEF IsLog

LEMMA EmptyIsLog == IsLog(<<>>)
  BY SeqIsLog, EmptySeq

\* What Append does to a log.
LEMMA AppendLog ==
  ASSUME NEW log, IsLog(log), NEW line
  PROVE  /\ IsLog(Append(log, line))
         /\ Append(log, line) # <<>>
         /\ Len(Append(log, line)) = Len(log) + 1
         /\ \A i \in 1..Len(log) : Append(log, line)[i] = log[i]
         /\ Append(log, line)[Len(log) + 1] = line
<1> DEFINE S == Elements(log) \union {line}
<1>1. log \in Seq(S) /\ line \in S
  <2>1. log \in Seq(Elements(log))
    BY DEF IsLog
  <2>2. Elements(log) \subseteq S
    OBVIOUS
  <2> QED
    BY <2>1, <2>2, SeqMonotonic
<1> HIDE DEF S
<1>2. Append(log, line) \in Seq(S)
  BY <1>1, AppendProperties
<1>3. IsLog(Append(log, line))
  BY <1>2, SeqIsLog
<1>4. /\ Append(log, line) # <<>>
      /\ Len(Append(log, line)) = Len(log) + 1
      /\ \A i \in 1..Len(log) : Append(log, line)[i] = log[i]
      /\ Append(log, line)[Len(log) + 1] = line
  BY <1>1, AppendProperties
<1> QED
  BY <1>3, <1>4

\* What replacing the last line does to a log.
LEMMA ReplaceLast ==
  ASSUME NEW log, IsLog(log), log # <<>>, NEW line
  PROVE  LET new == [log EXCEPT ![Len(log)] = line]
         IN  /\ IsLog(new)
             /\ new # <<>>
             /\ Len(new) = Len(log)
             /\ \A i \in 1..(Len(log) - 1) : new[i] = log[i]
             /\ new[Len(log)] = line
<1> DEFINE S == Elements(log) \union {line}
           new == [log EXCEPT ![Len(log)] = line]
<1>1. log \in Seq(S) /\ line \in S
  <2>1. log \in Seq(Elements(log))
    BY DEF IsLog
  <2>2. Elements(log) \subseteq S
    OBVIOUS
  <2> QED
    BY <2>1, <2>2, SeqMonotonic
<1>2. Len(log) \in Nat /\ Len(log) # 0 /\ DOMAIN log = 1..Len(log)
  BY LogFacts
<1>3. /\ new \in Seq(S)
      /\ Len(new) = Len(log)
      /\ \A i \in 1..Len(log) : new[i] = IF i = Len(log) THEN line ELSE log[i]
  <2> HIDE DEF S
  <2> QED
    BY <1>1, <1>2, ExceptSeq
<1> HIDE DEF S, new
<1>4. IsLog(new)
  BY <1>3, SeqIsLog
<1>5. new # <<>>
  BY <1>2, <1>3, <1>4, LogFacts
<1>6. ASSUME NEW i \in 1..(Len(log) - 1)
      PROVE  new[i] = log[i]
  <2>1. \A n \in Nat : \A j \in 1..(n - 1) : j \in 1..n /\ j # n
    OBVIOUS
  <2>2. i \in 1..Len(log) /\ i # Len(log)
    BY <2>1, <1>2
  <2> QED
    BY <2>2, <1>3
<1>7. new[Len(log)] = line
  <2>1. Len(log) \in 1..Len(log)
    BY <1>2
  <2> QED
    BY <2>1, <1>3
<1> QED
  BY <1>3, <1>4, <1>5, <1>6, <1>7 DEF new

-----------------------------------------------------------------------------
(* What verify_log accepts.                                                *)

HeadOf(log) == IF log = <<>> THEN NoHash ELSE log[Len(log)].hash

\* FirstBreak is where the walk stops: it exists for every log.
LEMMA FirstBreakFacts ==
  ASSUME NEW key, NEW log, IsLog(log), NEW start, NEW prev
  PROVE  LET stop == FirstBreak(key, log, start, prev)
         IN  /\ stop \in 1..(Len(log) + 1)
             /\ \A j \in 1..(stop - 1) : LineVerifies(key, log, j, start, prev)
             /\ stop <= Len(log) => ~LineVerifies(key, log, stop, start, prev)
<1> DEFINE n == Len(log)
           good(i) == LineVerifies(key, log, i, start, prev)
           bad == {i \in 1..(n + 1) : i <= n => ~good(i)}
<1>1. n \in Nat
  BY LogFacts
<1> HIDE DEF good, n
<1>2. bad \subseteq Nat /\ n + 1 \in bad
  BY <1>1
<1>3. PICK i \in bad : \A j \in bad : i <= j
  BY <1>2, LeastNat
<1>4. /\ i \in 1..(n + 1)
      /\ \A j \in 1..(i - 1) : good(j)
      /\ i <= n => ~good(i)
  BY <1>1, <1>3
<1> USE DEF good, n
<1> QED
  BY <1>4 DEF FirstBreak

\* verify_log says ok exactly of a chain that ends in the expected head.
LEMMA VerifyLogOK ==
  ASSUME NEW key, NEW log, IsLog(log), NEW expected, NEW start, NEW prev
  PROVE  VerifyLog(key, log, expected, start, prev).ok
           <=> /\ ChainVerifies(key, log, start, prev)
               /\ expected = NoHash \/ HeadOf(log) = expected
<1> DEFINE stop == FirstBreak(key, log, start, prev)
<1>1. /\ stop \in 1..(Len(log) + 1)
      /\ \A j \in 1..(stop - 1) : LineVerifies(key, log, j, start, prev)
      /\ stop <= Len(log) => ~LineVerifies(key, log, stop, start, prev)
  BY FirstBreakFacts
<1>2. Len(log) \in Nat /\ (log = <<>> <=> Len(log) = 0)
  BY LogFacts
<1>3. VerifyLog(key, log, expected, start, prev).ok
        <=> /\ stop = Len(log) + 1
            /\ \/ expected = NoHash
               \/ (IF stop - 1 = 0 THEN NoHash ELSE log[stop - 1].hash) = expected
  BY DEF VerifyLog
<1> HIDE DEF stop
<1>4. stop = Len(log) + 1 <=> ChainVerifies(key, log, start, prev)
  <2>1. ASSUME stop = Len(log) + 1
        PROVE  ChainVerifies(key, log, start, prev)
    <3>1. stop - 1 = Len(log)
      BY <2>1, <1>2
    <3> QED
      BY <3>1, <1>1 DEF ChainVerifies
  <2>2. ASSUME ChainVerifies(key, log, start, prev)
        PROVE  stop = Len(log) + 1
    <3>1. ~ (stop <= Len(log))
      <4> SUFFICES ASSUME stop <= Len(log) PROVE FALSE
        OBVIOUS
      <4>1. stop \in 1..Len(log)
        BY <1>1, <1>2
      <4> QED
        BY <4>1, <1>1, <2>2 DEF ChainVerifies
    <3> QED
      BY <3>1, <1>1, <1>2
  <2> QED
    BY <2>1, <2>2
<1>5. stop = Len(log) + 1
        => (IF stop - 1 = 0 THEN NoHash ELSE log[stop - 1].hash) = HeadOf(log)
  BY <1>2 DEF HeadOf
<1> QED
  BY <1>3, <1>4, <1>5

-----------------------------------------------------------------------------
(* What append keeps.                                                      *)

\* A line that holds the next seq, links to the tail and has the hash of what
\* it holds extends a chain.
LEMMA AppendLineKeepsChain ==
  ASSUME NEW key, NEW log, IsLog(log), NEW start \in Int, NEW prev,
         ChainVerifies(key, log, start, prev),
         NEW line, IsEnvelope(line), HashMatches(key, line),
         line.seq = NextSeq(log, start), line.prev_hash = NextPrev(log, prev)
  PROVE  ChainVerifies(key, Append(log, line), start, prev)
<1> DEFINE n == Len(log)
           new == Append(log, line)
<1>1. n \in Nat /\ (log = <<>> <=> n = 0)
  BY LogFacts
<1>2. /\ Len(new) = n + 1
      /\ \A i \in 1..n : new[i] = log[i]
      /\ new[n + 1] = line
  BY AppendLog
<1> HIDE DEF new
<1>3. ASSUME NEW i \in 1..n
      PROVE  LineVerifies(key, new, i, start, prev)
  <2>1. LineVerifies(key, log, i, start, prev)
    BY DEF ChainVerifies
  <2>2. new[i] = log[i] /\ (i # 1 => new[i - 1] = log[i - 1])
    BY <1>1, <1>2
  <2> QED
    BY <2>1, <2>2 DEF LineVerifies, PrevHashAt
<1>4. LineVerifies(key, new, n + 1, start, prev)
  <2>1. NextSeq(log, start) = start + n
    <3>1. CASE log = <<>>
      BY <3>1, <1>1 DEF NextSeq
    <3>2. CASE log # <<>>
      <4>1. n \in 1..n
        BY <3>2, <1>1
      <4>2. log[n].seq = start + n - 1
        BY <4>1 DEF ChainVerifies, LineVerifies
      <4> QED
        BY <3>2, <4>2, <1>1 DEF NextSeq
    <3> QED
      BY <3>1, <3>2
  <2>2. NextPrev(log, prev) = PrevHashAt(new, n + 1, prev)
    BY <1>1, <1>2 DEF NextPrev, PrevHashAt
  <2> QED
    BY <2>1, <2>2, <1>1, <1>2 DEF LineVerifies
<1>5. ASSUME NEW i \in 1..(n + 1)
      PROVE  LineVerifies(key, new, i, start, prev)
  BY <1>1, <1>3, <1>4
<1> QED
  BY <1>2, <1>5 DEF ChainVerifies, new

\* The envelope built from the tail of a chain extends the chain.
LEMMA AppendKeepsChain ==
  ASSUME NEW key, NEW log, IsLog(log), NEW start \in Int, NEW prev,
         ChainVerifies(key, log, start, prev),
         NEW payload, NEW ts
  PROVE  ChainVerifies(key,
            Append(log, MakeEnvelope(key, NextSeq(log, start),
                                     NextPrev(log, prev), payload, ts)),
            start, prev)
<1> DEFINE line == MakeEnvelope(key, NextSeq(log, start), NextPrev(log, prev),
                                payload, ts)
<1>1. /\ IsEnvelope(line) /\ HashMatches(key, line)
      /\ line.seq = NextSeq(log, start) /\ line.prev_hash = NextPrev(log, prev)
  BY DEF MakeEnvelope, IsEnvelope, HashMatches
<1> HIDE DEF line
<1>2. ChainVerifies(key, Append(log, line), start, prev)
  BY <1>1, AppendLineKeepsChain
<1> QED
  BY <1>2 DEF line

\* What writing a line does to the lines before it: those that end in a
\* newline stay, what does not parse never parses again, and a line that is
\* not found at the end has run into an unfinished one.
LEMMA ExtendFacts ==
  ASSUME NEW log, IsLog(log), NEW line
  PROVE  LET new == Extend(log, line)
             whole == log = <<>> \/ log[Len(log)].kind = "envelope"
         IN  /\ IsLog(new)
             /\ new # <<>>
             /\ Len(new) >= Len(log)
             /\ \A i \in 1..Len(log) :
                   /\ i < Len(log) \/ log[i].kind = "envelope" => new[i] = log[i]
                   /\ ~IsEnvelope(log[i]) => ~IsEnvelope(new[i])
             /\ whole => new = Append(log, line)
             /\ ~whole => /\ Len(new) = Len(log)
                          /\ new[Len(log)] = TornLine
<1>1. Len(log) \in Nat /\ (log = <<>> <=> Len(log) = 0)
  BY LogFacts
<1> DEFINE new == Extend(log, line)
           last == Len(log)
           whole == log = <<>> \/ log[last].kind = "envelope"
<1>2. \A n \in Nat : \A i \in 1..n : i # n => i \in 1..(n - 1)
  OBVIOUS
<1>3. ~IsEnvelope(TornLine)
  BY DEF IsEnvelope, TornLine
<1>4. CASE whole
  <2>1. new = Append(log, line)
    BY <1>4 DEF Extend
  <2> HIDE DEF new
  <2>2. IsLog(new) /\ new # <<>> /\ Len(new) = last + 1
        /\ \A i \in 1..last : new[i] = log[i]
    BY <2>1, AppendLog
  <2>3. /\ Len(new) >= last
        /\ \A i \in 1..last :
              /\ i < last \/ log[i].kind = "envelope" => new[i] = log[i]
              /\ ~IsEnvelope(log[i]) => ~IsEnvelope(new[i])
    BY <2>2, <1>1
  <2> QED
    BY <1>4, <2>1, <2>2, <2>3 DEF new
<1>5. CASE ~whole
  <2>1. new = [log EXCEPT ![last] = TornLine]
    BY <1>5 DEF Extend
  <2>2. /\ IsLog(new) /\ new # <<>> /\ Len(new) = last
        /\ \A i \in 1..(last - 1) : new[i] = log[i]
        /\ new[last] = TornLine
    <3> DEFINE torn == [log EXCEPT ![Len(log)] = TornLine]
    <3>1. /\ IsLog(torn) /\ torn # <<>> /\ Len(torn) = Len(log)
          /\ \A i \in 1..(Len(log) - 1) : torn[i] = log[i]
          /\ torn[Len(log)] = TornLine
      BY <1>5, ReplaceLast
    <3> HIDE DEF new, torn
    <3>2. new = torn
      BY <2>1 DEF torn
    <3> QED
      BY <3>1, <3>2
  <2> HIDE DEF new
  <2>3. /\ Len(new) >= last
        /\ \A i \in 1..last :
              /\ i < last \/ log[i].kind = "envelope" => new[i] = log[i]
              /\ ~IsEnvelope(log[i]) => ~IsEnvelope(new[i])
    BY <1>1, <1>2, <1>3, <1>5, <2>2
  <2> QED
    BY <1>5, <2>2, <2>3 DEF new
<1> QED
  BY <1>4, <1>5

-----------------------------------------------------------------------------
(* What a head determines.                                                 *)

\* The fields of an envelope; a line of this form holds nothing else.
EnvelopeForm(line) ==
    line = [kind |-> "envelope", seq |-> line.seq, ts |-> line.ts,
            prev_hash |-> line.prev_hash, payload |-> line.payload,
            mode |-> line.mode, hash |-> line.hash]

\* Two lines whose hash checks out and is the same are the same line.
LEMMA SameHashSameLine ==
  ASSUME NEW key, NEW a, NEW b, EnvelopeForm(a), EnvelopeForm(b),
         HashMatches(key, a), HashMatches(key, b), a.hash = b.hash
  PROVE  a = b
<1>1. /\ a.seq = b.seq /\ a.prev_hash = b.prev_hash /\ a.payload = b.payload
      /\ a.ts = b.ts /\ a.mode = b.mode
  BY DEF HashMatches, Digest, LegacyDigest
<1> QED
  BY <1>1 DEF EnvelopeForm

\* A hash that checks out is not NoHash.
LEMMA HashIsSome ==
  ASSUME NEW key, NEW line, HashMatches(key, line)
  PROVE  line.hash # NoHash
<1>1. line.hash.form \in {"full", "legacy"}
  BY DEF HashMatches, Digest, LegacyDigest
<1> QED
  BY <1>1 DEF NoHash

\* Tamper evidence: two logs that verify from the same start and end in the
\* same head are the same log, record by record.
THEOREM SameHeadSameLog ==
  ASSUME NEW key, NEW start \in Int, NEW prev,
         NEW a, IsLog(a), \A i \in 1..Len(a) : IsEnvelope(a[i]) => EnvelopeForm(a[i]),
         NEW b, IsLog(b), \A i \in 1..Len(b) : IsEnvelope(b[i]) => EnvelopeForm(b[i]),
         ChainVerifies(key, a, start, prev), ChainVerifies(key, b, start, prev),
         HeadOf(a) = HeadOf(b)
  PROVE  a = b
<1> DEFINE n == Len(a)
<1>1. /\ n \in Nat /\ DOMAIN a = 1..n /\ (a = <<>> <=> n = 0)
      /\ Len(b) \in Nat /\ DOMAIN b = 1..Len(b) /\ (b = <<>> <=> Len(b) = 0)
  BY LogFacts
<1>2. /\ \A i \in 1..n : LineVerifies(key, a, i, start, prev) /\ EnvelopeForm(a[i])
      /\ \A i \in 1..Len(b) : LineVerifies(key, b, i, start, prev) /\ EnvelopeForm(b[i])
  BY DEF ChainVerifies, LineVerifies
<1> HIDE DEF n
<1>3. n = 0 <=> Len(b) = 0
  <2>1. n # 0 => HeadOf(a) # NoHash
    <3> SUFFICES ASSUME n # 0 PROVE HeadOf(a) # NoHash
      OBVIOUS
    <3>1. n \in 1..n
      BY <1>1
    <3> QED
      BY <1>1, <1>2, <3>1, HashIsSome DEF HeadOf, LineVerifies, n
  <2>2. Len(b) # 0 => HeadOf(b) # NoHash
    <3> SUFFICES ASSUME Len(b) # 0 PROVE HeadOf(b) # NoHash
      OBVIOUS
    <3>1. Len(b) \in 1..Len(b)
      BY <1>1
    <3> QED
      BY <1>1, <1>2, <3>1, HashIsSome DEF HeadOf, LineVerifies
  <2> QED
    BY <2>1, <2>2, <1>1 DEF HeadOf
<1>4. CASE n = 0
  BY <1>1, <1>3, <1>4
<1>5. CASE n # 0
  <2>1. n \in 1..n /\ Len(b) \in 1..Len(b)
    BY <1>1, <1>3, <1>5
  <2>2. a[n].hash = b[Len(b)].hash
    BY <1>1, <1>3, <1>5 DEF HeadOf, n
  <2>3. a[n] = b[Len(b)]
    BY <2>1, <2>2, <1>2, SameHashSameLine DEF LineVerifies
  <2>4. Len(b) = n
    <3>1. a[n].seq = start + n - 1 /\ b[Len(b)].seq = start + Len(b) - 1
      BY <2>1, <1>2 DEF LineVerifies
    <3> QED
      BY <3>1, <2>3, <1>1
  <2> DEFINE diff == {k \in 0..(n - 1) : a[n - k] # b[n - k]}
  <2>5. diff = {}
    <3> SUFFICES ASSUME diff # {} PROVE FALSE
      OBVIOUS
    <3>1. diff \subseteq Nat
      OBVIOUS
    <3>2. PICK k \in diff : \A m \in diff : k <= m
      BY <3>1, LeastNat
    <3>3. k # 0
      BY <2>3, <2>4, <1>1
    <3>4. k - 1 \in 0..(n - 1) /\ k - 1 \notin diff /\ n - (k - 1) = n - k + 1
      BY <3>2, <3>3, <1>1
    <3>5. a[n - k + 1] = b[n - k + 1]
      BY <3>4
    <3>6. n - k \in 1..n /\ n - k + 1 \in 1..n /\ n - k + 1 # 1
          /\ (n - k + 1) - 1 = n - k
      BY <3>2, <3>3, <1>1
    <3>7. a[n - k].hash = b[n - k].hash
      <4>1. a[n - k + 1].prev_hash = a[n - k].hash
        BY <3>6, <1>2 DEF LineVerifies, PrevHashAt
      <4>2. b[n - k + 1].prev_hash = b[n - k].hash
        BY <3>6, <2>4, <1>2 DEF LineVerifies, PrevHashAt
      <4> QED
        BY <4>1, <4>2, <3>5
    <3>8. a[n - k] = b[n - k]
      BY <3>6, <3>7, <2>4, <1>2, SameHashSameLine DEF LineVerifies
    <3> QED
      BY <3>2, <3>8
  <2>6. ASSUME NEW i \in 1..n
        PROVE  a[i] = b[i]
    <3>1. n - i \in 0..(n - 1) /\ n - (n - i) = i
      BY <1>1
    <3> QED
      BY <3>1, <2>5
  <2>7. IsLog(a) /\ IsLog(b)
    OBVIOUS
  <2> QED
    BY <2>4, <2>6, <2>7, <1>1, SeqEqual DEF IsLog, n
<1> QED
  BY <1>4, <1>5

-----------------------------------------------------------------------------
(* What FlattenSeq makes of a sequence of logs; the one ascending order.   *)

\* A function on 1..n defined from one number to the next: each line below
\* joins another log.
Joins(f, n, parts) ==
    f = [i \in 1..n |-> IF i = 1 THEN parts[i] ELSE f[i - 1] \o parts[i]]

LEMMA FlattenIs ==
  ASSUME NEW parts, Len(parts) # 0
  PROVE  FlattenSeq(parts) = (CHOOSE f : Joins(f, Len(parts), parts))[Len(parts)]
BY DEF FlattenSeq, Joins

LEMMA JoinsExists ==
  ASSUME NEW parts, NEW n \in Nat
  PROVE  \E f : Joins(f, n, parts)
<1> DEFINE Bad == {m \in Nat : ~\E f : Joins(f, m, parts)}
<1> SUFFICES ASSUME Bad # {} PROVE FALSE
  OBVIOUS
<1>1. PICK m \in Bad : \A k \in Bad : m <= k
  <2> HIDE DEF Bad
  <2>1. Bad \subseteq Nat
    BY DEF Bad
  <2> QED
    BY <2>1, LeastNat
<1>2. m \in Nat /\ ~\E f : Joins(f, m, parts)
  OBVIOUS
<1>3. m # 0
  <2>1. Joins([i \in 1..0 |-> parts], 0, parts)
    BY DEF Joins
  <2> QED
    BY <1>2, <2>1
<1>4. PICK g : Joins(g, m - 1, parts)
  <2>1. m - 1 \in Nat /\ ~(m <= m - 1)
    BY <1>2, <1>3
  <2> QED
    BY <1>1, <2>1
<1> HIDE DEF Bad
<1> DEFINE f == [i \in 1..m |-> IF i = m THEN IF i = 1 THEN parts[i] ELSE g[m - 1] \o parts[i]
                                ELSE g[i]]
<1>5. Joins(f, m, parts)
  <2>1. \A i \in 1..m : f[i] = IF i = 1 THEN parts[i] ELSE f[i - 1] \o parts[i]
    <3> SUFFICES ASSUME NEW i \in 1..m
                 PROVE  f[i] = IF i = 1 THEN parts[i] ELSE f[i - 1] \o parts[i]
      OBVIOUS
    <3>1. CASE i = m
      <4>1. i # 1 => i - 1 \in 1..m /\ i - 1 # m
        BY <1>2
      <4>2. i # 1 => f[i - 1] = g[m - 1]
        BY <3>1, <4>1
      <4> QED
        BY <3>1, <4>2
    <3>2. CASE i # m
      <4>1. i \in 1..(m - 1) /\ (i # 1 => i - 1 \in 1..m /\ i - 1 # m)
        BY <1>2, <3>2
      <4>2. g[i] = IF i = 1 THEN parts[i] ELSE g[i - 1] \o parts[i]
        BY <1>4, <4>1 DEF Joins
      <4>3. f[i] = g[i] /\ (i # 1 => f[i - 1] = g[i - 1])
        BY <3>2, <4>1
      <4> QED
        BY <4>2, <4>3
    <3> QED
      BY <3>1, <3>2
  <2>2. f = [i \in 1..m |-> f[i]]
    OBVIOUS
  <2> HIDE DEF f
  <2>3. f = [i \in 1..m |-> IF i = 1 THEN parts[i] ELSE f[i - 1] \o parts[i]]
    BY <2>1, <2>2
  <2> QED
    BY <2>3 DEF Joins
<1> QED
  BY <1>2, <1>5

LEMMA JoinsAt ==
  ASSUME NEW f, NEW n, NEW parts, Joins(f, n, parts), NEW i \in 1..n
  PROVE  f[i] = IF i = 1 THEN parts[i] ELSE f[i - 1] \o parts[i]
BY DEF Joins

\* Two such functions agree as far as their parts do.
LEMMA JoinsAgree ==
  ASSUME NEW a, NEW b, NEW n \in Nat, NEW k \in Nat, n <= k, NEW f, NEW g,
         Joins(f, n, a), Joins(g, k, b), \A i \in 1..n : a[i] = b[i]
  PROVE  \A i \in 1..n : f[i] = g[i]
<1> DEFINE Bad == {m \in 1..n : f[m] # g[m]}
<1> SUFFICES ASSUME Bad # {} PROVE FALSE
  OBVIOUS
<1>1. PICK m \in Bad : \A j \in Bad : m <= j
  <2>1. Bad \subseteq Nat
    OBVIOUS
  <2> HIDE DEF Bad
  <2> QED
    BY <2>1, LeastNat
<1>2. m \in 1..n /\ f[m] # g[m]
  OBVIOUS
<1>3. m # 1 => m - 1 \in 1..n /\ f[m - 1] = g[m - 1]
  <2>1. m # 1 => m - 1 \in 1..n /\ ~(m <= m - 1)
    BY <1>2
  <2> QED
    BY <1>1, <2>1
<1>4. f[m] = IF m = 1 THEN a[m] ELSE f[m - 1] \o a[m]
  BY <1>2 DEF Joins
<1>5. m \in 1..k
  BY <1>2
<1>6. g[m] = IF m = 1 THEN b[m] ELSE g[m - 1] \o b[m]
  BY <1>5 DEF Joins
<1> QED
  BY <1>2, <1>3, <1>4, <1>6

\* Logs, one behind the other.
AreLogs(parts) == IsLog(parts) /\ \A i \in 1..Len(parts) : IsLog(parts[i])

LEMMA JoinedLogs ==
  ASSUME NEW a, IsLog(a), NEW b, IsLog(b)
  PROVE  /\ IsLog(a \o b) /\ Len(a \o b) = Len(a) + Len(b)
         /\ \A i \in 1..Len(a) : (a \o b)[i] = a[i]
         /\ \A i \in 1..Len(b) : (a \o b)[Len(a) + i] = b[i]
<1> DEFINE S == Elements(a) \union Elements(b)
<1>1. a \in Seq(S) /\ b \in Seq(S)
  <2>1. Elements(a) \subseteq S /\ Elements(b) \subseteq S
    OBVIOUS
  <2>2. a \in Seq(Elements(a)) /\ b \in Seq(Elements(b))
    BY DEF IsLog
  <2> HIDE DEF S
  <2> QED
    BY <2>1, <2>2, SeqMonotonic
<1> HIDE DEF S
<1>2. /\ a \o b \in Seq(S) /\ Len(a \o b) = Len(a) + Len(b)
      /\ \A i \in 1..(Len(a) + Len(b)) :
            (a \o b)[i] = IF i <= Len(a) THEN a[i] ELSE b[i - Len(a)]
  BY <1>1, ConcatProperties
<1>3. Len(a) \in Nat /\ Len(b) \in Nat
  BY LogFacts
<1>4. IsLog(a \o b)
  BY <1>2, SeqIsLog
<1>5. ASSUME NEW i \in 1..Len(a) PROVE (a \o b)[i] = a[i]
  <2>1. i \in 1..(Len(a) + Len(b)) /\ i <= Len(a)
    BY <1>3
  <2> QED
    BY <1>2, <2>1
<1>6. ASSUME NEW i \in 1..Len(b) PROVE (a \o b)[Len(a) + i] = b[i]
  <2>1. Len(a) + i \in 1..(Len(a) + Len(b)) /\ ~(Len(a) + i <= Len(a)) /\ Len(a) + i - Len(a) = i
    BY <1>3
  <2> QED
    BY <1>2, <2>1
<1> QED
  BY <1>2, <1>4, <1>5, <1>6

LEMMA FlattenIsLog ==
  ASSUME NEW parts, AreLogs(parts)
  PROVE  IsLog(FlattenSeq(parts))
<1> DEFINE n == Len(parts)
<1>1. n \in Nat /\ (parts = <<>> <=> n = 0)
  BY LogFacts DEF AreLogs
<1> HIDE DEF n
<1>2. CASE n = 0
  BY <1>1, <1>2, EmptyIsLog DEF FlattenSeq, n
<1>3. CASE n # 0
  <2> DEFINE f == CHOOSE f : Joins(f, n, parts)
             Bad == {m \in 1..n : ~IsLog(f[m])}
  <2>1. FlattenSeq(parts) = f[n]
    BY <1>3, FlattenIs DEF n
  <2>2. Joins(f, n, parts)
    BY <1>1, JoinsExists
  <2> HIDE DEF f
  <2>3. ASSUME Bad # {} PROVE FALSE
    <3>1. PICK m \in Bad : \A j \in Bad : m <= j
      <4>1. Bad \subseteq Nat
        OBVIOUS
      <4> HIDE DEF Bad
      <4> QED
        BY <2>3, <4>1, LeastNat
    <3>2. m \in 1..n /\ ~IsLog(f[m])
      OBVIOUS
    <3>3. m # 1 => m - 1 \in 1..n /\ ~(m <= m - 1)
      BY <1>1, <3>2
    <3>4. m # 1 => IsLog(f[m - 1])
      BY <3>1, <3>3
    <3>5. f[m] = IF m = 1 THEN parts[m] ELSE f[m - 1] \o parts[m]
      BY <2>2, <3>2 DEF Joins
    <3>6. IsLog(parts[m])
      BY <3>2 DEF AreLogs, n
    <3> QED
      BY <3>2, <3>4, <3>5, <3>6, JoinedLogs
  <2>4. n \in 1..n
    BY <1>1, <1>3
  <2> QED
    BY <2>1, <2>3, <2>4
<1> QED
  BY <1>2, <1>3

LEMMA FlattenAppend ==
  ASSUME NEW parts, AreLogs(parts), NEW part, IsLog(part)
  PROVE  FlattenSeq(Append(parts, part)) = FlattenSeq(parts) \o part
<1> DEFINE n == Len(parts)
           new == Append(parts, part)
<1>1. n \in Nat /\ (parts = <<>> <=> n = 0) /\ IsLog(parts)
  BY LogFacts DEF AreLogs
<1>2. IsLog(new) /\ Len(new) = n + 1 /\ (\A i \in 1..n : new[i] = parts[i]) /\ new[n + 1] = part
  BY <1>1, AppendLog
<1> HIDE DEF n, new
<1> DEFINE g == CHOOSE g : Joins(g, n + 1, new)
<1>3. n + 1 \in Nat /\ n + 1 # 0 /\ n + 1 \in 1..(n + 1) /\ n + 1 - 1 = n /\ n <= n + 1
  BY <1>1
<1>4. Joins(g, n + 1, new)
  BY <1>3, JoinsExists
<1>5. FlattenSeq(new) = g[n + 1]
  <2>1. Len(new) # 0
    BY <1>2, <1>3
  <2> QED
    BY <1>2, <2>1, FlattenIs
<1> HIDE DEF g
<1>6. g[n + 1] = IF n + 1 = 1 THEN part ELSE g[n] \o part
  <2>1. g[n + 1] = IF n + 1 = 1 THEN new[n + 1] ELSE g[n + 1 - 1] \o new[n + 1]
    BY <1>1, <1>3, <1>4, JoinsAt
  <2> QED
    BY <1>2, <1>3, <2>1
<1>7. CASE n = 0
  <2>1. FlattenSeq(parts) = <<>>
    BY <1>1, <1>7 DEF FlattenSeq, n
  <2>2. <<>> \o part = part
    <3> DEFINE S == Elements(part)
    <3>1. part \in Seq(S)
      BY DEF IsLog
    <3> HIDE DEF S
    <3> QED
      BY <3>1, ConcatEmptySeq
  <2>3. n + 1 = 1
    BY <1>7
  <2> QED
    BY <1>5, <1>6, <2>1, <2>2, <2>3 DEF new
<1>8. CASE n # 0
  <2> DEFINE f == CHOOSE f : Joins(f, n, parts)
  <2>1. FlattenSeq(parts) = f[n]
    BY <1>8, FlattenIs DEF n
  <2>2. Joins(f, n, parts)
    BY <1>1, JoinsExists
  <2> HIDE DEF f
  <2>3. \A i \in 1..n : parts[i] = new[i]
    BY <1>2
  <2>4. \A i \in 1..n : f[i] = g[i]
    BY <1>1, <1>3, <1>4, <2>2, <2>3, JoinsAgree
  <2>5. n \in 1..n /\ n + 1 # 1
    BY <1>1, <1>8
  <2> QED
    BY <1>5, <1>6, <2>1, <2>4, <2>5 DEF new
<1> QED
  BY <1>7, <1>8

\* Files in the order of their first records: there is only one such order.
FirstsAscend(order) ==
    /\ IsInjective(order)
    /\ \A i, j \in DOMAIN order : i < j => order[i].first <= order[j].first

LEMMA OnlyOrder ==
  ASSUME NEW m \in Nat, NEW S, NEW ref \in [1..m -> S],
         \A x \in S : \E i \in 1..m : ref[i] = x,
         \A i \in 1..m : ref[i].first \in Nat,
         \A i, j \in 1..m : i < j => ref[i].first < ref[j].first
  PROVE  /\ Cardinality(S) = m /\ FirstsAscend(ref)
         /\ \A order \in [1..m -> S] : FirstsAscend(order) => order = ref
<1>1. ASSUME NEW i \in 1..m, NEW j \in 1..m, ref[i] = ref[j] PROVE i = j
  <2>1. ~(i < j) /\ ~(j < i)
    BY <1>1
  <2> QED
    BY <2>1
<1>2. ref \in Bijection(1..m, S)
  BY <1>1, Fun_IsBij
<1>3. IsFiniteSet(1..m) /\ Cardinality(1..m) = m
  <2>1. IsFiniteSet(1..m) /\ Cardinality(1..m) = IF 1 > m THEN 0 ELSE m - 1 + 1
    BY FS_Interval
  <2> QED
    BY <2>1
<1>4. IsFiniteSet(S) /\ Cardinality(S) = m
  <2>1. ExistsBijection(1..m, S)
    BY <1>2, Fun_ExistsBij
  <2> QED
    BY <1>3, <2>1, FS_Bijection
<1>5. FirstsAscend(ref)
  <2>1. DOMAIN ref = 1..m
    OBVIOUS
  <2>2. IsInjective(ref)
    BY <1>1, <2>1 DEF IsInjective
  <2>3. \A i, j \in 1..m : i < j => ref[i].first <= ref[j].first
    OBVIOUS
  <2> QED
    BY <2>1, <2>2, <2>3 DEF FirstsAscend
<1>6. ASSUME NEW order \in [1..m -> S], FirstsAscend(order) PROVE order = ref
  <2>1. DOMAIN order = 1..m /\ \A i, j \in 1..m : order[i] = order[j] => i = j
    BY <1>6 DEF IsInjective, FirstsAscend
  <2>2. order \in Surjection(1..m, S)
    <3>1. order \in Injection(1..m, S)
      BY <2>1, Fun_IsInj
    <3> QED
      BY <1>3, <1>4, <3>1, FS_Injection
  <2>3. \A x \in S : \E i \in 1..m : order[i] = x
    BY <2>2, Fun_SurjectionProperties
  <2> DEFINE Bad == {i \in 1..m : order[i] # ref[i]}
  <2>4. ASSUME Bad # {} PROVE FALSE
    <3>1. PICK i \in Bad : \A k \in Bad : i <= k
      <4>1. Bad \subseteq Nat
        OBVIOUS
      <4> HIDE DEF Bad
      <4> QED
        BY <2>4, <4>1, LeastNat
    <3>2. i \in 1..m /\ order[i] # ref[i] /\ ref[i] \in S /\ order[i] \in S
      OBVIOUS
    <3>3. \A k \in 1..m : k < i => order[k] = ref[k]
      <4> SUFFICES ASSUME NEW k \in 1..m, k < i PROVE order[k] = ref[k]
        OBVIOUS
      <4>1. ~(i <= k)
        BY <3>2
      <4> QED
        BY <3>1, <4>1
    <3> HIDE DEF Bad
    <3>4. PICK j \in 1..m : order[j] = ref[i]
      BY <2>3, <3>2
    <3>5. PICK k \in 1..m : ref[k] = order[i]
      BY <3>2
    <3>6. i < j
      <4>1. j # i
        BY <3>2, <3>4
      <4>2. ~(j < i)
        <5> SUFFICES ASSUME j < i PROVE FALSE
          OBVIOUS
        <5>1. ref[j] = ref[i]
          BY <3>3, <3>4
        <5> QED
          BY <1>1, <3>2, <4>1, <5>1
      <4> QED
        BY <3>2, <4>1, <4>2
    <3>7. i < k
      <4>1. k # i
        BY <3>2, <3>5
      <4>2. ~(k < i)
        <5> SUFFICES ASSUME k < i PROVE FALSE
          OBVIOUS
        <5>1. order[k] = order[i]
          BY <3>3, <3>5
        <5> QED
          BY <2>1, <3>2, <4>1, <5>1
      <4> QED
        BY <3>2, <4>1, <4>2
    <3>8. order[i].first <= order[j].first
      BY <1>6, <2>1, <3>2, <3>6 DEF FirstsAscend
    <3>9. ref[i].first < ref[k].first /\ ref[i].first \in Nat /\ ref[k].first \in Nat
      BY <3>2, <3>7
    <3>10. ref[k].first <= ref[i].first
      BY <3>4, <3>5, <3>8
    <3> QED
      BY <3>9, <3>10
  <2>5. \A i \in 1..m : order[i] = ref[i]
    BY <2>4
  <2> QED
    BY <2>5
<1> QED
  BY <1>4, <1>5, <1>6


-----------------------------------------------------------------------------
(* A log from the genesis record, and what an append makes of it.          *)

\* Every line but the last is complete and verifies; so does the last one
\* if it parses.
Chained(log) == \A i \in 1..Len(log) :
    /\ i < Len(log) => log[i].kind = "envelope"
    /\ IsEnvelope(log[i]) => LineVerifies(NoKey, log, i, 0, GenesisPrev)

\* The envelope a writer is about to write follows the tail of the log.
Follows(log, rec) ==
    /\ TailReadable(log)
    /\ \E n : rec = MakeEnvelope(NoKey, NextSeq(log, 0),
                                 NextPrev(log, GenesisPrev), n, NoStamp)

\* A line with the fields of the next envelope keeps a log chained: it ends
\* up behind a complete line, or spoils the unfinished one.
LEMMA ChainedExtend ==
  ASSUME NEW log, IsLog(log), Chained(log), NEW line,
         IsEnvelope(line) => /\ TailReadable(log)
                             /\ HashMatches(NoKey, line)
                             /\ line.seq = NextSeq(log, 0)
                             /\ line.prev_hash = NextPrev(log, GenesisPrev)
  PROVE  Chained(Extend(log, line))
<1> DEFINE n == Len(log)
           new == Extend(log, line)
<1>1. n \in Nat /\ (log = <<>> <=> n = 0)
  BY LogFacts
<1>2. IsLog(new) /\ new # <<>>
  BY ExtendFacts
<1>3. CASE log = <<>> \/ log[n].kind = "envelope"
  <2>1. new = Append(log, line)
    BY <1>3, ExtendFacts
  <2>2. /\ Len(new) = n + 1
        /\ \A i \in 1..n : new[i] = log[i]
        /\ new[n + 1] = line
    BY <2>1, AppendLog
  <2> HIDE DEF new
  <2>3. ASSUME NEW i \in 1..n
        PROVE  log[i].kind = "envelope" /\ LineVerifies(NoKey, log, i, 0, GenesisPrev)
    <3>1. log[i].kind = "envelope"
      <4>1. i < n \/ i = n
        BY <1>1
      <4>2. n # 0
        BY <1>1
      <4> QED
        BY <1>1, <1>3, <4>1, <4>2 DEF Chained
    <3> QED
      BY <3>1 DEF Chained, IsEnvelope
  <2>4. ChainVerifies(NoKey, log, 0, GenesisPrev)
    BY <2>3 DEF ChainVerifies
  <2>5. ASSUME NEW i \in 1..n
        PROVE  LineVerifies(NoKey, new, i, 0, GenesisPrev)
    <3>1. new[i] = log[i] /\ (i # 1 => new[i - 1] = log[i - 1])
      BY <1>1, <2>2
    <3> QED
      BY <2>3, <3>1 DEF LineVerifies, PrevHashAt
  <2>6. ASSUME IsEnvelope(line)
        PROVE  LineVerifies(NoKey, new, n + 1, 0, GenesisPrev)
    <3>1. ChainVerifies(NoKey, new, 0, GenesisPrev)
      BY <2>1, <2>4, <2>6, AppendLineKeepsChain
    <3> QED
      BY <1>1, <2>2, <3>1 DEF ChainVerifies
  <2>7. ASSUME NEW i \in 1..(n + 1)
        PROVE  /\ i < n + 1 => new[i].kind = "envelope"
               /\ IsEnvelope(new[i]) => LineVerifies(NoKey, new, i, 0, GenesisPrev)
    <3>1. i \in 1..n \/ i = n + 1
      BY <1>1
    <3>2. CASE i \in 1..n
      BY <2>2, <2>3, <2>5, <3>2
    <3>3. CASE i = n + 1
      BY <1>1, <2>2, <2>6, <3>3
    <3> QED
      BY <3>1, <3>2, <3>3
  <2> QED
    BY <2>2, <2>7 DEF Chained, new
<1>4. CASE ~(log = <<>> \/ log[n].kind = "envelope")
  <2>1. /\ Len(new) = n
        /\ new[n] = TornLine
        /\ \A i \in 1..n : i < n => new[i] = log[i]
    BY <1>4, ExtendFacts
  <2> HIDE DEF new
  <2>2. ASSUME NEW i \in 1..n
        PROVE  /\ i < n => new[i].kind = "envelope"
               /\ IsEnvelope(new[i]) => LineVerifies(NoKey, new, i, 0, GenesisPrev)
    <3>1. CASE i = n
      BY <1>1, <2>1, <3>1 DEF IsEnvelope, TornLine
    <3>2. CASE i # n
      <4>1. i < n /\ new[i] = log[i] /\ (i # 1 => new[i - 1] = log[i - 1])
        BY <1>1, <2>1, <3>2
      <4> QED
        BY <4>1 DEF Chained, LineVerifies, PrevHashAt
    <3> QED
      BY <3>1, <3>2
  <2> QED
    BY <2>1, <2>2 DEF Chained, new
<1> QED
  BY <1>3, <1>4


-----------------------------------------------------------------------------
(* A file of a rotated log: its lines count up, only the last can be cut.  *)

ProperLine(line) == "kind" \in DOMAIN line /\ (IsEnvelope(line) => line.seq \in Nat)

\* The lines of a file count up, and only the last can be unfinished.
ProperFile(lines) ==
    /\ IsLog(lines)
    /\ \A i \in 1..Len(lines) :
          /\ ProperLine(lines[i])
          /\ IsEnvelope(lines[i]) => lines[i].seq = lines[1].seq + i - 1
          /\ i < Len(lines) => lines[i].kind = "envelope"

Parses(lines) == \A i \in 1..Len(lines) : IsEnvelope(lines[i])

LEMMA ProperExtend ==
  ASSUME NEW lines, ProperFile(lines), TailReadable(lines), NEW line, ProperLine(line),
         lines # <<>> /\ IsEnvelope(line) => line.seq = lines[Len(lines)].seq + 1
  PROVE  LET new == Extend(lines, line) IN
         /\ ProperFile(new) /\ new # <<>>
         /\ \A rec \in Elements(lines) : rec.kind = "envelope" => rec \in Elements(new)
         /\ line \in Elements(new) \/ ~Parses(new)
         /\ lines # <<>> /\ IsEnvelope(new[1]) => IsEnvelope(lines[1]) /\ new[1].seq = lines[1].seq
         /\ lines = <<>> => new[1] = line
<1> DEFINE n == Len(lines)
           new == Extend(lines, line)
           whole == lines = <<>> \/ lines[n].kind = "envelope"
<1>1. n \in Nat /\ (lines = <<>> <=> n = 0) /\ DOMAIN lines = 1..n /\ IsLog(lines)
  BY LogFacts DEF ProperFile
<1>2. /\ IsLog(new) /\ new # <<>> /\ Len(new) >= n
      /\ \A i \in 1..n :
            /\ i < n \/ lines[i].kind = "envelope" => new[i] = lines[i]
            /\ ~IsEnvelope(lines[i]) => ~IsEnvelope(new[i])
      /\ whole => new = Append(lines, line)
      /\ ~whole => Len(new) = n /\ new[n] = TornLine
  BY <1>1, ExtendFacts DEF ProperFile
<1>3. /\ Len(new) \in Nat /\ DOMAIN new = 1..Len(new)
  BY <1>2, LogFacts
<1> HIDE DEF new, n
<1>4. \A rec \in Elements(lines) : rec.kind = "envelope" => rec \in Elements(new)
  <2> SUFFICES ASSUME NEW i \in 1..n, lines[i].kind = "envelope"
               PROVE  lines[i] \in Elements(new)
    BY <1>1 DEF Elements
  <2>1. new[i] = lines[i]
    BY <1>2
  <2>2. i \in 1..Len(new)
    <3>1. n <= Len(new) /\ n \in Nat /\ Len(new) \in Nat
      BY <1>1, <1>2, <1>3
    <3> QED
      BY <3>1
  <2> QED
    BY <1>3, <2>1, <2>2 DEF Elements
<1>5. CASE whole
  <2>1. /\ Len(new) = n + 1 /\ \A i \in 1..n : new[i] = lines[i]
        /\ new[n + 1] = line
    BY <1>1, <1>2, <1>5, AppendLog
  <2>2. \A i \in 1..(n + 1) : i \in 1..n \/ i = n + 1
    BY <1>1
  <2>3. ASSUME NEW i \in 1..Len(new)
        PROVE  /\ ProperLine(new[i])
               /\ IsEnvelope(new[i]) => new[i].seq = new[1].seq + i - 1
               /\ i < Len(new) => new[i].kind = "envelope"
    <3>1. CASE i \in 1..n
      <4>0. 1 \in 1..n
        BY <1>1, <3>1
      <4>1. /\ new[i] = lines[i] /\ 1 \in 1..n /\ new[1] = lines[1]
        BY <2>1, <3>1, <4>0
      <4>2. i < n \/ i = n
        BY <1>1, <3>1
      <4>3. lines[i].kind = "envelope"
        <5>1. CASE i < n
          BY <3>1, <5>1 DEF ProperFile, n
        <5>2. CASE i = n
          BY <1>1, <1>5, <3>1, <5>2
        <5> QED
          BY <4>2, <5>1, <5>2
      <4> QED
        BY <1>1, <3>1, <4>1, <4>3 DEF ProperFile, n
    <3>2. CASE i = n + 1
      <4>1. new[i] = line /\ ~(i < Len(new))
        BY <1>1, <2>1, <3>2
      <4>2. ASSUME IsEnvelope(line) PROVE line.seq = new[1].seq + i - 1
        <5>1. line.seq \in Nat
          BY <4>2 DEF ProperLine
        <5>2. CASE n = 0
          <6>1. i = 1 /\ new[1] = line
            BY <2>1, <3>2, <5>2
          <6> QED
            BY <5>1, <6>1
        <5>3. CASE n # 0
          <6>1. 1 \in 1..n /\ n \in 1..n /\ IsEnvelope(lines[n]) /\ lines # <<>>
            BY <1>1, <5>3 DEF TailReadable, n
          <6>2. lines[n].seq \in Nat /\ lines[n].seq = lines[1].seq + n - 1 /\ new[1] = lines[1]
            BY <2>1, <6>1 DEF ProperFile, ProperLine, n
          <6>3. IsEnvelope(lines[1])
            <7>1. CASE n = 1
              BY <6>1, <7>1
            <7>2. CASE n # 1
              BY <1>1, <6>1, <7>2 DEF ProperFile, IsEnvelope, n
            <7> QED
              BY <7>1, <7>2
          <6>4. lines[1].seq \in Nat
            BY <6>1, <6>3 DEF ProperFile, ProperLine, n
          <6>5. line.seq = lines[n].seq + 1
            BY <4>2, <6>1 DEF n
          <6> QED
            BY <1>1, <3>2, <6>2, <6>4, <6>5
        <5> QED
          BY <5>2, <5>3
      <4> QED
        BY <4>1, <4>2
    <3> QED
      BY <2>1, <2>2, <3>1, <3>2
  <2>4. ProperFile(new)
    BY <1>2, <2>3 DEF ProperFile
  <2>5. line \in Elements(new)
    BY <1>1, <1>3, <2>1 DEF Elements
  <2>6. lines # <<>> => new[1] = lines[1]
    BY <1>1, <2>1
  <2>7. lines = <<>> => new[1] = line
    BY <1>1, <2>1
  <2> QED
    BY <1>2, <1>4, <2>4, <2>5, <2>6, <2>7 DEF new
<1>6. CASE ~whole
  <2>1. /\ Len(new) = n /\ new[n] = TornLine /\ lines # <<>> /\ n \in 1..n
        /\ \A i \in 1..n : i < n => new[i] = lines[i]
    BY <1>1, <1>2, <1>6
  <2>2. ~IsEnvelope(TornLine) /\ "kind" \in DOMAIN TornLine
    BY DEF IsEnvelope, TornLine
  <2>3. ASSUME NEW i \in 1..n
        PROVE  /\ ProperLine(new[i])
               /\ IsEnvelope(new[i]) => new[i].seq = new[1].seq + i - 1
               /\ i < n => new[i].kind = "envelope"
    <3>1. CASE i < n
      <4>1. new[i] = lines[i] /\ 1 < n /\ 1 \in 1..n /\ new[1] = lines[1]
        BY <1>1, <2>1, <3>1
      <4> QED
        BY <3>1, <4>1 DEF ProperFile, n
    <3>2. CASE i = n
      BY <2>1, <2>2, <3>2 DEF ProperLine
    <3> QED
      BY <1>1, <3>1, <3>2
  <2>4. ProperFile(new) /\ ~Parses(new)
    BY <1>2, <2>1, <2>2, <2>3 DEF ProperFile, Parses
  <2>5. IsEnvelope(new[1]) => IsEnvelope(lines[1]) /\ new[1].seq = lines[1].seq
    BY <1>1, <2>1, <2>2
  <2> QED
    BY <1>2, <1>4, <2>1, <2>4, <2>5 DEF new
<1> QED
  BY <1>5, <1>6 DEF n

LEMMA ProperEnds ==
  ASSUME NEW lines, ProperFile(lines), lines # <<>>, Parses(lines)
  PROVE  /\ lines[1].seq \in Nat /\ lines[Len(lines)].seq \in Nat
         /\ lines[1].seq <= lines[Len(lines)].seq
         /\ Len(lines) \in Nat /\ Len(lines) \in 1..Len(lines) /\ 1 \in 1..Len(lines)
<1>1. Len(lines) \in Nat /\ Len(lines) # 0
  BY LogFacts DEF ProperFile
<1> DEFINE n == Len(lines)
<1>2. 1 \in 1..n /\ n \in 1..n
  BY <1>1
<1>3. /\ lines[1].seq \in Nat /\ lines[n].seq \in Nat
      /\ lines[n].seq = lines[1].seq + n - 1
  BY <1>2 DEF ProperFile, ProperLine, Parses
<1> HIDE DEF n
<1> QED
  BY <1>1, <1>2, <1>3 DEF n

=============================================================================
