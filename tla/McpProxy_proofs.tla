--------------------------- MODULE McpProxy_proofs ---------------------------
(***************************************************************************)
(* Theorems about the MCP stdio proxy, for any lines, policies, number of  *)
(* lines and failures.                                                     *)
(***************************************************************************)
EXTENDS McpProxy, SequenceTheorems, WellFoundedInduction, TLAPS

-----------------------------------------------------------------------------
(* The least element of a set of natural numbers, and the operators of the *)
(* community modules on sequences, by their elements.                      *)

NatLess == {ss \in Nat \X Nat : ss[1] < ss[2]}

LEMMA LeastNat ==
  ASSUME NEW S, S \subseteq Nat, S # {}
  PROVE  \E n \in S : \A m \in S : n <= m
<1>1. IsWellFoundedOn(NatLess, Nat)
  BY NatLessThanWellFounded DEF OpToRel, NatLess
<1>2. PICK x \in S : \A y \in S : ~ (<<y, x>> \in NatLess)
  BY <1>1, WFMin
<1>3. ASSUME NEW y \in S PROVE x <= y
  <2>1. x \in Nat /\ y \in Nat
    OBVIOUS
  <2>2. ~ (<<y, x>> \in NatLess)
    BY <1>2
  <2> QED
    BY <2>1, <2>2 DEF NatLess
<1> QED
  BY <1>3

LEMMA PrefixByElements ==
  ASSUME NEW S, NEW s \in Seq(S), NEW t \in Seq(S)
  PROVE  IsPrefix(s, t) <=> /\ Len(s) <= Len(t)
                            /\ \A i \in 1..Len(s) : s[i] = t[i]
<1>1. /\ Len(s) \in Nat /\ Len(t) \in Nat
      /\ \A i \in 1..Len(s) : s[i] \in S
      /\ \A i \in 1..Len(t) : t[i] \in S
  OBVIOUS
<1>2. ASSUME Len(s) <= Len(t)
      PROVE  SubSeq(s, 1, Len(s)) = SubSeq(t, 1, Len(s)) <=> \A i \in 1..Len(s) : s[i] = t[i]
  <2>1. SubSeq(s, 1, Len(s)) = s
    BY SubSeqFull
  <2>2. \A i \in 1..Len(s) : t[i] \in S
    BY <1>1, <1>2
  <2>3. /\ SubSeq(t, 1, Len(s)) \in Seq(S)
        /\ Len(SubSeq(t, 1, Len(s))) = Len(s)
        /\ \A i \in 1..Len(s) : SubSeq(t, 1, Len(s))[i] = t[i]
    BY <1>1, <2>2, SubSeqProperties
  <2>4. ASSUME \A i \in 1..Len(s) : s[i] = t[i]
        PROVE  s = SubSeq(t, 1, Len(s))
    BY <2>3, <2>4, SeqEqual
  <2> QED
    BY <2>1, <2>3, <2>4
<1> QED
  BY <1>2 DEF IsPrefix

LEMMA SuffixByElements ==
  ASSUME NEW S, NEW s \in Seq(S), NEW t \in Seq(S)
  PROVE  IsSuffix(s, t) <=> /\ Len(s) <= Len(t)
                            /\ \A i \in 1..Len(s) : s[i] = t[Len(t) - Len(s) + i]
<1>1. /\ Len(s) \in Nat /\ Len(t) \in Nat
      /\ \A i \in 1..Len(s) : s[i] \in S
      /\ \A i \in 1..Len(t) : t[i] \in S
  OBVIOUS
<1>2. ASSUME NEW u \in Seq(S)
      PROVE  /\ Reverse(u) \in Seq(S) /\ Len(Reverse(u)) = Len(u)
             /\ \A i \in 1..Len(u) : Reverse(u)[i] = u[Len(u) - i + 1]
  <2>1. Len(u) \in Nat /\ \A i \in 1..Len(u) : u[Len(u) - i + 1] \in S
    OBVIOUS
  <2> QED
    BY <2>1 DEF Reverse
<1>3. IsSuffix(s, t) <=> /\ Len(s) <= Len(t)
                         /\ \A i \in 1..Len(s) : Reverse(s)[i] = Reverse(t)[i]
  <2>1. /\ Reverse(s) \in Seq(S) /\ Reverse(t) \in Seq(S)
        /\ Len(Reverse(s)) = Len(s) /\ Len(Reverse(t)) = Len(t)
    BY <1>2
  <2> QED
    BY <2>1, PrefixByElements DEF IsSuffix
<1>4. ASSUME Len(s) <= Len(t)
      PROVE  (\A i \in 1..Len(s) : Reverse(s)[i] = Reverse(t)[i])
             <=> \A i \in 1..Len(s) : s[i] = t[Len(t) - Len(s) + i]
  <2>1. \A i \in 1..Len(s) : /\ Reverse(s)[i] = s[Len(s) - i + 1]
                             /\ Reverse(t)[i] = t[Len(t) - i + 1]
    BY <1>1, <1>2, <1>4
  <2>2. ASSUME \A i \in 1..Len(s) : Reverse(s)[i] = Reverse(t)[i], NEW i \in 1..Len(s)
        PROVE  s[i] = t[Len(t) - Len(s) + i]
    <3> DEFINE j == Len(s) - i + 1
    <3>1. j \in 1..Len(s) /\ Len(s) - j + 1 = i /\ Len(t) - j + 1 = Len(t) - Len(s) + i
      BY <1>1
    <3> QED
      BY <3>1, <2>1, <2>2
  <2>3. ASSUME \A i \in 1..Len(s) : s[i] = t[Len(t) - Len(s) + i], NEW i \in 1..Len(s)
        PROVE  Reverse(s)[i] = Reverse(t)[i]
    <3> DEFINE j == Len(s) - i + 1
    <3>1. j \in 1..Len(s) /\ Len(t) - Len(s) + j = Len(t) - i + 1
      BY <1>1
    <3> QED
      BY <3>1, <2>1, <2>3
  <2> QED
    BY <2>2, <2>3
<1> QED
  BY <1>3, <1>4

-----------------------------------------------------------------------------
(* What Policy.decide answers is what PolicyMeaning asks for: paths.       *)

\* A sequence of one element.
LEMMA OneElement ==
  ASSUME NEW S, NEW e \in S
  PROVE  <<e>> \in Seq(S) /\ Len(<<e>>) = 1 /\ <<e>>[1] = e
<1>1. <<e>> \in Seq(S)
  OBVIOUS
<1>2. Len(<<e>>) = 1
  OBVIOUS
<1>3. <<e>>[1] = e
  OBVIOUS
<1> QED
  BY <1>1, <1>2, <1>3

\* A part of a path, as a sequence and by its elements.
LEMMA PartOf ==
  ASSUME NEW S, NEW u \in Seq(S), NEW n \in 1..Len(u)
  PROVE  /\ SubSeq(u, 1, n) \in Seq(S) /\ Len(SubSeq(u, 1, n)) = n
         /\ \A i \in 1..n : SubSeq(u, 1, n)[i] = u[i]
         /\ SubSeq(u, n, Len(u)) \in Seq(S) /\ Len(SubSeq(u, n, Len(u))) = Len(u) - n + 1
         /\ \A i \in 1..(Len(u) - n + 1) : SubSeq(u, n, Len(u))[i] = u[n + i - 1]
<1>1. Len(u) \in Nat /\ \A i \in 1..Len(u) : u[i] \in S
  OBVIOUS
<1>2. /\ 1 \in Int /\ n \in Int /\ Len(u) \in Int
      /\ \A i \in 1..n : u[i] \in S
      /\ \A i \in n..Len(u) : u[i] \in S
  BY <1>1
<1>3. /\ SubSeq(u, 1, n) \in Seq(S)
      /\ Len(SubSeq(u, 1, n)) = n
      /\ \A i \in 1..n : SubSeq(u, 1, n)[i] = u[i]
  BY <1>1, <1>2, SubSeqProperties
<1>4. /\ SubSeq(u, n, Len(u)) \in Seq(S) /\ Len(SubSeq(u, n, Len(u))) = Len(u) - n + 1
      /\ \A i \in 1..(Len(u) - n + 1) : SubSeq(u, n, Len(u))[i] = u[n + i - 1]
  BY <1>1, <1>2, SubSeqProperties
<1> QED
  BY <1>3, <1>4

\* The parts of a pattern end a name: the two ways to say it.
LEMMA EndIsSuffix ==
  ASSUME NEW S, NEW u \in Seq(S), NEW parts \in Seq(S), parts # <<>>
  PROVE  (\E i \in 1..Len(u) : SubSeq(u, i, Len(u)) = parts) <=> IsSuffix(parts, u)
<1>1. Len(u) \in Nat /\ Len(parts) \in Nat /\ Len(parts) # 0
  BY EmptySeq
<1>2. ASSUME NEW i \in 1..Len(u), SubSeq(u, i, Len(u)) = parts
      PROVE  IsSuffix(parts, u)
  <2>1. /\ Len(parts) = Len(u) - i + 1
        /\ \A k \in 1..(Len(u) - i + 1) : parts[k] = u[i + k - 1]
    BY <1>2, PartOf
  <2>2. Len(parts) <= Len(u) /\ \A k \in 1..Len(parts) : Len(u) - Len(parts) + k = i + k - 1
    BY <1>1, <2>1
  <2>3. \A k \in 1..Len(parts) : parts[k] = u[Len(u) - Len(parts) + k]
    BY <2>1, <2>2
  <2> QED
    BY <2>2, <2>3, SuffixByElements
<1>3. ASSUME IsSuffix(parts, u)
      PROVE  \E i \in 1..Len(u) : SubSeq(u, i, Len(u)) = parts
  <2> DEFINE i == Len(u) - Len(parts) + 1
  <2>1. /\ Len(parts) <= Len(u)
        /\ \A k \in 1..Len(parts) : parts[k] = u[Len(u) - Len(parts) + k]
    BY <1>3, SuffixByElements
  <2>2. i \in 1..Len(u) /\ Len(u) - i + 1 = Len(parts)
        /\ \A k \in 1..Len(parts) : Len(u) - Len(parts) + k = i + k - 1
    BY <1>1, <2>1
  <2> HIDE DEF i
  <2>3. /\ SubSeq(u, i, Len(u)) \in Seq(S) /\ Len(SubSeq(u, i, Len(u))) = Len(parts)
        /\ \A k \in 1..Len(parts) : SubSeq(u, i, Len(u))[k] = u[i + k - 1]
    BY <2>2, PartOf
  <2>4. \A k \in 1..Len(parts) : SubSeq(u, i, Len(u))[k] = parts[k]
    BY <2>1, <2>2, <2>3
  <2>5. SubSeq(u, i, Len(u)) = parts
    BY <2>3, <2>4, SeqEqual
  <2> QED
    BY <2>2, <2>5
<1> QED
  BY <1>2, <1>3

\* A single part ends the name at which it stands.
LEMMA EndsInPart ==
  ASSUME NEW S, NEW u \in Seq(S), NEW part \in S
  PROVE  IsSuffix(<<part>>, u) <=> u # <<>> /\ Last(u) = part
<1>1. Len(u) \in Nat /\ (u # <<>> <=> Len(u) # 0)
  BY EmptySeq
<1>2. PICK one \in Seq(S) : one = <<part>> /\ Len(one) = 1 /\ one[1] = part
  BY OneElement
<1>3. IsSuffix(one, u) <=> /\ Len(one) <= Len(u)
                           /\ \A i \in 1..Len(one) : one[i] = u[Len(u) - Len(one) + i]
  BY SuffixByElements
<1>4. Len(u) # 0 => Len(u) - 1 + 1 = Len(u)
  BY <1>1
<1>5. IsSuffix(one, u) <=> 1 <= Len(u) /\ part = u[Len(u) - 1 + 1]
  BY <1>2, <1>3
<1>6. 1 <= Len(u) <=> Len(u) # 0
  BY <1>1
<1>7. IsSuffix(one, u) <=> Len(u) # 0 /\ part = u[Len(u)]
  BY <1>4, <1>5, <1>6
<1> QED
  BY <1>1, <1>2, <1>7 DEF Last

LEMMA NamedIs ==
  ASSUME NEW S, NEW pattern, PathOf[pattern].parts \in Seq(S), PathOf[pattern].parts # <<>>,
         ~EndsInStars(pattern), NEW u \in Seq(S)
  PROVE  Named(pattern, u) <=> \/ u = PathOf[pattern].real
                               \/ IsSuffix(PathOf[pattern].parts, u)
BY EndIsSuffix DEF Named

\* What is covered by a pattern that covers nothing below it.
LEMMA CoversItself ==
  ASSUME NEW S, NEW pattern, ~IsSubtree(pattern), NEW u \in Seq(S), u # <<>>
  PROVE  Covered(pattern, u) <=> Named(pattern, u)
<1>1. Len(u) \in Nat /\ Len(u) # 0
  BY EmptySeq
<1>2. Len(u) \in 1..Len(u) /\ ~(Len(u) < Len(u)) /\ \A n \in 1..Len(u) : n < Len(u) \/ n = Len(u)
  BY <1>1
<1>3. SubSeq(u, 1, Len(u)) = u
  BY SubSeqFull
<1> QED
  BY <1>2, <1>3 DEF Covered

\* Only the first part of an absolute path is the root.
Rooted(u) == \A i \in 2..Len(u) : u[i] # "/"

LEMMA RootedSuffix ==
  ASSUME NEW S, "/" \in S, NEW u \in Seq(S), Rooted(u), NEW parts \in Seq(S), IsPrefix(<<"/">>, parts),
         IsSuffix(parts, u)
  PROVE  parts = u
<1>1. Len(u) \in Nat /\ Len(parts) \in Nat
  OBVIOUS
<1>2. PICK root \in Seq(S) : root = <<"/">> /\ Len(root) = 1 /\ root[1] = "/"
  BY OneElement
<1>3. 1 <= Len(parts) /\ parts[1] = "/"
  <2>0. IsPrefix(root, parts)
    BY <1>2
  <2>1. Len(root) <= Len(parts) /\ \A i \in 1..Len(root) : root[i] = parts[i]
    BY <2>0, PrefixByElements
  <2> QED
    BY <1>2, <2>1
<1>4. /\ Len(parts) <= Len(u)
      /\ \A i \in 1..Len(parts) : parts[i] = u[Len(u) - Len(parts) + i]
  BY SuffixByElements
<1>5. u[Len(u) - Len(parts) + 1] = "/"
  <2>1. 1 \in 1..Len(parts)
    BY <1>1, <1>3
  <2> QED
    BY <1>3, <1>4, <2>1
<1>6. Len(u) - Len(parts) + 1 \notin 2..Len(u)
  BY <1>5 DEF Rooted
<1>7. Len(u) = Len(parts)
  BY <1>1, <1>3, <1>4, <1>6
<1>8. \A i \in 1..Len(parts) : Len(u) - Len(parts) + i = i
  BY <1>1, <1>7
<1>9. \A i \in 1..Len(parts) : parts[i] = u[i]
  BY <1>4, <1>8
<1> QED
  BY <1>7, <1>9, SeqEqual

\* The glob of a pattern.
LEMMA GlobFacts ==
  ASSUME NEW S, NEW parts \in Seq(S), parts # <<>>, NEW e \in S
  PROVE  /\ parts \o <<>> = parts
         /\ parts \o <<e>> \in Seq(S) /\ Front(parts \o <<e>>) = parts
         /\ IsPrefix(parts, parts \o <<e>>)
<1> DEFINE n == Len(parts)
           new == parts \o <<e>>
<1>1. n \in Nat /\ n # 0
  BY EmptySeq
<1>2. parts \o <<>> = parts
  OBVIOUS
<1>3. /\ new \in Seq(S) /\ Len(new) = n + 1 /\ \A i \in 1..n : new[i] = parts[i]
      /\ new[n + 1] = e
  OBVIOUS
<1> HIDE DEF new, n
<1>4. Len(new) - 1 = n
  BY <1>1, <1>3
<1>5. n \in 1..Len(new) /\ n <= Len(new)
  BY <1>1, <1>3
<1>6. /\ SubSeq(new, 1, n) \in Seq(S) /\ Len(SubSeq(new, 1, n)) = n
      /\ \A i \in 1..n : SubSeq(new, 1, n)[i] = new[i]
  BY <1>3, <1>5, PartOf
<1>7. \A i \in 1..n : SubSeq(new, 1, n)[i] = parts[i]
  BY <1>3, <1>6
<1>8. SubSeq(new, 1, n) = parts
  BY <1>6, <1>7, SeqEqual DEF n
<1>9. Front(new) = parts
  BY <1>4, <1>8 DEF Front
<1>10. IsPrefix(parts, new)
  BY <1>3, <1>5, PrefixByElements DEF n
<1> QED
  BY <1>2, <1>3, <1>9, <1>10 DEF new

LEMMA PrefixIsPart ==
  ASSUME NEW S, NEW u \in Seq(S), NEW parts \in Seq(S), parts # <<>>
  PROVE  IsPrefix(parts, u) <=> \E n \in 1..Len(u) : SubSeq(u, 1, n) = parts
<1>1. Len(u) \in Nat /\ Len(parts) \in Nat /\ Len(parts) # 0
  BY EmptySeq
<1>2. SubSeq(parts, 1, Len(parts)) = parts
  BY SubSeqFull
<1>3. ASSUME IsPrefix(parts, u) PROVE Len(parts) \in 1..Len(u) /\ SubSeq(u, 1, Len(parts)) = parts
  BY <1>1, <1>2, <1>3 DEF IsPrefix
<1>4. ASSUME NEW n \in 1..Len(u), SubSeq(u, 1, n) = parts PROVE IsPrefix(parts, u)
  <2>1. Len(parts) = n
    BY <1>4, PartOf
  <2>2. Len(parts) <= Len(u)
    BY <1>1, <2>1
  <2> QED
    BY <1>2, <1>4, <2>1, <2>2 DEF IsPrefix
<1> QED
  BY <1>3, <1>4

LEMMA EndsInItself ==
  ASSUME NEW S, NEW parts \in Seq(S)
  PROVE  IsSuffix(parts, parts)
<1>1. Len(parts) \in Nat
  OBVIOUS
<1>2. Len(parts) <= Len(parts) /\ \A i \in 1..Len(parts) : Len(parts) - Len(parts) + i = i
  BY <1>1
<1> QED
  BY <1>2, SuffixByElements

\* Names that are covered: what begins with the parts of a directory, and
\* what is or ends in those of a pattern.
LEMMA CoversBelow ==
  ASSUME NEW S, NEW pattern, PathOf[pattern].parts \in Seq(S), PathOf[pattern].parts # <<>>,
         ~EndsInStars(pattern), IsSubtree(pattern), NEW u \in Seq(S),
         IsPrefix(PathOf[pattern].parts, u)
  PROVE  Covered(pattern, u)
<1>1. PICK n \in 1..Len(u) : SubSeq(u, 1, n) = PathOf[pattern].parts
  BY PrefixIsPart
<1>2. Named(pattern, SubSeq(u, 1, n))
  BY <1>1, NamedIs, EndsInItself
<1> QED
  BY <1>2 DEF Covered

LEMMA CoversEnd ==
  ASSUME NEW S, NEW pattern, PathOf[pattern].parts \in Seq(S), PathOf[pattern].parts # <<>>,
         ~EndsInStars(pattern), NEW u \in Seq(S),
         IsSuffix(PathOf[pattern].parts, u)
  PROVE  Covered(pattern, u)
<1>1. u # <<>> /\ Len(u) \in Nat
  <2>1. Len(PathOf[pattern].parts) <= Len(u) /\ Len(PathOf[pattern].parts) \in Nat
    BY SuffixByElements
  <2>2. Len(PathOf[pattern].parts) # 0
    BY EmptySeq
  <2> QED
    BY <2>1, <2>2, EmptySeq
<1>2. Len(u) # 0
  BY <1>1, EmptySeq
<1>3. Len(u) \in 1..Len(u) /\ ~(Len(u) < Len(u)) /\ SubSeq(u, 1, Len(u)) = u
  BY <1>1, <1>2, SubSeqFull
<1>4. Named(pattern, u)
  BY NamedIs
<1> QED
  BY <1>3, <1>4 DEF Covered

\* Typing of the data of a pattern and a path.
PathData(S, pattern, word) ==
    /\ STRING \subseteq S /\ "/" \in S /\ "**" \in S
    /\ PathOf[pattern].home \in BOOLEAN /\ PathOf[pattern].dir \in BOOLEAN
    /\ PathOf[pattern].parts \in Seq(S) /\ PathOf[pattern].real \in Seq(S)
    /\ PathOf[word].parts \in Seq(S) /\ PathOf[word].real \in Seq(S)
    /\ Spelled(word) \in Seq(S) /\ Home \in Seq(S)
    /\ Rooted(Spelled(word)) /\ Rooted(PathOf[word].real)

\* What the code finds by the spelling is covered, by a pattern that is no
\* subtree of the home directory.
LEMMA SpellingCovered ==
  ASSUME NEW S, NEW pattern, NEW word, PathData(S, pattern, word),
         PlainPattern(pattern), PlainlyMatched(pattern), ~PathOf[pattern].home,
         DeniedBySpelling(pattern, word)
  PROVE  Covered(pattern, Spelled(word))
<1> DEFINE p == PathOf[pattern]
           u == Spelled(word)
           glob == p.parts \o (IF p.dir THEN <<"**">> ELSE <<>>)
           above == IF p.dir THEN p.parts ELSE Front(p.parts)
           names == {u} \union (IF u = <<>> THEN {} ELSE {<<Last(u)>>})
<1>1. /\ p.parts \in Seq(S) /\ p.parts # <<>> /\ ~EndsInStars(pattern) /\ u \in Seq(S)
      /\ "**" \in S
      /\ IsSubtree(pattern) <=> p.dir
  BY DEF PathData, PlainPattern, IsSubtree, EndsInStars
<1>2. PICK name \in names :
         \/ name = glob \/ <<glob, name>> \in Globbed
         \/ IsSubtree(pattern) /\ IsPrefix(above, name)
  BY DEF DeniedBySpelling
<1>3. <<glob, name>> \in Globbed =>
         \/ name = glob
         \/ Last(glob) = "**" /\ IsStrictPrefix(Front(glob), name)
  <2>1. ASSUME NEW match \in Globbed, match = <<glob, name>>
        PROVE  match[1] = glob /\ match[2] = name
    BY <2>1
  <2> QED
    BY <2>1 DEF PlainlyMatched
<1>4. name = u \/ (u # <<>> /\ name = <<Last(u)>>)
  BY DEF names
<1>5. ASSUME u # <<>> PROVE Last(u) \in S /\ <<Last(u)>> \in Seq(S) /\ IsSuffix(<<Last(u)>>, u)
  <2>1. Len(u) \in Nat /\ Len(u) # 0
    BY <1>1, <1>5, EmptySeq
  <2>2. Last(u) \in S
    BY <1>1, <2>1 DEF Last
  <2> QED
    BY <1>1, <1>5, <2>2, OneElement, EndsInPart
<1>6. CASE p.dir
  <2>1. glob = p.parts \o <<"**">> /\ above = p.parts
    BY <1>6
  <2>2. Front(glob) = p.parts /\ IsPrefix(p.parts, glob)
    BY <1>1, <2>1, GlobFacts
  <2> HIDE DEF p, u, glob, above, names
  <2>3. IsPrefix(p.parts, name)
    <3>1. CASE name = glob
      BY <2>2, <3>1
    <3>2. CASE IsStrictPrefix(Front(glob), name)
      BY <2>2, <3>2 DEF IsStrictPrefix
    <3>3. CASE IsPrefix(above, name)
      BY <2>1, <3>3
    <3> QED
      BY <1>2, <1>3, <3>1, <3>2, <3>3
  <2>4. CASE name = u
    BY <1>1, <1>6, <2>3, <2>4, CoversBelow DEF p, u
  <2>5. CASE u # <<>> /\ name = <<Last(u)>>
    <3>1. name \in Seq(S) /\ Len(name) = 1
      BY <1>5, <2>5, OneElement
    <3>2. Len(p.parts) \in Nat /\ Len(p.parts) # 0
      BY <1>1, EmptySeq
    <3> DEFINE parts == p.parts
    <3>0. parts \in Seq(S)
      BY <1>1
    <3> HIDE DEF parts
    <3>7. IsPrefix(parts, name)
      BY <2>3 DEF parts
    <3>8. /\ Len(parts) <= Len(name)
          /\ \A i \in 1..Len(parts) : parts[i] = name[i]
      BY <3>0, <3>1, <3>7, PrefixByElements
    <3>3. /\ Len(p.parts) <= 1
          /\ \A i \in 1..Len(p.parts) : p.parts[i] = name[i]
      BY <3>1, <3>8 DEF parts
    <3>4. Len(p.parts) = 1
      <4>1. \A n \in Nat : n # 0 /\ n <= 1 => n = 1
        OBVIOUS
      <4> QED
        BY <3>2, <3>3, <4>1
    <3>5. p.parts = name
      BY <1>1, <3>1, <3>3, <3>4, SeqEqual
    <3>6. IsSuffix(p.parts, u)
      BY <1>5, <2>5, <3>5
    <3> QED
      BY <1>1, <3>6, CoversEnd DEF p, u
  <2> QED
    BY <1>4, <2>4, <2>5 DEF u
<1>7. CASE ~p.dir
  <2>1. glob = p.parts
    BY <1>1, <1>7, GlobFacts
  <2>2. Last(glob) # "**" /\ ~IsSubtree(pattern)
    BY <1>1, <1>7, <2>1 DEF EndsInStars
  <2> HIDE DEF p, u, glob, above, names
  <2>3. name = p.parts
    BY <1>2, <1>3, <2>1, <2>2
  <2>4. IsSuffix(p.parts, u)
    BY <1>1, <1>4, <1>5, <2>3, EndsInItself
  <2> QED
    BY <1>1, <2>4, CoversEnd DEF p, u
<1> QED
  BY <1>6, <1>7

\* What the code finds by the file a path leads to is what is covered there.
LEMMA FileOfName ==
  ASSUME NEW S, NEW pattern, NEW word, PathData(S, pattern, word), PlainPattern(pattern),
         ~PathOf[pattern].home, ~PathOf[pattern].dir
  PROVE  DeniedByFile(pattern, word) <=> Covered(pattern, PathOf[word].real)
<1> DEFINE parts == PathOf[pattern].parts
           real == PathOf[pattern].real
           file == PathOf[word].real
<1>1. /\ parts \in Seq(S) /\ parts # <<>> /\ real \in Seq(S) /\ file \in Seq(S)
      /\ Rooted(file) /\ "/" \in S /\ ~EndsInStars(pattern)
  BY DEF PathData, PlainPattern
<1>2. ~IsSubtree(pattern)
  BY <1>1 DEF IsSubtree, EndsInStars
<1>3. Absolute(pattern) <=> IsPrefix(<<"/">>, parts)
  BY DEF Absolute
<1>4. IF Absolute(pattern) THEN real = parts ELSE IsSuffix(parts, real)
  BY DEF PlainPattern
<1>5. DeniedByFile(pattern, word) <=> file = real \/ (~Absolute(pattern) /\ IsSuffix(parts, file))
  BY <1>1 DEF DeniedByFile, EndsWith
<1> HIDE DEF parts, real, file
<1>6. \A u \in Seq(S) : IsSuffix(parts, u) => u # <<>>
  <2> SUFFICES ASSUME NEW u \in Seq(S), IsSuffix(parts, u) PROVE u # <<>>
    OBVIOUS
  <2>1. Len(parts) <= Len(u) /\ Len(parts) \in Nat /\ Len(u) \in Nat
    BY <1>1, SuffixByElements
  <2>2. Len(parts) # 0
    BY <1>1, EmptySeq
  <2> QED
    BY <2>1, <2>2, EmptySeq
<1>7. real # <<>>
  BY <1>1, <1>4, <1>6
<1>8. CASE file = <<>>
  <2>1. Len(file) = 0
    BY <1>8
  <2>2. ~Covered(pattern, file)
    BY <2>1 DEF Covered
  <2> QED
    BY <1>1, <1>5, <1>6, <1>7, <1>8, <2>2 DEF file
<1>9. CASE file # <<>>
  <2>1. Covered(pattern, file) <=> Named(pattern, file)
    BY <1>1, <1>2, <1>9, CoversItself
  <2>2. Named(pattern, file) <=> file = real \/ IsSuffix(parts, file)
    BY <1>1, NamedIs DEF parts, real
  <2>3. Absolute(pattern) /\ IsSuffix(parts, file) => file = real
    BY <1>1, <1>3, <1>4, RootedSuffix
  <2> QED
    BY <1>5, <2>1, <2>2, <2>3 DEF file
<1> QED
  BY <1>8, <1>9

LEMMA FileOfDirectory ==
  ASSUME NEW S, NEW pattern, NEW word, PathData(S, pattern, word), PlainPattern(pattern),
         ~PathOf[pattern].home, PathOf[pattern].dir
  PROVE  DeniedByFile(pattern, word) <=> Covered(pattern, PathOf[word].real)
<1> DEFINE parts == PathOf[pattern].parts
           real == PathOf[pattern].real
           file == PathOf[word].real
<1>1. /\ parts \in Seq(S) /\ parts # <<>> /\ real \in Seq(S) /\ file \in Seq(S)
      /\ Rooted(file) /\ "/" \in S /\ ~EndsInStars(pattern) /\ Len(file) \in Nat
  BY DEF PathData, PlainPattern
<1>2. IsSubtree(pattern)
  BY DEF IsSubtree
<1>3. Absolute(pattern) <=> IsPrefix(<<"/">>, parts)
  BY DEF Absolute
<1>4. /\ Absolute(pattern) => real = parts
      /\ ~Absolute(pattern) => IsSuffix(parts, real) /\ Len(parts) = 1
  BY DEF PlainPattern
<1>5. DeniedByFile(pattern, word) <=>
         \/ file = real
         \/ Absolute(pattern) /\ IsPrefix(real, file)
         \/ ~Absolute(pattern) /\ BelowDirectory(Last(parts), file)
         \/ ~Absolute(pattern) /\ IsSuffix(parts, file)
  BY <1>1 DEF DeniedByFile, EndsWith
<1>6. \A u \in Seq(S) : Named(pattern, u) <=> u = real \/ IsSuffix(parts, u)
  BY <1>1, NamedIs
<1>7. \A u \in Seq(S) : IsSuffix(parts, u) => Covered(pattern, u)
  BY <1>1, CoversEnd
<1>8. \A u \in Seq(S) : IsPrefix(parts, u) => Covered(pattern, u)
  BY <1>1, <1>2, CoversBelow
<1>9. Covered(pattern, file) <=> \E n \in 1..Len(file) : Named(pattern, SubSeq(file, 1, n))
  BY <1>2 DEF Covered
<1> HIDE DEF parts, real, file
<1>10. IsSuffix(parts, parts)
  BY <1>1, EndsInItself
<1>11. CASE Absolute(pattern)
  <2>1. DeniedByFile(pattern, word) => Covered(pattern, file)
    BY <1>1, <1>4, <1>5, <1>7, <1>8, <1>10, <1>11
  <2>2. ASSUME NEW n \in 1..Len(file), Named(pattern, SubSeq(file, 1, n))
        PROVE  IsPrefix(real, file)
    <3> DEFINE u == SubSeq(file, 1, n)
    <3>1. u \in Seq(S) /\ Len(u) = n /\ \A i \in 1..n : u[i] = file[i]
      BY <1>1, PartOf
    <3>2. Rooted(u)
      <4>1. \A i \in 2..n : i \in 1..n /\ i \in 2..Len(file)
        BY <1>1
      <4> QED
        BY <1>1, <3>1, <4>1 DEF Rooted
    <3> HIDE DEF u
    <3>3. u = real
      BY <1>1, <1>3, <1>4, <1>6, <1>11, <2>2, <3>1, <3>2, RootedSuffix DEF u
    <3> QED
      BY <1>1, <1>4, <1>11, <3>3, PrefixIsPart DEF u
  <2> QED
    BY <1>5, <1>9, <1>11, <2>1, <2>2 DEF file
<1>12. CASE ~Absolute(pattern)
  <2>1. PICK part \in S : parts = <<part>> /\ Last(parts) = part
    <3>1. Len(parts) = 1 /\ parts[1] \in S
      <4>1. Len(parts) = 1
        BY <1>4, <1>12
      <4>2. 1 \in 1..Len(parts)
        BY <4>1
      <4> QED
        BY <1>1, <4>1, <4>2
    <3>2. /\ <<parts[1]>> \in Seq(S) /\ Len(<<parts[1]>>) = 1
          /\ <<parts[1]>>[1] = parts[1]
      BY <3>1, OneElement
    <3>3. \A i \in 1..Len(parts) : i = 1
      BY <3>1
    <3>4. parts = <<parts[1]>>
      <4> DEFINE one == <<parts[1]>>
      <4>1. one \in Seq(S) /\ Len(one) = Len(parts) /\ one[1] = parts[1]
        BY <3>1, <3>2
      <4> HIDE DEF one
      <4>2. \A i \in 1..Len(parts) : parts[i] = one[i]
        BY <3>3, <4>1
      <4>3. parts = one
        BY <1>1, <4>1, <4>2, SeqEqual
      <4> QED
        BY <4>3 DEF one
    <3> QED
      BY <3>1, <3>4 DEF Last
  <2>2. ASSUME NEW n \in 1..Len(file)
        PROVE  Named(pattern, SubSeq(file, 1, n)) <=> file[n] = part
    <3> DEFINE u == SubSeq(file, 1, n)
    <3>1. u \in Seq(S) /\ Len(u) = n /\ \A i \in 1..n : u[i] = file[i]
      BY <1>1, PartOf
    <3>2. n \in 1..n /\ n # 0
      BY <1>1
    <3> HIDE DEF u
    <3>3. u # <<>> /\ Last(u) = file[n]
      <4>1. u # <<>>
        BY <3>1, <3>2, EmptySeq
      <4> QED
        BY <3>1, <3>2, <4>1 DEF Last
    <3>4. IsSuffix(parts, u) <=> file[n] = part
      BY <2>1, <3>1, <3>3, EndsInPart
    <3> QED
      BY <1>4, <1>6, <1>12, <3>1, <3>4 DEF u
  <2>3. Covered(pattern, file) <=> \E n \in 1..Len(file) : file[n] = part
    BY <1>9, <2>2
  <2>4. BelowDirectory(Last(parts), file) <=> \E n \in 1..(Len(file) - 1) : file[n] = part
    BY <2>1 DEF BelowDirectory
  <2>5. IsSuffix(parts, file) <=> file # <<>> /\ file[Len(file)] = part
    BY <1>1, <2>1, EndsInPart DEF Last
  <2>6. \A n \in 1..Len(file) : n \in 1..(Len(file) - 1) \/ n = Len(file)
    BY <1>1
  <2>7. \A n \in 1..(Len(file) - 1) : n \in 1..Len(file)
    BY <1>1
  <2>8. 1..Len(file) # {} => file # <<>>
    <3>1. Len(<<>>) = 0 /\ 1..0 = {}
      OBVIOUS
    <3> QED
      BY <3>1
  <2>9. DeniedByFile(pattern, word) => Covered(pattern, file)
    <3>1. file = real => IsSuffix(parts, file)
      BY <1>4, <1>12
    <3> QED
      BY <1>1, <1>5, <1>7, <1>12, <2>3, <2>4, <2>7, <3>1
  <2>10. Covered(pattern, file) => DeniedByFile(pattern, word)
    BY <1>5, <1>12, <2>3, <2>4, <2>5, <2>6, <2>8
  <2> QED
    BY <2>9, <2>10 DEF file
<1> QED
  BY <1>11, <1>12

\* Two parts behind others.
LEMMA TwoBehind ==
  ASSUME NEW S, NEW s \in Seq(S), NEW t \in Seq(S), Len(t) = 2
  PROVE  /\ s \o t \in Seq(S) /\ Len(s \o t) = Len(s) + 2 /\ Len(s) \in Nat
         /\ (s \o t)[Len(s) + 1] = t[1]
<1>1. Len(s) \in Nat
  OBVIOUS
<1>2. s \o t \in Seq(S) /\ Len(s \o t) = Len(s) + 2
  <2>1. s \o t \in Seq(S) /\ Len(s \o t) = Len(s) + Len(t)
    BY ConcatProperties
  <2> QED
    BY <2>1
<1>3. (s \o t)[Len(s) + 1] = t[1]
  <2>1. Len(s) + 1 \in 1 .. Len(s) + Len(t) /\ ~(Len(s) + 1 <= Len(s)) /\ Len(s) + 1 - Len(s) = 1
    BY <1>1
  <2> QED
    BY <2>1, ConcatProperties
<1> QED
  BY <1>1, <1>2, <1>3

\* A subtree of the home directory is denied by the spelling, wherever its
\* name stands.
LEMMA SpellingOfHome ==
  ASSUME NEW S, NEW pattern, NEW word, PathData(S, pattern, word),
         PlainPattern(pattern), PlainlyMatched(pattern), PathOf[pattern].home
  PROVE  DeniedBySpelling(pattern, word) <=> Covered(pattern, Spelled(word))
<1> DEFINE p == PathOf[pattern]
           u == Spelled(word)
           glob == p.parts \o (IF p.dir THEN <<"**">> ELSE <<>>)
           above == IF p.dir THEN p.parts ELSE Front(p.parts)
           names == {u} \union (IF u = <<>> THEN {} ELSE {<<Last(u)>>})
           part == p.parts[1]
<1>1. /\ p.parts \in Seq(S) /\ p.parts # <<>> /\ Len(p.parts) = 2 /\ p.parts[2] = "**"
      /\ ~p.dir /\ u \in Seq(S) /\ Len(u) \in Nat /\ Home \in Seq(S) /\ p.real = Home \o p.parts
      /\ EndsInStars(pattern)
  <2>1. /\ p.parts \in Seq(S) /\ p.parts # <<>> /\ u \in Seq(S) /\ Home \in Seq(S)
        /\ ~p.dir /\ Len(p.parts) = 2 /\ EndsInStars(pattern) /\ p.real = Home \o p.parts
    BY DEF PathData, PlainPattern
  <2>2. p.parts[2] = "**"
    BY <2>1 DEF EndsInStars, Last
  <2> QED
    BY <2>1, <2>2
<1>2. IsSubtree(pattern)
  BY <1>1 DEF IsSubtree, EndsInStars, Last
<1>3. 1 \in 1..2 /\ 2 \in 1..2 /\ part \in S
  BY <1>1
<1>4. /\ <<part>> \in Seq(S) /\ Len(<<part>>) = 1 /\ <<part>>[1] = part
  BY <1>3, OneElement
<1>5. Front(p.parts) = <<part>>
  <2> DEFINE front == SubSeq(p.parts, 1, 1)
             one == <<part>>
  <2>1. front \in Seq(S) /\ Len(front) = 1 /\ \A i \in 1..1 : front[i] = p.parts[i]
    BY <1>1, <1>3, PartOf
  <2>2. one \in Seq(S) /\ Len(one) = 1 /\ \A i \in 1..1 : one[i] = p.parts[i]
    BY <1>4
  <2> HIDE DEF front, one, p
  <2>3. \A i \in 1..Len(front) : front[i] = one[i]
    BY <2>1, <2>2
  <2>4. front = one
    BY <2>1, <2>2, <2>3, SeqEqual
  <2>5. Len(p.parts) - 1 = 1
    BY <1>1
  <2> QED
    BY <2>4, <2>5 DEF Front, front, one
<1>6. glob = p.parts /\ above = <<part>>
  BY <1>1, <1>5, GlobFacts
<1>7. \A v \in Seq(S) : IsPrefix(<<part>>, v) <=> Len(v) # 0 /\ v[1] = part
  <2> DEFINE one == <<part>>
  <2>1. one \in Seq(S) /\ Len(one) = 1 /\ one[1] = part
    BY <1>4
  <2> HIDE DEF one, p
  <2> SUFFICES ASSUME NEW v \in Seq(S) PROVE IsPrefix(one, v) <=> Len(v) # 0 /\ v[1] = part
    BY DEF one
  <2>2. IsPrefix(one, v) <=> Len(one) <= Len(v) /\ \A i \in 1..Len(one) : one[i] = v[i]
    BY <2>1, PrefixByElements
  <2>3. Len(v) \in Nat /\ (1 <= Len(v) <=> Len(v) # 0)
    OBVIOUS
  <2> QED
    BY <2>1, <2>2, <2>3
<1>8. Covered(pattern, u) <=> \E n \in 1..Len(u) : Named(pattern, SubSeq(u, 1, n))
  BY <1>2 DEF Covered
<1>9. \A v \in Seq(S) : Named(pattern, v) <=> v = p.real \/ IsSuffix(<<part>>, v)
  <2> SUFFICES ASSUME NEW v \in Seq(S)
               PROVE  Named(pattern, v) <=> v = p.real \/ IsSuffix(<<part>>, v)
    OBVIOUS
  <2>1. <<part>> # <<>>
    BY <1>4, EmptySeq
  <2>2. (\E i \in 1..Len(v) : SubSeq(v, i, Len(v)) = <<part>>) <=> IsSuffix(<<part>>, v)
    BY <1>4, <2>1, EndIsSuffix
  <2> QED
    BY <1>1, <1>5, <2>2 DEF Named
<1>10. DeniedBySpelling(pattern, word) <=>
          \/ \E name \in names : \/ name = glob \/ <<glob, name>> \in Globbed
                                 \/ IsPrefix(above, name)
          \/ \E i \in 1..Len(u) : IsStrictPrefix(above, SubSeq(u, i, Len(u)))
  BY <1>2 DEF DeniedBySpelling
<1>11. \A name : <<glob, name>> \in Globbed =>
          name = glob \/ IsStrictPrefix(Front(glob), name)
  <2> SUFFICES ASSUME NEW name, <<glob, name>> \in Globbed
               PROVE  name = glob \/ IsStrictPrefix(Front(glob), name)
    OBVIOUS
  <2>1. ASSUME NEW match \in Globbed, match = <<glob, name>>
        PROVE  match[1] = glob /\ match[2] = name
    BY <2>1
  <2> QED
    BY <2>1 DEF PlainlyMatched
<1>12. p.real \in Seq(S) /\ Len(p.real) = Len(Home) + 2 /\ Len(Home) \in Nat
       /\ p.real[Len(Home) + 1] = part
  <2> DEFINE parts == p.parts
             real == Home \o parts
  <2>1. parts \in Seq(S) /\ Len(parts) = 2 /\ Home \in Seq(S)
    BY <1>1
  <2> HIDE DEF parts
  <2>2. real \in Seq(S) /\ Len(real) = Len(Home) + 2 /\ Len(Home) \in Nat
        /\ real[Len(Home) + 1] = parts[1]
    BY <2>1, TwoBehind
  <2> QED
    BY <1>1, <2>2 DEF parts
<1>13. \A name \in names : name = u \/ (u # <<>> /\ name = <<Last(u)>>)
  OBVIOUS
<1>14. u \in names /\ (u # <<>> => <<Last(u)>> \in names)
  OBVIOUS
<1> HIDE DEF p, u, glob, above, names, part
<1>15. Covered(pattern, u) <=> \E n \in 1..Len(u) : u[n] = part
  <2>1. ASSUME NEW n \in 1..Len(u)
        PROVE  IsSuffix(<<part>>, SubSeq(u, 1, n)) <=> u[n] = part
    <3> DEFINE v == SubSeq(u, 1, n)
    <3>1. v \in Seq(S) /\ Len(v) = n /\ \A i \in 1..n : v[i] = u[i]
      BY <1>1, PartOf
    <3>2. n \in 1..n /\ n # 0
      BY <1>1
    <3> HIDE DEF v
    <3>3. v # <<>> /\ Last(v) = u[n]
      <4>1. v # <<>>
        BY <3>1, <3>2, EmptySeq
      <4> QED
        BY <3>1, <3>2, <4>1 DEF Last
    <3>4. IsSuffix(<<part>>, v) <=> u[n] = part
      BY <1>3, <3>1, <3>3, EndsInPart
    <3> QED
      BY <3>4 DEF v
  <2>2. ASSUME NEW n \in 1..Len(u), SubSeq(u, 1, n) = p.real
        PROVE  \E m \in 1..Len(u) : u[m] = part
    <3> DEFINE m == Len(Home) + 1
    <3>1. Len(p.real) = n /\ \A i \in 1..n : p.real[i] = u[i]
      BY <1>1, <2>2, PartOf
    <3>2. m \in 1..n /\ m \in 1..Len(u)
      BY <1>1, <1>12, <3>1
    <3>3. u[m] = part
      BY <1>12, <3>1, <3>2
    <3> QED
      BY <3>2, <3>3
  <2>3. \A n \in 1..Len(u) : SubSeq(u, 1, n) \in Seq(S)
    BY <1>1, PartOf
  <2> QED
    BY <1>8, <1>9, <2>1, <2>2, <2>3
<1>16. ASSUME u # <<>>
       PROVE  /\ Len(u) \in 1..Len(u) /\ 1 \in 1..Len(u) /\ <<Last(u)>> \in Seq(S)
              /\ <<Last(u)>>[1] = u[Len(u)] /\ Len(<<Last(u)>>) = 1
  <2>1. Len(u) # 0
    BY <1>1, <1>16, EmptySeq
  <2>2. Len(u) \in 1..Len(u) /\ 1 \in 1..Len(u)
    BY <1>1, <2>1
  <2>3. Last(u) = u[Len(u)] /\ u[Len(u)] \in S
    BY <1>1, <2>2 DEF Last
  <2> QED
    BY <2>2, <2>3, OneElement
<1>17. ASSUME NEW name \in names, Len(name) # 0, name[1] = part
       PROVE  \E n \in 1..Len(u) : u[n] = part
  <2>1. CASE name = u
    <3>1. 1 \in 1..Len(u)
      BY <1>1, <1>17, <2>1
    <3> QED
      BY <1>17, <2>1, <3>1
  <2>2. CASE u # <<>> /\ name = <<Last(u)>>
    BY <1>16, <1>17, <2>2
  <2> QED
    BY <1>13, <2>1, <2>2
<1>18. \A name \in names : name \in Seq(S)
  BY <1>1, <1>13, <1>16
<1>19. ASSUME NEW i \in 1..Len(u)
       PROVE  /\ SubSeq(u, i, Len(u)) \in Seq(S) /\ Len(SubSeq(u, i, Len(u))) = Len(u) - i + 1
              /\ SubSeq(u, i, Len(u))[1] = u[i]
  <2>1. /\ SubSeq(u, i, Len(u)) \in Seq(S) /\ Len(SubSeq(u, i, Len(u))) = Len(u) - i + 1
        /\ \A k \in 1..(Len(u) - i + 1) : SubSeq(u, i, Len(u))[k] = u[i + k - 1]
    BY <1>1, PartOf
  <2>2. 1 \in 1..(Len(u) - i + 1) /\ i + 1 - 1 = i
    BY <1>1
  <2> QED
    BY <2>1, <2>2
<1>20. ASSUME DeniedBySpelling(pattern, word)
       PROVE  \E n \in 1..Len(u) : u[n] = part
  <2>1. ASSUME NEW name \in names,
               \/ name = glob \/ <<glob, name>> \in Globbed \/ IsPrefix(above, name)
        PROVE  \E n \in 1..Len(u) : u[n] = part
    <3>1. CASE name = glob
      <4>1. name[1] = part /\ Len(name) # 0
        BY <1>1, <1>6, <3>1 DEF part
      <4> QED
        BY <1>17, <4>1
    <3>2. CASE IsPrefix(<<part>>, name)
      BY <1>7, <1>17, <1>18, <3>2
    <3>3. <<glob, name>> \in Globbed => name = glob \/ IsPrefix(<<part>>, name)
      BY <1>5, <1>6, <1>11 DEF IsStrictPrefix
    <3> QED
      BY <1>6, <2>1, <3>1, <3>2, <3>3
  <2>2. ASSUME NEW i \in 1..Len(u), IsStrictPrefix(above, SubSeq(u, i, Len(u)))
        PROVE  \E n \in 1..Len(u) : u[n] = part
    <3>1. IsPrefix(<<part>>, SubSeq(u, i, Len(u)))
      BY <1>6, <2>2 DEF IsStrictPrefix
    <3>2. u[i] = part
      BY <1>7, <1>19, <3>1
    <3> QED
      BY <3>2
  <2> QED
    BY <1>10, <1>20, <2>1, <2>2
<1>21. ASSUME NEW n \in 1..Len(u), u[n] = part
       PROVE  DeniedBySpelling(pattern, word)
  <2>1. n < Len(u) \/ n = Len(u)
    BY <1>1
  <2>2. CASE n < Len(u)
    <3> DEFINE v == SubSeq(u, n, Len(u))
    <3>1. v \in Seq(S) /\ Len(v) = Len(u) - n + 1 /\ v[1] = part
      BY <1>19, <1>21
    <3> HIDE DEF v
    <3>2. Len(v) # 0 /\ Len(v) # 1
      BY <1>1, <2>2, <3>1
    <3>3. IsPrefix(<<part>>, v) /\ v # <<part>>
      BY <1>4, <1>7, <3>1, <3>2
    <3> QED
      BY <1>6, <1>10, <3>3 DEF IsStrictPrefix, v
  <2>3. CASE n = Len(u)
    <3>1. u # <<>>
      <4>1. Len(u) # 0
        BY <1>1, <2>3
      <4> QED
        BY <1>1, <4>1, EmptySeq
    <3>2. IsPrefix(<<part>>, <<Last(u)>>)
      <4> DEFINE one == <<Last(u)>>
      <4>1. one \in Seq(S) /\ Len(one) = 1 /\ one[1] = part
        BY <1>16, <1>21, <2>3, <3>1
      <4> HIDE DEF one
      <4>2. IsPrefix(<<part>>, one)
        BY <1>7, <4>1
      <4> QED
        BY <4>2 DEF one
    <3> QED
      BY <1>6, <1>10, <1>14, <3>1, <3>2
  <2> QED
    BY <2>1, <2>2, <2>3
<1> QED
  BY <1>15, <1>20, <1>21 DEF u

\* One pattern, one path.
LEMMA PatternMeant ==
  ASSUME NEW S, NEW pattern, NEW word, PathData(S, pattern, word),
         PlainPattern(pattern), PlainlyMatched(pattern),
         IF EndsInStars(pattern)
         THEN PathOf[word].real = PathOf[pattern].real => Covered(pattern, Spelled(word))
         ELSE Covered(pattern, Spelled(word)) => Covered(pattern, PathOf[word].real)
  PROVE  DeniedBySpelling(pattern, word) \/ DeniedByFile(pattern, word)
         <=> \/ Covered(pattern, Spelled(word))
             \/ ~EndsInStars(pattern) /\ Covered(pattern, PathOf[word].real)
<1>1. CASE PathOf[pattern].home
  <2>1. EndsInStars(pattern) /\ ~PathOf[pattern].dir /\ Absolute(pattern)
    BY <1>1 DEF PlainPattern, Absolute
  <2>2. DeniedByFile(pattern, word) <=> PathOf[word].real = PathOf[pattern].real
    BY <2>1 DEF DeniedByFile
  <2>3. DeniedBySpelling(pattern, word) <=> Covered(pattern, Spelled(word))
    BY <1>1, SpellingOfHome
  <2> QED
    BY <2>1, <2>2, <2>3
<1>2. CASE ~PathOf[pattern].home
  <2>1. ~EndsInStars(pattern)
    BY <1>2 DEF PlainPattern
  <2>2. PathOf[pattern].dir \in BOOLEAN
    BY DEF PathData
  <2>3. DeniedByFile(pattern, word) <=> Covered(pattern, PathOf[word].real)
    BY <1>2, <2>2, FileOfName, FileOfDirectory
  <2>4. DeniedBySpelling(pattern, word) => Covered(pattern, Spelled(word))
    BY <1>2, SpellingCovered
  <2> QED
    BY <2>1, <2>3, <2>4
<1> QED
  BY <1>1, <1>2

\* Typed data, with the two names the definitions themselves mention.
LEMMA DataTyped ==
  ASSUME NEW pattern \in DOMAIN PathOf, NEW word \in DOMAIN PathOf,
         \A i \in 2..Len(Spelled(word)) : Spelled(word)[i] # "/",
         \A i \in 2..Len(PathOf[word].real) : PathOf[word].real[i] # "/"
  PROVE  PathData(STRING \union {"/", "**"}, pattern, word)
<1> DEFINE S == STRING \union {"/", "**"}
<1>1. STRING \subseteq S /\ "/" \in S /\ "**" \in S
  OBVIOUS
<1> HIDE DEF S
<1>2. \A u \in Seq(STRING) : u \in Seq(S)
  BY <1>1, SeqMonotonic
<1>3. \A w \in DOMAIN PathOf : /\ PathOf[w].home \in BOOLEAN /\ PathOf[w].dir \in BOOLEAN
                               /\ PathOf[w].parts \in Seq(STRING)
                               /\ PathOf[w].real \in Seq(STRING)
  BY PathsAssumption
<1>4. Home \in Seq(S) /\ PathOf[word].parts \in Seq(S)
  BY <1>2, <1>3, PathsAssumption
<1>5. Spelled(word) \in Seq(S)
  BY <1>4, ConcatProperties DEF Spelled
<1>6. PathData(S, pattern, word)
  BY <1>1, <1>2, <1>3, <1>4, <1>5 DEF PathData, Rooted
<1> QED
  BY <1>6 DEF S

\* The code's check of a path finds what the policy file means, for plain
\* patterns and whatever links there are that do not lead out of what a
\* pattern covers (policy.py:184-252).
THEOREM PlainPathsMeant ==
  ASSUME NEW policies, NEW paths, PlainPaths(policies, paths)
  PROVE  PathsMeant(policies, paths)
<1> SUFFICES ASSUME NEW p \in policies, NEW path \in paths
             PROVE  IsProtected(p, path) <=> Kept(p, path)
  BY DEF PathsMeant
<1> DEFINE Found(pattern) == DeniedBySpelling(pattern, path) \/ DeniedByFile(pattern, path)
           Meant(pattern) == \/ Covered(pattern, Spelled(path))
                             \/ ~EndsInStars(pattern) /\ Covered(pattern, PathOf[path].real)
<1>1. /\ path \in DOMAIN PathOf
      /\ \A i \in 2..Len(Spelled(path)) : Spelled(path)[i] # "/"
      /\ \A i \in 2..Len(PathOf[path].real) : PathOf[path].real[i] # "/"
  BY DEF PlainPaths
<1>2. ASSUME NEW pattern \in p.protected_paths
      PROVE  pattern \in DOMAIN PathOf /\ (Found(pattern) <=> Meant(pattern))
  <2>1. /\ PlainPattern(pattern) /\ PlainlyMatched(pattern)
        /\ IF EndsInStars(pattern)
           THEN PathOf[path].real = PathOf[pattern].real => Covered(pattern, Spelled(path))
           ELSE Covered(pattern, Spelled(path)) => Covered(pattern, PathOf[path].real)
    BY <1>2 DEF PlainPaths
  <2>2. pattern \in DOMAIN PathOf
    BY <2>1 DEF PlainPattern
  <2>3. PathData(STRING \union {"/", "**"}, pattern, path)
    BY <1>1, <2>2, DataTyped
  <2> QED
    BY <2>1, <2>2, <2>3, PatternMeant
<1>3. ASSUME NEW pattern \in p.protected_paths
      PROVE  Protects[pattern][path] <=> Found(pattern)
  BY <1>1, <1>2, <1>3 DEF Protects
<1> QED
  BY <1>2, <1>3 DEF IsProtected, Kept

-----------------------------------------------------------------------------
(* What Policy.decide answers is what PolicyMeaning asks for: hosts.       *)

EndsIn(one, a, rest, h) == IsStrictPrefix(one, a) /\ IsSuffix(rest, h)
StarOver(one, a, h) == \E i \in 1..Len(h) : a = one \o SubSeq(h, i, Len(h))

\* "*.d" admits d and all below it: its labels behind the star end the host's.
LEMMA StarIsSuffix ==
  ASSUME NEW S, NEW one \in Seq(S), Len(one) = 1, NEW a \in Seq(S), NEW h \in Seq(S),
         NEW rest, rest = Tail(a)
  PROVE  EndsIn(one, a, rest, h) <=> StarOver(one, a, h)
<1>1. /\ Len(h) \in Nat /\ Len(a) \in Nat /\ one[1] \in S
  OBVIOUS
<1>2. ASSUME NEW i \in 1..Len(h)
      PROVE  /\ SubSeq(h, i, Len(h)) \in Seq(S)
             /\ Len(SubSeq(h, i, Len(h))) = Len(h) - i + 1
             /\ \A j \in 1..(Len(h) - i + 1) : SubSeq(h, i, Len(h))[j] = h[i + j - 1]
  <2>1. \A j \in i..Len(h) : h[j] \in S
    OBVIOUS
  <2>2. i \in Int /\ Len(h) \in Int /\ i <= Len(h)
    BY <1>1
  <2> QED
    BY <2>1, <2>2, SubSeqProperties
<1>3. ASSUME IsStrictPrefix(one, a), IsSuffix(rest, h)
      PROVE  \E i \in 1..Len(h) : a = one \o SubSeq(h, i, Len(h))
  <2>1. Len(a) >= 1 /\ a[1] = one[1] /\ a # one
    <3>1. Len(one) <= Len(a) /\ \A j \in 1..Len(one) : one[j] = a[j]
      BY <1>3, PrefixByElements DEF IsStrictPrefix
    <3> QED
      BY <3>1, <1>3 DEF IsStrictPrefix
  <2>2. Len(a) # 1
    <3>1. ASSUME Len(a) = 1
          PROVE  a = one
      <4>1. \A j \in 1..Len(a) : a[j] = one[j]
        BY <2>1, <3>1
      <4> QED
        BY <4>1, <3>1, SeqEqual
    <3> QED
      BY <3>1, <2>1
  <2>3. /\ rest \in Seq(S) /\ Len(rest) = Len(a) - 1
        /\ \A j \in 1..(Len(a) - 1) : rest[j] = a[j + 1]
    <3>1. a # <<>>
      BY <2>1
    <3> QED
      BY <3>1, HeadTailProperties
  <2>4. /\ Len(rest) <= Len(h)
        /\ \A j \in 1..Len(rest) : rest[j] = h[Len(h) - Len(rest) + j]
    BY <2>3, <1>3, SuffixByElements
  <2> DEFINE i == Len(h) - Len(a) + 2
             t == SubSeq(h, i, Len(h))
             b == one \o t
  <2>5. i \in 1..Len(h) /\ Len(h) - i + 1 = Len(a) - 1
    BY <1>1, <2>1, <2>2, <2>4
  <2>6. /\ t \in Seq(S) /\ Len(t) = Len(a) - 1
        /\ \A j \in 1..(Len(a) - 1) : t[j] = h[i + j - 1]
    <3> HIDE DEF i
    <3> QED
      BY <1>2, <2>5
  <2>66. /\ b \in Seq(S) /\ Len(b) = Len(a)
         /\ b[1] = one[1]
         /\ \A j \in 2..Len(a) : b[j] = h[i + (j - 1) - 1]
    <3> HIDE DEF i, t
    <3>0. t \in Seq(S) /\ one \in Seq(S)
      BY <2>6
    <3>1. /\ b \in Seq(S) /\ Len(b) = Len(one) + Len(t)
          /\ \A j \in 1..(Len(one) + Len(t)) :
                b[j] = IF j <= Len(one) THEN one[j] ELSE t[j - Len(one)]
      BY <3>0, ConcatProperties
    <3> HIDE DEF b
    <3>2. ASSUME NEW j \in 2..Len(a)
          PROVE  b[j] = h[i + (j - 1) - 1]
      <4>1. j \in 1..(1 + Len(t)) /\ ~(j <= 1) /\ j - 1 \in 1..(Len(a) - 1)
        BY <1>1, <2>6
      <4>2. b[j] = t[j - 1]
        BY <3>1, <4>1
      <4>3. t[j - 1] = h[i + (j - 1) - 1]
        BY <2>6, <4>1
      <4> QED
        BY <4>2, <4>3
    <3>3. 1 \in 1..(1 + Len(t)) /\ 1 + Len(t) = Len(a)
      BY <1>1, <2>1, <2>6
    <3> QED
      BY <3>1, <3>2, <3>3, <1>1
  <2>7. \A j \in 1..Len(a) : a[j] = b[j]
    <3> SUFFICES ASSUME NEW j \in 1..Len(a), j # 1
                 PROVE  a[j] = b[j]
      BY <2>1, <2>66
    <3>1. j - 1 \in 1..(Len(a) - 1) /\ i + (j - 1) - 1 = Len(h) - (Len(a) - 1) + (j - 1)
      BY <1>1, <2>1
    <3>2. rest[j - 1] = a[(j - 1) + 1] /\ (j - 1) + 1 = j
      BY <3>1, <2>3, <1>1
    <3>3. rest[j - 1] = h[Len(h) - (Len(a) - 1) + (j - 1)]
      BY <3>1, <2>3, <2>4
    <3>4. j \in 2..Len(a)
      BY <1>1
    <3>5. b[j] = h[i + (j - 1) - 1]
      BY <3>4, <2>66
    <3> QED
      BY <3>1, <3>2, <3>3, <3>5
  <2>8. a = b
    BY <2>66, <2>7, SeqEqual
  <2> QED
    BY <2>5, <2>8
<1>4. ASSUME NEW i \in 1..Len(h), a = one \o SubSeq(h, i, Len(h))
      PROVE  IsStrictPrefix(one, a) /\ IsSuffix(rest, h)
  <2> DEFINE top == SubSeq(h, i, Len(h))
  <2>1. /\ top \in Seq(S) /\ Len(top) = Len(h) - i + 1
        /\ \A j \in 1..Len(top) : top[j] = h[i + j - 1]
    BY <1>2
  <2> HIDE DEF top
  <2>2. /\ Len(a) = Len(one) + Len(top)
        /\ \A j \in 1..(Len(one) + Len(top)) :
              a[j] = IF j <= Len(one) THEN one[j] ELSE top[j - Len(one)]
    <3>1. a = one \o top
      BY <1>4 DEF top
    <3> QED
      BY <3>1, <2>1, ConcatProperties
  <2>3. Len(top) \in Nat /\ Len(top) >= 1
    BY <2>1, <1>1
  <2>4. a # <<>> /\ a # one /\ a[1] = one[1]
    BY <2>2, <2>3, <1>1
  <2>5. IsStrictPrefix(one, a)
    <3>1. Len(one) <= Len(a) /\ \A j \in 1..Len(one) : one[j] = a[j]
      BY <2>2, <2>3, <2>4, <1>1
    <3> QED
      BY <3>1, <2>4, <1>1, PrefixByElements DEF IsStrictPrefix
  <2>6. /\ rest \in Seq(S) /\ Len(rest) = Len(top)
        /\ \A j \in 1..Len(top) : rest[j] = a[j + 1]
    BY <2>2, <2>3, <2>4, HeadTailProperties
  <2>7. \A j \in 1..Len(top) : a[j + 1] = top[j]
    BY <2>2, <2>3
  <2>8. \A j \in 1..Len(top) : rest[j] = h[Len(h) - Len(top) + j]
    <3> SUFFICES ASSUME NEW j \in 1..Len(top)
                 PROVE  rest[j] = h[Len(h) - Len(top) + j]
      OBVIOUS
    <3>1. i + j - 1 = Len(h) - Len(top) + j
      BY <2>1, <1>1
    <3> QED
      BY <3>1, <2>1, <2>6, <2>7
  <2>9. Len(rest) <= Len(h)
    BY <2>1, <2>6, <1>1
  <2> QED
    BY <2>5, <2>6, <2>8, <2>9, SuffixByElements
<1> QED
  BY <1>3, <1>4 DEF EndsIn, StarOver

LEMMA HostAdmitted ==
  ASSUME NEW p \in Policies, NEW host \in DOMAIN Labels \union {NoHost}
  PROVE  ConnectDecision(p, "connect", host) = "allow"
         <=> Admits(p, "connect", HostListed(p, host))
<1>1. ASSUME host # NoHost, NEW allowed \in p.allowed_domains
      PROVE  AdmitsDomain[allowed][host]
             <=> \E i \in 1..Len(Labels[host]) :
                    LET top == SubSeq(Labels[host], i, Len(Labels[host]))
                    IN  Labels[allowed] = <<"*">> \o top \/ (i = 1 /\ Labels[allowed] = top)
  <2>1. allowed \in DOMAIN Labels /\ host \in DOMAIN Labels
    BY <1>1, PoliciesAssumption
  <2>2. /\ Labels[host] \in Seq(STRING) /\ Labels[allowed] \in Seq(STRING)
        /\ Labels[host] # <<>>
    BY <2>1, LabelsAssumption
  <2>4. /\ 1 \in 1..Len(Labels[host])
        /\ SubSeq(Labels[host], 1, Len(Labels[host])) = Labels[host]
    BY <2>2, SubSeqFull
  <2>5. IsStrictPrefix(<<"*">>, Labels[allowed]) /\ IsSuffix(Tail(Labels[allowed]), Labels[host])
        <=> \E i \in 1..Len(Labels[host]) :
               Labels[allowed] = <<"*">> \o SubSeq(Labels[host], i, Len(Labels[host]))
    <3> DEFINE S == STRING \union {"*"}
               one == <<"*">>
               a == Labels[allowed]
               h == Labels[host]
               rest == Tail(a)
    <3>1. STRING \subseteq S /\ "*" \in S
      OBVIOUS
    <3>2. a \in Seq(S) /\ h \in Seq(S)
      BY <3>1, <2>2, SeqMonotonic
    <3>3. one \in Seq(S) /\ Len(one) = 1
      BY <3>1
    <3>4. rest = Tail(a)
      OBVIOUS
    <3> HIDE DEF S, one, a, h, rest
    <3>5. EndsIn(one, a, rest, h) <=> StarOver(one, a, h)
      BY <3>2, <3>3, <3>4, StarIsSuffix
    <3> QED
      BY <3>5, Zenon DEF one, a, h, rest, EndsIn, StarOver
  <2>6. AdmitsDomain[allowed][host]
        <=> \/ Labels[host] = Labels[allowed]
            \/ /\ IsStrictPrefix(<<"*">>, Labels[allowed])
               /\ IsSuffix(Tail(Labels[allowed]), Labels[host])
    BY <2>1, Zenon DEF AdmitsDomain
  <2> QED
    BY <2>4, <2>5, <2>6
<1>2. IsAllowedDomain(p, host) <=> HostListed(p, host) \/ (host = NoHost /\ IsAllowedDomain(p, host))
  <2>1. CASE host = NoHost
    BY <2>1 DEF HostListed
  <2>2. CASE host # NoHost
    BY <1>1, <2>2, Zenon DEF IsAllowedDomain, HostListed
  <2> QED
    BY <2>1, <2>2
<1>3. HostListed(p, host) => host # NoHost
  BY DEF HostListed
<1> QED
  BY <1>2, <1>3 DEF ConnectDecision, Decide, Admits

-----------------------------------------------------------------------------
(* Commands and tool calls.                                                *)

\* A pattern matches where its words are the words from some i to some j.
LEMMA PatternIsPart ==
  ASSUME NEW S, NEW pattern \in Seq(S), NEW command \in Seq(S)
  PROVE  MatchesPattern(pattern, command)
         <=> pattern # <<>> /\ \E i, j \in 1..Len(command) : SubSeq(command, i, j) = pattern
<1>1. Len(command) \in Nat /\ Len(pattern) \in Nat
  OBVIOUS
<1>2. ASSUME NEW i \in 1..Len(command), NEW j \in 1..Len(command)
      PROVE  /\ SubSeq(command, i, j) \in Seq(S)
             /\ Len(SubSeq(command, i, j)) = IF i <= j THEN j - i + 1 ELSE 0
             /\ \A k \in 1..(j - i + 1) : SubSeq(command, i, j)[k] = command[i + k - 1]
  <2>1. i \in Int /\ j \in Int /\ \A k \in i..j : command[k] \in S
    OBVIOUS
  <2> QED
    BY <2>1, SubSeqProperties
<1>3. ASSUME pattern # <<>>, NEW n \in 0..(Len(command) - Len(pattern)),
             \A k \in 1..Len(pattern) : command[n + k] = pattern[k]
      PROVE  \E i, j \in 1..Len(command) : SubSeq(command, i, j) = pattern
  <2> DEFINE i == n + 1
             j == n + Len(pattern)
  <2>1. Len(pattern) >= 1
    BY <1>1, <1>3, EmptySeq
  <2>2. i \in 1..Len(command) /\ j \in 1..Len(command) /\ i <= j /\ j - i + 1 = Len(pattern)
    BY <1>1, <2>1
  <2>3. \A k \in 1..Len(pattern) : i + k - 1 = n + k
    BY <1>1
  <2> HIDE DEF i, j
  <2>4. /\ SubSeq(command, i, j) \in Seq(S) /\ Len(SubSeq(command, i, j)) = Len(pattern)
        /\ \A k \in 1..Len(pattern) : SubSeq(command, i, j)[k] = pattern[k]
    <3>1. \A k \in 1..Len(pattern) : SubSeq(command, i, j)[k] = command[i + k - 1]
      BY <1>2, <2>2
    <3>2. \A k \in 1..Len(pattern) : command[i + k - 1] = pattern[k]
      BY <1>3, <2>3
    <3> QED
      BY <1>2, <2>2, <3>1, <3>2
  <2>5. SubSeq(command, i, j) = pattern
    BY <2>4, SeqEqual
  <2> QED
    BY <2>2, <2>5
<1>4. ASSUME pattern # <<>>, NEW i \in 1..Len(command), NEW j \in 1..Len(command),
             SubSeq(command, i, j) = pattern
      PROVE  \E n \in 0..(Len(command) - Len(pattern)) :
                \A k \in 1..Len(pattern) : command[n + k] = pattern[k]
  <2>1. Len(pattern) >= 1
    BY <1>1, <1>4, EmptySeq
  <2>2. i <= j /\ Len(pattern) = j - i + 1
    BY <1>2, <1>4, <2>1
  <2>3. ASSUME NEW k \in 1..Len(pattern)
        PROVE  command[(i - 1) + k] = pattern[k]
    <3>1. k \in 1..(j - i + 1) /\ (i - 1) + k = i + k - 1
      BY <2>2
    <3> QED
      BY <3>1, <1>2, <1>4
  <2>4. i - 1 \in 0..(Len(command) - Len(pattern))
    BY <1>1, <2>2
  <2> QED
    BY <2>3, <2>4
<1> QED
  BY <1>3, <1>4 DEF MatchesPattern

LEMMA CommandAdmitted ==
  ASSUME PathsMeant(Policies, DOMAIN PathOf), NEW p \in Policies,
         NEW command \in Seq(STRING), Arguments(command) \subseteq DOMAIN PathOf
  PROVE  ShellDecision(p, "shell", command) = "allow" <=> CommandObeys(p, command)
<1>1. ASSUME NEW pattern \in p.blocked_commands
      PROVE  MatchesPattern(pattern, command)
             <=> ~ \A i, j \in 1..Len(command) :
                      SubSeq(command, i, j) = pattern => pattern = <<>>
  <2>1. pattern \in Seq(STRING)
    BY PoliciesAssumption
  <2>2. MatchesPattern(pattern, command)
        <=> pattern # <<>> /\ \E i, j \in 1..Len(command) : SubSeq(command, i, j) = pattern
    BY <2>1, PatternIsPart
  <2> QED
    BY <2>2, Zenon
<1>2. ASSUME NEW i \in 2..Len(command), command[i] \notin Flags
      PROVE  IsProtected(p, command[i]) <=> Kept(p, command[i])
  <2>1. command[i] \in DOMAIN PathOf
    BY <1>2 DEF Arguments
  <2> QED
    BY <2>1 DEF PathsMeant
<1>3. ProtectedArgument(p, command)
      <=> ~ \A i \in 2..Len(command) : command[i] \notin Flags => ~Kept(p, command[i])
  BY <1>2, Zenon DEF ProtectedArgument
<1> DEFINE broken == \/ \E pattern \in p.blocked_commands :
                           \/ <<pattern, command>> \in Globbed
                           \/ MatchesPattern(pattern, command)
                     \/ ProtectedArgument(p, command)
           obeys == /\ \A pattern \in p.blocked_commands :
                         /\ <<pattern, command>> \notin Globbed
                         /\ \A i, j \in 1..Len(command) :
                               SubSeq(command, i, j) = pattern => pattern = <<>>
                    /\ \A i \in 2..Len(command) :
                         command[i] \notin Flags => ~Kept(p, command[i])
<1>4. broken <=> ~obeys
  BY <1>1, <1>3, Zenon
<1>5. ShellDecision(p, "shell", command) = Decide(p, "shell", broken)
  BY DEF ShellDecision
<1>6. CommandObeys(p, command) <=> Admits(p, "shell", obeys)
  BY DEF CommandObeys
<1> HIDE DEF broken, obeys
<1> QED
  BY <1>4, <1>5, <1>6 DEF Decide, Admits

LEMMA PathTyped ==
  ASSUME NEW word \in DOMAIN PathOf
  PROVE  PathOf[word].plain \in Seq(STRING)
  BY PathsAssumption

LEMMA WritableByPrefix ==
  ASSUME policy \in Policies, NEW path \in DOMAIN PathOf
  PROVE  IsWritable(path)
         <=> \E writable \in policy.writable_paths :
                \/ PathOf[path].plain = PathOf[writable].plain
                \/ \E n \in 1..Len(PathOf[path].plain) :
                      SubSeq(PathOf[path].plain, 1, n) = PathOf[writable].plain
<1> DEFINE plain == PathOf[path].plain
<1>1. plain \in Seq(STRING) /\ Len(plain) \in Nat
  BY PathTyped
<1>2. ASSUME NEW writable \in policy.writable_paths
      PROVE  (PathOf[writable].plain # <<>> /\ IsPrefix(PathOf[writable].plain, PathOf[path].plain))
             <=> \E n \in 1..Len(PathOf[path].plain) :
                    SubSeq(PathOf[path].plain, 1, n) = PathOf[writable].plain
  <2> DEFINE top == PathOf[writable].plain
  <2>1. writable \in DOMAIN PathOf
    BY PoliciesAssumption
  <2>2. top \in Seq(STRING) /\ Len(top) \in Nat /\ (top = <<>> <=> Len(top) = 0)
    <3>1. top \in Seq(STRING)
      BY <2>1, PathTyped
    <3> QED
      BY <3>1, EmptySeq
  <2> HIDE DEF top, plain
  <2>3. SubSeq(top, 1, Len(top)) = top
    BY <2>2, SubSeqFull
  <2>4. ASSUME NEW n \in 1..Len(plain)
        PROVE  Len(SubSeq(plain, 1, n)) = n
    <3>1. \A k \in 1..n : plain[k] \in STRING
      BY <1>1
    <3> QED
      BY <3>1, <1>1, SubSeqProperties
  <2>5. ASSUME top # <<>>, IsPrefix(top, plain)
        PROVE  \E n \in 1..Len(plain) : SubSeq(plain, 1, n) = top
    <3>1. Len(top) <= Len(plain) /\ SubSeq(plain, 1, Len(top)) = SubSeq(top, 1, Len(top))
      BY <2>5, Zenon DEF IsPrefix
    <3>2. Len(top) \in 1..Len(plain)
      BY <3>1, <2>2, <2>5, <1>1
    <3>3. SubSeq(plain, 1, Len(top)) = top
      BY <3>1, <2>3
    <3> QED
      BY <3>2, <3>3, Zenon
  <2>6. ASSUME NEW n \in 1..Len(plain), SubSeq(plain, 1, n) = top
        PROVE  top # <<>> /\ IsPrefix(top, plain)
    <3>1. Len(top) = n
      BY <2>4, <2>6
    <3>2. top # <<>>
      BY <2>2, <3>1
    <3> QED
      BY <2>3, <2>6, <3>1, <3>2, <1>1 DEF IsPrefix
  <2> QED
    BY <2>5, <2>6 DEF top, plain
<1> QED
  BY <1>2, Zenon DEF IsWritable

LEMMA DecideTyped ==
  ASSUME NEW p, NEW tool, NEW broken
  PROVE  /\ Decide(p, tool, broken) \in Decisions
         /\ Decide(p, tool, broken) = "allow" <=> tool \notin p.require_approval /\ ~broken
  BY DEF Decide, Decisions

LEMMA ServerAdmitted == ServerDecision = "allow" <=> ServerObeys
<1> DEFINE broken == \/ /\ ServerName # NoName
                        /\ \/ ServerName \in policy.denied_mcp_servers
                           \/ /\ policy.allowed_mcp_servers # {}
                              /\ ServerName \notin policy.allowed_mcp_servers
                     \/ /\ NoName # NoName
                        /\ \/ /\ policy.allowed_mcp_tools # {}
                              /\ NoName \notin policy.allowed_mcp_tools
                           \/ NoName \in policy.denied_mcp_tools
<1>1. broken <=> ~ServerListed
  BY DEF ServerListed, Listed
<1>2. ServerDecision = Decide(policy, "mcp_server", broken)
  BY DEF ServerDecision, McpDecision
<1> HIDE DEF broken
<1> QED
  BY <1>1, <1>2 DEF ServerObeys, Admits, Decide

LEMMA FileAdmitted ==
  ASSUME PathsMeant(Policies, DOMAIN PathOf), policy \in Policies, NEW path \in DOMAIN PathOf
  PROVE  FileDecision(policy, "read_file", path) = "allow" <=> ReadObeys(path)
<1>1. IsProtected(policy, path) <=> Kept(policy, path)
  BY DEF PathsMeant
<1> QED
  BY <1>1, DecideTyped DEF FileDecision, ReadObeys, Admits

LEMMA CallAdmitted ==
  ASSUME PathsMeant(Policies, DOMAIN PathOf), policy \in Policies, NEW body \in Bodies, body.kind = "call"
  PROVE  ToolCallDecision(body) = "allow" <=> CallObeys(body)
<1> DEFINE tool == McpDecision(policy, "mcp_tool", ServerName, body.tool)
           read == FileDecision(policy, "read_file", body.path)
           write == FileDecision(policy, "write_file", body.path)
           shell == ShellDecision(policy, "shell", body.command)
           connect(host) == ConnectDecision(policy, "connect", host)
           refused == {i \in 1..Len(body.hosts) : connect(body.hosts[i]) # "allow"}
           first == connect(body.hosts[Min(refused)])
           reads == body.tool \in ReadTools /\ body.path # NoPath
           writes == body.tool \in WriteTools /\ body.path # NoPath
           outside == policy.writable_paths # {} /\ ~IsWritable(body.path)
           toolObeys == Admits(policy, "mcp_tool",
                          /\ ServerListed
                          /\ Listed(body.tool, policy.allowed_mcp_tools, policy.denied_mcp_tools))
           hostsObey == \A i \in 1..Len(body.hosts) :
                           Admits(policy, "connect", HostListed(policy, body.hosts[i]))
<1>0. /\ body.path \in DOMAIN PathOf \union {NoPath}
      /\ body.command \in Seq(STRING)
      /\ Arguments(body.command) \subseteq DOMAIN PathOf
      /\ body.hosts \in Seq(DOMAIN Labels \union {NoHost})
  BY BodiesAssumption
<1>1. tool = "allow" <=> toolObeys
  <2> DEFINE broken == \/ /\ ServerName # NoName
                          /\ \/ ServerName \in policy.denied_mcp_servers
                             \/ /\ policy.allowed_mcp_servers # {}
                                /\ ServerName \notin policy.allowed_mcp_servers
                       \/ /\ body.tool # NoName
                          /\ \/ /\ policy.allowed_mcp_tools # {}
                                /\ body.tool \notin policy.allowed_mcp_tools
                             \/ body.tool \in policy.denied_mcp_tools
             listed == ServerListed
                       /\ Listed(body.tool, policy.allowed_mcp_tools, policy.denied_mcp_tools)
  <2>1. broken <=> ~listed
    BY DEF ServerListed, Listed
  <2>2. tool = Decide(policy, "mcp_tool", broken)
    BY DEF McpDecision
  <2>3. toolObeys <=> Admits(policy, "mcp_tool", listed)
    OBVIOUS
  <2> HIDE DEF tool, toolObeys, broken, listed
  <2> QED
    BY <2>1, <2>2, <2>3 DEF Admits, Decide
<1>2. ASSUME body.path # NoPath
      PROVE  /\ read = "allow" <=> ReadObeys(body.path)
             /\ write = "allow" /\ ~outside <=> WriteObeys(body.path)
  <2>1. body.path \in DOMAIN PathOf
    BY <1>0, <1>2
  <2>2. IsProtected(policy, body.path) <=> Kept(policy, body.path)
    BY <2>1 DEF PathsMeant
  <2>3. read = "allow" <=> ReadObeys(body.path)
    BY <2>1, FileAdmitted
  <2>4. write = "allow" <=> Admits(policy, "write_file", ~Kept(policy, body.path))
    BY <2>2 DEF FileDecision, Decide, Admits
  <2>5. ~outside <=>
           (policy.writable_paths # {} =>
              \E writable \in policy.writable_paths :
                 \/ PathOf[body.path].plain = PathOf[writable].plain
                 \/ \E n \in 1..Len(PathOf[body.path].plain) :
                       SubSeq(PathOf[body.path].plain, 1, n) = PathOf[writable].plain)
    BY <2>1, WritableByPrefix
  <2> HIDE DEF read, write, outside
  <2> QED
    BY <2>3, <2>4, <2>5, Zenon DEF WriteObeys, Admits
<1>3. shell = "allow" <=> CommandObeys(policy, body.command)
  BY <1>0, CommandAdmitted
<1>4. ASSUME NEW i \in 1..Len(body.hosts)
      PROVE  connect(body.hosts[i]) = "allow"
             <=> Admits(policy, "connect", HostListed(policy, body.hosts[i]))
  <2>1. body.hosts[i] \in DOMAIN Labels \union {NoHost}
    BY <1>0
  <2> QED
    BY <2>1, HostAdmitted
<1>5. refused = {} <=> hostsObey
  BY <1>4, Zenon
<1>6. refused # {} => first # "allow"
  <2> SUFFICES ASSUME refused # {} PROVE first # "allow"
    OBVIOUS
  <2>1. refused \subseteq Nat
    BY <1>0
  <2> HIDE DEF refused
  <2>2. Min(refused) \in refused
    BY <2>1, LeastNat, Zenon DEF Min
  <2> QED
    BY <2>2 DEF refused
<1>7. ToolCallDecision(body) =
        IF tool # "allow" THEN tool
        ELSE IF reads /\ read # "allow" THEN read
        ELSE IF writes /\ write # "allow" THEN write
        ELSE IF writes /\ outside THEN "block"
        ELSE IF body.command # <<>> /\ shell # "allow" THEN shell
        ELSE IF refused # {} THEN first ELSE "allow"
  BY Zenon DEF ToolCallDecision
<1>8. CallObeys(body) <=>
        /\ toolObeys
        /\ reads => ReadObeys(body.path)
        /\ writes => WriteObeys(body.path)
        /\ body.command # <<>> => CommandObeys(policy, body.command)
        /\ hostsObey
  BY Zenon DEF CallObeys
<1>9. (reads => body.path # NoPath) /\ (writes => body.path # NoPath)
  OBVIOUS
<1> HIDE DEF tool, read, write, shell, refused, first, reads, writes, outside, toolObeys, hostsObey
<1> QED
  BY <1>1, <1>2, <1>3, <1>5, <1>6, <1>7, <1>8, <1>9

\* A line is forwarded exactly if it obeys the policy.
LEMMA ForwardObeys ==
  ASSUME PathsMeant(Policies, DOMAIN PathOf), policy \in Policies, NEW body \in Bodies
  PROVE  Outcome(body) = "forward" <=> Obeys(body)
<1>1. ServerDecision = "allow" <=> ServerObeys
  BY ServerAdmitted
<1>2. CASE body.kind \in Unchecked \union {"other", "value", "badcall"}
  BY <1>2 DEF Outcome, Obeys, Unchecked
<1>3. CASE body.kind \in {"list", "sampling"}
  BY <1>3, <1>1 DEF Outcome, Obeys, Unchecked, OwnDecision
<1>4. CASE body.kind = "read"
  <2>1. OwnDecision(body) = FileDecision(policy, "read_file", body.path)
    BY <1>4 DEF OwnDecision
  <2>2. OwnDecision(body) = "allow" <=> ReadObeys(body.path)
    BY <1>4, <2>1, BodiesAssumption, FileAdmitted
  <2> QED
    BY <1>1, <1>4, <2>2 DEF Outcome, Obeys, Unchecked
<1>5. CASE body.kind = "call"
  <2>1. OwnDecision(body) = ToolCallDecision(body)
    BY <1>5 DEF OwnDecision
  <2>2. OwnDecision(body) = "allow" <=> CallObeys(body)
    BY <1>5, <2>1, CallAdmitted
  <2> QED
    BY <1>1, <1>5, <2>2 DEF Outcome, Obeys, Unchecked
<1> QED
  BY <1>2, <1>3, <1>4, <1>5, BodiesAssumption DEF Checked

-----------------------------------------------------------------------------
(* Types.                                                                  *)

LEMMA OwnDecisionTyped ==
  ASSUME NEW body \in Bodies, body.kind \in Checked \ {"badcall"}
  PROVE  OwnDecision(body) \in Decisions
<1>1. CASE body.kind \in {"list", "sampling"}
  BY <1>1 DEF OwnDecision, Decisions
<1>2. CASE body.kind = "read"
  BY <1>2, DecideTyped DEF OwnDecision, FileDecision
<1>3. CASE body.kind = "call"
  <2>1. OwnDecision(body) = ToolCallDecision(body)
    BY <1>3 DEF OwnDecision
  <2>2. /\ McpDecision(policy, "mcp_tool", ServerName, body.tool) \in Decisions
        /\ FileDecision(policy, "read_file", body.path) \in Decisions
        /\ FileDecision(policy, "write_file", body.path) \in Decisions
        /\ ShellDecision(policy, "shell", body.command) \in Decisions
        /\ \A host : ConnectDecision(policy, "connect", host) \in Decisions
    BY DecideTyped DEF McpDecision, FileDecision, ShellDecision, ConnectDecision
  <2> QED
    BY <2>1, <2>2, Zenon DEF ToolCallDecision, Decisions
<1> QED
  BY <1>1, <1>2, <1>3 DEF Checked

LEMMA RecordsTyped ==
  ASSUME NEW N, NEW n \in N, sent[n] \in Bodies
  PROVE  Records(n) \in Seq(AuditRecords(N))
<1>1. ServerDecision \in Decisions
  BY DecideTyped DEF ServerDecision, McpDecision
<1>2. CASE sent[n].kind \in Unchecked \union {"value"}
  BY <1>2 DEF Records
<1>3. CASE sent[n].kind = "other"
  <2>1. Record(n, "other", "allow") \in AuditRecords(N)
    BY DEF Record, AuditRecords, Decisions
  <2> QED
    BY <1>3, <2>1 DEF Records, Unchecked
<1>4. CASE sent[n].kind \in Checked
  <2>1. Record(n, "mcp_server", ServerDecision) \in AuditRecords(N)
    BY <1>1 DEF Record, AuditRecords
  <2>2. ASSUME sent[n].kind # "badcall"
        PROVE  Record(n, sent[n].kind, OwnDecision(sent[n])) \in AuditRecords(N)
    <3>1. OwnDecision(sent[n]) \in Decisions
      BY <1>4, <2>2, OwnDecisionTyped
    <3>2. sent[n].kind \in {"list", "sampling", "read", "call"}
      BY <1>4, <2>2 DEF Checked
    <3> QED
      BY <3>1, <3>2 DEF Record, AuditRecords
  <2>3. Records(n) = <<Record(n, "mcp_server", ServerDecision)>>
             \o (IF ServerDecision # "allow" \/ sent[n].kind = "badcall" THEN <<>>
                 ELSE <<Record(n, sent[n].kind, OwnDecision(sent[n]))>>)
    BY <1>4 DEF Records, Checked, Unchecked
  <2> QED
    BY <2>1, <2>2, <2>3
<1> QED
  BY <1>2, <1>3, <1>4, BodiesAssumption

LEMMA Monotonic ==
  ASSUME NEW m \in Nat, NEW n \in Nat, m <= n
  PROVE  /\ \A s \in Seq(1..m) : s \in Seq(1..n)
         /\ \A P, s : s \in [pc : P, line : 0..m] => s \in [pc : P, line : 0..n]
         /\ \A s \in Seq([line : 1..m, size : {"line", "large"}]) :
               s \in Seq([line : 1..n, size : {"line", "large"}])
         /\ \A s \in Seq([from : {"proxy", "server"}, line : 1..m]) :
               s \in Seq([from : {"proxy", "server"}, line : 1..n])
         /\ \A s \in Seq(AuditRecords(1..m)) : s \in Seq(AuditRecords(1..n))
<1>1. 1..m \subseteq 1..n /\ 0..m \subseteq 0..n
  OBVIOUS
<1>2. /\ [line : 1..m, size : {"line", "large"}] \subseteq [line : 1..n, size : {"line", "large"}]
      /\ [from : {"proxy", "server"}, line : 1..m] \subseteq [from : {"proxy", "server"}, line : 1..n]
      /\ AuditRecords(1..m) \subseteq AuditRecords(1..n)
  BY <1>1 DEF AuditRecords
<1>3. \A P, s : s \in [pc : P, line : 0..m] => s \in [pc : P, line : 0..n]
  BY <1>1
<1> HIDE DEF AuditRecords
<1> QED
  BY <1>1, <1>2, <1>3, SeqMonotonic

\* A coroutine that works on a line has one.
Placed ==
    /\ c2s.pc \in {"check", "drain", "respond", "thread_respond"} => c2s.line > 0
    /\ s2c.pc \in {"write", "thread_write"} => s2c.line > 0

ReadPC == {"read", "check", "drain", "respond", "close", "done", "failed"}
ThreadPC == {"thread_read", "thread_respond", "done", "failed"}
ReplyPC == {"read", "write", "done", "failed"}
ReplyThreadPC == {"thread_write", "done", "failed"}

LEMMA Places ==
  /\ Looping => ClientPlaces = ReadPC /\ ServerPlaces = ReplyPC
  /\ ~Looping => ClientPlaces = ThreadPC /\ ServerPlaces = ReplyThreadPC
  /\ Looping' => ClientPlaces' = ReadPC /\ ServerPlaces' = ReplyPC
  /\ ~Looping' => ClientPlaces' = ThreadPC /\ ServerPlaces' = ReplyThreadPC
  BY DEF ClientPlaces, ServerPlaces, ReadPC, ThreadPC, ReplyPC, ReplyThreadPC

\* Where the coroutines are, as long as the loop runs and behind it.
LEMMA CoroutinesAt ==
  ASSUME CoroutinesTyped
  PROVE  /\ Looping => c2s \in [pc : ReadPC, line : 0..taken] /\ s2c \in [pc : ReplyPC, line : 0..taken]
         /\ ~Looping => c2s \in [pc : ThreadPC, line : 0..taken] /\ s2c \in [pc : ReplyThreadPC, line : 0..taken]
  BY Places DEF CoroutinesTyped

LEMMA CoroutinesStay ==
  ASSUME CoroutinesTyped, UNCHANGED <<c2s, s2c, taken>>, Looping' = Looping
  PROVE  CoroutinesTyped'
  BY DEF CoroutinesTyped, ClientPlaces, ServerPlaces

LEMMA LoopingCoroutines ==
  ASSUME Looping', c2s' \in [pc : ReadPC, line : 0..taken'], s2c' \in [pc : ReplyPC, line : 0..taken']
  PROVE  CoroutinesTyped'
  BY Places DEF CoroutinesTyped

LEMMA ThreadCoroutines ==
  ASSUME ~Looping', c2s' \in [pc : ThreadPC, line : 0..taken'], s2c' \in [pc : ReplyThreadPC, line : 0..taken']
  PROVE  CoroutinesTyped'
  BY Places DEF CoroutinesTyped

LEMMA LineTyped ==
  ASSUME TypeOK
  PROVE  c2s.line \in 0..taken /\ s2c.line \in 0..taken /\ taken \in Nat
  BY DEF TypeOK, CoroutinesTyped

LEMMA LinesStay ==
  ASSUME TypeOK, taken' \in Nat, taken <= taken',
         UNCHANGED <<toServer, served, wrote, relayed, toClient, audit>>
  PROVE  LinesTyped'
<1>1. taken \in Nat
  BY DEF TypeOK
<1> QED
  BY <1>1, Monotonic DEF TypeOK, LinesTyped

LEMMA TypeInit == Init => TypeOK /\ Placed
<1> SUFFICES ASSUME Init PROVE TypeOK /\ Placed
  OBVIOUS
<1>1. 0 <= MaxLines
  BY BodiesAssumption
<1>2. /\ Looping /\ taken = 0 /\ relayed = 0 /\ main = "gather"
      /\ sent = <<>> /\ toServer = <<>> /\ served = <<>> /\ wrote = <<>>
      /\ toClient = <<>> /\ audit = <<>>
  BY DEF Init, Looping
<1>3. CoroutinesTyped /\ Placed
  BY <1>2 DEF Init, CoroutinesTyped, ClientPlaces, ServerPlaces, Placed
<1>4. LinesTyped
  BY <1>2 DEF LinesTyped
<1>5. sent \in Seq(Bodies) /\ taken \in 0..Len(sent) /\ Len(sent) <= MaxLines
  BY <1>1, <1>2
<1> QED
  BY <1>2, <1>3, <1>4, <1>5 DEF TypeOK, Init

LEMMA TypeEnvironment ==
  TypeOK /\ Placed /\ (ClientSends \/ ClientCloses \/ Server \/ ServerCrashes) => TypeOK' /\ Placed'
<1> SUFFICES ASSUME TypeOK, Placed, ClientSends \/ ClientCloses \/ Server \/ ServerCrashes
             PROVE  TypeOK' /\ Placed'
  OBVIOUS
<1>1. UNCHANGED <<policy, taken, c2s, s2c, main, relayed, toClient, audit>>
  BY DEF ClientSends, ClientCloses, Server, ServerServes, ServerExits, ServerCrashes, pipes, environment
<1>2. CoroutinesTyped' /\ Placed' /\ taken \in Nat
  BY <1>1, CoroutinesStay DEF TypeOK, Looping, Placed
<1>3. CASE ClientSends
  <2>1. PICK body \in Bodies : sent' = Append(sent, body)
    BY <1>3 DEF ClientSends
  <2>2. sent' \in Seq(Bodies) /\ Len(sent') = Len(sent) + 1 /\ Len(sent) \in Nat
    BY <2>1 DEF TypeOK
  <2>3. Len(sent') <= MaxLines /\ taken' \in 0..Len(sent')
    BY <1>1, <1>3, <2>2, BodiesAssumption DEF ClientSends, TypeOK
  <2>4. LinesTyped'
    BY <1>1, <1>2, <1>3, LinesStay DEF ClientSends, pipes
  <2> QED
    BY <1>1, <1>2, <1>3, <2>2, <2>3, <2>4 DEF ClientSends, pipes, TypeOK
<1>4. CASE ServerServes
  <2>1. /\ Head(toServer) \in 1..taken /\ Tail(toServer) \in Seq(1..taken)
        /\ Append(served, Head(toServer)) \in Seq(1..taken)
    BY <1>4 DEF ServerServes, TypeOK, LinesTyped
  <2>2. wrote' \in Seq([line : 1..taken, size : {"line", "large"}]) /\ Len(wrote') >= Len(wrote)
    <3>1. CASE UNCHANGED wrote
      BY <3>1 DEF TypeOK, LinesTyped
    <3>2. CASE \E size \in {"line"} \union (Faults \intersect {"large"}) :
                  wrote' = Append(wrote, [line |-> Head(toServer), size |-> size])
      <4>1. PICK size \in {"line"} \union (Faults \intersect {"large"}) :
                  wrote' = Append(wrote, [line |-> Head(toServer), size |-> size])
        BY <3>2
      <4>2. [line |-> Head(toServer), size |-> size] \in [line : 1..taken, size : {"line", "large"}]
        BY <2>1
      <4> QED
        BY <4>1, <4>2, AppendProperties DEF TypeOK, LinesTyped
    <3> QED
      BY <1>4, <3>1, <3>2 DEF ServerServes
  <2>3. relayed \in 0..Len(wrote')
    BY <2>2 DEF TypeOK, LinesTyped
  <2>4. LinesTyped'
    BY <1>1, <1>4, <2>1, <2>2, <2>3 DEF ServerServes, TypeOK, LinesTyped
  <2> QED
    BY <1>1, <1>2, <1>4, <2>4 DEF ServerServes, environment, TypeOK
<1>5. CASE ClientCloses \/ ServerExits \/ ServerCrashes
  <2>1. LinesTyped'
    BY <1>1, <1>2, <1>5, LinesStay DEF ClientCloses, ServerExits, ServerCrashes, pipes
  <2> QED
    BY <1>1, <1>2, <1>5, <2>1 DEF ClientCloses, ServerExits, ServerCrashes, pipes, environment, TypeOK
<1> QED
  BY <1>3, <1>4, <1>5 DEF Server

\* What check_client_message writes and where the coroutine goes behind it.
LEMMA CheckFacts ==
  ASSUME TypeOK, Placed, CheckLine
  PROVE  /\ c2s.line \in 1..taken /\ sent[c2s.line] \in Bodies
         /\ \E k \in 0..Len(Records(c2s.line)), outcome \in {"forward", "refuse", "raise"} :
               /\ audit' = audit \o SubSeq(Records(c2s.line), 1, k)
               /\ c2s' = [c2s EXCEPT !.pc = After(outcome)]
               /\ \/ /\ k = Len(Records(c2s.line)) /\ outcome = Outcome(sent[c2s.line])
                     /\ toServer' = IF outcome = "forward" THEN Forwarded(c2s.line) ELSE toServer
                  \/ outcome = "raise" /\ UNCHANGED toServer
<1>1. c2s.line \in 1..taken /\ sent[c2s.line] \in Bodies
  <2>1. c2s.line \in 0..taken /\ taken \in 0..Len(sent)
    BY LineTyped DEF TypeOK
  <2> QED
    BY <2>1 DEF CheckLine, TypeOK, Placed
<1>2. Records(c2s.line) \in Seq(AuditRecords(1..taken))
  BY <1>1, RecordsTyped
<1>3. Outcome(sent[c2s.line]) \in {"forward", "refuse", "raise"}
  BY DEF Outcome
<1> DEFINE records == Records(c2s.line)
<1>4. /\ Len(records) \in 0..Len(records)
      /\ \A k \in 0..(Len(records) - 1) : k \in 0..Len(records)
  <2>1. Len(records) \in Nat
    BY <1>2
  <2> HIDE DEF records
  <2> QED
    BY <2>1
<1>5. CASE /\ audit' = audit \o SubSeq(records, 1, Len(records))
           /\ c2s' = [c2s EXCEPT !.pc = After(Outcome(sent[c2s.line]))]
           /\ toServer' = IF Outcome(sent[c2s.line]) = "forward" THEN Forwarded(c2s.line) ELSE toServer
  BY <1>1, <1>3, <1>4, <1>5, Zenon
<1>6. CASE /\ \E k \in 0..(Len(records) - 1) : audit' = audit \o SubSeq(records, 1, k)
           /\ c2s' = [c2s EXCEPT !.pc = After("raise")]
           /\ UNCHANGED toServer
  BY <1>1, <1>4, <1>6, Zenon
<1> QED
  BY <1>5, <1>6, Zenon DEF CheckLine

\* A part of the records joins the audit log.
LEMMA LoggedTyped ==
  ASSUME NEW S, NEW log \in Seq(S), NEW records \in Seq(S), NEW k \in 0..Len(records)
  PROVE  /\ log \o SubSeq(records, 1, k) \in Seq(S)
         /\ Len(log \o SubSeq(records, 1, k)) = Len(log) + k
         /\ \A i \in 1..Len(log) : (log \o SubSeq(records, 1, k))[i] = log[i]
         /\ \A i \in 1..k : (log \o SubSeq(records, 1, k))[Len(log) + i] = records[i]
<1> DEFINE part == SubSeq(records, 1, k)
<1>1. k \in Nat /\ \A i \in 1..k : records[i] \in S
  OBVIOUS
<1>2. /\ part \in Seq(S) /\ Len(part) = k
      /\ \A i \in 1..k : part[i] = records[i]
  BY <1>1, SubSeqProperties
<1> HIDE DEF part
<1>3. /\ log \o part \in Seq(S) /\ Len(log \o part) = Len(log) + k
      /\ \A i \in 1..(Len(log) + k) :
            (log \o part)[i] = IF i <= Len(log) THEN log[i] ELSE part[i - Len(log)]
  BY <1>2, ConcatProperties
<1>4. Len(log) \in Nat
  OBVIOUS
<1>5. ASSUME NEW i \in 1..k
      PROVE  (log \o part)[Len(log) + i] = records[i]
  <2>1. /\ Len(log) + i \in 1..(Len(log) + k) /\ ~(Len(log) + i <= Len(log))
        /\ Len(log) + i - Len(log) = i
    BY <1>1, <1>4
  <2> QED
    BY <1>2, <1>3, <2>1
<1>6. \A i \in 1..Len(log) : (log \o part)[i] = log[i]
  BY <1>1, <1>3, <1>4
<1> QED
  BY <1>3, <1>5, <1>6 DEF part

LEMMA TypeReadLine == TypeOK /\ Placed /\ ReadLine => TypeOK' /\ Placed'
<1> SUFFICES ASSUME TypeOK, Placed, ReadLine PROVE TypeOK' /\ Placed'
  OBVIOUS
<1>1. UNCHANGED <<policy, sent, client, s2c, main, toServer, stdinOpen, served, server,
                  sigterm, wrote, relayed, toClient, audit>>
  BY DEF ReadLine, environment, pipes
<1>2. Looping /\ Looping' /\ taken \in 0..Len(sent)
  BY <1>1 DEF ReadLine, Looping, TypeOK
<1>3. c2s \in [pc : ReadPC, line : 0..taken] /\ s2c \in [pc : ReplyPC, line : 0..taken]
  BY <1>2, CoroutinesAt DEF TypeOK
<1>4. /\ taken' \in 0..Len(sent) /\ taken <= taken'
      /\ c2s' \in [pc : ReadPC, line : 0..taken']
      /\ c2s'.pc = "check" => c2s'.line > 0
      /\ c2s'.pc \in {"check", "close"}
  BY <1>2, <1>3 DEF ReadLine, ReadPC
<1>5. s2c' \in [pc : ReplyPC, line : 0..taken']
  BY <1>1, <1>2, <1>3, <1>4, Monotonic
<1>6. LinesTyped' /\ CoroutinesTyped'
  BY <1>1, <1>2, <1>4, <1>5, LinesStay, LoopingCoroutines
<1>7. Placed'
  BY <1>1, <1>4 DEF Placed
<1> QED
  BY <1>1, <1>4, <1>6, <1>7 DEF TypeOK

LEMMA TypeCheckLine == TypeOK /\ Placed /\ CheckLine => TypeOK' /\ Placed'
<1> SUFFICES ASSUME TypeOK, Placed, CheckLine PROVE TypeOK' /\ Placed'
  OBVIOUS
<1> DEFINE n == c2s.line
<1>1. UNCHANGED <<policy, sent, client, taken, s2c, main, stdinOpen, served, server,
                  sigterm, wrote, relayed, toClient>>
  BY DEF CheckLine, environment
<1>2. Looping /\ Looping'
  BY <1>1 DEF CheckLine, Looping
<1>3. c2s \in [pc : ReadPC, line : 0..taken] /\ s2c \in [pc : ReplyPC, line : 0..taken]
  BY <1>2, CoroutinesAt DEF TypeOK
<1>4. n \in 1..taken /\ sent[n] \in Bodies
  BY CheckFacts
<1>5. PICK k \in 0..Len(Records(n)), outcome \in {"forward", "refuse", "raise"} :
             /\ audit' = audit \o SubSeq(Records(n), 1, k)
             /\ c2s' = [c2s EXCEPT !.pc = After(outcome)]
             /\ toServer' \in {Forwarded(n), toServer}
  BY CheckFacts, Zenon
<1>6. After(outcome) \in ReadPC
  BY DEF After, ReadPC
<1>7. c2s' \in [pc : ReadPC, line : 0..taken] /\ c2s'.line = c2s.line
  BY <1>3, <1>5, <1>6
<1>8. toServer \in Seq(1..taken) /\ audit \in Seq(AuditRecords(1..taken))
  BY DEF TypeOK, LinesTyped
<1>9. toServer' \in Seq(1..taken)
  <2>1. Append(toServer, n) \in Seq(1..taken)
    BY <1>4, <1>8, AppendProperties
  <2> QED
    BY <1>5, <1>8, <2>1 DEF Forwarded
<1>10. audit' \in Seq(AuditRecords(1..taken))
  <2>1. Records(n) \in Seq(AuditRecords(1..taken))
    BY <1>4, RecordsTyped
  <2> HIDE DEF n
  <2> QED
    BY <1>5, <1>8, <2>1, LoggedTyped
<1> HIDE DEF n
<1>11. LinesTyped'
  BY <1>1, <1>9, <1>10 DEF TypeOK, LinesTyped
<1>12. CoroutinesTyped'
  BY <1>1, <1>2, <1>3, <1>7, LoopingCoroutines
<1>13. Placed'
  BY <1>1, <1>4, <1>7 DEF Placed, n
<1> QED
  BY <1>1, <1>11, <1>12, <1>13 DEF TypeOK

LEMMA TypeClientToServer ==
  TypeOK /\ Placed /\ ClientToServer => TypeOK' /\ Placed'
<1> SUFFICES ASSUME TypeOK, Placed, ClientToServer
             PROVE  TypeOK' /\ Placed'
  OBVIOUS
<1>1. CASE Drain \/ Respond \/ CloseServer
  <2>1. UNCHANGED <<policy, sent, client, taken, s2c, main, toServer, served, server,
                    sigterm, wrote, relayed, audit>> /\ stdinOpen' \in {stdinOpen, FALSE}
    BY <1>1 DEF Drain, Respond, CloseServer, environment, pipes
  <2>2. Looping /\ Looping' /\ taken \in Nat
    BY <1>1, <2>1 DEF Drain, Respond, CloseServer, Looping, TypeOK
  <2>3. c2s \in [pc : ReadPC, line : 0..taken] /\ s2c \in [pc : ReplyPC, line : 0..taken]
    BY <2>2, CoroutinesAt DEF TypeOK
  <2>4. c2s' \in [pc : ReadPC, line : 0..taken] /\ c2s'.pc \in {"read", "done", "failed"}
    BY <1>1, <2>3 DEF Drain, Respond, CloseServer, ReadPC
  <2>5. CoroutinesTyped' /\ Placed'
    BY <2>1, <2>2, <2>3, <2>4, LoopingCoroutines DEF Placed
  <2>6. toClient \in Seq([from : {"proxy", "server"}, line : 1..taken])
    BY DEF TypeOK, LinesTyped
  <2>7. toClient' \in Seq([from : {"proxy", "server"}, line : 1..taken])
    <3>1. CASE Respond
      <4>1. Message("proxy", c2s.line) \in [from : {"proxy", "server"}, line : 1..taken]
        BY <2>3, <3>1 DEF Respond, Message, Placed
      <4>2. Append(toClient, Message("proxy", c2s.line)) \in Seq([from : {"proxy", "server"}, line : 1..taken])
        BY <2>6, <4>1, AppendProperties
      <4> QED
        BY <2>6, <3>1, <4>2 DEF Respond
    <3> QED
      BY <1>1, <2>6, <3>1 DEF Drain, CloseServer
  <2>8. LinesTyped'
    BY <2>1, <2>7 DEF TypeOK, LinesTyped
  <2> QED
    BY <2>1, <2>5, <2>8 DEF TypeOK
<1> QED
  BY <1>1, TypeReadLine, TypeCheckLine DEF ClientToServer

LEMMA TypeServerToClient ==
  TypeOK /\ Placed /\ ServerToClient => TypeOK' /\ Placed'
<1> SUFFICES ASSUME TypeOK, Placed, ServerToClient
             PROVE  TypeOK' /\ Placed'
  OBVIOUS
<1>1. UNCHANGED <<policy, sent, client, taken, c2s, main, toServer, stdinOpen, served,
                  server, sigterm, wrote, audit>>
  BY DEF ServerToClient, ReadReply, WriteReply, environment, pipes
<1>2. Looping /\ Looping' /\ taken \in Nat
  BY <1>1 DEF ServerToClient, ReadReply, WriteReply, Looping, TypeOK
<1>3. c2s \in [pc : ReadPC, line : 0..taken] /\ s2c \in [pc : ReplyPC, line : 0..taken]
  BY <1>2, CoroutinesAt DEF TypeOK
<1>4. /\ wrote \in Seq([line : 1..taken, size : {"line", "large"}]) /\ relayed \in 0..Len(wrote)
      /\ toClient \in Seq([from : {"proxy", "server"}, line : 1..taken])
  BY DEF TypeOK, LinesTyped
<1>5. /\ s2c' \in [pc : ReplyPC, line : 0..taken] /\ relayed' \in 0..Len(wrote)
      /\ s2c'.pc = "write" => s2c'.line > 0
      /\ toClient' \in Seq([from : {"proxy", "server"}, line : 1..taken])
  <2>1. CASE ReadReply
    <3>1. CASE relayed < Len(wrote)
      <4>1. relayed + 1 \in 1..Len(wrote) /\ wrote[relayed + 1] \in [line : 1..taken, size : {"line", "large"}]
        <5>1. relayed + 1 \in 1..Len(wrote)
          BY <1>4, <3>1
        <5> QED
          BY <1>4, <5>1, ElementOfSeq
      <4>2. /\ s2c' = [pc |-> IF wrote[relayed + 1].size = "large" THEN "failed" ELSE "write",
                       line |-> wrote[relayed + 1].line]
            /\ relayed' = relayed + 1 /\ toClient' = toClient
        BY <2>1, <3>1 DEF ReadReply
      <4>3. wrote[relayed + 1].line \in 1..taken
        BY <4>1
      <4>4. s2c' \in [pc : ReplyPC, line : 0..taken] /\ s2c'.line > 0
        BY <4>2, <4>3 DEF ReplyPC
      <4> QED
        BY <1>4, <4>1, <4>2, <4>4
    <3>2. CASE s2c' = [s2c EXCEPT !.pc = "done"] /\ UNCHANGED relayed
      BY <1>3, <1>4, <2>1, <3>2 DEF ReadReply, ReplyPC
    <3> QED
      BY <2>1, <3>1, <3>2 DEF ReadReply
  <2>2. CASE WriteReply
    <3>1. Message("server", s2c.line) \in [from : {"proxy", "server"}, line : 1..taken]
      BY <1>3, <2>2 DEF WriteReply, Message, Placed
    <3>2. Append(toClient, Message("server", s2c.line)) \in Seq([from : {"proxy", "server"}, line : 1..taken])
      BY <1>4, <3>1, AppendProperties
    <3>3. s2c' \in [pc : ReplyPC, line : 0..taken] /\ s2c'.pc # "write"
      BY <1>3, <2>2 DEF WriteReply, ReplyPC
    <3> QED
      BY <1>4, <2>2, <3>2, <3>3 DEF WriteReply, pipes
  <2> QED
    BY <2>1, <2>2 DEF ServerToClient
<1>6. CoroutinesTyped' /\ Placed'
  BY <1>1, <1>2, <1>3, <1>5, LoopingCoroutines DEF Placed, ReplyPC
<1>7. LinesTyped'
  BY <1>1, <1>5 DEF TypeOK, LinesTyped
<1> QED
  BY <1>1, <1>6, <1>7 DEF TypeOK

LEMMA TypeCancel == TypeOK /\ Placed /\ Cancel => TypeOK' /\ Placed'
<1> SUFFICES ASSUME TypeOK, Placed, Cancel PROVE TypeOK' /\ Placed'
  OBVIOUS
<1>1. UNCHANGED <<policy, sent, client, taken, toServer, stdinOpen, served, server,
                  sigterm, wrote, relayed, toClient, audit>>
  BY DEF Cancel, environment, pipes
<1>2. Looping /\ ~Looping' /\ main' = "join" /\ taken \in Nat
  BY DEF Cancel, Looping, TypeOK
<1>3. c2s \in [pc : ReadPC, line : 0..taken] /\ s2c \in [pc : ReplyPC, line : 0..taken]
  BY <1>2, CoroutinesAt DEF TypeOK
<1>4. /\ c2s' \in [pc : ThreadPC, line : 0..taken] /\ c2s'.line = c2s.line
      /\ c2s'.pc = "thread_respond" => c2s.pc = "respond"
      /\ c2s'.pc \notin {"check", "drain", "respond"}
  BY <1>3 DEF Cancel, Cancelled, ReadPC, ThreadPC, ThreadOf
<1>5. /\ s2c' \in [pc : ReplyThreadPC, line : 0..taken] /\ s2c'.line = s2c.line
      /\ s2c'.pc = "thread_write" => s2c.pc = "write"
      /\ s2c'.pc # "write"
  BY <1>3 DEF Cancel, Cancelled, ReplyPC, ReplyThreadPC, ThreadOf
<1>6. CoroutinesTyped' /\ Placed'
  BY <1>1, <1>2, <1>4, <1>5, ThreadCoroutines DEF Placed
<1>7. LinesTyped'
  BY <1>1, <1>2, LinesStay
<1> QED
  BY <1>1, <1>2, <1>6, <1>7 DEF TypeOK

LEMMA TypeThreadEnds == TypeOK /\ Placed /\ ThreadEnds => TypeOK' /\ Placed'
<1> SUFFICES ASSUME TypeOK, Placed, ThreadEnds PROVE TypeOK' /\ Placed'
  OBVIOUS
<1>1. UNCHANGED <<policy, sent, client, main, toServer, stdinOpen, served, server,
                  sigterm, wrote, relayed, audit>>
  BY DEF ThreadEnds, environment, pipes
<1>2. ~Looping /\ ~Looping' /\ taken \in 0..Len(sent)
  <2>1. ~Looping
    BY CoroutinesAt DEF TypeOK, ThreadEnds, ReadPC, ReplyPC
  <2> QED
    BY <1>1, <2>1 DEF Looping, TypeOK
<1>3. c2s \in [pc : ThreadPC, line : 0..taken] /\ s2c \in [pc : ReplyThreadPC, line : 0..taken]
  BY <1>2, CoroutinesAt DEF TypeOK
<1>4. toClient \in Seq([from : {"proxy", "server"}, line : 1..taken])
  BY DEF TypeOK, LinesTyped
<1>5. /\ taken' \in 0..Len(sent) /\ taken' \in Nat /\ taken <= taken'
      /\ c2s' \in [pc : ThreadPC, line : 0..taken] /\ c2s'.pc \in {"done", c2s.pc} /\ c2s'.line = c2s.line
      /\ s2c' \in [pc : ReplyThreadPC, line : 0..taken] /\ s2c'.pc \in {"done", s2c.pc} /\ s2c'.line = s2c.line
  BY <1>2, <1>3 DEF ThreadEnds, ThreadPC, ReplyThreadPC
<1>6. CoroutinesTyped' /\ Placed'
  <2>1. c2s' \in [pc : ThreadPC, line : 0..taken'] /\ s2c' \in [pc : ReplyThreadPC, line : 0..taken']
    BY <1>2, <1>5, Monotonic
  <2> QED
    BY <1>2, <1>5, <2>1, ThreadCoroutines DEF Placed
<1>7. LinesTyped'
  <2>1. CASE UNCHANGED toClient
    BY <1>1, <1>2, <1>5, <2>1, LinesStay
  <2>2. CASE toClient' # toClient
    <3>1. taken' = taken /\ toClient' \in Seq([from : {"proxy", "server"}, line : 1..taken])
      <4>1. CASE c2s.pc = "thread_respond" /\ UNCHANGED taken /\ toClient' = Append(toClient, Message("proxy", c2s.line))
        <5>1. Message("proxy", c2s.line) \in [from : {"proxy", "server"}, line : 1..taken]
          BY <1>3, <4>1 DEF Message, Placed
        <5> QED
          BY <1>4, <4>1, <5>1
      <4>2. CASE s2c.pc = "thread_write" /\ UNCHANGED taken /\ toClient' = Append(toClient, Message("server", s2c.line))
        <5>1. Message("server", s2c.line) \in [from : {"proxy", "server"}, line : 1..taken]
          BY <1>3, <4>2 DEF Message, Placed
        <5> QED
          BY <1>4, <4>2, <5>1
      <4> QED
        BY <2>2, <4>1, <4>2 DEF ThreadEnds
    <3> QED
      BY <1>1, <3>1 DEF TypeOK, LinesTyped
  <2> QED
    BY <2>1, <2>2
<1> QED
  BY <1>1, <1>5, <1>6, <1>7 DEF TypeOK

LEMMA TypeRun == TypeOK /\ Placed /\ Run => TypeOK' /\ Placed'
<1> SUFFICES ASSUME TypeOK, Placed, Run PROVE TypeOK' /\ Placed'
  OBVIOUS
<1>1. CASE GatherEnds \/ End
  <2>1. UNCHANGED <<policy, sent, client, taken, c2s, s2c, toServer, stdinOpen, served,
                    server, wrote, relayed, toClient, audit>> /\ taken \in Nat
    BY <1>1, LineTyped DEF GatherEnds, End, environment, pipes
  <2>4. sigterm' \in BOOLEAN
    BY <1>1, Zenon DEF GatherEnds, End, pipes, TypeOK
  <2>2. Looping' = Looping /\ main' \in {"wait", "ended"}
    BY <1>1 DEF GatherEnds, End, Looping
  <2>3. CoroutinesTyped' /\ LinesTyped' /\ Placed'
    BY <2>1, <2>2, CoroutinesStay, LinesStay DEF TypeOK, Placed
  <2> QED
    BY <2>1, <2>2, <2>3, <2>4 DEF TypeOK
<1> QED
  BY <1>1, TypeCancel, TypeThreadEnds DEF Run

LEMMA TypeInvariant == TypeOK /\ Placed /\ [Next]_vars => TypeOK' /\ Placed'
<1> SUFFICES ASSUME TypeOK, Placed, [Next]_vars PROVE TypeOK' /\ Placed'
  OBVIOUS
<1>1. CASE Next
  BY <1>1, TypeEnvironment, TypeClientToServer, TypeServerToClient, TypeRun DEF Next
<1>2. CASE UNCHANGED vars
  <2>1. CoroutinesTyped' /\ LinesTyped' /\ Placed'
    BY <1>2, CoroutinesStay, LinesStay DEF vars, environment, pipes, TypeOK, Placed, Looping
  <2> QED
    BY <1>2, <2>1 DEF vars, environment, pipes, TypeOK
<1> QED
  BY <1>1, <1>2

\* In every reachable state every variable has its type: no coroutine is at
\* a place the loop's phase rules out, every line number names a line taken.
THEOREM TypeCorrect == Spec => []TypeOK
<1>1. Init => TypeOK /\ Placed
  BY TypeInit
<1> QED
  BY <1>1, TypeInvariant, PTL DEF Spec

-----------------------------------------------------------------------------
(* What the checks of a line find does not change.                         *)

LEMMA SameCall ==
  ASSUME UNCHANGED policy, NEW n, sent'[n] = sent[n]
  PROVE  ToolCallDecision(sent[n])' = ToolCallDecision(sent[n])
<1>1. IsWritable(sent[n].path)' = IsWritable(sent[n].path)
  BY DEF IsWritable
<1>2. {i \in 1..Len(sent[n].hosts) : ConnectDecision(policy, "connect", sent[n].hosts[i]) # "allow"}'
      = {i \in 1..Len(sent[n].hosts) : ConnectDecision(policy, "connect", sent[n].hosts[i]) # "allow"}
  OBVIOUS
<1> QED
  BY <1>1, <1>2 DEF ToolCallDecision

LEMMA SameDecisions ==
  ASSUME UNCHANGED policy, NEW n, sent'[n] = sent[n]
  PROVE  /\ OwnDecision(sent[n])' = OwnDecision(sent[n])
         /\ ServerDecision' = ServerDecision
         /\ Outcome(sent[n])' = Outcome(sent[n])
         /\ Records(n)' = Records(n)
  BY SameCall DEF OwnDecision, ServerDecision, Outcome, Records, Record

-----------------------------------------------------------------------------
(* The inductive invariant.                                                *)

\* The lines a check lets pass, those it refuses, and those whose records
\* are all in the audit log.
Passing == {n \in 1..Len(sent) : Outcome(sent[n]) = "forward"}
Refusing == {n \in 1..Len(sent) : Outcome(sent[n]) = "refuse"}
Audited(n, log) == \A i \in 1..Len(Records(n)) : \E k \in 1..Len(log) : log[k] = Records(n)[i]
OnRecord == {n \in 1..Len(sent) : Audited(n, audit)}

\* Places of c2s at which its line has been neither forwarded nor answered.
Undecided == {"check", "respond", "thread_respond"}

\* The coroutine works on the last line taken.
PlaceInv ==
    /\ c2s.pc \in {"read", "close", "check", "drain", "respond", "thread_read", "thread_respond"}
          => c2s.line = taken
    /\ c2s.pc \in {"check", "drain", "respond", "thread_respond"} => c2s.line > 0
    /\ c2s.pc \in {"respond", "thread_respond"} => c2s.line \in Refusing \intersect OnRecord

\* What has been forwarded passes, is on record and is in order ...
ForwardInv ==
    /\ \A i \in 1..Len(Delivered) :
          /\ Delivered[i] \in Passing \intersect OnRecord
          /\ Delivered[i] <= c2s.line
          /\ c2s.pc \in Undecided => Delivered[i] < c2s.line
    /\ \A i, j \in 1..Len(Delivered) : i < j => Delivered[i] < Delivered[j]

\* ... and is all that passes, as long as nothing has failed.
CompleteInv ==
    server = "running" /\ c2s.pc \in {"read", "check", "drain", "respond"} =>
       \A n \in 1..taken :
          n \in Passing =>
             \/ n = c2s.line /\ c2s.pc = "check"
             \/ \E i \in 1..Len(Delivered) : Delivered[i] = n

\* The server answers what it has read, in its order.
WroteInv ==
    /\ \A k \in 1..Len(wrote) : \E i \in 1..Len(served) : served[i] = wrote[k].line
    /\ \A k, l \in 1..Len(wrote) : k < l => wrote[k].line < wrote[l].line

\* The client has the answers the proxy gave to lines it refused, each once,
RefusalInv ==
    /\ \A k \in 1..Len(toClient) : toClient[k].from = "proxy" =>
          /\ toClient[k].line \in Refusing \intersect OnRecord
          /\ toClient[k].line <= c2s.line
          /\ c2s.pc \in Undecided => toClient[k].line < c2s.line
    /\ \A k, l \in 1..Len(toClient) :
          k # l /\ toClient[k].from = "proxy" /\ toClient[l].from = "proxy" =>
             toClient[k].line # toClient[l].line

\* and of the server's the ones that were relayed.
Relaying == s2c.pc \in {"write", "thread_write"}

ReplyInv ==
    /\ Relaying => relayed > 0 /\ s2c.line = wrote[relayed].line
    /\ \A k \in 1..Len(toClient) : toClient[k].from = "server" =>
          \E j \in 1..relayed : wrote[j].line = toClient[k].line /\ (Relaying => j < relayed)
    /\ \A k, l \in 1..Len(toClient) :
          k < l /\ toClient[k].from = "server" /\ toClient[l].from = "server" =>
             toClient[k].line < toClient[l].line

ProxyInv == TypeOK /\ PlaceInv /\ ForwardInv /\ CompleteInv /\ WroteInv /\ RefusalInv /\ ReplyInv

-----------------------------------------------------------------------------
(* What every step keeps.                                                  *)

Grows(log, newer) == Len(log) <= Len(newer) /\ \A i \in 1..Len(log) : newer[i] = log[i]

LEMMA AppendGrows ==
  ASSUME NEW S, NEW log \in Seq(S), NEW e \in S
  PROVE  /\ Append(log, e) \in Seq(S) /\ Len(Append(log, e)) = Len(log) + 1
         /\ Append(log, e)[Len(log) + 1] = e
         /\ \A i \in 1..Len(log) : Append(log, e)[i] = log[i]
         /\ \A i \in 1..Len(Append(log, e)) : i \in 1..Len(log) \/ i = Len(log) + 1
         /\ Grows(log, Append(log, e))
  BY DEF Grows

\* No step changes the policy, what the client has sent or what is logged,
\* and a server that is gone stays so.
LEMMA Steady ==
  ASSUME TypeOK, Placed, Next
  PROVE  UNCHANGED policy /\ Grows(sent, sent') /\ Grows(audit, audit')
         /\ (server' = "running" => server = "running")
<1>1. Grows(sent, sent) /\ Grows(audit, audit)
  BY DEF Grows, TypeOK
<1>2. CASE ClientSends
  <2>1. PICK body \in Bodies : sent' = Append(sent, body)
    BY <1>2 DEF ClientSends
  <2>2. Grows(sent, sent')
    BY <2>1, AppendGrows DEF TypeOK
  <2> QED
    BY <1>1, <1>2, <2>2 DEF ClientSends, pipes
<1>3. CASE ClientToServer \/ ServerToClient \/ Run \/ ClientCloses \/ Server \/ ServerCrashes
  <2>1. UNCHANGED policy /\ sent' = sent /\ (server' = "running" => server = "running")
    BY <1>3 DEF ClientToServer, ReadLine, CheckLine, Drain, Respond, CloseServer, environment, pipes,
                ServerToClient, ReadReply, WriteReply, Run, GatherEnds, Cancel, ThreadEnds, End,
                ClientCloses, Server, ServerServes, ServerExits, ServerCrashes
  <2>2. CASE CheckLine
    <3> DEFINE n == c2s.line
    <3>1. PICK k \in 0..Len(Records(n)) : audit' = audit \o SubSeq(Records(n), 1, k)
      BY <2>2, CheckFacts, Zenon
    <3>2. audit \in Seq(AuditRecords(1..taken)) /\ Records(n) \in Seq(AuditRecords(1..taken))
      BY <2>2, CheckFacts, RecordsTyped DEF TypeOK, LinesTyped
    <3>3. Len(audit) \in Nat /\ k \in Nat
      BY <3>1 DEF TypeOK
    <3> HIDE DEF n
    <3>4. Grows(audit, audit')
      BY <3>1, <3>2, <3>3, LoggedTyped DEF Grows
    <3> QED
      BY <1>1, <2>1, <3>4
  <2>3. CASE ~CheckLine
    <3>1. audit' = audit
      BY <1>3, <2>3 DEF ClientToServer, ReadLine, Drain, Respond, CloseServer, environment, pipes,
                ServerToClient, ReadReply, WriteReply, Run, GatherEnds, Cancel, ThreadEnds, End,
                ClientCloses, Server, ServerServes, ServerExits, ServerCrashes
    <3> QED
      BY <1>1, <2>1, <3>1
  <2> QED
    BY <2>2, <2>3
<1> QED
  BY <1>2, <1>3 DEF Next

\* So what a check finds of a line stays, and a record stays in the log.
Found ==
    /\ \A n \in 1..Len(sent) : (n \in Passing' <=> n \in Passing) /\ (n \in Refusing' <=> n \in Refusing)
    /\ Passing \subseteq Passing' /\ Refusing \subseteq Refusing'
    /\ OnRecord \subseteq OnRecord'

LEMMA Findings ==
  ASSUME TypeOK, TypeOK', UNCHANGED policy, Grows(sent, sent'), Grows(audit, audit')
  PROVE  Found
<1>1. ASSUME NEW n \in 1..Len(sent)
      PROVE  /\ n \in 1..Len(sent') /\ sent'[n] = sent[n]
             /\ Outcome(sent[n])' = Outcome(sent[n]) /\ Records(n)' = Records(n)
  <2>1. n \in 1..Len(sent') /\ sent'[n] = sent[n]
    BY DEF Grows, TypeOK
  <2> QED
    BY <2>1, SameDecisions
<1>2. ASSUME NEW n \in 1..Len(sent)
      PROVE  (n \in Passing' <=> n \in Passing) /\ (n \in Refusing' <=> n \in Refusing)
  BY <1>1 DEF Passing, Refusing
<1>3. ASSUME NEW n \in OnRecord PROVE n \in OnRecord'
  <2>1. n \in 1..Len(sent) /\ Audited(n, audit)
    BY DEF OnRecord
  <2>2. n \in 1..Len(sent') /\ Records(n)' = Records(n)
    BY <1>1, <2>1
  <2>3. \A k \in 1..Len(audit) : k \in 1..Len(audit') /\ audit'[k] = audit[k]
    BY DEF Grows, TypeOK
  <2>4. Audited(n, audit)'
    BY <2>1, <2>2, <2>3 DEF Audited
  <2> QED
    BY <2>2, <2>4 DEF OnRecord
<1>4. Passing \subseteq Passing' /\ Refusing \subseteq Refusing'
  BY <1>2 DEF Passing, Refusing
<1> QED
  BY <1>2, <1>3, <1>4 DEF Found

\* The coroutine never goes back, and not to decide about a line again.
Onward ==
    /\ c2s.line <= c2s'.line
    /\ c2s'.pc \in Undecided => c2s.line < c2s'.line \/ c2s.pc \in Undecided

LEMMA Ahead ==
  ASSUME TypeOK, TypeOK', Onward, NEW n \in Nat, n <= c2s.line, c2s.pc \in Undecided => n < c2s.line
  PROVE  n <= c2s'.line /\ (c2s'.pc \in Undecided => n < c2s'.line)
<1>1. c2s.line \in Nat /\ c2s'.line \in Nat
  BY DEF TypeOK, CoroutinesTyped
<1> QED
  BY <1>1 DEF Onward

\* The lines delivered: the server's reading changes nothing, a forwarded
\* line is added at the end.
LEMMA DeliveredTyped ==
  ASSUME TypeOK
  PROVE  /\ Delivered \in Seq(1..taken) /\ Len(Delivered) \in Nat
         /\ \A i \in 1..Len(Delivered) : Delivered[i] \in 1..taken
         /\ \A i \in 1..Len(served) : i \in 1..Len(Delivered) /\ Delivered[i] = served[i]
<1>1. served \in Seq(1..taken) /\ toServer \in Seq(1..taken)
  BY DEF TypeOK, LinesTyped
<1> DEFINE d == served \o toServer
<1>2. /\ d \in Seq(1..taken) /\ Len(d) = Len(served) + Len(toServer)
      /\ \A i \in 1..(Len(served) + Len(toServer)) :
            d[i] = IF i <= Len(served) THEN served[i] ELSE toServer[i - Len(served)]
  BY <1>1, ConcatProperties
<1>3. Len(served) \in Nat /\ Len(toServer) \in Nat
  BY <1>1
<1> HIDE DEF d
<1>4. Len(d) \in Nat /\ \A i \in 1..Len(d) : d[i] \in 1..taken
  BY <1>2, LenProperties, ElementOfSeq
<1>5. \A i \in 1..Len(served) : i \in 1..Len(d) /\ d[i] = served[i]
  BY <1>2, <1>3
<1> QED
  BY <1>2, <1>4, <1>5 DEF d, Delivered

LEMMA ShiftsHead ==
  ASSUME NEW S, NEW s \in Seq(S), NEW t \in Seq(S), t # <<>>
  PROVE  Append(s, Head(t)) \o Tail(t) = s \o t
<1> DEFINE h == Head(t)
           u == Tail(t)
<1>1. /\ h \in S /\ u \in Seq(S) /\ Len(t) \in Nat /\ Len(t) > 0 /\ Len(u) = Len(t) - 1 /\ h = t[1]
      /\ \A i \in 1..Len(u) : u[i] = t[i + 1]
  BY HeadTailProperties, EmptySeq
<1> HIDE DEF h, u
<1>2. /\ Append(s, h) \in Seq(S) /\ Len(Append(s, h)) = Len(s) + 1 /\ Append(s, h)[Len(s) + 1] = h
      /\ \A i \in 1..Len(s) : Append(s, h)[i] = s[i]
  BY <1>1, AppendProperties
<1> DEFINE a == Append(s, h)
<1> HIDE DEF a
<1>3. /\ a \o u \in Seq(S) /\ Len(a \o u) = Len(s) + Len(t)
      /\ \A i \in 1..(Len(a) + Len(u)) : (a \o u)[i] = IF i <= Len(a) THEN a[i] ELSE u[i - Len(a)]
  <2>1. a \in Seq(S) /\ Len(a) = Len(s) + 1 /\ Len(s) \in Nat /\ Len(a) + Len(u) = Len(s) + Len(t)
    BY <1>1, <1>2 DEF a
  <2>2. /\ a \o u \in Seq(S) /\ Len(a \o u) = Len(a) + Len(u)
        /\ \A i \in 1..(Len(a) + Len(u)) : (a \o u)[i] = IF i <= Len(a) THEN a[i] ELSE u[i - Len(a)]
    <3>1. a \in Seq(S) /\ u \in Seq(S)
      BY <1>1, <2>1
    <3> QED
      BY <3>1, ConcatProperties, Zenon
  <2> DEFINE l == Len(a) + Len(u)
             m == Len(s) + Len(t)
             v == a \o u
  <2>3. l = m
    BY <2>1
  <2> HIDE DEF l, m, v
  <2> QED
    BY <2>2, <2>3 DEF l, m, v
<1>4. /\ s \o t \in Seq(S) /\ Len(s \o t) = Len(s) + Len(t)
      /\ \A i \in 1..(Len(s) + Len(t)) : (s \o t)[i] = IF i <= Len(s) THEN s[i] ELSE t[i - Len(s)]
  BY ConcatProperties
<1>5. ASSUME NEW i \in 1..(Len(s) + Len(t)) PROVE (a \o u)[i] = (s \o t)[i]
  <2>1. CASE i <= Len(s)
    BY <1>1, <1>2, <1>3, <1>4, <2>1 DEF a
  <2>2. CASE i = Len(s) + 1
    <3>1. i <= Len(a) /\ i - Len(s) = 1 /\ a[i] = h /\ ~(i <= Len(s)) /\ Len(a) = Len(s) + 1
      BY <1>2, <2>2 DEF a
    <3>2. i \in 1..(Len(a) + Len(u))
      BY <1>1, <3>1
    <3> QED
      BY <1>1, <1>3, <1>4, <3>1, <3>2
  <2>3. CASE i > Len(s) + 1
    <3>1. /\ Len(a) = Len(s) + 1 /\ ~(i <= Len(a)) /\ ~(i <= Len(s))
          /\ i - Len(a) \in 1..Len(u) /\ (i - Len(a)) + 1 = i - Len(s)
      BY <1>1, <1>2, <2>3 DEF a
    <3>2. i \in 1..(Len(a) + Len(u))
      BY <1>1, <3>1
    <3> QED
      BY <1>1, <1>3, <1>4, <3>1, <3>2
  <2>4. Len(s) \in Nat /\ i \in Int
    OBVIOUS
  <2>5. i <= Len(s) \/ i = Len(s) + 1 \/ i > Len(s) + 1
    BY <2>4
  <2> QED
    BY <2>1, <2>2, <2>3, <2>5, Zenon
<1>6. a \o u = s \o t
  <2> DEFINE v == a \o u
             w == s \o t
  <2>1. v \in Seq(S) /\ w \in Seq(S) /\ Len(v) = Len(w) /\ \A i \in 1..Len(v) : v[i] = w[i]
    BY <1>3, <1>4, <1>5
  <2> HIDE DEF v, w
  <2>2. v = w
    BY <2>1, SeqEqual
  <2> QED
    BY <2>2 DEF v, w
<1> QED
  BY <1>6 DEF a, h, u

-----------------------------------------------------------------------------
(* The parts of the invariant, step by step.                               *)

LEMMA PlaceKept ==
  ASSUME PlaceInv, Found, UNCHANGED <<c2s, taken>>
  PROVE  PlaceInv'
  BY Zenon DEF PlaceInv, Found

LEMMA ForwardKept ==
  ASSUME TypeOK, TypeOK', Found, Onward, ForwardInv, Delivered' = Delivered
  PROVE  ForwardInv'
<1>1. ASSUME NEW i \in 1..Len(Delivered)
      PROVE  /\ Delivered[i] \in Passing' \intersect OnRecord'
             /\ Delivered[i] <= c2s'.line
             /\ c2s'.pc \in Undecided => Delivered[i] < c2s'.line
  <2>1. Delivered[i] \in 1..taken
    BY DeliveredTyped
  <2>2. Delivered[i] \in Nat
    BY <2>1, LineTyped
  <2> QED
    BY <2>2, Ahead DEF ForwardInv, Found
<1> QED
  BY <1>1 DEF ForwardInv

LEMMA ForwardAppended ==
  ASSUME TypeOK, TypeOK', Found, ForwardInv, c2s.pc \in Undecided, c2s.line \in 1..taken,
         c2s'.line = c2s.line, c2s'.pc \notin Undecided,
         Delivered' = Append(Delivered, c2s.line), c2s.line \in Passing' \intersect OnRecord'
  PROVE  ForwardInv'
<1> DEFINE d == Delivered
<1>1. d \in Seq(1..taken) /\ Len(d) \in Nat
  BY DeliveredTyped
<1>2. /\ Len(Delivered') = Len(d) + 1
      /\ Delivered'[Len(d) + 1] = c2s.line
      /\ \A i \in 1..Len(d) : Delivered'[i] = d[i]
      /\ \A i \in 1..Len(Delivered') : i \in 1..Len(d) \/ i = Len(d) + 1
  BY <1>1, AppendGrows
<1>3. \A i \in 1..Len(d) : /\ d[i] \in Passing' \intersect OnRecord'
                           /\ d[i] < c2s.line /\ d[i] <= c2s.line
  <2>1. \A i \in 1..Len(d) : d[i] \in Nat
    BY DeliveredTyped, LineTyped
  <2>2. c2s.line \in Nat
    BY LineTyped
  <2> QED
    BY <2>1, <2>2 DEF ForwardInv, Found
<1>4. \A i, j \in 1..Len(d) : i < j => d[i] < d[j]
  BY DEF ForwardInv
<1> HIDE DEF d
<1>5. c2s.line <= c2s.line
  BY LineTyped
<1>6. \A i \in 1..Len(Delivered') :
          /\ Delivered'[i] \in Passing' \intersect OnRecord'
          /\ Delivered'[i] <= c2s'.line
  BY <1>2, <1>3, <1>5
<1>7. \A i, j \in 1..Len(Delivered') : i < j => Delivered'[i] < Delivered'[j]
  <2> TAKE i, j \in 1..Len(Delivered')
  <2> HAVE i < j
  <2>1. i \in 1..Len(d)
    BY <1>1, <1>2
  <2> QED
    BY <1>2, <1>3, <1>4, <2>1
<1> QED
  BY <1>6, <1>7 DEF ForwardInv

LEMMA CompleteKept ==
  ASSUME TypeOK, Found, CompleteInv, server' = "running" => server = "running",
         taken' = taken, Delivered' = Delivered,
         c2s'.pc \in {"read", "check", "drain", "respond"} =>
            \/ c2s' = c2s
            \/ c2s.pc \in {"drain", "respond"}
            \/ c2s.pc = "check" /\ c2s.line \notin Passing
  PROVE  CompleteInv'
<1> SUFFICES ASSUME server' = "running", c2s'.pc \in {"read", "check", "drain", "respond"},
                    NEW n \in 1..taken, n \in Passing'
             PROVE  \/ n = c2s'.line /\ c2s'.pc = "check"
                    \/ \E i \in 1..Len(Delivered) : Delivered[i] = n
  BY DEF CompleteInv
<1>1. n \in Passing
  <2>1. n \in 1..Len(sent)
    BY DEF TypeOK
  <2> QED
    BY <2>1 DEF Found
<1> QED
  BY <1>1 DEF CompleteInv

LEMMA CompleteAppended ==
  ASSUME TypeOK, Found, CompleteInv, server' = "running" => server = "running",
         taken' = taken, c2s.pc = "check", c2s.line \in 1..taken, Delivered' = Append(Delivered, c2s.line)
  PROVE  CompleteInv'
<1> DEFINE d == Delivered
<1>1. d \in Seq(1..taken) /\ Len(d) \in Nat
  BY DeliveredTyped
<1>2. /\ Len(Delivered') = Len(d) + 1 /\ Delivered'[Len(d) + 1] = c2s.line
      /\ \A i \in 1..Len(d) : Delivered'[i] = d[i]
  BY <1>1, AppendGrows
<1> HIDE DEF d
<1>3. /\ Len(d) + 1 \in 1..Len(Delivered')
      /\ \A i \in 1..Len(d) : i \in 1..Len(Delivered')
  BY <1>1, <1>2
<1> SUFFICES ASSUME server = "running", NEW n \in 1..taken, n \in Passing'
             PROVE  \E i \in 1..Len(Delivered') : Delivered'[i] = n
  BY DEF CompleteInv
<1>4. n \in Passing
  <2>1. n \in 1..Len(sent)
    BY DEF TypeOK
  <2> QED
    BY <2>1 DEF Found
<1>5. n = c2s.line \/ \E i \in 1..Len(d) : d[i] = n
  BY <1>4 DEF CompleteInv, d
<1> QED
  BY <1>2, <1>3, <1>5

LEMMA CompleteRead ==
  ASSUME TypeOK, Found, CompleteInv, server' = server, Delivered' = Delivered,
         c2s.pc = "read", taken' = taken + 1, c2s'.pc = "check", c2s'.line = taken'
  PROVE  CompleteInv'
<1> SUFFICES ASSUME server = "running", NEW n \in 1..taken', n \in Passing', n # c2s'.line
             PROVE  \E i \in 1..Len(Delivered) : Delivered[i] = n
  BY DEF CompleteInv
<1>1. n \in 1..taken /\ n \in 1..Len(sent)
  BY DEF TypeOK
<1>2. n \in Passing
  BY <1>1 DEF Found
<1> QED
  BY <1>1, <1>2 DEF CompleteInv

LEMMA WroteKept ==
  ASSUME WroteInv, UNCHANGED <<wrote, served>>
  PROVE  WroteInv'
  BY DEF WroteInv

LEMMA WroteServes ==
  ASSUME TypeOK, ForwardInv, WroteInv, ServerServes
  PROVE  WroteInv' /\ Grows(wrote, wrote')
<1> DEFINE h == Head(toServer)
           R == [line : 1..taken, size : {"line", "large"}]
<1>1. /\ served \in Seq(1..taken) /\ toServer \in Seq(1..taken) /\ toServer # <<>>
      /\ wrote \in Seq(R) /\ Len(served) \in Nat /\ Len(wrote) \in Nat
  BY DEF TypeOK, LinesTyped, ServerServes
<1>2. h = toServer[1] /\ h \in 1..taken /\ Len(toServer) \in Nat /\ 1 <= Len(toServer)
  <2>1. Len(toServer) \in Nat \ {0}
    BY <1>1, EmptySeq
  <2>2. 1 \in 1..Len(toServer)
    BY <2>1
  <2>3. toServer[1] \in 1..taken
    BY <1>1, <2>2, ElementOfSeq
  <2> QED
    BY <1>1, <2>1, <2>3
<1>3. Len(served) + 1 \in 1..Len(Delivered) /\ Delivered[Len(served) + 1] = h
  <2>1. /\ Len(served \o toServer) = Len(served) + Len(toServer)
        /\ \A i \in 1..(Len(served) + Len(toServer)) :
              (served \o toServer)[i] = IF i <= Len(served) THEN served[i] ELSE toServer[i - Len(served)]
    BY <1>1, ConcatProperties
  <2>2. /\ Len(served) + 1 \in 1..(Len(served) + Len(toServer))
        /\ ~(Len(served) + 1 <= Len(served)) /\ Len(served) + 1 - Len(served) = 1
    BY <1>1, <1>2
  <2> HIDE DEF h
  <2> QED
    BY <1>2, <2>1, <2>2 DEF Delivered
<1>4. \A i \in 1..Len(served) : served[i] < h
  <2> TAKE i \in 1..Len(served)
  <2>1. i \in 1..Len(Delivered) /\ Delivered[i] = served[i] /\ i < Len(served) + 1
    BY <1>1, DeliveredTyped
  <2> QED
    BY <1>3, <2>1 DEF ForwardInv
<1>5. /\ served' = Append(served, h)
      /\ wrote' = wrote \/ \E size \in {"line", "large"} : wrote' = Append(wrote, [line |-> h, size |-> size])
  BY DEF ServerServes
<1> HIDE DEF h
<1>6. /\ Len(served') = Len(served) + 1 /\ served'[Len(served) + 1] = h
      /\ \A i \in 1..Len(served) : served'[i] = served[i]
  BY <1>1, <1>2, <1>5, AppendGrows
<1>7. /\ Len(served) + 1 \in 1..Len(served')
      /\ \A i \in 1..Len(served) : i \in 1..Len(served')
  BY <1>1, <1>6
<1>8. \A k \in 1..Len(wrote) : /\ \E i \in 1..Len(served') : served'[i] = wrote[k].line
                               /\ wrote[k].line < h
  <2> TAKE k \in 1..Len(wrote)
  <2>1. PICK i \in 1..Len(served) : served[i] = wrote[k].line
    BY DEF WroteInv
  <2> QED
    BY <1>4, <1>6, <1>7, <2>1
<1>9. CASE wrote' = wrote
  BY <1>8, <1>9 DEF WroteInv, Grows
<1>10. CASE \E size \in {"line", "large"} : wrote' = Append(wrote, [line |-> h, size |-> size])
  <2>1. PICK size \in {"line", "large"} : wrote' = Append(wrote, [line |-> h, size |-> size])
    BY <1>10
  <2> DEFINE e == [line |-> h, size |-> size]
  <2>2. e \in R /\ e.line = h
    BY <1>2
  <2> HIDE DEF e, R
  <2>3. /\ Len(wrote') = Len(wrote) + 1 /\ wrote'[Len(wrote) + 1].line = h
        /\ \A i \in 1..Len(wrote) : wrote'[i] = wrote[i]
        /\ \A i \in 1..Len(wrote') : i \in 1..Len(wrote) \/ i = Len(wrote) + 1
        /\ Grows(wrote, wrote')
    BY <1>1, <2>1, <2>2, AppendGrows DEF e
  <2>4. \A k \in 1..Len(wrote') : \E i \in 1..Len(served') : served'[i] = wrote'[k].line
    BY <1>6, <1>7, <1>8, <2>3
  <2>5. \A k, l \in 1..Len(wrote') : k < l => wrote'[k].line < wrote'[l].line
    <3> TAKE k, l \in 1..Len(wrote')
    <3> HAVE k < l
    <3>1. k \in 1..Len(wrote)
      BY <1>1, <2>3
    <3> QED
      BY <1>8, <2>3, <3>1 DEF WroteInv
  <2> QED
    BY <2>3, <2>4, <2>5 DEF WroteInv
<1> QED
  BY <1>5, <1>9, <1>10

LEMMA MessageTyped ==
  ASSUME TypeOK, NEW k \in 1..Len(toClient)
  PROVE  toClient[k].line \in 1..taken /\ toClient[k].line \in Nat /\ toClient[k].from \in {"proxy", "server"}
<1> DEFINE R == [from : {"proxy", "server"}, line : 1..taken]
<1>1. toClient \in Seq(R) /\ taken \in Nat
  BY LineTyped DEF TypeOK, LinesTyped
<1> HIDE DEF R
<1>2. toClient[k] \in R
  BY <1>1, ElementOfSeq
<1> QED
  BY <1>1, <1>2 DEF R

\* The client's messages, with one more.
LEMMA OneMore ==
  ASSUME TypeOK, NEW from \in {"proxy", "server"}, NEW n \in 1..taken,
         toClient' = Append(toClient, Message(from, n))
  PROVE  /\ Len(toClient) \in Nat /\ Len(toClient') = Len(toClient) + 1
         /\ toClient'[Len(toClient) + 1].from = from /\ toClient'[Len(toClient) + 1].line = n
         /\ \A k \in 1..Len(toClient) : toClient'[k] = toClient[k] /\ toClient[k].line \in Nat
         /\ \A k \in 1..Len(toClient') : k \in 1..Len(toClient) \/ k = Len(toClient) + 1
<1> DEFINE R == [from : {"proxy", "server"}, line : 1..taken]
           m == Message(from, n)
<1>1. toClient \in Seq(R) /\ m \in R /\ m.from = from /\ m.line = n
  BY DEF TypeOK, LinesTyped, Message
<1>2. \A k \in 1..Len(toClient) : toClient[k].line \in Nat
  BY MessageTyped
<1> HIDE DEF R, m
<1> QED
  BY <1>1, <1>2, AppendGrows DEF m

LEMMA RefusalKept ==
  ASSUME TypeOK, TypeOK', Found, Onward, RefusalInv,
         toClient' = toClient \/ \E n \in 1..taken : toClient' = Append(toClient, Message("server", n))
  PROVE  RefusalInv'
<1>1. ASSUME NEW k \in 1..Len(toClient), toClient[k].from = "proxy"
      PROVE  /\ toClient[k].line \in Refusing' \intersect OnRecord'
             /\ toClient[k].line <= c2s'.line
             /\ c2s'.pc \in Undecided => toClient[k].line < c2s'.line
  <2>1. toClient[k].line \in Nat
    BY MessageTyped
  <2> QED
    BY <1>1, <2>1, Ahead DEF RefusalInv, Found
<1>2. CASE toClient' = toClient
  BY <1>1, <1>2 DEF RefusalInv
<1>3. CASE \E n \in 1..taken : toClient' = Append(toClient, Message("server", n))
  <2>1. PICK n \in 1..taken : toClient' = Append(toClient, Message("server", n))
    BY <1>3
  <2>2. /\ toClient'[Len(toClient) + 1].from # "proxy"
        /\ \A k \in 1..Len(toClient) : toClient'[k] = toClient[k]
        /\ \A k \in 1..Len(toClient') : k \in 1..Len(toClient) \/ k = Len(toClient) + 1
    BY <2>1, OneMore
  <2> QED
    BY <1>1, <2>2 DEF RefusalInv
<1> QED
  BY <1>2, <1>3

LEMMA RefusalAppended ==
  ASSUME TypeOK, Found, RefusalInv, PlaceInv, c2s.pc \in {"respond", "thread_respond"},
         c2s'.line = c2s.line, c2s'.pc \notin Undecided,
         toClient' = Append(toClient, Message("proxy", c2s.line))
  PROVE  RefusalInv'
<1>1. c2s.line \in 1..taken /\ c2s.line \in Refusing' \intersect OnRecord'
  BY LineTyped DEF PlaceInv, Found
<1>2. /\ Len(toClient) \in Nat
      /\ toClient'[Len(toClient) + 1].line = c2s.line
      /\ \A k \in 1..Len(toClient) : toClient'[k] = toClient[k] /\ toClient[k].line \in Nat
      /\ \A k \in 1..Len(toClient') : k \in 1..Len(toClient) \/ k = Len(toClient) + 1
  BY <1>1, OneMore
<1>3. ASSUME NEW k \in 1..Len(toClient), toClient[k].from = "proxy"
      PROVE  /\ toClient[k].line \in Refusing' \intersect OnRecord'
             /\ toClient[k].line < c2s.line /\ toClient[k].line <= c2s.line
  <2>1. toClient[k].line \in Nat /\ c2s.line \in Nat
    BY <1>1, <1>2
  <2> QED
    BY <1>3, <2>1 DEF RefusalInv, Found, Undecided
<1>4. c2s.line <= c2s.line /\ ~(c2s.line < c2s.line)
  BY <1>1
<1>5. \A k \in 1..Len(toClient') : toClient'[k].from = "proxy" =>
          toClient'[k].line \in Refusing' \intersect OnRecord' /\ toClient'[k].line <= c2s'.line
  BY <1>1, <1>2, <1>3, <1>4
<1>6. \A k, l \in 1..Len(toClient') :
          k # l /\ toClient'[k].from = "proxy" /\ toClient'[l].from = "proxy" =>
             toClient'[k].line # toClient'[l].line
  <2> TAKE k, l \in 1..Len(toClient')
  <2> HAVE k # l /\ toClient'[k].from = "proxy" /\ toClient'[l].from = "proxy"
  <2>1. CASE k \in 1..Len(toClient) /\ l \in 1..Len(toClient)
    BY <1>2, <2>1 DEF RefusalInv
  <2>2. CASE k \in 1..Len(toClient) /\ l = Len(toClient) + 1
    BY <1>2, <1>3, <1>4, <2>2
  <2>3. CASE k = Len(toClient) + 1 /\ l \in 1..Len(toClient)
    BY <1>2, <1>3, <1>4, <2>3
  <2> QED
    BY <1>2, <2>1, <2>2, <2>3
<1> QED
  BY <1>5, <1>6 DEF RefusalInv

LEMMA ReplyKept ==
  ASSUME TypeOK, ReplyInv, Relaying' => Relaying /\ s2c'.line = s2c.line, relayed' = relayed,
         Grows(wrote, wrote'),
         toClient' = toClient \/ \E n \in 1..taken : toClient' = Append(toClient, Message("proxy", n))
  PROVE  ReplyInv'
<1>1. relayed \in Nat /\ Len(wrote) \in Nat /\ relayed <= Len(wrote)
  BY DEF TypeOK, LinesTyped
<1>2. \A j \in 1..relayed : j \in 1..Len(wrote) /\ wrote'[j] = wrote[j]
  BY <1>1 DEF Grows
<1>3. Relaying' => relayed' > 0 /\ s2c'.line = wrote'[relayed'].line
  <2> SUFFICES ASSUME Relaying' PROVE relayed > 0 /\ s2c'.line = wrote'[relayed].line
    OBVIOUS
  <2>1. relayed > 0 /\ s2c'.line = wrote[relayed].line
    BY DEF ReplyInv
  <2>2. relayed \in 1..relayed
    BY <1>1, <2>1
  <2> QED
    BY <1>2, <2>1, <2>2
<1>4. \A k \in 1..Len(toClient) : toClient[k].from = "server" =>
          \E j \in 1..relayed' : wrote'[j].line = toClient[k].line /\ (Relaying' => j < relayed')
  BY <1>2 DEF ReplyInv
<1>5. CASE toClient' = toClient
  BY <1>3, <1>4, <1>5 DEF ReplyInv
<1>6. CASE \E n \in 1..taken : toClient' = Append(toClient, Message("proxy", n))
  <2>1. PICK n \in 1..taken : toClient' = Append(toClient, Message("proxy", n))
    BY <1>6
  <2>2. /\ toClient'[Len(toClient) + 1].from # "server"
        /\ \A k \in 1..Len(toClient) : toClient'[k] = toClient[k]
        /\ \A k \in 1..Len(toClient') : k \in 1..Len(toClient) \/ k = Len(toClient) + 1
    BY <2>1, OneMore
  <2>3. \A k \in 1..Len(toClient') : toClient'[k].from = "server" =>
          \E j \in 1..relayed' : wrote'[j].line = toClient'[k].line /\ (Relaying' => j < relayed')
    BY <1>4, <2>2
  <2>4. \A k, l \in 1..Len(toClient') :
          k < l /\ toClient'[k].from = "server" /\ toClient'[l].from = "server" =>
             toClient'[k].line < toClient'[l].line
    BY <2>2 DEF ReplyInv
  <2> QED
    BY <1>3, <2>3, <2>4 DEF ReplyInv
<1> QED
  BY <1>5, <1>6

LEMMA ReplyAppended ==
  ASSUME TypeOK, WroteInv, ReplyInv, Relaying, ~Relaying', relayed' = relayed, wrote' = wrote,
         s2c.line \in 1..taken, toClient' = Append(toClient, Message("server", s2c.line))
  PROVE  ReplyInv'
<1>1. relayed \in Nat /\ relayed \in 1..Len(wrote) /\ s2c.line = wrote[relayed].line /\ Len(wrote) \in Nat
  BY DEF TypeOK, LinesTyped, ReplyInv
<1>2. /\ toClient'[Len(toClient) + 1].line = s2c.line /\ Len(toClient) \in Nat
      /\ \A k \in 1..Len(toClient) : toClient'[k] = toClient[k]
      /\ \A k \in 1..Len(toClient') : k \in 1..Len(toClient) \/ k = Len(toClient) + 1
  BY OneMore
<1>3. ASSUME NEW k \in 1..Len(toClient), toClient[k].from = "server"
      PROVE  /\ \E j \in 1..relayed : wrote[j].line = toClient[k].line
             /\ toClient[k].line < s2c.line
  <2>1. PICK j \in 1..relayed : wrote[j].line = toClient[k].line /\ j < relayed
    BY <1>3 DEF ReplyInv
  <2>2. j \in 1..Len(wrote)
    BY <1>1
  <2> QED
    BY <1>1, <2>1, <2>2 DEF WroteInv
<1>4. relayed \in 1..relayed
  BY <1>1
<1>5. \A k \in 1..Len(toClient') : toClient'[k].from = "server" =>
          \E j \in 1..relayed : wrote[j].line = toClient'[k].line
  BY <1>1, <1>2, <1>3, <1>4
<1>6. \A k, l \in 1..Len(toClient') :
          k < l /\ toClient'[k].from = "server" /\ toClient'[l].from = "server" =>
             toClient'[k].line < toClient'[l].line
  <2> TAKE k, l \in 1..Len(toClient')
  <2> HAVE k < l /\ toClient'[k].from = "server" /\ toClient'[l].from = "server"
  <2>1. k \in 1..Len(toClient)
    BY <1>2
  <2>2. CASE l \in 1..Len(toClient)
    BY <1>2, <2>1, <2>2 DEF ReplyInv
  <2>3. CASE l = Len(toClient) + 1
    BY <1>2, <1>3, <2>1, <2>3
  <2> QED
    BY <1>2, <2>2, <2>3
<1> QED
  BY <1>5, <1>6 DEF ReplyInv

LEMMA ReplyRead ==
  ASSUME TypeOK, ReplyInv, ReadReply
  PROVE  ReplyInv'
<1>1. /\ relayed \in Nat /\ Len(wrote) \in Nat /\ relayed <= Len(wrote)
      /\ ~Relaying /\ wrote' = wrote /\ toClient' = toClient
  BY DEF TypeOK, LinesTyped, ReadReply, Relaying
<1>2. CASE /\ relayed < Len(wrote) /\ relayed' = relayed + 1
           /\ s2c' = [pc |-> IF wrote[relayed + 1].size = "large" THEN "failed" ELSE "write",
                      line |-> wrote[relayed + 1].line]
  <2>1. s2c'.line = wrote'[relayed'].line /\ relayed' > 0
    BY <1>1, <1>2
  <2>2. \A j \in 1..relayed : j \in 1..relayed' /\ j < relayed'
    BY <1>1, <1>2
  <2> QED
    BY <1>1, <2>1, <2>2 DEF ReplyInv
<1>3. CASE s2c' = [s2c EXCEPT !.pc = "done"] /\ UNCHANGED relayed
  <2>1. ~Relaying'
    BY <1>3 DEF Relaying, TypeOK, CoroutinesTyped
  <2> QED
    BY <1>1, <1>3, <2>1 DEF ReplyInv
<1> QED
  BY <1>2, <1>3 DEF ReadReply

-----------------------------------------------------------------------------
(* The invariant is kept by every step.                                    *)

LEMMA AppendsToBoth ==
  ASSUME NEW S, NEW s \in Seq(S), NEW t \in Seq(S), NEW e \in S
  PROVE  s \o Append(t, e) = Append(s \o t, e)
<1> DEFINE one == <<e>>
           both == s \o t
<1>1. one \in Seq(S) /\ both \in Seq(S)
  BY ConcatProperties
<1>2. Append(t, e) = t \o one /\ Append(both, e) = both \o one
  BY <1>1, AppendIsConcat
<1>3. both \o one = s \o (t \o one)
  BY <1>1, ConcatAssociative
<1> HIDE DEF one, both
<1> QED
  BY <1>2, <1>3, Zenon DEF both

\* How the check of a line ends, with its records.
LEMMA CheckMeets ==
  ASSUME TypeOK, TypeOK', Placed, Found, CheckLine
  PROVE  /\ c2s.line \in 1..taken /\ c2s'.line = c2s.line /\ c2s.pc = "check"
         /\ UNCHANGED <<taken, served, server>>
         /\ \/ /\ c2s'.pc = "drain" /\ c2s.line \in Passing \intersect OnRecord'
               /\ toServer' = Forwarded(c2s.line)
            \/ /\ c2s'.pc = "respond" /\ c2s.line \in Refusing \intersect OnRecord'
               /\ toServer' = toServer
            \/ c2s'.pc = "failed" /\ toServer' = toServer
<1>0. PICK n \in 1..taken : n = c2s.line
  BY CheckFacts
<1>1. n = c2s.line /\ n \in 1..taken /\ c2s.pc = "check" /\ UNCHANGED <<policy, sent, taken, served, server>>
  BY <1>0 DEF CheckLine, environment
<1>2. n \in 1..Len(sent)
  BY <1>1 DEF TypeOK
<1>3. PICK k \in 0..Len(Records(n)), outcome \in {"forward", "refuse", "raise"} :
             /\ audit' = audit \o SubSeq(Records(n), 1, k)
             /\ c2s' = [c2s EXCEPT !.pc = After(outcome)]
             /\ \/ /\ k = Len(Records(n)) /\ outcome = Outcome(sent[n])
                   /\ toServer' = IF outcome = "forward" THEN Forwarded(n) ELSE toServer
                \/ outcome = "raise" /\ UNCHANGED toServer
  BY <1>0, CheckFacts, Zenon
<1>4. c2s'.pc = After(outcome) /\ c2s'.line = c2s.line
  BY <1>3 DEF TypeOK, CoroutinesTyped
<1>5. ASSUME k = Len(Records(n)) PROVE n \in OnRecord'
  <2>1. Records(n)' = Records(n)
    BY <1>1, SameDecisions
  <2>2. Records(n) \in Seq(AuditRecords(1..taken)) /\ audit \in Seq(AuditRecords(1..taken))
    BY <1>1, CheckFacts, RecordsTyped DEF TypeOK, LinesTyped
  <2>3. /\ Len(audit') = Len(audit) + k /\ Len(audit) \in Nat /\ k \in Nat
        /\ \A i \in 1..k : audit'[Len(audit) + i] = Records(n)[i]
    <3>1. Len(audit) \in Nat /\ k \in Nat
      BY <1>3, <2>2
    <3> QED
      BY <1>3, <2>2, <3>1, LoggedTyped
  <2>4. ASSUME NEW i \in 1..Len(Records(n))
        PROVE  \E j \in 1..Len(audit') : audit'[j] = Records(n)[i]
    <3>1. i \in 1..k /\ Len(audit) + i \in 1..Len(audit')
      BY <1>5, <2>3
    <3> QED
      BY <2>3, <3>1
  <2>5. Audited(n, audit)'
    BY <2>1, <2>4 DEF Audited
  <2> QED
    BY <1>1, <1>2, <2>5 DEF OnRecord
<1>6. /\ Outcome(sent[n]) = "forward" => n \in Passing
      /\ Outcome(sent[n]) = "refuse" => n \in Refusing
  BY <1>2 DEF Passing, Refusing
<1>7. CASE outcome = "forward"
  BY <1>1, <1>3, <1>4, <1>5, <1>6, <1>7 DEF After
<1>8. CASE outcome = "refuse"
  BY <1>1, <1>3, <1>4, <1>5, <1>6, <1>8 DEF After
<1>9. CASE outcome = "raise"
  BY <1>1, <1>3, <1>4, <1>9 DEF After
<1> QED
  BY <1>7, <1>8, <1>9

\* Only the check of a line that may pass adds to what is delivered.
LEMMA DeliveredStays ==
  ASSUME TypeOK, Next, ~CheckLine
  PROVE  Delivered' = Delivered
<1>1. served \in Seq(1..taken) /\ toServer \in Seq(1..taken)
  BY DEF TypeOK, LinesTyped
<1>2. CASE ServerServes
  <2>1. served' \o toServer' = Append(served, Head(toServer)) \o Tail(toServer) /\ toServer # <<>>
    BY <1>2 DEF ServerServes
  <2>2. Append(served, Head(toServer)) \o Tail(toServer) = served \o toServer
    BY <1>1, <2>1, ShiftsHead
  <2> QED
    BY <2>1, <2>2 DEF Delivered
<1>3. CASE ~ServerServes
  <2>1. UNCHANGED <<served, toServer>>
    BY <1>3 DEF Next, ClientSends, ClientCloses, Server, ServerExits, ServerCrashes, ClientToServer,
           ReadLine, Drain, Respond, CloseServer, ServerToClient, ReadReply, WriteReply,
           Run, GatherEnds, Cancel, ThreadEnds, End, environment, pipes
  <2> QED
    BY <2>1 DEF Delivered
<1> QED
  BY <1>2, <1>3

LEMMA DeliveredGrows ==
  ASSUME TypeOK, TypeOK', Placed, Found, CheckLine
  PROVE  \/ c2s'.pc = "drain" /\ Delivered' = IF server = "running" THEN Append(Delivered, c2s.line)
                                                                   ELSE Delivered
         \/ c2s'.pc # "drain" /\ Delivered' = Delivered
<1>1. served \in Seq(1..taken) /\ toServer \in Seq(1..taken) /\ c2s.line \in 1..taken
  BY CheckMeets DEF TypeOK, LinesTyped
<1>2. served \o Append(toServer, c2s.line) = Append(served \o toServer, c2s.line)
  BY <1>1, AppendsToBoth
<1> QED
  BY <1>2, CheckMeets DEF Forwarded, Delivered

LEMMA ClientCoroutineStep ==
  ASSUME ProxyInv, Placed, TypeOK', Found, Next, server' = "running" => server = "running"
  PROVE  Onward /\ PlaceInv' /\ ForwardInv' /\ CompleteInv'
<1> USE DEF ProxyInv
<1>1. c2s.line \in Nat /\ c2s \in [pc : ClientPlaces, line : 0..taken] /\ taken \in Nat
  BY LineTyped DEF TypeOK, CoroutinesTyped
<1>2. CASE UNCHANGED <<c2s, taken>> /\ ~CheckLine
  <2>1. Onward
    BY <1>1, <1>2 DEF Onward
  <2>2. Delivered' = Delivered
    BY <1>2, DeliveredStays
  <2> QED
    BY <1>2, <2>1, <2>2, PlaceKept, ForwardKept, CompleteKept
<1>3. CASE ReadLine
  <2>1. Delivered' = Delivered /\ server' = server /\ c2s.pc = "read"
    BY <1>3 DEF ReadLine, pipes, Delivered
  <2>2. CASE taken < Len(sent) /\ taken' = taken + 1 /\ c2s' = [pc |-> "check", line |-> taken + 1]
    <3>1. c2s.line = taken /\ c2s'.line = taken' /\ c2s'.pc = "check" /\ c2s.line < c2s'.line /\ c2s.line <= c2s'.line
      BY <1>1, <2>1, <2>2 DEF PlaceInv
    <3>2. Onward
      BY <3>1 DEF Onward
    <3>3. PlaceInv'
      BY <1>1, <2>2, <3>1 DEF PlaceInv
    <3> QED
      BY <2>1, <2>2, <3>1, <3>2, <3>3, ForwardKept, CompleteRead
  <2>3. CASE c2s' = [c2s EXCEPT !.pc = "close"] /\ UNCHANGED taken
    <3>1. c2s'.line = c2s.line /\ c2s'.pc = "close" /\ c2s.line = taken
      BY <1>1, <2>1, <2>3 DEF PlaceInv
    <3>2. Onward /\ PlaceInv'
      BY <1>1, <2>3, <3>1 DEF Onward, PlaceInv, Undecided
    <3> QED
      BY <2>1, <2>3, <3>1, <3>2, ForwardKept, CompleteKept
  <2> QED
    BY <1>3, <2>2, <2>3 DEF ReadLine
<1>4. CASE CheckLine
  <2>1. /\ c2s.line \in 1..taken /\ c2s'.line = c2s.line /\ c2s.pc = "check"
        /\ taken' = taken /\ server' = server
        /\ c2s'.pc \in {"drain", "respond", "failed"}
        /\ c2s'.pc = "drain" => c2s.line \in Passing \intersect OnRecord'
        /\ c2s'.pc = "respond" => c2s.line \in Refusing \intersect OnRecord'
    BY <1>4, CheckMeets
  <2>2. c2s.line = taken /\ c2s.line > 0
    BY <1>1, <2>1 DEF PlaceInv
  <2>3. Onward
    BY <1>1, <2>1 DEF Onward, Undecided
  <2>4. PlaceInv'
    BY <2>1, <2>2 DEF PlaceInv, Found
  <2>5. CASE c2s'.pc = "drain" /\ server = "running"
    <3>1. Delivered' = Append(Delivered, c2s.line)
      BY <1>4, <2>5, DeliveredGrows
    <3>2. ForwardInv'
      BY <2>1, <2>5, <3>1, ForwardAppended DEF Undecided, Found
    <3> QED
      BY <2>1, <2>3, <2>4, <3>1, <3>2, CompleteAppended
  <2>6. CASE ~(c2s'.pc = "drain" /\ server = "running")
    <3>1. Delivered' = Delivered
      BY <1>4, <2>6, DeliveredGrows
    <3>2. CompleteInv'
      <4>1. CASE server' = "running"
        <5>1. c2s'.pc = "respond" => c2s.line \notin Passing
          BY <2>1 DEF Passing, Refusing
        <5> QED
          BY <2>1, <2>6, <3>1, <4>1, <5>1, CompleteKept
      <4>2. CASE server' # "running"
        BY <4>2 DEF CompleteInv
      <4> QED
        BY <4>1, <4>2
    <3> QED
      BY <2>3, <2>4, <3>1, <3>2, ForwardKept
  <2> QED
    BY <2>5, <2>6
<1>5. CASE Drain \/ Respond \/ CloseServer
  <2>1. /\ taken' = taken /\ c2s'.line = c2s.line
        /\ c2s'.pc \in {"read", "done", "failed"} /\ Delivered' = Delivered
        /\ c2s'.pc = "read" => c2s.pc \in {"drain", "respond"}
    BY <1>1, <1>5 DEF Drain, Respond, CloseServer, pipes, Delivered
  <2>2. Onward /\ PlaceInv'
    BY <1>1, <2>1 DEF Onward, PlaceInv, Undecided
  <2> QED
    BY <2>1, <2>2, ForwardKept, CompleteKept
<1>6. CASE Cancel \/ (ThreadEnds /\ ~UNCHANGED <<c2s, taken>>)
  <2>1. /\ c2s'.line = c2s.line /\ Delivered' = Delivered
        /\ c2s'.pc \in {"thread_read", "thread_respond", "done", "failed"}
        /\ c2s'.pc = "thread_read" => c2s.pc = "read"
        /\ c2s'.pc = "thread_respond" => c2s.pc = "respond"
        /\ c2s'.pc \in {"thread_read", "thread_respond"} => taken' = taken
    <3>1. CASE Cancel
      <4>1. Looping
        BY <3>1 DEF Cancel, Looping
      <4>2. c2s.pc \in ReadPC
        BY <1>1, <4>1, Places
      <4> QED
        BY <1>1, <3>1, <4>2 DEF Cancel, Cancelled, ThreadOf, pipes, Delivered, ReadPC
    <3>2. CASE ThreadEnds /\ ~UNCHANGED <<c2s, taken>>
      BY <1>1, <3>2 DEF ThreadEnds, pipes, Delivered
    <3> QED
      BY <1>6, <3>1, <3>2
  <2>2. Onward /\ PlaceInv'
    BY <1>1, <2>1 DEF Onward, PlaceInv, Undecided, Found
  <2>3. CompleteInv'
    BY <2>1 DEF CompleteInv
  <2> QED
    BY <2>1, <2>2, <2>3, ForwardKept
<1>7. CASE ~CheckLine /\ (\/ ClientSends \/ ClientCloses \/ Server \/ ServerCrashes \/ ServerToClient
                          \/ GatherEnds \/ End \/ (ThreadEnds /\ UNCHANGED <<c2s, taken>>))
  <2>1. UNCHANGED <<c2s, taken>>
    BY <1>7 DEF ClientSends, ClientCloses, Server, ServerServes, ServerExits, ServerCrashes,
           ServerToClient, ReadReply, WriteReply, GatherEnds, End
  <2> QED
    BY <1>2, <1>7, <2>1
<1> HIDE DEF ProxyInv
<1> QED
  BY <1>3, <1>4, <1>5, <1>6, <1>7 DEF Next, ClientToServer, Run

LEMMA AnswerStep ==
  ASSUME ProxyInv, Placed, TypeOK', Found, Onward, Next
  PROVE  WroteInv' /\ RefusalInv' /\ ReplyInv'
<1> USE DEF ProxyInv
<1>1. /\ c2s.line \in Nat /\ taken \in Nat /\ Grows(wrote, wrote)
      /\ c2s \in [pc : ClientPlaces, line : 0..taken]
      /\ s2c \in [pc : ServerPlaces, line : 0..taken]
  BY LineTyped DEF TypeOK, CoroutinesTyped, Grows
<1>2. CASE ServerServes
  <2>1. UNCHANGED <<s2c, relayed, toClient>>
    BY <1>2 DEF ServerServes
  <2>2. Grows(wrote, wrote') /\ WroteInv'
    BY <1>2, WroteServes
  <2>3. Relaying' => Relaying /\ s2c'.line = s2c.line
    BY <2>1 DEF Relaying
  <2> QED
    BY <2>1, <2>2, <2>3, RefusalKept, ReplyKept
<1>3. CASE ReadReply
  <2>1. UNCHANGED <<wrote, served, toClient>>
    BY <1>3 DEF ReadReply
  <2> QED
    BY <1>3, <2>1, WroteKept, RefusalKept, ReplyRead
<1>4. CASE /\ UNCHANGED <<wrote, served, relayed, c2s>>
           /\ Relaying /\ ~Relaying' /\ s2c.line \in 1..taken
           /\ toClient' = Append(toClient, Message("server", s2c.line))
  BY <1>4, WroteKept, RefusalKept, ReplyAppended
<1>5. CASE /\ UNCHANGED <<wrote, served, relayed, s2c>>
           /\ c2s.pc \in {"respond", "thread_respond"} /\ c2s'.pc \notin Undecided /\ c2s'.line = c2s.line
           /\ toClient' = Append(toClient, Message("proxy", c2s.line))
  <2>1. c2s.line \in 1..taken
    BY <1>1, <1>5 DEF Placed
  <2>2. Relaying' => Relaying /\ s2c'.line = s2c.line
    BY <1>5 DEF Relaying
  <2>3. ReplyInv'
    BY <1>1, <1>5, <2>1, <2>2, ReplyKept
  <2> QED
    BY <1>5, <2>3, WroteKept, RefusalAppended
<1>6. CASE /\ UNCHANGED <<wrote, served, relayed, toClient>>
           /\ Relaying' => Relaying /\ s2c'.line = s2c.line
  BY <1>1, <1>6, WroteKept, RefusalKept, ReplyKept
<1>7. CASE WriteReply \/ (ThreadEnds /\ s2c' # s2c)
  <2>1. /\ UNCHANGED <<wrote, served, relayed, c2s>> /\ Relaying /\ ~Relaying'
        /\ toClient' = toClient \/ toClient' = Append(toClient, Message("server", s2c.line))
    BY <1>1, <1>7 DEF WriteReply, ThreadEnds, Relaying, pipes
  <2>2. s2c.line \in 1..taken
    BY <1>1, <2>1 DEF Relaying, Placed
  <2> QED
    BY <1>4, <1>6, <2>1, <2>2
<1>8. CASE Respond \/ (ThreadEnds /\ s2c' = s2c)
  <2>1. /\ UNCHANGED <<wrote, served, relayed, s2c>>
        /\ \/ toClient' = toClient
           \/ /\ c2s.pc \in {"respond", "thread_respond"} /\ c2s'.pc \notin Undecided /\ c2s'.line = c2s.line
              /\ toClient' = Append(toClient, Message("proxy", c2s.line))
    BY <1>1, <1>8 DEF Respond, ThreadEnds, Undecided, pipes
  <2> QED
    BY <1>5, <1>6, <2>1 DEF Relaying
<1>9. CASE Cancel
  <2>1. Relaying' => Relaying /\ s2c'.line = s2c.line
    <3>1. Looping
      BY <1>9 DEF Cancel, Looping
    <3>2. s2c.pc \in ReplyPC
      BY <1>1, <3>1, Places
    <3> QED
      BY <1>1, <1>9, <3>2 DEF Cancel, Cancelled, ThreadOf, Relaying, ReplyPC
  <2> QED
    BY <1>6, <1>9, <2>1 DEF Cancel, pipes
<1>10. CASE \/ ClientSends \/ ClientCloses \/ ServerExits \/ ServerCrashes
            \/ ReadLine \/ CheckLine \/ Drain \/ CloseServer \/ GatherEnds \/ End
  <2>1. UNCHANGED <<wrote, served, relayed, toClient, s2c>>
    BY <1>10 DEF ClientSends, ClientCloses, ServerExits, ServerCrashes,
           ReadLine, CheckLine, Drain, CloseServer, GatherEnds, End, pipes
  <2> QED
    BY <1>6, <2>1 DEF Relaying
<1> HIDE DEF ProxyInv
<1> QED
  BY <1>2, <1>3, <1>7, <1>8, <1>9, <1>10 DEF Next, Server, ClientToServer, ServerToClient, Run

LEMMA InvariantInit == Init => ProxyInv /\ Placed
<1> SUFFICES ASSUME Init PROVE ProxyInv /\ Placed
  OBVIOUS
<1>1. TypeOK /\ Placed
  BY TypeInit
<1>2. /\ served = <<>> /\ toServer = <<>> /\ wrote = <<>> /\ toClient = <<>>
      /\ taken = 0 /\ c2s = [pc |-> "read", line |-> 0] /\ s2c = [pc |-> "read", line |-> 0]
  BY DEF Init
<1>3. Len(Delivered) = 0
  <2>1. served \o toServer = <<>>
    BY <1>2
  <2> QED
    BY <2>1 DEF Delivered
<1>4. PlaceInv /\ ForwardInv /\ CompleteInv
  BY <1>2, <1>3 DEF PlaceInv, ForwardInv, CompleteInv
<1>5. WroteInv /\ RefusalInv /\ ReplyInv
  BY <1>2 DEF WroteInv, RefusalInv, ReplyInv, Relaying
<1> QED
  BY <1>1, <1>4, <1>5 DEF ProxyInv

LEMMA InvariantStep == ProxyInv /\ Placed /\ [Next]_vars => ProxyInv' /\ Placed'
<1> SUFFICES ASSUME ProxyInv, Placed, [Next]_vars PROVE ProxyInv' /\ Placed'
  OBVIOUS
<1>1. TypeOK /\ TypeOK' /\ Placed'
  BY TypeInvariant DEF ProxyInv
<1>2. CASE Next
  <2>1. UNCHANGED policy /\ Grows(sent, sent') /\ Grows(audit, audit') /\ (server' = "running" => server = "running")
    BY <1>1, <1>2, Steady
  <2>2. Found
    BY <1>1, <2>1, Findings
  <2>3. Onward /\ PlaceInv' /\ ForwardInv' /\ CompleteInv'
    BY <1>1, <1>2, <2>1, <2>2, ClientCoroutineStep
  <2>4. WroteInv' /\ RefusalInv' /\ ReplyInv'
    BY <1>1, <1>2, <2>2, <2>3, AnswerStep
  <2> QED
    BY <1>1, <2>3, <2>4 DEF ProxyInv
<1>3. CASE UNCHANGED vars
  <2>1. /\ UNCHANGED <<policy, sent, audit, c2s, s2c, taken, served, toServer, server, wrote, relayed, toClient>>
    BY <1>3 DEF vars, environment, pipes
  <2>2. Grows(sent, sent') /\ Grows(audit, audit') /\ Grows(wrote, wrote')
    BY <1>1, <2>1 DEF Grows, TypeOK, LinesTyped
  <2>3. Found
    BY <1>1, <2>1, <2>2, Findings
  <2>4. Onward /\ Delivered' = Delivered
    BY <1>1, <2>1, LineTyped DEF Onward, Delivered
  <2>5. Relaying' => Relaying /\ s2c'.line = s2c.line
    BY <2>1 DEF Relaying
  <2> QED
    BY <1>1, <2>1, <2>2, <2>3, <2>4, <2>5, PlaceKept, ForwardKept, CompleteKept, WroteKept,
       RefusalKept, ReplyKept DEF ProxyInv
<1> QED
  BY <1>2, <1>3

LEMMA Invariant == Spec => []ProxyInv
<1> QED
  BY InvariantInit, InvariantStep, PTL DEF Spec

-----------------------------------------------------------------------------
(* The properties.                                                         *)

\* The records of a line that passes, and of one that is refused.
LEMMA PassingLogged ==
  ASSUME TypeOK, NEW n \in Passing \intersect OnRecord
  PROVE  /\ sent[n].kind = "other" => Logged(n, "other", TRUE)
         /\ sent[n].kind \in Checked => Logged(n, "mcp_server", TRUE) /\ Logged(n, sent[n].kind, TRUE)
<1>1. Outcome(sent[n]) = "forward" /\ Audited(n, audit)
  BY DEF Passing, OnRecord
<1>2. ASSUME sent[n].kind = "other" PROVE Logged(n, "other", TRUE)
  <2>1. Len(Records(n)) = 1 /\ Records(n)[1] = Record(n, "other", "allow")
    BY <1>2 DEF Records, Unchecked
  <2>2. PICK k \in 1..Len(audit) : audit[k] = Record(n, "other", "allow")
    BY <1>1, <2>1 DEF Audited
  <2> QED
    BY <2>2 DEF Logged, Record
<1>3. ASSUME sent[n].kind \in Checked PROVE Logged(n, "mcp_server", TRUE) /\ Logged(n, sent[n].kind, TRUE)
  <2>1. ServerDecision = "allow" /\ sent[n].kind # "badcall" /\ OwnDecision(sent[n]) = "allow"
    BY <1>1, <1>3 DEF Outcome, Checked, Unchecked
  <2>2. /\ Len(Records(n)) = 2 /\ Records(n)[1] = Record(n, "mcp_server", "allow")
        /\ Records(n)[2] = Record(n, sent[n].kind, "allow")
    BY <1>3, <2>1 DEF Records, Checked, Unchecked
  <2>3. PICK k \in 1..Len(audit) : audit[k] = Record(n, "mcp_server", "allow")
    BY <1>1, <2>2 DEF Audited
  <2>4. PICK l \in 1..Len(audit) : audit[l] = Record(n, sent[n].kind, "allow")
    BY <1>1, <2>2 DEF Audited
  <2> QED
    BY <2>3, <2>4 DEF Logged, Record
<1> QED
  BY <1>2, <1>3

LEMMA RefusedLogged ==
  ASSUME TypeOK, NEW n \in Refusing \intersect OnRecord
  PROVE  \E tool \in {"mcp_server", sent[n].kind} : Logged(n, tool, FALSE)
<1>1. Outcome(sent[n]) = "refuse" /\ Audited(n, audit) /\ sent[n] \in Bodies
  BY DEF Refusing, OnRecord, TypeOK
<1>2. sent[n].kind \in Checked
  BY <1>1, BodiesAssumption DEF Outcome
<1>3. CASE ServerDecision # "allow"
  <2>1. Len(Records(n)) = 1 /\ Records(n)[1] = Record(n, "mcp_server", ServerDecision)
    BY <1>2, <1>3 DEF Records, Checked, Unchecked
  <2>2. PICK k \in 1..Len(audit) : audit[k] = Record(n, "mcp_server", ServerDecision)
    BY <1>1, <2>1 DEF Audited
  <2>3. Logged(n, "mcp_server", FALSE)
    BY <1>3, <2>2 DEF Logged, Record
  <2> QED
    BY <2>3
<1>4. CASE ServerDecision = "allow"
  <2>1. sent[n].kind # "badcall" /\ OwnDecision(sent[n]) # "allow"
    BY <1>1, <1>2, <1>4 DEF Outcome, Checked, Unchecked
  <2>2. Len(Records(n)) = 2 /\ Records(n)[2] = Record(n, sent[n].kind, OwnDecision(sent[n]))
    BY <1>2, <1>4, <2>1 DEF Records, Checked, Unchecked
  <2>3. PICK k \in 1..Len(audit) : audit[k] = Record(n, sent[n].kind, OwnDecision(sent[n]))
    BY <1>1, <2>2 DEF Audited
  <2>4. Logged(n, sent[n].kind, FALSE)
    BY <2>1, <2>3 DEF Logged, Record
  <2> QED
    BY <2>4
<1> QED
  BY <1>3, <1>4

\* The audit is written ahead: a line is delivered only behind its allow
\* records, the proxy refuses one only behind a record that is not allow.
THEOREM RecordedFirst == Spec => []AuditedFirst
<1>1. ProxyInv => AuditedFirst
  <2> SUFFICES ASSUME ProxyInv PROVE AuditedFirst
    OBVIOUS
  <2>1. TypeOK /\ ForwardInv /\ RefusalInv
    BY DEF ProxyInv
  <2>2. \A i \in 1..Len(Delivered) : Delivered[i] \in Passing \intersect OnRecord
    BY <2>1 DEF ForwardInv
  <2>3. \A k \in 1..Len(toClient) : toClient[k].from = "proxy" => toClient[k].line \in Refusing \intersect OnRecord
    BY <2>1 DEF RefusalInv
  <2>4. \A n \in Passing \intersect OnRecord :
           /\ sent[n].kind = "other" => Logged(n, "other", TRUE)
           /\ sent[n].kind \in Checked => Logged(n, "mcp_server", TRUE) /\ Logged(n, sent[n].kind, TRUE)
    BY <2>1, PassingLogged
  <2>5. \A n \in Refusing \intersect OnRecord : \E tool \in {"mcp_server", sent[n].kind} : Logged(n, tool, FALSE)
    BY <2>1, RefusedLogged
  <2> QED
    BY <2>2, <2>3, <2>4, <2>5, Zenon DEF AuditedFirst
<1> QED
  BY <1>1, Invariant, PTL

\* No line is answered twice, whichever coroutine or thread answers: what
\* the proxy refuses the server never sees, the server's answers keep their
\* order.
THEOREM AnsweredOnce == Spec => []AnswersMatch
<1>1. ProxyInv => AnswersMatch
  <2> SUFFICES ASSUME ProxyInv PROVE AnswersMatch
    OBVIOUS
  <2>1. TypeOK /\ ForwardInv /\ WroteInv /\ RefusalInv /\ ReplyInv
    BY DEF ProxyInv
  <2>2. \A i \in 1..Len(Delivered) : Delivered[i] \in Passing
    BY <2>1 DEF ForwardInv
  <2>3. \A k \in 1..Len(toClient) : toClient[k].from = "proxy" => toClient[k].line \in Refusing
    BY <2>1 DEF RefusalInv
  <2>4. \A n : ~(n \in Passing /\ n \in Refusing)
    BY DEF Passing, Refusing
  <2>5. ASSUME NEW k \in 1..Len(toClient), toClient[k].from = "server"
        PROVE  toClient[k].line \in Passing
    <3>1. PICK j \in 1..relayed : wrote[j].line = toClient[k].line
      BY <2>1, <2>5 DEF ReplyInv
    <3>2. j \in 1..Len(wrote)
      BY <2>1 DEF TypeOK, LinesTyped
    <3>3. PICK i \in 1..Len(served) : served[i] = wrote[j].line
      BY <2>1, <3>2 DEF WroteInv
    <3>4. i \in 1..Len(Delivered) /\ Delivered[i] = served[i]
      BY <2>1, DeliveredTyped
    <3> QED
      BY <2>2, <3>1, <3>3, <3>4
  <2>6. \A k \in 1..Len(toClient) : toClient[k].from \in {"proxy", "server"} /\ toClient[k].line \in Nat
    BY <2>1, MessageTyped
  <2>7. \A k, l \in 1..Len(toClient) :
           k < l /\ toClient[k].from = "server" /\ toClient[l].from = "server" =>
              toClient[k].line < toClient[l].line
    BY <2>1 DEF ReplyInv
  <2>8. ASSUME NEW k \in 1..Len(toClient), NEW l \in 1..Len(toClient), k # l
        PROVE  toClient[k].line # toClient[l].line
    <3>1. CASE toClient[k].from = "proxy" /\ toClient[l].from = "proxy"
      BY <2>1, <2>8, <3>1 DEF RefusalInv
    <3>2. CASE toClient[k].from # toClient[l].from
      BY <2>3, <2>4, <2>5, <2>6, <3>2
    <3>3. CASE toClient[k].from = "server" /\ toClient[l].from = "server"
      <4>1. k < l \/ l < k
        BY <2>8
      <4> QED
        BY <2>6, <2>7, <3>3, <4>1
    <3> QED
      BY <2>6, <3>1, <3>2, <3>3
  <2> QED
    BY <2>2, <2>3, <2>4, <2>7, <2>8 DEF AnswersMatch
<1> QED
  BY <1>1, Invariant, PTL

\* The server gets, in the client's order and once each, exactly the lines
\* that obey the policy, wherever the two ways in which the code judges a
\* path find what the policy's pattern means, as PlainPathsMeant shows they do.
THEOREM ForwardsObeying ==
  ASSUME PathsMeant(Policies, DOMAIN PathOf)
  PROVE  Spec => []ForwardsExactly
<1>1. ProxyInv => ForwardsExactly
  <2> SUFFICES ASSUME ProxyInv PROVE ForwardsExactly
    OBVIOUS
  <2>1. TypeOK /\ ForwardInv /\ CompleteInv
    BY DEF ProxyInv
  <2>2. ASSUME NEW n \in 1..Len(sent) PROVE n \in Passing <=> Obeys(sent[n])
    <3>1. policy \in Policies /\ sent[n] \in Bodies
      BY <2>1, ElementOfSeq DEF TypeOK
    <3>2. Outcome(sent[n]) = "forward" <=> Obeys(sent[n])
      BY <3>1, ForwardObeys
    <3> QED
      BY <2>2, <3>2 DEF Passing
  <2>3. \A n \in 1..taken : n \in 1..Len(sent)
    BY <2>1 DEF TypeOK
  <2>4. \A i \in 1..Len(Delivered) : Obeys(sent[Delivered[i]])
    BY <2>1, <2>2 DEF ForwardInv, Passing
  <2>5. ASSUME c2s.pc = "read", server = "running", NEW n \in 1..taken, Obeys(sent[n])
        PROVE  \E i \in 1..Len(Delivered) : Delivered[i] = n
    <3>1. n \in Passing
      BY <2>2, <2>3, <2>5
    <3> QED
      BY <2>1, <2>5, <3>1 DEF CompleteInv
  <2> QED
    BY <2>1, <2>4, <2>5 DEF ForwardsExactly, ForwardInv
<1> QED
  BY <1>1, Invariant, PTL
=============================================================================
