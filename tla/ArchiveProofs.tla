---------------------------- MODULE ArchiveProofs ----------------------------
(***************************************************************************)
(* Proofs about the archives the program packs, uploads and reads.         *)
(*                                                                         *)
(*   Sequences, and path.Clean on paths of any length (TarPaths).          *)
(*   Files of an archive and the header of its tool (ToolHeader).          *)
(*   artifact_create and artifact_get: what is found is what was packed    *)
(*   (McpArtifacts).                                                       *)
(*   Publishing a pipeline (NextflowPublish): the invariant PublishInv,    *)
(*   the refinement of ServiceCatalog, the one description of a service,   *)
(*   and from PackingInv and TruthInv what an archive and the description  *)
(*   of a service hold.                                                    *)
(***************************************************************************)
EXTENDS NextflowPublish, McpArtifacts, SequenceTheorems, FiniteSetTheorems,
        WellFoundedInduction, TLAPS

-----------------------------------------------------------------------------
(* Sequences of whatever elements                                          *)

IsSeq(s) == \E S : s \in Seq(S)

\* How much is stored of an artifact.
Halves(s) == Len(s)

\* Nothing is stored of an empty sequence.
LEMMA EmptyIsSeq == IsSeq(<<>>) /\ Halves(<<>>) = 0 /\ DOMAIN <<>> = {}
<1>1. <<>> \in Seq({}) /\ Len(<<>>) = 0
  BY EmptySeq
<1> QED
  BY <1>1 DEF IsSeq, Halves

\* The domain of a sequence.
LEMMA IsSeqProperties ==
  ASSUME NEW s, IsSeq(s)
  PROVE  /\ Len(s) \in Nat /\ DOMAIN s = 1..Len(s)
         /\ Halves(s) \in Nat
<1>1. PICK S : s \in Seq(S)
  BY DEF IsSeq
<1> QED
  BY <1>1, LenProperties DEF Halves

\* What Append does to a sequence, whatever is appended.
LEMMA AppendIsSeq ==
  ASSUME NEW s, NEW e, IsSeq(s)
  PROVE  /\ IsSeq(Append(s, e))
         /\ Halves(Append(s, e)) = Halves(s) + 1
         /\ DOMAIN Append(s, e) = 1..(Len(s) + 1)
         /\ \A i \in DOMAIN s : Append(s, e)[i] = s[i]
         /\ Append(s, e)[Len(s) + 1] = e
<1>1. PICK S : s \in Seq(S)
  BY DEF IsSeq
<1> DEFINE T == S \cup {e}
<1>2. s \in Seq(T)
  <2>1. s \in [1..Len(s) -> S] /\ Len(s) \in Nat
    BY <1>1, LenProperties
  <2>2. s \in [1..Len(s) -> T]
    BY <2>1
  <2> QED
    BY <2>1, <2>2, SeqDef
<1>3. /\ Append(s, e) \in Seq(T)
      /\ Len(Append(s, e)) = Len(s) + 1
      /\ \A i \in 1..Len(s) : Append(s, e)[i] = s[i]
      /\ Append(s, e)[Len(s) + 1] = e
  BY <1>2, AppendProperties
<1>4. DOMAIN s = 1..Len(s)
  BY <1>2, LenProperties
<1>5. DOMAIN Append(s, e) = 1..(Len(s) + 1)
  BY <1>3, LenProperties
<1> QED
  BY <1>3, <1>4, <1>5 DEF IsSeq, Halves

\* One element of a sequence is replaced.
LEMMA ExceptIsSeq ==
  ASSUME NEW s, NEW i \in DOMAIN s, NEW e, IsSeq(s)
  PROVE  /\ IsSeq([s EXCEPT ![i] = e])
         /\ Halves([s EXCEPT ![i] = e]) = Halves(s)
         /\ DOMAIN [s EXCEPT ![i] = e] = DOMAIN s
<1>1. PICK S : s \in Seq(S)
  BY DEF IsSeq
<1> DEFINE T == S \cup {e}
<1>2. s \in [1..Len(s) -> S] /\ Len(s) \in Nat /\ DOMAIN s = 1..Len(s)
  BY <1>1, LenProperties
<1>3. s \in [1..Len(s) -> T]
  BY <1>2
<1>4. s \in Seq(T) /\ i \in 1..Len(s) /\ e \in T
  BY <1>2, <1>3, SeqDef
<1>5. [s EXCEPT ![i] = e] \in Seq(T) /\ Len([s EXCEPT ![i] = e]) = Len(s)
  BY <1>4, ExceptSeq
<1> QED
  BY <1>5 DEF IsSeq, Halves

-----------------------------------------------------------------------------
(* Paths, segment by segment                                               *)

\* A set of naturals that has 0 and every successor has them all.
LEMMA SetInduction ==
  ASSUME NEW T \in SUBSET Nat, 0 \in T, \A n \in T : n + 1 \in T
  PROVE  T = Nat
<1> DEFINE Less == OpToRel(<, Nat)
<1>1. IsWellFoundedOn(Less, Nat)
  BY NatLessThanWellFounded, Zenon
<1>2. Less = {ss \in Nat \X Nat : ss[1] < ss[2]}
  BY Zenon DEF OpToRel
<1>3. \A x, y \in Nat : x < y => <<x, y>> \in Less
  BY <1>2
<1> HIDE DEF Less
<1>4. ASSUME Nat \ T # {} PROVE FALSE
  <2>1. PICK x \in Nat \ T : \A y \in Nat \ T : ~(<<y, x>> \in Less)
    BY <1>1, <1>4, WFMin, Zenon
  <2>2. x - 1 \in Nat /\ x - 1 < x
    <3>1. x # 0
      BY <2>1
    <3> QED
      BY <2>1, <3>1
  <2>3. x - 1 \in T
    BY <1>3, <2>1, <2>2
  <2>4. (x - 1) + 1 \in T
    BY <2>3
  <2>5. (x - 1) + 1 = x
    BY <2>1
  <2> QED
    BY <2>1, <2>4, <2>5
<1> QED
  BY <1>4

\* A step of path.Clean leaves segments.
LEMMA WalkType ==
  ASSUME NEW S, NEW rooted, NEW gaps, NEW done \in Seq(S), NEW s \in S
  PROVE  /\ Walk(rooted, gaps, done, s) \in Seq(S)
         /\ (\A i \in 1..Len(done) : done[i] \notin gaps) =>
              \A i \in 1..Len(Walk(rooted, gaps, done, s)) :
                Walk(rooted, gaps, done, s)[i] \notin gaps
<1>1. CASE s \in gaps
  BY <1>1 DEF Walk
<1>2. CASE s \notin gaps /\ Walk(rooted, gaps, done, s) = Append(done, s)
  <2>1. /\ Append(done, s) \in Seq(S) /\ Len(Append(done, s)) = Len(done) + 1
        /\ \A i \in 1..Len(done) : Append(done, s)[i] = done[i]
        /\ Append(done, s)[Len(done) + 1] = s
    BY AppendProperties
  <2>2. Len(done) \in Nat
    BY LenProperties
  <2>3. \A i \in 1..Len(done) + 1 : i \in 1..Len(done) \/ i = Len(done) + 1
    BY <2>2
  <2> QED
    BY <1>2, <2>1, <2>3
<1>3. CASE Walk(rooted, gaps, done, s) = done
  BY <1>3
<1>4. CASE done # <<>> /\ Walk(rooted, gaps, done, s) = Front(done)
  <2>1. PICK n \in Nat : n + 1 = Len(done)
    BY <1>4, EmptySeq, LenProperties
  <2>2. Front(done) = SubSeq(done, 1, n)
    BY <2>1 DEF Front
  <2>3. \A i \in 1..n : done[i] \in S
    BY <2>1, LenProperties
  <2>4. /\ SubSeq(done, 1, n) \in Seq(S)
        /\ Len(SubSeq(done, 1, n)) = IF 1 <= n THEN n - 1 + 1 ELSE 0
        /\ \A i \in 1..n - 1 + 1 : SubSeq(done, 1, n)[i] = done[1 + i - 1]
    BY <2>1, <2>3, SubSeqProperties
  <2>5. /\ Front(done) \in Seq(S) /\ Len(Front(done)) = n
        /\ \A i \in 1..n : Front(done)[i] = done[i]
    BY <2>1, <2>2, <2>4
  <2> QED
    BY <1>4, <2>1, <2>5
<1>5. \/ s \in gaps
      \/ s \notin gaps /\ Walk(rooted, gaps, done, s) = Append(done, s)
      \/ Walk(rooted, gaps, done, s) = done
      \/ done # <<>> /\ Walk(rooted, gaps, done, s) = Front(done)
  BY DEF Walk
<1> QED
  BY <1>1, <1>2, <1>3, <1>4, <1>5

\* What is left of a path after each of its segments.
Steps(p, gaps, f) ==
  f = [i \in 0..Len(p) |->
         IF i = 0 THEN <<>> ELSE Walk(IsRooted(p), gaps, f[i - 1], p[i])]

\* There is such a sequence.
LEMMA StepsExist ==
  ASSUME NEW S, NEW p \in Seq(S), NEW gaps
  PROVE  \E f : Steps(p, gaps, f)
<1> DEFINE Upto(n, f) == f = [i \in 0..n |->
             IF i = 0 THEN <<>> ELSE Walk(IsRooted(p), gaps, f[i - 1], p[i])]
           T == {n \in Nat : \E f : Upto(n, f)}
<1>1. 0 \in T
  <2>1. PICK f : f = [i \in 0..0 |-> <<>>]
    OBVIOUS
  <2>2. f = [i \in 0..0 |-> IF i = 0 THEN <<>> ELSE Walk(IsRooted(p), gaps, f[i - 1], p[i])]
    BY <2>1
  <2> QED
    BY <2>2
<1>2. ASSUME NEW n \in T PROVE n + 1 \in T
  <2>1. PICK f : Upto(n, f)
    OBVIOUS
  <2>2. PICK g : g = [i \in 0..n + 1 |->
                        IF i <= n THEN f[i] ELSE Walk(IsRooted(p), gaps, f[n], p[n + 1])]
    OBVIOUS
  <2>3. n \in Nat /\ n + 1 \in Nat
    OBVIOUS
  <2>4. \A i \in 0..n + 1 : i <= n => g[i] = f[i]
    BY <2>2, <2>3
  <2>5. ASSUME NEW i \in 0..n + 1
        PROVE  g[i] = IF i = 0 THEN <<>> ELSE Walk(IsRooted(p), gaps, g[i - 1], p[i])
    <3>1. CASE i = 0
      <4>1. 0 \in 0..n /\ 0 \in 0..n + 1 /\ 0 <= n
        BY <2>3
      <4>2. f[0] = <<>>
        BY <2>1, <4>1
      <4>3. g[0] = f[0]
        BY <2>4, <4>1
      <4> QED
        BY <3>1, <4>2, <4>3
    <3>2. CASE i # 0 /\ i <= n
      <4>1. i - 1 \in 0..n + 1 /\ i - 1 <= n /\ i \in 0..n
        BY <2>3, <3>2
      <4>2. g[i - 1] = f[i - 1] /\ g[i] = f[i]
        BY <2>4, <3>2, <4>1
      <4>3. f[i] = Walk(IsRooted(p), gaps, f[i - 1], p[i])
        BY <2>1, <3>2, <4>1
      <4> QED
        BY <3>2, <4>2, <4>3
    <3>3. CASE i = n + 1
      <4>1. i - 1 = n /\ n \in 0..n + 1 /\ ~(i <= n) /\ i # 0
        BY <2>3, <3>3
      <4>2. g[i] = Walk(IsRooted(p), gaps, f[n], p[n + 1])
        BY <2>2, <4>1
      <4>3. g[i - 1] = f[n]
        BY <2>3, <2>4, <4>1
      <4> QED
        BY <3>3, <4>1, <4>2, <4>3
    <3> QED
      BY <2>3, <3>1, <3>2, <3>3
  <2>6. Upto(n + 1, g)
    BY <2>2, <2>5
  <2> QED
    BY <2>3, <2>6
<1> HIDE DEF T
<1>3. T \in SUBSET Nat
  BY DEF T
<1>4. T = Nat
  BY <1>1, <1>2, <1>3, SetInduction
<1>5. Len(p) \in T
  BY <1>4, LenProperties
<1> QED
  BY <1>5 DEF T, Steps

\* What is left of a path after each of its segments, as Kept has it.
Walked(p, gaps, f) ==
  /\ f[0] = <<>> /\ Kept(p, gaps) = f[Len(p)]
  /\ \A i \in 1..Len(p) : f[i] = Walk(IsRooted(p), gaps, f[i - 1], p[i])

\* There is one for every path.
LEMMA KeptSteps ==
  ASSUME NEW S, NEW p \in Seq(S), NEW gaps
  PROVE  \E f : Walked(p, gaps, f)
<1>1. PICK f : f = CHOOSE g : Steps(p, gaps, g)
  OBVIOUS
<1>2. Steps(p, gaps, f)
  BY <1>1, StepsExist
<1>3. Kept(p, gaps) = f[Len(p)]
  BY <1>1 DEF Kept, Steps
<1>4. Len(p) \in Nat
  BY LenProperties
<1>5. f[0] = <<>> /\ \A i \in 1..Len(p) : f[i] = Walk(IsRooted(p), gaps, f[i - 1], p[i])
  BY <1>2, <1>4 DEF Steps
<1> QED
  BY <1>3, <1>5 DEF Walked

\* What is left has no gaps.
LEMMA KeptClean ==
  ASSUME NEW S, NEW p \in Seq(S), NEW gaps
  PROVE  /\ Kept(p, gaps) \in Seq(S)
         /\ \A j \in 1..Len(Kept(p, gaps)) : Kept(p, gaps)[j] \notin gaps
<1>1. PICK f : /\ f[0] = <<>> /\ Kept(p, gaps) = f[Len(p)]
               /\ \A i \in 1..Len(p) : f[i] = Walk(IsRooted(p), gaps, f[i - 1], p[i])
  BY KeptSteps DEF Walked
<1>2. Len(p) \in Nat /\ \A i \in 1..Len(p) : p[i] \in S
  BY LenProperties
<1> DEFINE Good(s) == s \in Seq(S) /\ \A j \in 1..Len(s) : s[j] \notin gaps
           T == {n \in Nat : n <= Len(p) => Good(f[n])}
<1>3. 0 \in T
  <2>1. f[0] \in Seq(S) /\ Len(f[0]) = 0
    BY <1>1, EmptySeq
  <2>2. Good(f[0])
    BY <2>1
  <2> QED
    BY <2>2
<1>4. ASSUME NEW n \in T PROVE n + 1 \in T
  <2>1. n \in Nat /\ n + 1 \in Nat
    OBVIOUS
  <2>2. ASSUME n + 1 <= Len(p) PROVE Good(f[n + 1])
    <3>1. n + 1 \in 1..Len(p) /\ (n + 1) - 1 = n /\ n <= Len(p)
      BY <1>2, <2>1, <2>2
    <3>2. Good(f[n])
      BY <3>1
    <3>3. f[n + 1] = Walk(IsRooted(p), gaps, f[n], p[n + 1])
      BY <1>1, <3>1
    <3>4. p[n + 1] \in S
      BY <1>2, <3>1
    <3>5. ASSUME NEW done \in Seq(S), NEW s \in S, Good(done)
          PROVE  Good(Walk(IsRooted(p), gaps, done, s))
      BY <3>5, WalkType
    <3> QED
      BY <3>2, <3>3, <3>4, <3>5
  <2> QED
    BY <2>1, <2>2
<1> HIDE DEF T
<1>5. T \in SUBSET Nat
  BY DEF T
<1>6. T = Nat
  BY <1>3, <1>4, <1>5, SetInduction
<1>7. Good(f[Len(p)])
  BY <1>2, <1>6 DEF T
<1> QED
  BY <1>1, <1>7

\* Nothing is taken from a path without gaps and "..".
LEMMA KeptPlain ==
  ASSUME NEW S, NEW p \in Seq(S), NEW gaps,
         \A i \in 1..Len(p) : p[i] \notin gaps /\ p[i] # ".."
  PROVE  Kept(p, gaps) = p
<1>1. PICK f : /\ f[0] = <<>> /\ Kept(p, gaps) = f[Len(p)]
               /\ \A i \in 1..Len(p) : f[i] = Walk(IsRooted(p), gaps, f[i - 1], p[i])
  BY KeptSteps DEF Walked
<1>2. Len(p) \in Nat /\ DOMAIN p = 1..Len(p) /\ \A i \in 1..Len(p) : p[i] \in S
  BY LenProperties
<1> DEFINE Copied(s, n) == s \in Seq(S) /\ Len(s) = n /\ \A i \in 1..n : s[i] = p[i]
           T == {n \in Nat : n <= Len(p) => Copied(f[n], n)}
<1>3. 0 \in T
  <2>1. f[0] \in Seq(S) /\ Len(f[0]) = 0
    BY <1>1, EmptySeq
  <2>2. Copied(f[0], 0)
    BY <2>1
  <2> QED
    BY <2>2
<1>4. ASSUME NEW n \in T PROVE n + 1 \in T
  <2>1. n \in Nat /\ n + 1 \in Nat
    OBVIOUS
  <2>2. ASSUME n + 1 <= Len(p) PROVE Copied(f[n + 1], n + 1)
    <3>1. n + 1 \in 1..Len(p) /\ (n + 1) - 1 = n /\ n <= Len(p)
      BY <1>2, <2>1, <2>2
    <3>2. Copied(f[n], n)
      BY <3>1
    <3>3. f[n + 1] = Append(f[n], p[n + 1])
      BY <1>1, <3>1 DEF Walk
    <3>4. p[n + 1] \in S
      BY <1>2, <3>1
    <3>5. /\ Append(f[n], p[n + 1]) \in Seq(S)
          /\ Len(Append(f[n], p[n + 1])) = n + 1
          /\ \A i \in 1..n : Append(f[n], p[n + 1])[i] = f[n][i]
          /\ Append(f[n], p[n + 1])[n + 1] = p[n + 1]
      BY <3>2, <3>4, AppendProperties
    <3>6. \A i \in 1..n + 1 : i \in 1..n \/ i = n + 1
      BY <2>1
    <3> QED
      BY <3>2, <3>3, <3>5, <3>6
  <2> QED
    BY <2>1, <2>2
<1> HIDE DEF T
<1>5. T \in SUBSET Nat
  BY DEF T
<1>6. T = Nat
  BY <1>3, <1>4, <1>5, SetInduction
<1>7. Copied(f[Len(p)], Len(p))
  BY <1>2, <1>6 DEF T
<1>8. f[Len(p)] = p
  BY <1>2, <1>7, SeqEqual
<1> QED
  BY <1>1, <1>8

\* For paths without ".." it is the same what is left of them, and what is left
\* when they begin with one more gap.
LEMMA KeptAlike ==
  ASSUME NEW S, NEW p \in Seq(S), NEW q \in Seq(S), NEW gaps, NEW more, NEW k \in {0, 1},
         Len(p) = Len(q) + k, \A i \in 1..Len(q) : q[i] = p[i + k],
         k = 1 => p[1] \in more,
         \A i \in 1..Len(q) : q[i] # ".." /\ (q[i] \in gaps <=> q[i] \in more)
  PROVE  Kept(q, gaps) = Kept(p, more)
<1>1. ASSUME NEW s \in Seq(S), NEW holes PROVE \E f : Walked(s, holes, f)
  BY KeptSteps
<1>2. PICK f : Walked(q, gaps, f)
  BY <1>1
<1>3. PICK g : Walked(p, more, g)
  BY <1>1
<1>4. /\ f[0] = <<>> /\ Kept(q, gaps) = f[Len(q)]
      /\ \A i \in 1..Len(q) : f[i] = Walk(IsRooted(q), gaps, f[i - 1], q[i])
  BY <1>2 DEF Walked
<1>5. /\ g[0] = <<>> /\ Kept(p, more) = g[Len(p)]
      /\ \A i \in 1..Len(p) : g[i] = Walk(IsRooted(p), more, g[i - 1], p[i])
  BY <1>3 DEF Walked
<1>6. Len(p) \in Nat /\ Len(q) \in Nat
  BY LenProperties
<1> DEFINE T == {n \in Nat : n <= Len(q) => g[n + k] = f[n]}
<1>7. 0 \in T
  <2>1. CASE k = 0
    BY <1>4, <1>5, <2>1
  <2>2. CASE k = 1
    <3>1. 1 \in 1..Len(p) /\ 1 - 1 = 0
      BY <1>6, <2>2
    <3>2. g[1] = Walk(IsRooted(p), more, g[0], p[1])
      BY <1>5, <3>1
    <3>3. g[1] = g[0]
      BY <2>2, <3>2 DEF Walk
    <3> QED
      BY <1>4, <1>5, <2>2, <3>3
  <2> QED
    BY <2>1, <2>2
<1>8. ASSUME NEW n \in T PROVE n + 1 \in T
  <2>1. n \in Nat /\ n + 1 \in Nat
    OBVIOUS
  <2>2. ASSUME n + 1 <= Len(q) PROVE g[n + 1 + k] = f[n + 1]
    <3>1. n + 1 \in 1..Len(q) /\ (n + 1) - 1 = n /\ n <= Len(q)
      BY <1>6, <2>1, <2>2
    <3>2. n + 1 + k \in 1..Len(p) /\ (n + 1 + k) - 1 = n + k
      BY <1>6, <2>1, <2>2
    <3>3. g[n + k] = f[n]
      BY <3>1
    <3>4. f[n + 1] = Walk(IsRooted(q), gaps, f[n], q[n + 1])
      BY <1>4, <3>1
    <3>5. g[n + 1 + k] = Walk(IsRooted(p), more, f[n], q[n + 1])
      BY <1>5, <3>1, <3>2, <3>3
    <3>6. q[n + 1] # ".." /\ (q[n + 1] \in gaps <=> q[n + 1] \in more)
      BY <3>1
    <3> QED
      BY <3>4, <3>5, <3>6 DEF Walk
  <2> QED
    BY <2>1, <2>2
<1> HIDE DEF T
<1>9. T \in SUBSET Nat
  BY DEF T
<1>10. T = Nat
  BY <1>7, <1>8, <1>9, SetInduction
<1>11. g[Len(q) + k] = f[Len(q)]
  BY <1>6, <1>10 DEF T
<1> QED
  BY <1>4, <1>5, <1>11

\* What is in no path that tarGzFromParts and TarGzFromSources write.
NoSegments == {"", ".", "..", "\\"}

CleanTar(q) == q # <<>> /\ \A i \in 1..Len(q) : q[i] \notin NoSegments

\* What is behind the first of a sequence.
LEMMA BehindFirst ==
  ASSUME NEW S, NEW s \in Seq(S), s # <<>>, NEW e
  PROVE  Tail(<<e>> \o s) = s /\ Head(<<e>> \o s) = e /\ Len(<<e>> \o s) > 1
<1>1. Tail(<<e>> \o s) = s /\ Head(<<e>> \o s) = e /\ Len(<<e>> \o s) = 1 + Len(s)
  OBVIOUS
<1>2. Len(s) \in Nat \ {0}
  BY EmptySeq
<1> QED
  BY <1>1, <1>2

\* One slash is taken from in front of something.
LEMMA SlashTrimmed ==
  ASSUME NEW S, NEW s \in Seq(S), s # <<>>, NEW e, e = ""
  PROVE  TrimSlash(<<e>> \o s) = s
<1>1. Tail(<<e>> \o s) = s /\ Head(<<e>> \o s) = e /\ Len(<<e>> \o s) > 1
  BY BehindFirst, Zenon
<1> QED
  BY <1>1 DEF TrimSlash, IsRooted

\* The first of a sequence.
LEMMA FirstIs ==
  ASSUME NEW S, NEW s \in Seq(S), s # <<>>
  PROVE  Head(s) = s[1] /\ 1 \in 1..Len(s)
<1>1. Head(s) = s[1]
  OBVIOUS
<1>2. Len(s) \in Nat \ {0}
  BY EmptySeq
<1> QED
  BY <1>1, <1>2

\* Where no slash is in front, none is taken.
LEMMA NothingTrimmed ==
  ASSUME NEW S, NEW s \in Seq(S), s # <<>>, s[1] # ""
  PROVE  TrimSlash(s) = s /\ ~IsRooted(s)
<1>1. Head(s) = s[1]
  BY FirstIs
<1> QED
  BY <1>1 DEF TrimSlash, IsRooted

\* A name that is not refused leaves the segments it is about.
LEMMA SanitizedClean ==
  ASSUME NEW S, NEW p \in Seq(S), SanitizeTarPath(p) # NoPath
  PROVE  /\ SanitizeTarPath(p) = Kept(p, {"", ".", "\\"})
         /\ SanitizeTarPath(p) \in Seq(S) /\ CleanTar(SanitizeTarPath(p))
<1>1. PICK gaps : gaps = {"", ".", "\\"}
  OBVIOUS
<1>2. PICK kept : kept = Kept(p, gaps)
  OBVIOUS
<1>3. kept \in Seq(S) /\ \A i \in 1..Len(kept) : kept[i] \notin gaps
  BY <1>2, KeptClean
<1>4. PICK q : q = TrimSlash(CleanOf(p, gaps))
  OBVIOUS
<1>5. SanitizeTarPath(p) = q /\ q # EmptyPath /\ q # <<".">> /\ ".." \notin ToSet(q)
  <2>1. SanitizeTarPath(p) =
          IF p = EmptyPath \/ q \in {EmptyPath, <<".">>} \/ ".." \in ToSet(q)
          THEN NoPath ELSE q
    BY <1>1, <1>4 DEF SanitizeTarPath
  <2> QED
    BY <2>1
<1>6. PICK root : root = ""
  OBVIOUS
<1>7. CASE kept = <<>>
  <2>1. CASE IsRooted(p)
    <3>1. CleanOf(p, gaps) = <<root>> \o <<root>>
      BY <1>2, <1>6, <1>7, <2>1 DEF CleanOf, EmptyPath
    <3>2. <<root>> \in Seq({root}) /\ <<root>> # <<>>
      OBVIOUS
    <3>3. TrimSlash(<<root>> \o <<root>>) = <<root>>
      BY <1>6, <3>2, SlashTrimmed
    <3> QED
      BY <1>4, <1>5, <1>6, <3>1, <3>3 DEF EmptyPath
  <2>2. CASE ~IsRooted(p)
    <3>1. PICK dot : dot = "."
      OBVIOUS
    <3>2. CleanOf(p, gaps) = <<dot>>
      BY <1>2, <1>7, <2>2, <3>1 DEF CleanOf
    <3>3. Len(<<dot>>) = 1
      OBVIOUS
    <3>4. TrimSlash(<<dot>>) = <<dot>>
      BY <3>3 DEF TrimSlash, IsRooted
    <3> QED
      BY <1>4, <1>5, <3>1, <3>2, <3>4
  <2> QED
    BY <2>1, <2>2
<1>8. CASE kept # <<>>
  <2>1. root \in gaps
    BY <1>1, <1>6
  <2>2. kept[1] # root
    BY <1>3, <1>8, <2>1, FirstIs
  <2>3. q = kept
    <3>1. CASE IsRooted(p)
      <4>1. CleanOf(p, gaps) = <<root>> \o kept
        BY <1>2, <1>6, <1>8, <3>1 DEF CleanOf
      <4>2. TrimSlash(<<root>> \o kept) = kept
        BY <1>3, <1>6, <1>8, SlashTrimmed
      <4> QED
        BY <1>4, <4>1, <4>2
    <3>2. CASE ~IsRooted(p)
      <4>1. CleanOf(p, gaps) = kept
        BY <1>2, <1>8, <3>2 DEF CleanOf
      <4>2. TrimSlash(kept) = kept
        BY <1>3, <1>6, <1>8, <2>2, NothingTrimmed
      <4> QED
        BY <1>4, <4>1, <4>2
    <3> QED
      BY <3>1, <3>2
  <2>4. DOMAIN kept = 1..Len(kept)
    BY <1>3, LenProperties
  <2>5. \A i \in 1..Len(kept) : kept[i] # ".."
    BY <1>5, <2>3, <2>4 DEF ToSet
  <2>6. NoSegments = gaps \cup {".."}
    BY <1>1 DEF NoSegments
  <2> QED
    BY <1>1, <1>2, <1>3, <1>5, <1>8, <2>3, <2>5, <2>6 DEF CleanTar
<1> QED
  BY <1>7, <1>8

\* Such a path is found as it is.
LEMMA CleanTarStays ==
  ASSUME NEW S, NEW q \in Seq(S), CleanTar(q)
  PROVE  TrimSlash(q) = q /\ Clean(q) = q /\ InnerPath(q) = q /\ q # NoPath
<1>1. q # <<>> /\ \A i \in 1..Len(q) : q[i] \notin NoSegments
  BY DEF CleanTar
<1>2. Head(q) = q[1] /\ q[1] \notin NoSegments
  BY <1>1, FirstIs
<1>3. q[1] # "" /\ q[1] # "." /\ q[1] # ".."
  BY <1>2 DEF NoSegments
<1>4. TrimSlash(q) = q /\ ~IsRooted(q)
  BY <1>1, <1>3, NothingTrimmed
<1>5. PICK gaps : gaps = {"", "."}
  OBVIOUS
<1>6. Kept(q, gaps) = q
  <2>1. \A s : s \notin NoSegments => s \notin gaps /\ s # ".."
    BY <1>5 DEF NoSegments
  <2>2. \A i \in 1..Len(q) : q[i] \notin gaps /\ q[i] # ".."
    BY <1>1, <2>1
  <2> QED
    BY <2>2, KeptPlain
<1>7. Clean(q) = q
  <2>1. Clean(q) = CleanOf(q, gaps)
    BY <1>5 DEF Clean
  <2> QED
    BY <1>1, <1>4, <1>6, <2>1 DEF CleanOf
<1>8. q # <<".">>
  <2>1. \A x : <<x>>[1] = x
    OBVIOUS
  <2>2. <<".">>[1] = "."
    BY <2>1, Zenon
  <2> QED
    BY <1>3, <2>2, Zenon
<1> QED
  BY <1>1, <1>2, <1>3, <1>4, <1>7, <1>8 DEF InnerPath, NoPath

\* A name that create and get spell alike: it leads to its tar path.
LEMMA PlainName ==
  ASSUME NEW S, NEW p \in Seq(S), SanitizeTarPath(p) # NoPath,
         {"..", "\\"} \cap ToSet(p) = {}, ~IsRooted(TrimSlash(p))
  PROVE  InnerPath(p) = SanitizeTarPath(p)
<1>1. PICK more : more = {"", ".", "\\"}
  OBVIOUS
<1>2. PICK gaps : gaps = {"", "."}
  OBVIOUS
<1>3. PICK kept : kept = Kept(p, more)
  OBVIOUS
<1>4. SanitizeTarPath(p) = kept /\ kept \in Seq(S) /\ CleanTar(kept)
  BY <1>1, <1>3, SanitizedClean
<1>5. Len(p) \in Nat /\ DOMAIN p = 1..Len(p)
  BY LenProperties
<1>6. \A s \in ToSet(p) : s # ".." /\ (s \in gaps <=> s \in more)
  BY <1>1, <1>2
<1>7. \A i \in 1..Len(p) : p[i] \in ToSet(p)
  BY <1>5 DEF ToSet
<1>8. Kept(TrimSlash(p), gaps) = kept
  <2>1. CASE IsRooted(p)
    <3>1. Len(p) > 1 /\ TrimSlash(p) = Tail(p)
      BY <2>1 DEF IsRooted, TrimSlash
    <3>2. PICK q : q = Tail(p)
      OBVIOUS
    <3>3. p # <<>>
      <4>1. Len(<<>>) = 0
        BY EmptySeq
      <4> QED
        BY <3>1, <4>1
    <3>4. q \in Seq(S) /\ Len(q) = Len(p) - 1 /\ \A i \in 1..Len(q) : q[i] = p[i + 1]
      BY <3>2, <3>3, HeadTailProperties
    <3>5. Len(p) = Len(q) + 1 /\ \A i \in 1..Len(q) : i + 1 \in 1..Len(p)
      BY <1>5, <3>4
    <3>6. \A i \in 1..Len(q) : q[i] # ".." /\ (q[i] \in gaps <=> q[i] \in more)
      BY <1>6, <1>7, <3>4, <3>5
    <3>7. p[1] = ""
      <4>1. Head(p) = p[1]
        BY <3>3, FirstIs
      <4> QED
        BY <2>1, <4>1 DEF IsRooted
    <3>8. p[1] \in more
      BY <1>1, <3>7
    <3>9. Kept(q, gaps) = Kept(p, more)
      BY <3>4, <3>5, <3>6, <3>8, KeptAlike
    <3> QED
      BY <1>3, <3>1, <3>2, <3>9
  <2>2. CASE ~IsRooted(p)
    <3>1. TrimSlash(p) = p
      BY <2>2 DEF TrimSlash
    <3>2. Len(p) = Len(p) + 0 /\ \A i \in 1..Len(p) : p[i] = p[i + 0]
      BY <1>5
    <3>3. \A i \in 1..Len(p) : p[i] # ".." /\ (p[i] \in gaps <=> p[i] \in more)
      BY <1>6, <1>7
    <3>4. Kept(p, gaps) = Kept(p, more)
      BY <3>2, <3>3, KeptAlike
    <3> QED
      BY <1>3, <3>1, <3>4
  <2> QED
    BY <2>1, <2>2
<1>9. Clean(TrimSlash(p)) = kept
  BY <1>2, <1>4, <1>8 DEF Clean, CleanOf, CleanTar
<1>10. Clean(kept) = kept /\ InnerPath(kept) = kept /\ TrimSlash(kept) = kept
  BY <1>4, CleanTarStays
<1> QED
  BY <1>4, <1>9, <1>10 DEF InnerPath

-----------------------------------------------------------------------------
(* Archives                                                                *)

\* A set of naturals that is not empty has a least one.
LEMMA LeastIs ==
  ASSUME NEW T \in SUBSET Nat, T # {}
  PROVE  Min(T) \in T
<1> DEFINE Less == OpToRel(<, Nat)
<1>1. IsWellFoundedOn(Less, Nat)
  BY NatLessThanWellFounded, Zenon
<1>2. Less = {ss \in Nat \X Nat : ss[1] < ss[2]}
  BY Zenon DEF OpToRel
<1>3. \A x, y \in Nat : x < y => <<x, y>> \in Less
  BY <1>2
<1> HIDE DEF Less
<1>4. PICK x \in T : \A y \in T : ~(<<y, x>> \in Less)
  BY <1>1, WFMin, Zenon
<1>5. ASSUME NEW y \in T PROVE x <= y
  <2>1. x \in Nat /\ y \in Nat
    OBVIOUS
  <2>2. ~(y < x)
    BY <1>3, <1>4, <2>1
  <2> QED
    BY <2>1, <2>2
<1> QED
  BY <1>5 DEF Min

Hits(parts, p) ==
  {i \in DOMAIN parts : Clean(TrimSlash(parts[i].path)) = InnerPath(p)}

\* What extractFromTarReader finds is a part of that name, and if it finds none
\* there is none, or the archive was cut.
LEMMA ExtractIs ==
  ASSUME NEW archive, NEW p, NEW n \in Nat, DOMAIN archive.parts = 1..n
  PROVE  LET found == Extract(archive, p)
             hits == Hits(archive.parts, p)
         IN  /\ found.result # "refused" => InnerPath(p) # NoPath
             /\ found.result = "blob" => \E i \in hits : found.parts = <<archive.parts[i]>>
             /\ InnerPath(p) # NoPath /\ hits # {} => found.result = "blob"
             /\ found.result \in {"refused", "blob", "absent", "broken"}
<1>1. PICK hits : hits = Hits(archive.parts, p)
  OBVIOUS
<1>2. hits # {} => Min(hits) \in hits
  <2>1. hits \in SUBSET Nat
    BY <1>1 DEF Hits
  <2> QED
    BY <2>1, LeastIs
<1>3. Extract(archive, p) =
        IF InnerPath(p) = NoPath THEN [result |-> "refused", parts |-> <<>>]
        ELSE IF hits # {}
          THEN [result |-> "blob", parts |-> <<archive.parts[Min(hits)]>>]
        ELSE IF archive.whole \/ archive.parts = <<>>
          THEN [result |-> "absent", parts |-> <<>>]
        ELSE [result |-> "broken", parts |-> <<>>]
  BY <1>1, Zenon DEF Extract, Hits
<1> QED
  BY <1>1, <1>2, <1>3

\* The parts of an archive that was packed: clean paths, no two alike.
CleanParts(parts, S) ==
  \E n \in Nat :
    /\ DOMAIN parts = 1..n /\ Len(parts) = n
    /\ \A i \in 1..n : parts[i].path \in Seq(S) /\ CleanTar(parts[i].path)
    /\ \A i, j \in 1..n : parts[i].path = parts[j].path => i = j

\* Every part of such an archive is found.
LEMMA PartFound ==
  ASSUME NEW S, NEW archive, CleanParts(archive.parts, S),
         NEW i \in DOMAIN archive.parts, NEW p, InnerPath(p) = archive.parts[i].path
  PROVE  Extract(archive, p).result = "blob"
         /\ Extract(archive, p).parts = <<archive.parts[i]>>
<1>1. PICK parts : parts = archive.parts
  OBVIOUS
<1>2. PICK n \in Nat :
        /\ DOMAIN parts = 1..n
        /\ \A j \in 1..n : parts[j].path \in Seq(S) /\ CleanTar(parts[j].path)
        /\ \A j, k \in 1..n : parts[j].path = parts[k].path => j = k
  BY <1>1 DEF CleanParts
<1>3. \A j \in 1..n : Clean(TrimSlash(parts[j].path)) = parts[j].path
  BY <1>2, CleanTarStays
<1>4. InnerPath(p) # NoPath
  BY <1>1, <1>2, CleanTarStays
<1>5. Hits(parts, p) = {i}
  BY <1>1, <1>2, <1>3 DEF Hits
<1> QED
  BY <1>1, <1>2, <1>4, <1>5, ExtractIs

-----------------------------------------------------------------------------
(* Files of an archive                                                     *)

\* Every file of an archive that was packed is found.
LEMMA FileFound ==
  ASSUME NEW S, NEW parts, CleanParts(parts, S), NEW i \in DOMAIN parts
  PROVE  FindFile(parts, TRUE, parts[i].path) = Found(parts[i].data)
<1>1. PICK n \in Nat :
        /\ DOMAIN parts = 1..n
        /\ \A j \in 1..n : parts[j].path \in Seq(S) /\ CleanTar(parts[j].path)
        /\ \A j, k \in 1..n : parts[j].path = parts[k].path => j = k
  BY DEF CleanParts
<1>2. PICK target : target = parts[i].path
  OBVIOUS
<1>3. \A j \in 1..n : Clean(TrimSlash(parts[j].path)) = parts[j].path
  BY <1>1, CleanTarStays
<1>4. target \notin {<<".">>, EmptyPath}
  <2>1. target \in Seq(S) /\ CleanTar(target)
    BY <1>1, <1>2
  <2>2. target[1] \notin NoSegments
    BY <2>1, FirstIs DEF CleanTar
  <2>3. \A x : <<x>>[1] = x
    OBVIOUS
  <2>4. <<".">>[1] = "." /\ EmptyPath[1] = ""
    BY <2>3, Zenon DEF EmptyPath
  <2> QED
    BY <2>2, <2>4 DEF NoSegments
<1>5. PICK paths : paths = [j \in DOMAIN parts |-> Clean(TrimSlash(parts[j].path))]
  OBVIOUS
<1>6. {j \in DOMAIN parts : paths[j] = target} = {i}
  BY <1>1, <1>2, <1>3, <1>5
<1>7. Min({i}) = i
  <2>1. {i} \in SUBSET Nat /\ {i} # {}
    BY <1>1
  <2>2. Min({i}) \in {i}
    BY <2>1, LeastIs
  <2> QED
    BY <2>2
<1>8. Clean(TrimSlash(target)) = target
  BY <1>1, <1>2, <1>3
<1> QED
  BY <1>2, <1>4, <1>5, <1>6, <1>7, <1>8, Zenon DEF FindFile

\* The samples of a simplified header can be counted.
Sampled(data) == data.kind = "simple" => IsSeq(data.samples)

\* A finite archive of such files.
WellFormed(parts) ==
  \E n \in Nat :
    /\ DOMAIN parts = 1..n
    /\ \A i \in 1..n : Sampled(parts[i].data)

\* The files that are called n, and those of them at the top.
NamedIn(parts, n) == {i \in DOMAIN parts : Last(Clean(TrimSlash(parts[i].path))) = n}
TopIn(parts, n) == {i \in NamedIn(parts, n) : Clean(TrimSlash(parts[i].path)) = <<n>>}

\* The one that is meant.
FileOf(parts, n) ==
  IF TopIn(parts, n) # {} THEN Min(TopIn(parts, n))
  ELSE CHOOSE i \in NamedIn(parts, n) : TRUE

\* The search for a file by its name alone.
LEMMA SearchIs ==
  ASSUME NEW parts, WellFormed(parts), NEW n, n \notin NoSegments
  PROVE  LET found == FindFile(parts, TRUE, <<n>>)
         IN  /\ found.result \in {"found", "absent", "error"}
             /\ found.result = "found" =>
                  /\ NamedIn(parts, n) # {} /\ FileOf(parts, n) \in DOMAIN parts
                  /\ found = Found(parts[FileOf(parts, n)].data)
             /\ found.result = "absent" => NamedIn(parts, n) = {}
<1>0. /\ \A d : Found(d).result = "found"
      /\ NotFound.result = "absent" /\ Failed.result = "error"
  BY DEF Found, NotFound, Failed
<1>1. PICK m \in Nat : DOMAIN parts = 1..m
  BY DEF WellFormed
<1>2. <<n>> \in Seq({n}) /\ <<n>> # <<>> /\ Len(<<n>>) = 1 /\ <<n>>[1] = n
  OBVIOUS
<1>3. Last(<<n>>) = n
  BY <1>2 DEF Last
<1>4. Clean(TrimSlash(<<n>>)) = <<n>>
  <2>1. CleanTar(<<n>>)
    BY <1>2 DEF CleanTar
  <2> QED
    BY <1>2, <2>1, CleanTarStays
<1>5. <<n>> \notin {<<".">>, EmptyPath}
  <2>1. \A x : <<x>>[1] = x
    OBVIOUS
  <2>2. <<".">>[1] = "." /\ EmptyPath[1] = ""
    BY <2>1, Zenon DEF EmptyPath
  <2>3. n # "." /\ n # ""
    BY DEF NoSegments
  <2> QED
    BY <1>2, <2>2, <2>3
<1>6. PICK paths : paths = [i \in DOMAIN parts |-> Clean(TrimSlash(parts[i].path))]
  OBVIOUS
<1>7. PICK exact : exact = {i \in DOMAIN parts : paths[i] = <<n>>}
  OBVIOUS
<1>8. PICK named : named = {i \in DOMAIN parts : <<Last(paths[i])>> = <<n>>}
  OBVIOUS
<1>9. exact = TopIn(parts, n)
  BY <1>3, <1>6, <1>7 DEF TopIn, NamedIn
<1>10. named = NamedIn(parts, n)
  <2>1. \A x : <<x>> = <<n>> <=> x = n
    OBVIOUS
  <2> QED
    BY <1>6, <1>8, <2>1 DEF NamedIn
<1>11. PICK hits : hits = IF exact # {} THEN {Min(exact)} ELSE named
  OBVIOUS
<1>12. PICK found : found = FindFile(parts, TRUE, <<n>>)
  OBVIOUS
<1>13. found = IF exact = {} /\ Cardinality(named) > 1 THEN Failed
               ELSE IF hits = {} THEN NotFound
               ELSE Found(parts[Min(hits)].data)
  BY <1>4, <1>5, <1>6, <1>7, <1>8, <1>11, <1>12, Zenon DEF FindFile
<1>14. exact \subseteq named /\ named \in SUBSET Nat /\ IsFiniteSet(named)
  <2>1. named \subseteq 1..m
    BY <1>1, <1>8
  <2>2. IsFiniteSet(named)
    <3>1. IsFiniteSet(1..m)
      BY <1>1, FS_Interval
    <3> QED
      BY <2>1, <3>1, FS_Subset
  <2>3. exact \subseteq named
    BY <1>9, <1>10 DEF TopIn
  <2> QED
    BY <2>1, <2>2, <2>3
<1>15. CASE exact # {}
  <2>1. exact \in SUBSET Nat
    BY <1>14
  <2>2. Min(exact) \in exact
    BY <1>15, <2>1, LeastIs
  <2>3. Min({Min(exact)}) = Min(exact)
    <3>1. PICK k \in Nat : k = Min(exact)
      BY <2>1, <2>2
    <3>2. {k} \in SUBSET Nat /\ {k} # {}
      BY <3>1
    <3>3. Min({k}) \in {k}
      BY <3>2, LeastIs
    <3> QED
      BY <3>1, <3>3
  <2>4. FileOf(parts, n) = Min(exact)
    BY <1>9, <1>15 DEF FileOf
  <2>5. found = Found(parts[FileOf(parts, n)].data)
    BY <1>11, <1>13, <1>15, <2>3, <2>4
  <2>6. FileOf(parts, n) \in named
    BY <1>14, <2>2, <2>4
  <2>7. NamedIn(parts, n) # {} /\ FileOf(parts, n) \in DOMAIN parts
    BY <1>8, <1>10, <2>6
  <2> QED
    BY <1>0, <1>12, <2>5, <2>7
<1>16. CASE exact = {} /\ named = {}
  <2>1. Cardinality(named) = 0
    BY <1>16, FS_EmptySet
  <2>2. found = NotFound
    BY <1>11, <1>13, <1>16, <2>1
  <2> QED
    BY <1>0, <1>10, <1>12, <1>16, <2>2
<1>17. CASE exact = {} /\ named # {} /\ Cardinality(named) > 1
  <2>1. found = Failed
    BY <1>13, <1>17
  <2> QED
    BY <1>0, <1>12, <2>1
<1>18. CASE exact = {} /\ named # {} /\ ~(Cardinality(named) > 1)
  <2>1. PICK i : named = {i}
    <3>1. Cardinality(named) \in Nat /\ Cardinality(named) # 0
      BY <1>14, <1>18, FS_CardinalityType, FS_EmptySet
    <3>2. Cardinality(named) = 1
      BY <1>18, <3>1
    <3> QED
      BY <1>14, <3>2, FS_Singleton
  <2>2. i \in Nat /\ i \in DOMAIN parts
    BY <1>8, <1>14, <2>1
  <2>3. Min(named) = i
    <3>1. Min(named) \in named
      BY <1>14, <1>18, LeastIs
    <3> QED
      BY <2>1, <3>1
  <2>4. FileOf(parts, n) = i
    BY <1>9, <1>10, <1>18, <2>1 DEF FileOf
  <2>5. found = Found(parts[i].data)
    BY <1>11, <1>13, <1>18, <2>3
  <2> QED
    BY <1>0, <1>10, <1>12, <1>18, <2>2, <2>4, <2>5
<1> QED
  BY <1>15, <1>16, <1>17, <1>18

\* What a header that was found says of requests is what the file says that
\* describes the tool.
LEMMA HeaderMeans ==
  ASSUME NEW parts, WellFormed(parts),
         NEW header \in LoadToolHeader(parts), header.result = "found"
  PROVE  \A given, row : Admits(header.schema, given, row)
                           = Documented(HeaderFile(parts), given, row)
<1>1. PICK s, t : s = SimpleToolFileName /\ t = ToolFileName
  OBVIOUS
<1>2. s \notin NoSegments /\ t \notin NoSegments
  BY <1>1 DEF SimpleToolFileName, ToolFileName, NoSegments
<1>3. PICK simple, tool : /\ simple = FindFile(parts, TRUE, <<s>>)
                          /\ tool = FindFile(parts, TRUE, <<t>>)
  OBVIOUS
<1>4. header = HeaderFrom(simple, tool)
  <2>1. \A x, y, h : h \in {HeaderFrom(a, b) : a \in {x}, b \in {y}}
                      => h = HeaderFrom(x, y)
    OBVIOUS
  <2>2. header \in {HeaderFrom(a, b) : a \in {simple}, b \in {tool}}
    BY <1>1, <1>3 DEF LoadToolHeader
  <2> QED
    BY <2>1, <2>2
<1>5. /\ simple.result \in {"found", "absent", "error"}
      /\ simple.result = "found" =>
           /\ NamedIn(parts, s) # {} /\ FileOf(parts, s) \in DOMAIN parts
           /\ simple = Found(parts[FileOf(parts, s)].data)
      /\ simple.result = "absent" => NamedIn(parts, s) = {}
  BY <1>2, <1>3, SearchIs
<1>6. tool.result = "found" =>
        /\ FileOf(parts, t) \in DOMAIN parts
        /\ tool = Found(parts[FileOf(parts, t)].data)
  BY <1>2, <1>3, SearchIs
<1>7. /\ \A d : Found(d).data = d
      /\ \A r : NoHeader(r).result = r
  BY DEF Found, NoHeader
<1>8. HeaderFile(parts) =
        parts[FileOf(parts, IF NamedIn(parts, s) # {} THEN s ELSE t)].data
  <2>1. CASE NamedIn(parts, s) # {}
    BY <1>1, <2>1 DEF HeaderFile, FileOf, TopIn, NamedIn
  <2>2. CASE NamedIn(parts, s) = {}
    BY <1>1, <2>2 DEF HeaderFile, FileOf, TopIn, NamedIn
  <2> QED
    BY <2>1, <2>2
<1>9. simple.result = "found" \/ simple.result = "absent"
  <2>1. simple.result = "error" => header = NoHeader("error")
    BY <1>4 DEF HeaderFrom
  <2>2. "error" # "found"
    OBVIOUS
  <2> QED
    BY <1>5, <1>7, <2>1, <2>2
<1>10. CASE simple.result = "found"
  <2>1. PICK i, d : i = FileOf(parts, s) /\ d = parts[i].data
    OBVIOUS
  <2>2. header = SimpleHeader(d)
    <3>1. header = SimpleHeader(simple.data)
      BY <1>4, <1>10 DEF HeaderFrom
    <3> QED
      BY <1>5, <1>7, <1>10, <2>1, <3>1
  <2>3. d.kind = "simple" /\ header.schema = BuildFnSchema(d)
    <3>1. header # NoHeader("error")
      <4>1. "error" # "found"
        OBVIOUS
      <4> QED
        BY <1>7, <4>1
    <3>2. d.kind = "simple" /\ header = ConvertSimpleTool(d)
      BY <2>2, <3>1 DEF SimpleHeader
    <3>3. header = [result |-> "found", schema |-> BuildFnSchema(d)]
      BY <3>1, <3>2 DEF ConvertSimpleTool
    <3> QED
      BY <3>2, <3>3
  <2>4. IsSeq(d.samples)
    BY <1>5, <1>10, <2>1, <2>3 DEF WellFormed, Sampled
  <2>5. Len(d.samples) # 0 <=> d.samples # <<>>
    BY <2>4, EmptySeq DEF IsSeq
  <2>6. /\ BuildFnSchema(d).required
             = {p.name : p \in {q \in ToSet(d.params) : ~q.optional}}
        /\ BuildFnSchema(d).samples = Len(d.samples)
    BY DEF BuildFnSchema
  <2>7. HeaderFile(parts) = d
    BY <1>5, <1>8, <1>10, <2>1
  <2>8. ASSUME NEW given, NEW row
        PROVE  Admits(header.schema, given, row) = Documented(d, given, row)
    <3>1. PICK params : params = ToSet(d.params)
      OBVIOUS
    <3>2. {p.name : p \in {q \in params : ~q.optional}} \subseteq given
            <=> \A p \in params : p.optional \/ p.name \in given
      OBVIOUS
    <3>3. Admits(header.schema, given, row) <=>
            /\ {p.name : p \in {q \in params : ~q.optional}} \subseteq given
            /\ Len(d.samples) # 0 => row = Len(d.samples)
      BY <2>3, <2>6, <3>1 DEF Admits
    <3>4. Documented(d, given, row) <=>
            /\ \A p \in params : p.optional \/ p.name \in given
            /\ d.samples = <<>> \/ row = Len(d.samples)
      BY <2>3, <3>1, Zenon DEF Documented
    <3>5. Admits(header.schema, given, row) <=> Documented(d, given, row)
      BY <2>5, <3>2, <3>3, <3>4
    <3>6. Admits(header.schema, given, row) \in BOOLEAN
      BY DEF Admits
    <3>7. Documented(d, given, row) \in BOOLEAN
      BY DEF Documented, Admits
    <3> QED
      BY <3>5, <3>6, <3>7
  <2> QED
    BY <2>7, <2>8
<1>11. CASE simple.result = "absent"
  <2>1. NamedIn(parts, s) = {}
    BY <1>5, <1>11
  <2>2. header = IF tool.result = "found" THEN FullHeader(tool.data)
                                         ELSE NoHeader(tool.result)
    BY <1>4, <1>11 DEF HeaderFrom
  <2>3. tool.result = "found"
    BY <1>7, <2>2
  <2>4. PICK d : d = parts[FileOf(parts, t)].data
    OBVIOUS
  <2>5. header = FullHeader(d)
    BY <1>6, <1>7, <2>2, <2>3, <2>4
  <2>6. d.kind = "tool" /\ header.schema = d.fn
    <3>1. header # NoHeader("error")
      <4>1. "error" # "found"
        OBVIOUS
      <4> QED
        BY <1>7, <4>1
    <3> QED
      BY <2>5, <3>1 DEF FullHeader
  <2>7. HeaderFile(parts) = d
    BY <1>8, <2>1, <2>4
  <2>8. "tool" # "simple"
    OBVIOUS
  <2>9. \A given, row : Documented(d, given, row) = Admits(d.fn, given, row)
    BY <2>6, <2>8, Zenon DEF Documented
  <2> QED
    BY <2>6, <2>7, <2>9
<1> QED
  BY <1>9, <1>10, <1>11

-----------------------------------------------------------------------------
(* What artifact_create packs                                              *)

\* The segments of default names and of the manifest's are strings like others.
Names(S) == /\ \A i \in 1..3 : <<DefaultPartName(i)>> \in Seq(S)
            /\ Manifest \in Seq(S)

\* There is a set of segments with all of them.
LEMMA NamesExist == \E S : STRING \subseteq S /\ Names(S)
<1>1. \A x, y, z : <<x, y, z>>[1] = x /\ <<x, y, z>>[2] = y /\ <<x, y, z>>[3] = z
  OBVIOUS
<1>2. PICK x, y, z, m : /\ x = "part-1.txt" /\ y = "part-2.txt" /\ z = "part-3.txt"
                        /\ m = "MANIFEST.json"
  OBVIOUS
<1>3. PICK S : S = STRING \cup {x, y, z, m}
  OBVIOUS
<1>4. \A s : s \in S => <<s>> \in Seq(S)
  OBVIOUS
<1>5. DefaultPartName(1) = x /\ DefaultPartName(2) = y /\ DefaultPartName(3) = z
  BY <1>1, <1>2, Zenon DEF DefaultPartName
<1>6. \A i \in 1..3 : i = 1 \/ i = 2 \/ i = 3
  OBVIOUS
<1>7. \A i \in 1..3 : DefaultPartName(i) \in S
  BY <1>3, <1>5, <1>6
<1>8. Manifest = <<m>> /\ m \in S
  BY <1>2, <1>3 DEF Manifest
<1> QED
  BY <1>3, <1>4, <1>7, <1>8 DEF Names

\* The manifest's name is like those of files.
LEMMA ManifestClean == CleanTar(Manifest)
<1>1. PICK s : s = "MANIFEST.json"
  OBVIOUS
<1>2. s \notin NoSegments
  BY <1>1 DEF NoSegments
<1>3. Manifest = <<s>>
  BY <1>1 DEF Manifest
<1>4. <<s>> # <<>> /\ Len(<<s>>) = 1 /\ <<s>>[1] = s
  OBVIOUS
<1> QED
  BY <1>2, <1>3, <1>4 DEF CleanTar

\* Names that tarGzFromParts accepts have clean tar paths.
LEMMA TarPathClean ==
  ASSUME NEW S, Names(S), NEW names \in Seq(Seq(S)), Len(names) \in 1..3,
         ValidNames(names), NEW i \in 1..Len(names)
  PROVE  TarPath(names, i) \in Seq(S) /\ CleanTar(TarPath(names, i))
<1>1. i \in DOMAIN names /\ names[i] \in Seq(S) /\ i \in 1..3
  <2>1. names[i] \in Seq(S)
    BY ElementOfSeq
  <2>2. DOMAIN names = 1..Len(names)
    BY LenProperties
  <2> QED
    BY <2>1, <2>2
<1>2. TarPath(names, i) # NoPath
  BY <1>1 DEF ValidNames
<1>3. PICK p : p = IF names[i] = EmptyPath THEN <<DefaultPartName(i)>> ELSE names[i]
  OBVIOUS
<1>4. p \in Seq(S)
  BY <1>1, <1>3 DEF Names
<1>5. TarPath(names, i) = SanitizeTarPath(p)
  BY <1>3 DEF TarPath
<1> QED
  BY <1>2, <1>4, <1>5, SanitizedClean

\* What Payload puts together.
LEMMA PayloadIs ==
  ASSUME NEW names, NEW create
  PROVE  LET c == Payload(names, create)
             parts == [i \in DOMAIN names |->
                         [path |-> TarPath(names, i), data |-> <<create, i>>]]
             last == [path |-> Manifest, data |-> <<create, 0>>]
         IN  /\ c.whole = TRUE /\ c.tar = (Len(names) # 1)
             /\ Len(names) # 1 => c.parts = Append(parts, last)
             /\ Len(names) = 1 => c.parts = <<[path |-> NoPath, data |-> <<create, 1>>]>>
BY DEF Payload

\* An archive that is packed has clean paths, no two alike.
LEMMA PayloadParts ==
  ASSUME NEW S, Names(S), NEW names \in Seq(Seq(S)), Len(names) \in 1..3,
         Len(names) > 1 => ValidNames(names), NEW create
  PROVE  LET c == Payload(names, create)
         IN  /\ IsSeq(c.parts) /\ c.whole /\ c.tar \in BOOLEAN
             /\ c.tar => /\ CleanParts(c.parts, S) /\ Len(c.parts) = Len(names) + 1
                         /\ \A i \in 1..Len(names) : c.parts[i].path = TarPath(names, i)
                         /\ c.parts[Len(names) + 1].path = Manifest
<1>1. PICK c : c = Payload(names, create)
  OBVIOUS
<1>2. CASE Len(names) = 1
  <2>1. PICK part : c.parts = <<part>> /\ ~c.tar /\ c.whole /\ c.tar = FALSE
    BY <1>1, <1>2, PayloadIs
  <2>2. <<part>> \in Seq({part})
    OBVIOUS
  <2>3. IsSeq(c.parts)
    BY <2>1, <2>2 DEF IsSeq
  <2> QED
    BY <1>1, <2>1, <2>3
<1>3. CASE Len(names) # 1
  <2>1. PICK f : f = [i \in DOMAIN names |->
                        [path |-> TarPath(names, i), data |-> <<create, i>>]]
    OBVIOUS
  <2>2. PICK last : last = [path |-> Manifest, data |-> <<create, 0>>]
    OBVIOUS
  <2>3. c.parts = Append(f, last) /\ c.whole /\ c.tar = TRUE
    BY <1>1, <1>3, <2>1, <2>2, PayloadIs
  <2>4. PICK n : n = Len(names)
    OBVIOUS
  <2>5. n \in Nat /\ n > 1 /\ DOMAIN names = 1..n
    BY <1>3, <2>4, LenProperties
  <2>6. \A i \in 1..n : f[i].path = TarPath(names, i)
    BY <2>1, <2>5
  <2>7. last.path = Manifest
    BY <2>2
  <2>8. f \in Seq({f[i] : i \in 1..n}) /\ Len(f) = n /\ DOMAIN f = 1..n
    <3>1. PICK T : T = {f[i] : i \in 1..n}
      OBVIOUS
    <3>2. f \in [1..n -> T]
      BY <2>1, <2>5, <3>1
    <3>3. f \in Seq(T)
      BY <2>5, <3>2, SeqDef
    <3>4. DOMAIN f = 1..n
      BY <3>2
    <3>5. Len(f) \in Nat /\ DOMAIN f = 1..Len(f)
      BY <3>3, LenProperties
    <3>6. Len(f) = n
      BY <2>5, <3>4, <3>5
    <3> QED
      BY <3>1, <3>3, <3>4, <3>6
  <2>9. PICK parts : parts = Append(f, last)
    OBVIOUS
  <2>10. /\ IsSeq(parts) /\ DOMAIN parts = 1..n + 1
         /\ \A i \in 1..n : parts[i] = f[i]
         /\ parts[n + 1] = last
    <3>1. IsSeq(f)
      BY <2>8 DEF IsSeq
    <3> QED
      BY <2>8, <2>9, <3>1, AppendIsSeq
  <2>11. Len(parts) = n + 1
    BY <2>8, <2>9, AppendProperties, <2>10, IsSeqProperties, <2>5
  <2>12. \A i \in 1..n : /\ parts[i].path = TarPath(names, i)
                         /\ parts[i].path \in Seq(S) /\ CleanTar(parts[i].path)
                         /\ parts[i].path # Manifest
    <3>1. ASSUME NEW i \in 1..n
          PROVE  /\ TarPath(names, i) \in Seq(S) /\ CleanTar(TarPath(names, i))
                 /\ TarPath(names, i) # Manifest
      <4>1. ValidNames(names) /\ i \in 1..Len(names) /\ i \in DOMAIN names
        BY <2>4, <2>5
      <4> QED
        BY <4>1, TarPathClean DEF ValidNames
    <3> QED
      BY <2>6, <2>10, <3>1
  <2>13. /\ parts[n + 1].path = Manifest
         /\ Manifest \in Seq(S) /\ CleanTar(Manifest)
    BY <2>7, <2>10, ManifestClean DEF Names
  <2>14. \A i, j \in 1..n : parts[i].path = parts[j].path => i = j
    <3>1. \A i, j \in 1..n : TarPath(names, i) = TarPath(names, j) => i = j
      BY <2>4, <2>5 DEF ValidNames
    <3> QED
      BY <2>12, <3>1
  <2>15. \A i \in 1..n + 1 : i \in 1..n \/ i = n + 1
    BY <2>5
  <2>16. CleanParts(parts, S)
    <3>1. \A i \in 1..n + 1 : parts[i].path \in Seq(S) /\ CleanTar(parts[i].path)
      BY <2>12, <2>13, <2>15
    <3>2. \A i, j \in 1..n + 1 : parts[i].path = parts[j].path => i = j
      BY <2>12, <2>13, <2>14, <2>15
    <3> QED
      BY <2>5, <2>10, <2>11, <3>1, <3>2 DEF CleanParts
  <2> QED
    BY <1>1, <2>3, <2>4, <2>9, <2>10, <2>11, <2>12, <2>13, <2>16
<1> QED
  BY <1>2, <1>3

-----------------------------------------------------------------------------
(* The MCP server's artifacts: the inductive invariant                     *)

\* The names in an archive are clean, and no two of them alike.
Packed(content) ==
  /\ IsSeq(content.parts)
  /\ content.tar => \E S : CleanParts(content.parts, S)

StoreInv ==
  /\ IsSeq(store)
  /\ \A id \in DOMAIN store :
       LET a == store[id]
       IN  /\ a = [mime |-> a.mime, content |-> a.content,
                   stored |-> a.stored, whole |-> a.whole]
           /\ Packed(a.content)
           /\ a.stored \in Nat /\ a.stored <= Len(a.content.parts)
           /\ a.whole => a.stored = Len(a.content.parts)
           /\ a.mime = "gzip" => a.content.tar

\* What was fetched of an artifact: the first parts of what it will ever hold,
\* and all of them unless somebody came too early.
FetchedOf(data, id) ==
  LET full == store[id].content
  IN  /\ id \in DOMAIN store
      /\ data.tar = full.tar
      /\ \E n \in Nat : /\ n <= Len(full.parts)
                        /\ data.parts = SubSeq(full.parts, 1, n)
                        /\ data.whole => n = Len(full.parts)
      /\ data.whole \/ id \in early

CacheInv == cache.artifact # 0 => FetchedOf(cache.raw, cache.artifact)

CallFields(c) ==
  c = [pc |-> c.pc, names |-> c.names, id |-> c.id, path |-> c.path,
       mime |-> c.mime, data |-> c.data, result |-> c.result]

\* GetExact and MissedOnlyEarly of one call.
Exact(c) ==
  LET full == store[c.id].content.parts
  IN  IF c.path # NoPath
      THEN c.data.parts # <<>> /\ Head(c.data.parts) \in PartsAt(c.id, c.path)
      ELSE IF c.data.whole THEN c.data.parts = full
      ELSE IsPrefix(c.data.parts, full)

Missed(c) == PartsAt(c.id, c.path) # {} => c.id \in early

\* A call that waits knows of which artifact, and what it fetched of it.
CallInv(c) ==
  /\ CallFields(c)
  /\ c.pc # "idle" => c.result = "none"
  /\ c.pc = "create" => /\ c.names \in Contents
                        /\ Len(c.names) > 1 => ValidNames(c.names)
                        /\ \E create : c.data = Payload(c.names, create)
  /\ c.pc \in {"upload", "lookup", "download", "fill"} => c.id \in DOMAIN store
  /\ c.pc \in {"lookup", "download", "fill"} => c.mime \in {store[c.id].mime, "none"}
  /\ c.pc = "fill" => FetchedOf(c.data, c.id)
  /\ c.result \in {"blob", "absent", "broken"} => c.id \in DOMAIN store
  /\ c.result = "blob" => Exact(c)
  /\ c.result \in {"absent", "broken"} => Missed(c)

McpInv ==
  /\ call = [h \in Handlers |-> call[h]]
  /\ StoreInv /\ CacheInv
  /\ \A h \in Handlers : CallInv(call[h])

\* Only the call of h changes.
OnlyCall(h) ==
  call' = [q \in Handlers |-> IF q = h THEN call'[h] ELSE call[q]]

\* What an artifact is made to hold stays, and so does who came too early.
StoreGrows ==
  /\ \A id \in DOMAIN store :
       /\ id \in DOMAIN store'
       /\ store'[id].content = store[id].content
       /\ store'[id].mime = store[id].mime
  /\ early \subseteq early'

\* What was fetched of an artifact is still a part of it when more is stored.
LEMMA FetchedKept ==
  ASSUME StoreGrows, NEW data, NEW id, FetchedOf(data, id)
  PROVE  FetchedOf(data, id)'
<1>1. id \in DOMAIN store /\ id \in DOMAIN store' /\ store'[id].content = store[id].content
  BY DEF FetchedOf, StoreGrows
<1>2. id \in early => id \in early'
  BY DEF StoreGrows
<1> QED
  BY <1>1, <1>2 DEF FetchedOf

\* What is true of a handler stays true when artifacts are added and filled.
LEMMA CallKept ==
  ASSUME StoreGrows, NEW c, CallInv(c)
  PROVE  CallInv(c)'
<1>1. CASE c.id \in DOMAIN store
  <2>1. /\ c.id \in DOMAIN store' /\ store'[c.id].content = store[c.id].content
        /\ store'[c.id].mime = store[c.id].mime
    BY <1>1 DEF StoreGrows
  <2>2. PartsAt(c.id, c.path)' = PartsAt(c.id, c.path)
    BY <2>1 DEF PartsAt
  <2>3. Exact(c)' <=> Exact(c)
    BY <2>1, <2>2 DEF Exact
  <2>4. Missed(c) => Missed(c)'
    BY <2>2 DEF Missed, StoreGrows
  <2>5. c.pc = "fill" => FetchedOf(c.data, c.id)'
    BY FetchedKept DEF CallInv
  <2>6. CallFields(c)'
    BY DEF CallInv, CallFields
  <2> QED
    BY <1>1, <2>1, <2>3, <2>4, <2>5, <2>6 DEF CallInv
<1>2. CASE c.id \notin DOMAIN store
  BY <1>2 DEF CallInv, CallFields
<1> QED
  BY <1>1, <1>2

\* What is left to show of a step of h.
CallOutcome(h) ==
  /\ OnlyCall(h) /\ StoreGrows
  /\ StoreInv' /\ CacheInv' /\ CallInv(call[h])'

\* A step of one handler keeps the invariant if its outcome is right.
LEMMA OutcomeKeepsInv ==
  ASSUME McpInv, NEW h \in Handlers, CallOutcome(h)
  PROVE  McpInv'
<1>1. call' = [q \in Handlers |-> IF q = h THEN call'[h] ELSE call[q]]
  BY DEF CallOutcome, OnlyCall
<1>2. call' = [q \in Handlers |-> call'[q]]
  BY <1>1
<1>3. ASSUME NEW q \in Handlers PROVE CallInv(call[q])'
  <2>1. CASE q = h
    BY <2>1 DEF CallOutcome
  <2>2. CASE q # h
    <3>1. PICK c : c = call[q]
      OBVIOUS
    <3>2. CallInv(c)
      BY <3>1 DEF McpInv
    <3>3. CallInv(c)'
      BY <3>2, CallKept DEF CallOutcome
    <3>4. call'[q] = c
      BY <1>1, <2>2, <3>1
    <3> QED
      BY <3>3, <3>4
  <2> QED
    BY <2>1, <2>2
<1> QED
  BY <1>2, <1>3 DEF McpInv, CallOutcome

\* The store and what is known of it stay.
LEMMA StoreStays ==
  ASSUME McpInv, UNCHANGED <<store, early>>
  PROVE  StoreGrows /\ StoreInv' /\ (UNCHANGED cache => CacheInv')
<1>1. StoreGrows
  BY DEF StoreGrows
<1>2. StoreInv'
  BY DEF McpInv, StoreInv
<1>3. UNCHANGED cache => CacheInv'
  BY DEF McpInv, CacheInv, FetchedOf
<1> QED
  BY <1>1, <1>2, <1>3

\* What the ways to write a call do.
LEMMA CallWrites ==
  ASSUME McpInv, NEW h \in Handlers
  PROVE  /\ \A c : call' = [call EXCEPT ![h] = c] => OnlyCall(h) /\ call'[h] = c
         /\ \A pc : Goto(h, pc) => OnlyCall(h) /\ call'[h] = [call[h] EXCEPT !.pc = pc]
         /\ \A result : Ends(h, result) =>
              OnlyCall(h) /\ call'[h] = [Idle EXCEPT !.result = result]
BY DEF McpInv, OnlyCall, Goto, Ends

Returned(c, pc, mime, result, data) ==
  [c EXCEPT !.pc = pc, !.mime = mime, !.result = result, !.data = data]

\* What artifact_get returned is in its locals.
LEMMA ReturnsWrites ==
  ASSUME McpInv, NEW h \in Handlers, NEW result, NEW data, Returns(h, result, data)
  PROVE  OnlyCall(h) /\ call'[h] = Returned(call[h], "idle", "none", result, data)
BY DEF McpInv, OnlyCall, Returns, Returned

\* A tool that fails or is done with an artifact it created.
LEMMA EndsOutcome ==
  ASSUME McpInv, NEW h \in Handlers, NEW result \in {"error", "created"},
         Ends(h, result), StoreGrows, StoreInv', CacheInv'
  PROVE  CallOutcome(h)
<1>1. OnlyCall(h) /\ call'[h] = [Idle EXCEPT !.result = result]
  BY CallWrites
<1>2. /\ CallFields(call'[h]) /\ call'[h].pc = "idle"
      /\ call'[h].result \notin {"blob", "absent", "broken"}
  BY <1>1 DEF Idle, CallFields
<1>3. CallInv(call[h])'
  BY <1>2 DEF CallInv, CallFields
<1> QED
  BY <1>1, <1>3 DEF CallOutcome

-----------------------------------------------------------------------------
(* Steps of artifact_create                                                *)

\* What a call packs has clean names, no two of them alike.
LEMMA PayloadPacked ==
  ASSUME NEW names \in Contents, NEW create, Len(names) > 1 => ValidNames(names)
  PROVE  /\ Packed(Payload(names, create)) /\ Payload(names, create).tar \in BOOLEAN
         /\ Payload(names, create).whole
<1>1. PICK S : STRING \subseteq S /\ Names(S)
  BY NamesExist
<1>2. names \in Seq(Seq(S)) /\ Len(names) \in 1..3
  <2>1. names \in Seq(Seq(STRING)) /\ Len(names) \in 1..3
    BY ArtifactsAssumption
  <2>2. Seq(STRING) \subseteq Seq(S)
    BY <1>1, SeqMonotonic
  <2> QED
    BY <2>1, <2>2, SeqMonotonic
<1>3. ASSUME NEW c, c = Payload(names, create)
      PROVE  /\ IsSeq(c.parts) /\ c.tar \in BOOLEAN /\ c.whole
             /\ c.tar => CleanParts(c.parts, S)
  BY <1>1, <1>2, <1>3, PayloadParts
<1> QED
  BY <1>3 DEF Packed

\* artifact_create packs its parts.
LEMMA BeginArtifactOutcome ==
  ASSUME McpInv, NEW h \in Handlers, NEW names \in Contents, BeginArtifact(h, names)
  PROVE  CallOutcome(h)
<1>1. PICK data : data = Payload(names, creates + 1)
  OBVIOUS
<1>2. /\ OnlyCall(h)
      /\ call'[h] = [Idle EXCEPT !.pc = "create", !.names = names, !.data = data]
  BY <1>1, CallWrites DEF BeginArtifact
<1>3. /\ call'[h].pc = "create" /\ call'[h].names = names /\ call'[h].data = data
      /\ call'[h].result = "none" /\ CallFields(call'[h])
  BY <1>2 DEF Idle, CallFields
<1>4. Len(names) > 1 => ValidNames(names)
  BY DEF BeginArtifact
<1>5. UNCHANGED <<store, early, cache>>
  BY DEF BeginArtifact
<1>6. CallInv(call[h])'
  BY <1>1, <1>3, <1>4 DEF CallInv, CallFields
<1> QED
  BY <1>2, <1>5, <1>6, StoreStays DEF CallOutcome

\* It creates an artifact that holds nothing yet.
LEMMA CreateArtifactOutcome ==
  ASSUME McpInv, NEW h \in Handlers, CreateArtifact(h)
  PROVE  CallOutcome(h)
<1>1. PICK content : content = call[h].data
  OBVIOUS
<1>2. Packed(content) /\ content.tar \in BOOLEAN
  <2>1. /\ call[h].names \in Contents
        /\ Len(call[h].names) > 1 => ValidNames(call[h].names)
        /\ \E create : content = Payload(call[h].names, create)
    BY <1>1 DEF CreateArtifact, McpInv, CallInv
  <2> QED
    BY <2>1, PayloadPacked
<1>3. PICK a : a = [mime |-> IF content.tar THEN "gzip" ELSE "text",
                    content |-> content, stored |-> 0, whole |-> FALSE]
  OBVIOUS
<1>4. /\ a = [mime |-> a.mime, content |-> a.content,
              stored |-> a.stored, whole |-> a.whole]
      /\ a.content = content /\ a.stored = 0 /\ ~a.whole
      /\ a.mime = "gzip" => content.tar
  BY <1>3
<1>5. store' = Append(store, a) /\ UNCHANGED <<cache, early>>
  BY <1>1, <1>3, Zenon DEF CreateArtifact
<1>6. IsSeq(store)
  BY DEF McpInv, StoreInv
<1>7. /\ IsSeq(store') /\ DOMAIN store' = 1..(Len(store) + 1)
      /\ \A id \in DOMAIN store : store'[id] = store[id]
      /\ store'[Len(store) + 1] = a
      /\ DOMAIN store = 1..Len(store) /\ Len(store) \in Nat
  BY <1>5, <1>6, AppendIsSeq, IsSeqProperties
<1>8. StoreGrows
  BY <1>5, <1>7 DEF StoreGrows
<1>9. StoreInv'
  <2>1. ASSUME NEW id \in DOMAIN store' PROVE id \in DOMAIN store \/ id = Len(store) + 1
    BY <1>7
  <2>2. Len(content.parts) \in Nat
    BY <1>2, IsSeqProperties DEF Packed
  <2> QED
    BY <1>2, <1>4, <1>7, <2>1, <2>2 DEF StoreInv, McpInv
<1>10. CacheInv'
  BY <1>5, <1>8, FetchedKept DEF McpInv, CacheInv
<1>11. CASE Ends(h, "error")
  BY <1>8, <1>9, <1>10, <1>11, EndsOutcome
<1>12. CASE call' = [call EXCEPT ![h] = [Idle EXCEPT !.pc = "upload",
                                                    !.id = Len(store) + 1]]
  <2>1. PICK id : id = Len(store) + 1
    OBVIOUS
  <2>2. OnlyCall(h) /\ call'[h] = [Idle EXCEPT !.pc = "upload", !.id = id]
    BY <1>12, <2>1, CallWrites
  <2>3. /\ call'[h].pc = "upload" /\ call'[h].id = id
        /\ call'[h].result = "none" /\ CallFields(call'[h])
    BY <2>2 DEF Idle, CallFields
  <2>4. id \in DOMAIN store'
    BY <1>7, <2>1
  <2>5. CallInv(call[h])'
    BY <2>3, <2>4 DEF CallInv, CallFields
  <2> QED
    BY <1>8, <1>9, <1>10, <2>2, <2>5 DEF CallOutcome
<1> QED
  BY <1>11, <1>12 DEF CreateArtifact

\* It stores some more of it.
LEMMA UploadSomeOutcome ==
  ASSUME McpInv, NEW h \in Handlers, UploadSome(h)
  PROVE  CallOutcome(h)
<1>1. PICK id : id = call[h].id
  OBVIOUS
<1>2. CallInv(call[h]) /\ id \in DOMAIN store /\ UNCHANGED <<call, cache, early>>
  BY <1>1 DEF UploadSome, McpInv, CallInv
<1>3. PICK a : a = store[id]
  OBVIOUS
<1>4. PICK n \in a.stored..Len(a.content.parts), whole \in BOOLEAN :
        /\ whole => n = Len(a.content.parts)
        /\ store' = [store EXCEPT ![id].stored = n, ![id].whole = whole]
  BY <1>1, <1>3 DEF UploadSome
<1>5. /\ IsSeq(store)
      /\ a = [mime |-> a.mime, content |-> a.content,
              stored |-> a.stored, whole |-> a.whole]
      /\ Packed(a.content) /\ a.stored \in Nat /\ (a.mime = "gzip" => a.content.tar)
  BY <1>2, <1>3 DEF McpInv, StoreInv
<1>6. Len(a.content.parts) \in Nat
  BY <1>5, IsSeqProperties DEF Packed
<1>7. PICK b : b = [mime |-> a.mime, content |-> a.content, stored |-> n, whole |-> whole]
  OBVIOUS
<1>8. store' = [store EXCEPT ![id] = b]
  <2>1. [[a EXCEPT !.stored = n] EXCEPT !.whole = whole] = b
    <3>1. PICK m, c, s, w : a = [mime |-> m, content |-> c, stored |-> s, whole |-> w]
      BY <1>5
    <3>2. PICK x : x = [a EXCEPT !.stored = n]
      OBVIOUS
    <3>3. x = [mime |-> m, content |-> c, stored |-> n, whole |-> w]
      BY <3>1, <3>2
    <3>4. [x EXCEPT !.whole = whole]
            = [mime |-> m, content |-> c, stored |-> n, whole |-> whole]
      BY <3>3
    <3>5. b = [mime |-> m, content |-> c, stored |-> n, whole |-> whole]
      BY <1>7, <3>1
    <3> QED
      BY <3>2, <3>4, <3>5
  <2>2. IsSeq(store) => store = [i \in DOMAIN store |-> store[i]]
    BY LenProperties DEF IsSeq
  <2> QED
    BY <1>2, <1>3, <1>4, <1>5, <2>1, <2>2
<1>9. IsSeq(store') /\ DOMAIN store' = DOMAIN store
  BY <1>2, <1>5, <1>8, ExceptIsSeq
<1>10. store'[id] = b /\ \A i \in DOMAIN store : i # id => store'[i] = store[i]
  BY <1>2, <1>8
<1>11. StoreGrows
  BY <1>2, <1>3, <1>7, <1>9, <1>10 DEF StoreGrows
<1>12. StoreInv'
  <2>1. /\ b = [mime |-> b.mime, content |-> b.content,
                stored |-> b.stored, whole |-> b.whole]
        /\ b.content = a.content /\ b.mime = a.mime
        /\ b.stored = n /\ b.whole = whole
    BY <1>7
  <2>2. n \in Nat /\ n <= Len(a.content.parts)
    BY <1>4, <1>5, <1>6
  <2>3. ASSUME NEW i \in DOMAIN store, i # id
        PROVE  store'[i] = store[i]
    BY <1>10, <2>3
  <2>4. ASSUME NEW x, x = b
        PROVE  /\ x = [mime |-> x.mime, content |-> x.content,
                       stored |-> x.stored, whole |-> x.whole]
               /\ Packed(x.content)
               /\ x.stored \in Nat /\ x.stored <= Len(x.content.parts)
               /\ x.whole => x.stored = Len(x.content.parts)
               /\ x.mime = "gzip" => x.content.tar
    BY <1>4, <1>5, <2>1, <2>2, <2>4
  <2> QED
    BY <1>9, <1>10, <2>3, <2>4 DEF StoreInv, McpInv
<1>13. CacheInv'
  BY <1>2, <1>11, FetchedKept DEF McpInv, CacheInv
<1>14. CallInv(call[h])'
  <2>1. PICK c : c = call[h]
    OBVIOUS
  <2>2. CallInv(c)'
    BY <1>2, <1>11, <2>1, CallKept
  <2>3. call'[h] = c
    BY <1>2, <2>1
  <2> QED
    BY <2>2, <2>3
<1>15. OnlyCall(h)
  BY <1>2 DEF McpInv, OnlyCall
<1> QED
  BY <1>11, <1>12, <1>13, <1>14, <1>15 DEF CallOutcome

\* It has stored all.
LEMMA UploadDoneOutcome ==
  ASSUME McpInv, NEW h \in Handlers, UploadDone(h)
  PROVE  CallOutcome(h)
<1>1. OnlyCall(h) /\ call'[h] = [call[h] EXCEPT !.pc = "status"]
  BY CallWrites DEF UploadDone
<1>2. CallFields(call[h]) /\ call[h].result = "none"
  BY DEF UploadDone, McpInv, CallInv
<1>3. call'[h].pc = "status" /\ call'[h].result = "none" /\ CallFields(call'[h])
  BY <1>1, <1>2 DEF CallFields
<1>4. CallInv(call[h])'
  BY <1>3 DEF CallInv, CallFields
<1>5. UNCHANGED <<store, early, cache>>
  BY DEF UploadDone
<1> QED
  BY <1>1, <1>4, <1>5, StoreStays DEF CallOutcome

\* All steps of artifact_create.
LEMMA CreateOutcome ==
  ASSUME McpInv, NEW h \in Handlers, CreateStep(h)
  PROVE  CallOutcome(h)
<1>1. ASSUME NEW result \in {"error", "created"}, Ends(h, result),
             UNCHANGED <<store, early, cache>>
      PROVE  CallOutcome(h)
  BY <1>1, EndsOutcome, StoreStays
<1>2. CASE CreateRefused(h) \/ CreateFails(h) \/ ReadStatus(h)
  BY <1>1, <1>2 DEF CreateRefused, CreateFails, ReadStatus
<1> QED
  BY <1>2, BeginArtifactOutcome, CreateArtifactOutcome, UploadSomeOutcome,
     UploadDoneOutcome DEF CreateStep

-----------------------------------------------------------------------------
(* Steps of artifact_get                                                   *)

\* What is read of an archive that is looked into: a part of that name if there
\* will be one, unless the archive was fetched too early.
LEMMA ExtractOfFetched ==
  ASSUME McpInv, NEW data, NEW id, FetchedOf(data, id), NEW path, data.tar
  PROVE  LET found == Extract(data, path)
         IN  /\ found.result = "blob" =>
                  found.parts # <<>> /\ Head(found.parts) \in PartsAt(id, path)
             /\ found.result \in {"absent", "broken"} /\ PartsAt(id, path) # {} =>
                  id \in early
             /\ found.result \in {"refused", "blob", "absent", "broken"}
<1>1. PICK full : full = store[id].content.parts
  OBVIOUS
<1>2. /\ Packed(store[id].content) /\ store[id].content.tar
      /\ data.whole \/ id \in early
  BY DEF McpInv, StoreInv, FetchedOf
<1>3. PICK S : CleanParts(full, S)
  BY <1>1, <1>2 DEF Packed
<1>4. PICK N \in Nat : /\ DOMAIN full = 1..N /\ Len(full) = N
                       /\ \A i \in 1..N : full[i].path \in Seq(S) /\ CleanTar(full[i].path)
  BY <1>3 DEF CleanParts
<1>5. PICK n \in Nat : /\ n <= N /\ data.parts = SubSeq(full, 1, n)
                       /\ data.whole => n = N
  BY <1>1, <1>4 DEF FetchedOf
<1>6. PICK parts : parts = data.parts
  OBVIOUS
<1>7. DOMAIN parts = 1..n /\ \A i \in 1..n : parts[i] = full[i]
  <2>1. PICK T : full \in Seq(T)
    BY <1>1, <1>2 DEF Packed, IsSeq
  <2>2. \A i \in 1..n : full[i] \in T
    BY <1>4, <1>5, <2>1, ElementOfSeq
  <2>3. /\ parts \in Seq(T) /\ Len(parts) = IF 1 <= n THEN n - 1 + 1 ELSE 0
        /\ \A i \in 1..n - 1 + 1 : parts[i] = full[1 + i - 1]
    BY <1>5, <1>6, <2>2, SubSeqProperties
  <2>4. Len(parts) = n /\ DOMAIN parts = 1..Len(parts)
    BY <2>3, LenProperties
  <2> QED
    BY <2>3, <2>4
<1>8. \A i \in 1..N : Clean(TrimSlash(full[i].path)) = full[i].path
  BY <1>4, CleanTarStays
<1>9. PICK found : found = Extract(data, path)
  OBVIOUS
<1>10. /\ found.result # "refused" => InnerPath(path) # NoPath
       /\ found.result = "blob" => \E i \in Hits(parts, path) : found.parts = <<parts[i]>>
       /\ InnerPath(path) # NoPath /\ Hits(parts, path) # {} => found.result = "blob"
       /\ found.result \in {"refused", "blob", "absent", "broken"}
  BY <1>6, <1>7, <1>9, ExtractIs
<1>11. \A i \in 1..n : i \in 1..N
  BY <1>4, <1>5
<1>12. PartsAt(id, path) = {full[i] : i \in {j \in 1..N : full[j].path = InnerPath(path)}}
  BY <1>1, <1>4 DEF PartsAt, ToSet
<1>13. ASSUME found.result = "blob"
       PROVE  found.parts # <<>> /\ Head(found.parts) \in PartsAt(id, path)
  <2>1. PICK i \in Hits(parts, path) : found.parts = <<parts[i]>>
    BY <1>10, <1>13
  <2>2. i \in 1..n /\ Clean(TrimSlash(parts[i].path)) = InnerPath(path)
    BY <1>7 DEF Hits
  <2>3. i \in 1..N /\ parts[i] = full[i] /\ full[i].path = InnerPath(path)
    BY <1>7, <1>8, <1>11, <2>2
  <2>4. \A x : <<x>> # <<>> /\ Head(<<x>>) = x
    OBVIOUS
  <2> QED
    BY <1>12, <2>1, <2>3, <2>4
<1>14. ASSUME found.result \in {"absent", "broken"}, PartsAt(id, path) # {}
       PROVE  id \in early
  <2>1. PICK i \in 1..N : full[i].path = InnerPath(path)
    BY <1>12, <1>14
  <2>2. CASE data.whole
    <3>1. n = N
      BY <1>5, <2>2
    <3>2. i \in Hits(parts, path)
      BY <1>7, <1>8, <2>1, <3>1 DEF Hits
    <3>3. InnerPath(path) # NoPath
      BY <1>10, <1>14
    <3> QED
      BY <1>10, <1>14, <3>2, <3>3
  <2> QED
    BY <1>2, <2>2
<1> QED
  BY <1>9, <1>10, <1>13, <1>14

\* A call some of whose fields are written is one with all its fields.
LEMMA CallFilled ==
  ASSUME NEW c, CallFields(c), NEW pc, NEW data
  PROVE  [c EXCEPT !.pc = pc, !.data = data]
           = [pc |-> pc, names |-> c.names, id |-> c.id, path |-> c.path,
              mime |-> c.mime, data |-> data, result |-> c.result]
<1>1. PICK a, b, d, e, f, g, i :
        c = [pc |-> a, names |-> b, id |-> d, path |-> e, mime |-> f,
             data |-> g, result |-> i]
  BY DEF CallFields
<1>2. PICK x : x = [c EXCEPT !.pc = pc]
  OBVIOUS
<1>3. x = [pc |-> pc, names |-> b, id |-> d, path |-> e, mime |-> f,
           data |-> g, result |-> i]
  BY <1>1, <1>2
<1>4. [x EXCEPT !.data = data]
        = [pc |-> pc, names |-> b, id |-> d, path |-> e, mime |-> f,
           data |-> data, result |-> i]
  BY <1>3
<1> QED
  BY <1>1, <1>2, <1>4

\* The fields of a call whose tool has returned.
LEMMA CallReturned ==
  ASSUME NEW c, CallFields(c), NEW pc, NEW mime, NEW data, NEW result
  PROVE  Returned(c, pc, mime, result, data)
           = [pc |-> pc, names |-> c.names, id |-> c.id, path |-> c.path,
              mime |-> mime, data |-> data, result |-> result]
<1>1. PICK a, b, d, e, f, g, i :
        c = [pc |-> a, names |-> b, id |-> d, path |-> e, mime |-> f,
             data |-> g, result |-> i]
  BY DEF CallFields
<1>2. PICK x : x = [c EXCEPT !.pc = pc]
  OBVIOUS
<1>3. x = [pc |-> pc, names |-> b, id |-> d, path |-> e, mime |-> f,
           data |-> g, result |-> i]
  BY <1>1, <1>2
<1>4. PICK y : y = [x EXCEPT !.mime = mime]
  OBVIOUS
<1>5. y = [pc |-> pc, names |-> b, id |-> d, path |-> e, mime |-> mime,
           data |-> g, result |-> i]
  BY <1>3, <1>4
<1>6. PICK z : z = [y EXCEPT !.result = result]
  OBVIOUS
<1>7. z = [pc |-> pc, names |-> b, id |-> d, path |-> e, mime |-> mime,
           data |-> g, result |-> result]
  BY <1>5, <1>6
<1>8. [z EXCEPT !.data = data]
        = [pc |-> pc, names |-> b, id |-> d, path |-> e, mime |-> mime,
           data |-> data, result |-> result]
  BY <1>7
<1>9. Returned(c, pc, mime, result, data) = [z EXCEPT !.data = data]
  BY <1>2, <1>4, <1>6 DEF Returned
<1> QED
  BY <1>1, <1>8, <1>9

\* A call that has bytes of its artifact answers as the properties say.
LEMMA AnswerOutcome ==
  ASSUME McpInv, NEW h \in Handlers, NEW data, FetchedOf(data, call[h].id),
         call[h].mime \in {store[call[h].id].mime, "none"},
         Answer(h, data), StoreGrows, StoreInv', CacheInv', UNCHANGED <<store, early>>
  PROVE  CallOutcome(h)
<1>1. PICK c : c = call[h]
  OBVIOUS
<1>2. CallFields(c) /\ c.id \in DOMAIN store /\ FetchedOf(data, c.id)
  BY <1>1 DEF McpInv, CallInv, FetchedOf
<1>3. PICK found : found = Extract(data, c.path)
  OBVIOUS
<1>4. \/ c.path = NoPath /\ Returns(h, "blob", data)
      \/ Ends(h, "error")
      \/ /\ c.path # NoPath /\ LooksLikeTar(c.mime, data) /\ found.result # "refused"
         /\ Returns(h, found.result, [NoData EXCEPT !.parts = found.parts])
  BY <1>1, <1>3, Zenon DEF Answer
<1>5. ASSUME NEW result, NEW d, Returns(h, result, d)
      PROVE  /\ OnlyCall(h) /\ CallFields(call'[h])
             /\ call'[h].pc = "idle" /\ call'[h].result = result /\ call'[h].data = d
             /\ call'[h].id = c.id /\ call'[h].path = c.path
  <2>1. OnlyCall(h) /\ call'[h] = Returned(c, "idle", "none", result, d)
    BY <1>1, <1>5, ReturnsWrites
  <2>2. ASSUME NEW idle, NEW none
        PROVE  Returned(c, idle, none, result, d)
                 = [pc |-> idle, names |-> c.names, id |-> c.id, path |-> c.path,
                    mime |-> none, data |-> d, result |-> result]
    BY <1>2, CallReturned
  <2>3. call'[h] = [pc |-> "idle", names |-> c.names, id |-> c.id, path |-> c.path,
                    mime |-> "none", data |-> d, result |-> result]
    BY <2>1, <2>2
  <2> QED
    BY <2>1, <2>3 DEF CallFields
<1>6. ASSUME NEW e, CallFields(e), e.pc = "idle", e.id \in DOMAIN store,
             e.result = "blob" => Exact(e),
             e.result \in {"absent", "broken"} => Missed(e),
             call'[h] = e, OnlyCall(h)
      PROVE  CallOutcome(h)
  <2>1. CallInv(e)
    BY <1>6 DEF CallInv
  <2>2. CallInv(e)'
    BY <2>1, CallKept
  <2>3. CallInv(call[h])'
    BY <1>6, <2>2
  <2> QED
    BY <1>6, <2>3 DEF CallOutcome
<1>7. CASE c.path = NoPath /\ Returns(h, "blob", data)
  <2>1. PICK e : e = call'[h]
    OBVIOUS
  <2>2. /\ OnlyCall(h) /\ CallFields(e) /\ e.pc = "idle" /\ e.result = "blob"
        /\ e.data = data /\ e.id = c.id /\ e.path = NoPath
    BY <1>5, <1>7, <2>1
  <2>3. PICK full : full = store[c.id].content.parts
    OBVIOUS
  <2>4. PICK n \in Nat : /\ n <= Len(full) /\ data.parts = SubSeq(full, 1, n)
                         /\ data.whole => n = Len(full)
    BY <1>2, <2>3 DEF FetchedOf
  <2>5. PICK T : full \in Seq(T)
    BY <1>2, <2>3 DEF McpInv, StoreInv, Packed, IsSeq
  <2>6. data.whole => data.parts = full
    BY <2>4, <2>5, SubSeqFull
  <2>7. IsPrefix(data.parts, full)
    <3>1. PICK parts : parts = SubSeq(full, 1, n)
      OBVIOUS
    <3>2. \A i \in 1..n : full[i] \in T
      BY <2>4, <2>5, ElementOfSeq, LenProperties
    <3>3. parts \in Seq(T) /\ Len(parts) = IF 1 <= n THEN n - 1 + 1 ELSE 0
      BY <3>1, <3>2, SubSeqProperties
    <3>4. Len(parts) = n
      BY <3>3
    <3>5. SubSeq(parts, 1, Len(parts)) = parts
      BY <3>3, SubSeqFull
    <3> QED
      BY <2>4, <3>1, <3>4, <3>5 DEF IsPrefix
  <2>8. Exact(e)
    BY <2>2, <2>3, <2>6, <2>7 DEF Exact
  <2> QED
    BY <1>2, <1>6, <2>1, <2>2, <2>8
<1>8. CASE Ends(h, "error")
  BY <1>8, EndsOutcome
<1>9. CASE /\ c.path # NoPath /\ LooksLikeTar(c.mime, data) /\ found.result # "refused"
           /\ Returns(h, found.result, [NoData EXCEPT !.parts = found.parts])
  <2>1. PICK e : e = call'[h]
    OBVIOUS
  <2>2. PICK d : d = [NoData EXCEPT !.parts = found.parts]
    OBVIOUS
  <2>3. d.parts = found.parts
    BY <2>2 DEF NoData
  <2>4. /\ OnlyCall(h) /\ CallFields(e) /\ e.pc = "idle" /\ e.result = found.result
        /\ e.data = d /\ e.id = c.id /\ e.path = c.path
    BY <1>5, <1>9, <2>1, <2>2
  <2>5. data.tar
    BY <1>1, <1>2, <1>9 DEF LooksLikeTar, McpInv, StoreInv, FetchedOf
  <2>6. /\ found.result = "blob" =>
             found.parts # <<>> /\ Head(found.parts) \in PartsAt(c.id, c.path)
        /\ found.result \in {"absent", "broken"} /\ PartsAt(c.id, c.path) # {} =>
             c.id \in early
    BY <1>2, <1>3, <2>5, ExtractOfFetched
  <2>7. e.result = "blob" => Exact(e)
    BY <1>9, <2>3, <2>4, <2>6 DEF Exact
  <2>8. e.result \in {"absent", "broken"} => Missed(e)
    BY <2>4, <2>6 DEF Missed
  <2> QED
    BY <1>2, <1>6, <2>1, <2>4, <2>7, <2>8
<1> QED
  BY <1>4, <1>7, <1>8, <1>9

\* artifact_get is called.
LEMMA BeginGetOutcome ==
  ASSUME McpInv, NEW h \in Handlers, NEW id \in DOMAIN store, NEW path,
         BeginGet(h, id, path)
  PROVE  CallOutcome(h)
<1>1. PICK mime \in {store[id].mime, "none"} :
        call' = [call EXCEPT ![h] =
          [Idle EXCEPT !.pc = IF path = NoPath THEN "download" ELSE "lookup",
                       !.id = id, !.path = path, !.mime = mime]]
  BY DEF BeginGet
<1>2. OnlyCall(h)
      /\ call'[h] = [Idle EXCEPT !.pc = IF path = NoPath THEN "download" ELSE "lookup",
                                 !.id = id, !.path = path, !.mime = mime]
  <2>1. PICK new : new = [Idle EXCEPT !.pc = IF path = NoPath THEN "download" ELSE "lookup",
                                      !.id = id, !.path = path, !.mime = mime]
    OBVIOUS
  <2>2. call' = [call EXCEPT ![h] = new]
    BY <1>1, <2>1
  <2>3. OnlyCall(h) /\ call'[h] = new
    BY <2>2, CallWrites
  <2> QED
    BY <2>1, <2>3
<1>3. /\ CallFields(call'[h]) /\ call'[h].pc \in {"download", "lookup"}
      /\ call'[h].id = id /\ call'[h].mime = mime /\ call'[h].result = "none"
  BY <1>2 DEF Idle, CallFields
<1>4. UNCHANGED <<store, early, cache>>
  BY DEF BeginGet
<1>5. CallInv(call[h])'
  BY <1>3, <1>4 DEF CallInv, CallFields
<1> QED
  BY <1>2, <1>4, <1>5, StoreStays DEF CallOutcome

\* The cache has another artifact.
LEMMA LookUpMissOutcome ==
  ASSUME McpInv, NEW h \in Handlers, LookUpMiss(h)
  PROVE  CallOutcome(h)
<1>1. OnlyCall(h) /\ call'[h] = [call[h] EXCEPT !.pc = "download"]
  BY CallWrites DEF LookUpMiss
<1>2. /\ CallFields(call[h]) /\ call[h].result = "none"
      /\ call[h].id \in DOMAIN store
      /\ call[h].mime \in {store[call[h].id].mime, "none"}
  BY DEF LookUpMiss, McpInv, CallInv
<1>3. /\ CallFields(call'[h]) /\ call'[h].pc = "download" /\ call'[h].result = "none"
      /\ call'[h].id = call[h].id /\ call'[h].mime = call[h].mime
  BY <1>1, <1>2 DEF CallFields
<1>4. UNCHANGED <<store, early, cache>>
  BY DEF LookUpMiss
<1>5. CallInv(call[h])'
  BY <1>2, <1>3, <1>4 DEF CallInv, CallFields
<1> QED
  BY <1>1, <1>4, <1>5, StoreStays DEF CallOutcome

\* The cache has it.
LEMMA LookUpHitOutcome ==
  ASSUME McpInv, NEW h \in Handlers, LookUpHit(h)
  PROVE  CallOutcome(h)
<1>1. UNCHANGED <<store, cache, early>>
  BY DEF LookUpHit
<1>2. /\ call[h].id \in DOMAIN store
      /\ call[h].mime \in {store[call[h].id].mime, "none"}
      /\ cache.artifact = call[h].id
  BY DEF LookUpHit, Cached, McpInv, CallInv
<1>3. call[h].id # 0
  <2>1. DOMAIN store = 1..Len(store)
    BY IsSeqProperties DEF McpInv, StoreInv
  <2> QED
    BY <1>2, <2>1
<1>4. FetchedOf(cache.raw, call[h].id)
  BY <1>2, <1>3 DEF McpInv, CacheInv
<1>5. Answer(h, cache.raw)
  BY DEF LookUpHit
<1> QED
  BY <1>1, <1>2, <1>4, <1>5, StoreStays, AnswerOutcome

\* What is stored is fetched.
LEMMA DownloadOutcome ==
  ASSUME McpInv, NEW h \in Handlers, Download(h)
  PROVE  CallOutcome(h)
<1>1. PICK c : c = call[h]
  OBVIOUS
<1>2. PICK a : a = store[c.id]
  OBVIOUS
<1>3. PICK data : data = [tar |-> a.content.tar,
                          parts |-> SubSeq(a.content.parts, 1, a.stored),
                          whole |-> a.whole]
  OBVIOUS
<1>4. /\ call' = [call EXCEPT ![h].pc = "fill", ![h].data = data]
      /\ early' = IF a.whole THEN early ELSE early \cup {c.id}
      /\ UNCHANGED <<store, cache>>
  BY <1>1, <1>2, <1>3 DEF Download
<1>5. /\ CallFields(c) /\ c.result = "none" /\ c.id \in DOMAIN store
      /\ c.mime \in {store[c.id].mime, "none"}
  BY <1>1 DEF Download, McpInv, CallInv
<1>6. OnlyCall(h) /\ call'[h] = [c EXCEPT !.pc = "fill", !.data = data]
  BY <1>1, <1>4 DEF McpInv, OnlyCall
<1>7. /\ CallFields(call'[h]) /\ call'[h].pc = "fill" /\ call'[h].result = "none"
      /\ call'[h].id = c.id /\ call'[h].mime = c.mime /\ call'[h].data = data
  <2>1. [c EXCEPT !.pc = "fill", !.data = data]
          = [pc |-> "fill", names |-> c.names, id |-> c.id, path |-> c.path,
             mime |-> c.mime, data |-> data, result |-> c.result]
    BY <1>5, CallFilled
  <2> QED
    BY <1>5, <1>6, <2>1 DEF CallFields
<1>8. StoreGrows /\ StoreInv'
  <2>1. early \subseteq early'
    BY <1>4
  <2> QED
    BY <1>4, <2>1 DEF StoreGrows, McpInv, StoreInv
<1>9. CacheInv'
  BY <1>4, <1>8, FetchedKept DEF McpInv, CacheInv
<1>10. FetchedOf(data, c.id)'
  <2>1. a.stored \in Nat /\ a.stored <= Len(a.content.parts)
        /\ (a.whole => a.stored = Len(a.content.parts))
    BY <1>2, <1>5 DEF McpInv, StoreInv
  <2>2. /\ data.tar = a.content.tar /\ data.whole = a.whole
        /\ data.parts = SubSeq(a.content.parts, 1, a.stored)
    BY <1>3
  <2>3. a.whole \/ c.id \in early'
    BY <1>4
  <2>4. store' = store /\ store[c.id] = a
    BY <1>2, <1>4
  <2> QED
    BY <1>5, <2>1, <2>2, <2>3, <2>4 DEF FetchedOf
<1>11. CallInv(call[h])'
  BY <1>4, <1>5, <1>7, <1>10 DEF CallInv, CallFields
<1> QED
  BY <1>6, <1>8, <1>9, <1>11 DEF CallOutcome

\* The cache is filled with what was fetched.
LEMMA FillOutcome ==
  ASSUME McpInv, NEW h \in Handlers, Fill(h)
  PROVE  CallOutcome(h)
<1>1. PICK data : data = call[h].data
  OBVIOUS
<1>2. /\ FetchedOf(data, call[h].id)
      /\ call[h].mime \in {store[call[h].id].mime, "none"}
      /\ Answer(h, data) /\ UNCHANGED <<store, early>>
  BY <1>1 DEF Fill, McpInv, CallInv
<1>3. StoreGrows /\ StoreInv'
  BY <1>2, StoreStays
<1>4. CacheInv'
  <2>1. cache' = cache \/ cache' = [artifact |-> call[h].id, raw |-> data]
    BY <1>1 DEF Fill, MaybeUpdateTarCache
  <2>2. CASE cache' = cache
    BY <1>2, <2>2, StoreStays
  <2>3. CASE cache' = [artifact |-> call[h].id, raw |-> data]
    <3>1. PICK id : id = call[h].id
      OBVIOUS
    <3>2. FetchedOf(data, id)'
      BY <1>2, <1>3, <3>1, FetchedKept
    <3>3. cache'.artifact = id /\ cache'.raw = data
      BY <2>3, <3>1
    <3> QED
      BY <3>2, <3>3 DEF CacheInv
  <2> QED
    BY <2>1, <2>2, <2>3
<1> QED
  BY <1>2, <1>3, <1>4, AnswerOutcome

\* All steps of artifact_get.
LEMMA GetOutcome ==
  ASSUME McpInv, NEW h \in Handlers, GetStep(h)
  PROVE  CallOutcome(h)
<1>1. CASE GetFails(h)
  BY <1>1, EndsOutcome, StoreStays DEF GetFails
<1> QED
  BY <1>1, BeginGetOutcome, LookUpHitOutcome, LookUpMissOutcome,
     DownloadOutcome, FillOutcome DEF GetStep

-----------------------------------------------------------------------------
(* What the MCP server promises of artifacts                               *)

\* McpInv holds at first and after every step.
LEMMA McpInvariant == McpSpec => []McpInv
<1>1. McpInit => McpInv
  <2> SUFFICES ASSUME McpInit PROVE McpInv
    OBVIOUS
  <2>1. StoreInv
    BY EmptyIsSeq DEF McpInit, StoreInv
  <2>2. CacheInv
    BY DEF McpInit, CacheInv
  <2>3. ASSUME NEW h \in Handlers PROVE CallInv(call[h])
    BY DEF McpInit, CallInv, CallFields, Idle
  <2>4. call = [h \in Handlers |-> call[h]]
    BY DEF McpInit
  <2> QED
    BY <2>1, <2>2, <2>3, <2>4 DEF McpInv
<1>2. McpInv /\ [McpNext]_mcpVars => McpInv'
  <2> SUFFICES ASSUME McpInv, [McpNext]_mcpVars PROVE McpInv'
    OBVIOUS
  <2>1. ASSUME NEW h \in Handlers, CreateStep(h) \/ GetStep(h) PROVE McpInv'
    BY <2>1, CreateOutcome, GetOutcome, OutcomeKeepsInv
  <2>2. CASE UNCHANGED mcpVars
    <3>1. UNCHANGED <<call, store, cache, early>>
      BY <2>2 DEF mcpVars
    <3>2. StoreInv' /\ CacheInv' /\ StoreGrows
      BY <3>1, StoreStays
    <3>3. ASSUME NEW h \in Handlers PROVE CallInv(call[h])'
      <4>1. PICK c : c = call[h]
        OBVIOUS
      <4>2. CallInv(c)'
        BY <3>2, <4>1, CallKept DEF McpInv
      <4> QED
        BY <3>1, <4>1, <4>2
    <3> QED
      BY <3>1, <3>2, <3>3 DEF McpInv
  <2> QED
    BY <2>1, <2>2 DEF McpNext
<1> QED
  BY <1>1, <1>2, PTL DEF McpSpec

\* GetExact for every number of calls, whatever is packed and asked for: what
\* artifact_get returns is of the artifact it was asked for, whichever call
\* filled the cache.
THEOREM GotExactly == McpSpec => []GetExact
<1>1. McpInv => GetExact
  BY DEF McpInv, CallInv, Exact, GetExact
<1> QED
  BY <1>1, McpInvariant, PTL

\* MissedOnlyEarly for every number of calls: a part that an archive has is
\* missed only if that archive was fetched before its upload was complete.
THEOREM MissedEarly == McpSpec => []MissedOnlyEarly
<1>1. McpInv => MissedOnlyEarly
  BY DEF McpInv, CallInv, Missed, MissedOnlyEarly
<1> QED
  BY <1>1, McpInvariant, PTL

\* PartsRetrievable for all names: in an archive that artifact_create packs each
\* part is found under its tar path, under its own name if that is plain, and the
\* manifest too.
THEOREM AllRetrievable == McpSpec => []PartsRetrievable
<1>1. ASSUME McpInv, NEW h \in Handlers, call[h].pc = "create", call[h].data.tar
      PROVE  LET c == call[h] IN
             /\ Extract(c.data, Manifest).parts = <<Last(c.data.parts)>>
             /\ \A i \in DOMAIN c.names :
                  /\ Extract(c.data, TarPath(c.names, i)).parts = <<c.data.parts[i]>>
                  /\ IsPlain(c.names[i]) =>
                       Extract(c.data, c.names[i]).parts = <<c.data.parts[i]>>
  <2>1. PICK names : names = call[h].names
    OBVIOUS
  <2>2. PICK data : data = call[h].data
    OBVIOUS
  <2>3. PICK create : /\ names \in Contents /\ data = Payload(names, create)
                      /\ Len(names) > 1 => ValidNames(names)
    BY <1>1, <2>1, <2>2 DEF McpInv, CallInv
  <2>4. PICK S : STRING \subseteq S /\ Names(S)
    BY NamesExist
  <2>5. names \in Seq(Seq(S)) /\ Len(names) \in 1..3
    <3>1. names \in Seq(Seq(STRING)) /\ Len(names) \in 1..3
      BY <2>3, ArtifactsAssumption
    <3>2. Seq(STRING) \subseteq Seq(S)
      BY <2>4, SeqMonotonic
    <3> QED
      BY <3>1, <3>2, SeqMonotonic
  <2>6. PICK n : n = Len(names)
    OBVIOUS
  <2>7. /\ CleanParts(data.parts, S) /\ Len(data.parts) = n + 1
        /\ \A i \in 1..n : data.parts[i].path = TarPath(names, i)
        /\ data.parts[n + 1].path = Manifest
    <3>1. data.tar
      BY <1>1, <2>2
    <3> QED
      BY <2>3, <2>4, <2>5, <2>6, <3>1, PayloadParts
  <2>8. n \in Nat /\ DOMAIN names = 1..n
    BY <2>5, <2>6, LenProperties
  <2>9. DOMAIN data.parts = 1..n + 1
    <3>1. PICK k \in Nat : DOMAIN data.parts = 1..k /\ Len(data.parts) = k
      BY <2>7 DEF CleanParts
    <3> QED
      BY <2>7, <3>1
  <2>10. Extract(data, Manifest).parts = <<Last(data.parts)>>
    <3>1. InnerPath(Manifest) = Manifest
      BY <2>4, ManifestClean, CleanTarStays DEF Names
    <3>2. n + 1 \in DOMAIN data.parts
      BY <2>8, <2>9
    <3>3. Extract(data, Manifest).parts = <<data.parts[n + 1]>>
      BY <2>7, <3>1, <3>2, PartFound
    <3> QED
      BY <2>7, <3>3 DEF Last
  <2>11. ASSUME NEW i \in DOMAIN names
         PROVE  /\ Extract(data, TarPath(names, i)).parts = <<data.parts[i]>>
                /\ IsPlain(names[i]) =>
                     Extract(data, names[i]).parts = <<data.parts[i]>>
    <3>1. i \in 1..n /\ i \in DOMAIN data.parts
      BY <2>8, <2>9
    <3>2. PICK path : path = TarPath(names, i)
      OBVIOUS
    <3>3. data.parts[i].path = path
      BY <2>7, <3>1, <3>2
    <3>4. path \in Seq(S) /\ CleanTar(path)
      BY <2>7, <2>9, <3>1, <3>3 DEF CleanParts
    <3>5. InnerPath(path) = path /\ path # NoPath
      BY <3>4, CleanTarStays
    <3>6. Extract(data, path).parts = <<data.parts[i]>>
      BY <2>7, <3>1, <3>3, <3>5, PartFound
    <3>7. ASSUME IsPlain(names[i])
          PROVE  Extract(data, names[i]).parts = <<data.parts[i]>>
      <4>1. PICK name : name = names[i]
        OBVIOUS
      <4>2. name \in Seq(S)
        BY <2>5, <2>6, <3>1, <4>1, ElementOfSeq
      <4>3. /\ name # EmptyPath /\ {"..", "\\"} \cap ToSet(name) = {}
            /\ ~IsRooted(TrimSlash(name))
        BY <3>7, <4>1 DEF IsPlain
      <4>4. SanitizeTarPath(name) = path
        BY <3>2, <4>1, <4>3 DEF TarPath
      <4>5. InnerPath(name) = path
        BY <3>5, <4>2, <4>3, <4>4, PlainName
      <4> QED
        BY <2>7, <3>1, <3>3, <4>1, <4>5, PartFound
    <3> QED
      BY <3>2, <3>6, <3>7
  <2> QED
    BY <2>1, <2>2, <2>10, <2>11
<1>2. McpInv => PartsRetrievable
  BY <1>1 DEF PartsRetrievable
<1> QED
  BY <1>2, McpInvariant, PTL

-----------------------------------------------------------------------------
(* Publishing: the inductive invariant                                     *)

ArtifactsInv ==
  /\ IsSeq(artifacts)
  /\ \A a \in DOMAIN artifacts : IsSeq(artifacts[a]) /\ Halves(artifacts[a]) <= 2

\* A meta file names an artifact that was created.
MetaInv == meta # <<>> => meta[1].artifact \in DOMAIN artifacts

HasFields(r) ==
  r = [pc |-> r.pc, result |-> r.result, tool |-> r.tool, service |-> r.service,
       sources |-> r.sources, early |-> r.early, archive |-> r.archive,
       header |-> r.header, mtime |-> r.mtime, artifact |-> r.artifact,
       offset |-> r.offset, posted |-> r.posted, sure |-> r.sure]

\* A publisher never knows more of its artifact than is stored, and all is
\* stored when it comes to the description.
LocalsInv(r) ==
  /\ HasFields(r)
  /\ r.pc = "idle" => r.result \in {"none", "ok", "failed"}
  /\ r.pc # "idle" => r.service \in Services
  /\ r.pc \in {"meta", "open", "send", "put", "post"} =>
       r.artifact \in DOMAIN artifacts
  /\ r.pc = "send" =>
       r.offset \in Nat /\ r.offset <= Halves(artifacts[r.artifact])
  /\ r.pc \in {"put", "post"} => Halves(artifacts[r.artifact]) = 2

PubInv ==
  /\ pub = [p \in Publishers |-> pub[p]]
  /\ \A p \in Publishers : LocalsInv(pub[p])

\* Record ids are not given out twice.
CatalogInv ==
  /\ serial \in Nat
  /\ catalog = [s \in Services |-> catalog[s]]
  /\ \A s \in Services :
       /\ IsFiniteSet(catalog[s])
       /\ \A r \in catalog[s] : r.rid \in 1..serial

PublishInv == ArtifactsInv /\ MetaInv /\ PubInv /\ CatalogInv

-----------------------------------------------------------------------------
(* What the actions do to each part                                        *)

\* Artifacts are added and halves stored, never taken away.
ArtifactsGrow ==
  /\ DOMAIN artifacts \subseteq DOMAIN artifacts'
  /\ \A a \in DOMAIN artifacts : Halves(artifacts[a]) <= Halves(artifacts'[a])

\* Only the locals of p change.
OnlyOf(p) == pub' = [pub EXCEPT ![p] = pub'[p]]

\* An artifact has two halves at most.
LEMMA ArtifactsLength ==
  ASSUME ArtifactsInv, NEW a \in DOMAIN artifacts
  PROVE  Halves(artifacts[a]) \in 0..2
<1>1. IsSeq(artifacts[a]) /\ Halves(artifacts[a]) <= 2
  BY DEF ArtifactsInv
<1>2. Halves(artifacts[a]) \in Nat
  BY <1>1, IsSeqProperties
<1> QED
  BY <1>1, <1>2

\* Artifacts that do not change.
LEMMA GrowReflexive ==
  ASSUME ArtifactsInv, UNCHANGED artifacts
  PROVE  ArtifactsInv' /\ ArtifactsGrow
BY ArtifactsLength DEF ArtifactsInv, ArtifactsGrow

\* What holds of a publisher's locals still holds when artifacts grow.
LEMMA LocalsKept ==
  ASSUME PublishInv, ArtifactsInv', ArtifactsGrow,
         NEW q \in Publishers, pub'[q] = pub[q]
  PROVE  LocalsInv(pub[q])'
<1>1. LocalsInv(pub[q])
  BY DEF PublishInv, PubInv
<1>2. ASSUME NEW a \in DOMAIN artifacts
      PROVE  /\ a \in DOMAIN artifacts'
             /\ Halves(artifacts[a]) \in 0..2 /\ Halves(artifacts'[a]) \in 0..2
             /\ Halves(artifacts[a]) <= Halves(artifacts'[a])
  <2>1. a \in DOMAIN artifacts' /\ Halves(artifacts[a]) <= Halves(artifacts'[a])
    BY DEF ArtifactsGrow
  <2>2. Halves(artifacts[a]) \in 0..2
    BY ArtifactsLength DEF PublishInv
  <2>3. IsSeq(artifacts'[a]) /\ Halves(artifacts'[a]) <= 2
    BY <2>1 DEF ArtifactsInv
  <2>4. Halves(artifacts'[a]) \in Nat
    BY <2>3, IsSeqProperties
  <2> QED
    BY <2>1, <2>2, <2>3, <2>4
<1>3. HasFields(pub[q])'
  BY <1>1 DEF LocalsInv, HasFields
<1> QED
  BY <1>1, <1>2, <1>3 DEF LocalsInv

\* One publisher changes its locals.
LEMMA PubKept ==
  ASSUME PublishInv, ArtifactsInv', ArtifactsGrow,
         NEW p \in Publishers, OnlyOf(p), LocalsInv(pub[p])'
  PROVE  PubInv'
<1>1. pub = [q \in Publishers |-> pub[q]]
  BY DEF PublishInv, PubInv
<1>2. pub' = [q \in Publishers |-> pub'[q]]
  BY <1>1 DEF OnlyOf
<1>3. ASSUME NEW q \in Publishers, q # p
      PROVE  LocalsInv(pub[q])'
  <2>1. pub'[q] = pub[q]
    BY <1>1, <1>3 DEF OnlyOf
  <2> QED
    BY <2>1, LocalsKept
<1> QED
  BY <1>2, <1>3 DEF PubInv

\* What Step writes.
LEMMA Writes ==
  ASSUME PublishInv, NEW p \in Publishers
  PROVE  \A new : Step(p, new) => OnlyOf(p) /\ pub'[p] = new
BY DEF PublishInv, PubInv, OnlyOf, Step

-----------------------------------------------------------------------------
(* Steps of a publisher by which the service stores nothing                *)

Quiet(p) ==
  \/ \E s \in Services : BeginUpdate(p, s)
  \/ \E s \in Services, sources \in SourceLists : BeginCreate(p, s, sources)
  \/ Stat(p) \/ WriteMeta(p) \/ Pack(p) \/ PackReturns(p) \/ OpenArchive(p)
  \/ UploadReturns(p) \/ UploadFails(p) \/ PutNotFound(p) \/ PutRefused(p)
  \/ Fail(p)

\* A step that leaves the artifacts and the catalog alone, and after which p
\* works on or has failed.
QuietOutcome(p) ==
  /\ UNCHANGED <<artifacts, catalog, serial>>
  /\ OnlyOf(p)
  /\ LocalsInv(pub[p])'
  /\ pub'[p].pc # "idle" \/ pub'[p].result = "failed"

\* Errors and kills.
LEMMA EndLocals ==
  ASSUME PublishInv, NEW p \in Publishers, End(p, "failed"),
         UNCHANGED <<artifacts, catalog, serial>>
  PROVE  QuietOutcome(p)
<1>1. OnlyOf(p) /\ pub'[p] = Locals("idle", "failed")
  BY Writes DEF End
<1>2. LocalsInv(pub[p])'
  BY <1>1 DEF LocalsInv, HasFields, Locals
<1> QED
  BY <1>1, <1>2 DEF QuietOutcome, Locals

\* A run begins.
LEMMA BeginLocals ==
  ASSUME PublishInv, NEW p \in Publishers, NEW s \in Services,
         BeginUpdate(p, s) \/ \E sources \in SourceLists : BeginCreate(p, s, sources)
  PROVE  QuietOutcome(p)
<1>1. CASE BeginUpdate(p, s)
  <2>1. UNCHANGED <<artifacts, catalog, serial>>
    BY <1>1 DEF BeginUpdate
  <2>2. CASE End(p, "failed")
    BY <2>1, <2>2, EndLocals
  <2>3. ASSUME NEW h,
               Step(p, [Locals("stat", "none") EXCEPT !.service = s, !.header = h])
        PROVE  QuietOutcome(p)
    <3>1. /\ OnlyOf(p)
          /\ pub'[p] = [Locals("stat", "none") EXCEPT !.service = s, !.header = h]
      BY <2>3, Writes
    <3>2. LocalsInv(pub[p])' /\ pub'[p].pc # "idle"
      BY <3>1 DEF LocalsInv, HasFields, Locals
    <3> QED
      BY <2>1, <3>1, <3>2 DEF QuietOutcome
  <2> QED
    BY <1>1, <2>2, <2>3 DEF BeginUpdate
<1>2. ASSUME NEW sources \in SourceLists, BeginCreate(p, s, sources)
      PROVE  QuietOutcome(p)
  <2>1. /\ UNCHANGED <<artifacts, catalog, serial>>
        /\ OnlyOf(p)
        /\ pub'[p] = [Locals("pack", "none") EXCEPT
             !.tool = "mcp", !.service = s, !.sources = sources]
    BY <1>2, Writes DEF BeginCreate
  <2>2. LocalsInv(pub[p])' /\ pub'[p].pc # "idle"
    BY <2>1 DEF LocalsInv, HasFields, Locals
  <2> QED
    BY <2>1, <2>2 DEF QuietOutcome
<1> QED
  BY <1>1, <1>2

\* The file is looked at.
LEMMA StatLocals ==
  ASSUME PublishInv, NEW p \in Publishers, Stat(p)
  PROVE  QuietOutcome(p)
<1>0. LocalsInv(pub[p]) /\ MetaInv
  BY DEF PublishInv, PubInv
<1>1. /\ UNCHANGED <<artifacts, catalog, serial>>
      /\ OnlyOf(p)
      /\ pub'[p] = [pub[p] EXCEPT
           !.mtime = disk.mtime,
           !.pc = IF Recorded(disk.mtime) THEN "open" ELSE "create",
           !.artifact = IF Recorded(disk.mtime) THEN meta[1].artifact ELSE 0]
      /\ pub[p].pc = "stat"
  BY Writes DEF Stat, At
<1>2. /\ HasFields(pub[p])'
      /\ pub'[p].service = pub[p].service
      /\ \/ pub'[p].pc = "create"
         \/ /\ pub'[p].pc = "open" /\ pub'[p].artifact = meta[1].artifact
            /\ meta # <<>>
  BY <1>0, <1>1 DEF LocalsInv, HasFields, Recorded
<1>3. LocalsInv(pub[p])'
  BY <1>0, <1>1, <1>2 DEF LocalsInv, MetaInv
<1> QED
  BY <1>1, <1>2, <1>3 DEF QuietOutcome

\* A step to another pc, with the same artifact and service.
LEMMA MoveLocals ==
  ASSUME PublishInv, NEW p \in Publishers,
         UNCHANGED <<artifacts, catalog, serial>>, OnlyOf(p),
         HasFields(pub[p])',
         pub[p].pc # "idle", pub'[p].pc # "idle",
         pub'[p].service = pub[p].service, pub'[p].artifact = pub[p].artifact,
         pub'[p].pc \in {"meta", "open", "send", "put", "post"} =>
           pub[p].pc \in {"meta", "open", "send", "put", "post"},
         pub'[p].pc = "send" =>
           /\ pub'[p].offset \in Nat
           /\ pub'[p].offset <= Halves(artifacts[pub[p].artifact]),
         pub'[p].pc \in {"put", "post"} => Halves(artifacts[pub[p].artifact]) = 2
  PROVE  QuietOutcome(p)
<1>1. LocalsInv(pub[p])
  BY DEF PublishInv, PubInv
<1>2. LocalsInv(pub[p])'
  BY <1>1 DEF LocalsInv
<1> QED
  BY <1>2 DEF QuietOutcome

\* Files are packed.
LEMMA PackLocals ==
  ASSUME PublishInv, NEW p \in Publishers, Pack(p) \/ PackReturns(p)
  PROVE  QuietOutcome(p)
<1>1. LocalsInv(pub[p])
  BY DEF PublishInv, PubInv
<1>2. UNCHANGED <<artifacts, catalog, serial>> /\ pub[p].pc = "pack"
  BY DEF Pack, PackReturns, At
<1>3. CASE End(p, "failed")
  BY <1>2, <1>3, EndLocals
<1>4. ASSUME NEW a, NEW e, Step(p, [pub[p] EXCEPT !.archive = a, !.early = e])
      PROVE  QuietOutcome(p)
  <2>1. OnlyOf(p) /\ pub'[p] = [pub[p] EXCEPT !.archive = a, !.early = e]
    BY <1>4, Writes
  <2>2. /\ HasFields(pub[p])' /\ pub'[p].pc = "pack"
        /\ pub'[p].service = pub[p].service
        /\ pub'[p].artifact = pub[p].artifact
    BY <1>1, <1>2, <2>1 DEF LocalsInv, HasFields
  <2> QED
    BY <1>2, <2>1, <2>2, MoveLocals
<1>5. ASSUME NEW a, NEW h,
             Step(p, [pub[p] EXCEPT !.archive = a, !.header = h, !.pc = "create"])
      PROVE  QuietOutcome(p)
  <2>1. /\ OnlyOf(p)
        /\ pub'[p] = [pub[p] EXCEPT !.archive = a, !.header = h, !.pc = "create"]
    BY <1>5, Writes
  <2>2. /\ HasFields(pub[p])' /\ pub'[p].pc = "create"
        /\ pub'[p].service = pub[p].service
        /\ pub'[p].artifact = pub[p].artifact
    BY <1>1, <1>2, <2>1 DEF LocalsInv, HasFields
  <2> QED
    BY <1>2, <2>1, <2>2, MoveLocals
<1>6. CASE Pack(p)
  BY <1>3, <1>4, <1>6 DEF Pack
<1>7. CASE PackReturns(p)
  BY <1>3, <1>5, <1>7 DEF PackReturns
<1> QED
  BY <1>6, <1>7

\* The meta file is written.
LEMMA WriteMetaLocals ==
  ASSUME PublishInv, NEW p \in Publishers, WriteMeta(p)
  PROVE  QuietOutcome(p) /\ MetaInv'
<1>1. LocalsInv(pub[p]) /\ MetaInv
  BY DEF PublishInv, PubInv
<1>2. /\ UNCHANGED <<artifacts, catalog, serial>> /\ pub[p].pc = "meta"
      /\ OnlyOf(p) /\ pub'[p] = [pub[p] EXCEPT !.pc = "open"]
  BY Writes DEF WriteMeta, At
<1>3. /\ HasFields(pub[p])' /\ pub'[p].pc = "open"
      /\ pub'[p].service = pub[p].service
      /\ pub'[p].artifact = pub[p].artifact
  BY <1>1, <1>2 DEF LocalsInv, HasFields
<1>4. QuietOutcome(p)
  BY <1>2, <1>3, MoveLocals
<1>5. pub[p].artifact \in DOMAIN artifacts
  BY <1>1, <1>2 DEF LocalsInv
<1>6. \/ meta' = <<[artifact |-> pub[p].artifact, mtime |-> pub[p].mtime]>>
      \/ meta' = <<>> \/ meta' = meta
  BY DEF WriteMeta
<1>7. MetaInv'
  BY <1>1, <1>2, <1>5, <1>6 DEF MetaInv
<1> QED
  BY <1>4, <1>7

\* What is stored of the artifact of p.
LEMMA StoredHalves ==
  ASSUME NEW p \in Publishers
  PROVE  Stored(p) = Halves(artifacts[pub[p].artifact])
BY DEF Stored, Halves

\* The archive is opened.
LEMMA OpenLocals ==
  ASSUME PublishInv, NEW p \in Publishers, OpenArchive(p)
  PROVE  QuietOutcome(p)
<1>1. LocalsInv(pub[p]) /\ ArtifactsInv
  BY DEF PublishInv, PubInv
<1>2. UNCHANGED <<artifacts, catalog, serial>> /\ pub[p].pc = "open"
  BY DEF OpenArchive, At
<1>3. Stored(p) \in 0..2
  BY <1>1, <1>2, StoredHalves, ArtifactsLength DEF LocalsInv
<1>4. /\ OnlyOf(p)
      /\ pub'[p] = [pub[p] EXCEPT
           !.offset = Stored(p),
           !.archive = IF pub[p].tool = "cli" THEN disk.archive ELSE @,
           !.pc = IF Stored(p) = 2 THEN "put" ELSE "send"]
  BY Writes DEF OpenArchive
<1>5. /\ HasFields(pub[p])'
      /\ pub'[p].service = pub[p].service
      /\ pub'[p].artifact = pub[p].artifact
      /\ pub'[p].offset = Stored(p)
      /\ \/ pub'[p].pc = "put" /\ Stored(p) = 2
         \/ pub'[p].pc = "send"
  BY <1>1, <1>2, <1>4 DEF LocalsInv, HasFields
<1>6. Stored(p) = Halves(artifacts[pub[p].artifact])
  BY StoredHalves
<1>7. /\ pub'[p].offset \in Nat
      /\ pub'[p].offset <= Halves(artifacts[pub[p].artifact])
  BY <1>3, <1>5, <1>6
<1>8. pub'[p].pc \in {"put", "post"} => Halves(artifacts[pub[p].artifact]) = 2
  BY <1>5, <1>6
<1>9. pub'[p].pc # "idle"
  BY <1>5
<1> QED
  BY <1>2, <1>4, <1>5, <1>7, <1>8, <1>9, MoveLocals

\* The upload is complete.
LEMMA UploadReturnsLocals ==
  ASSUME PublishInv, NEW p \in Publishers, UploadReturns(p)
  PROVE  QuietOutcome(p)
<1>1. LocalsInv(pub[p]) /\ ArtifactsInv
  BY DEF PublishInv, PubInv
<1>2. /\ UNCHANGED <<artifacts, catalog, serial>> /\ pub[p].pc = "send"
      /\ pub[p].offset = 2
      /\ OnlyOf(p) /\ pub'[p] = [pub[p] EXCEPT !.pc = "put"]
  BY Writes DEF UploadReturns, At
<1>3. /\ HasFields(pub[p])' /\ pub'[p].pc = "put"
      /\ pub'[p].service = pub[p].service
      /\ pub'[p].artifact = pub[p].artifact
  BY <1>1, <1>2 DEF LocalsInv, HasFields
<1>4. /\ Halves(artifacts[pub[p].artifact]) \in 0..2
      /\ 2 <= Halves(artifacts[pub[p].artifact])
  BY <1>1, <1>2, ArtifactsLength DEF LocalsInv
<1>5. Halves(artifacts[pub[p].artifact]) = 2
  BY <1>4
<1> QED
  BY <1>2, <1>3, <1>5, MoveLocals

\* The upload breaks off.
LEMMA UploadFailsLocals ==
  ASSUME PublishInv, NEW p \in Publishers, UploadFails(p)
  PROVE  QuietOutcome(p)
<1>1. LocalsInv(pub[p])
  BY DEF PublishInv, PubInv
<1>2. UNCHANGED <<artifacts, catalog, serial>> /\ pub[p].pc = "send"
  BY DEF UploadFails, At
<1>3. CASE End(p, "failed")
  BY <1>2, <1>3, EndLocals
<1>4. CASE Step(p, [pub[p] EXCEPT !.pc = "open"])
  <2>1. OnlyOf(p) /\ pub'[p] = [pub[p] EXCEPT !.pc = "open"]
    BY <1>4, Writes
  <2>2. /\ HasFields(pub[p])' /\ pub'[p].pc = "open"
        /\ pub'[p].service = pub[p].service
        /\ pub'[p].artifact = pub[p].artifact
    BY <1>1, <1>2, <2>1 DEF LocalsInv, HasFields
  <2> QED
    BY <1>2, <2>1, <2>2, MoveLocals
<1> QED
  BY <1>3, <1>4 DEF UploadFails

\* PUT finds nothing to replace, or is refused.
LEMMA PutFailureLocals ==
  ASSUME PublishInv, NEW p \in Publishers,
         PutNotFound(p) \/ PutRefused(p) \/ Fail(p)
  PROVE  QuietOutcome(p)
<1>1. LocalsInv(pub[p])
  BY DEF PublishInv, PubInv
<1>2. UNCHANGED <<artifacts, catalog, serial>>
  BY DEF PutNotFound, PutRefused, Fail
<1>3. CASE PutNotFound(p)
  <2>1. /\ pub[p].pc = "put"
        /\ OnlyOf(p) /\ pub'[p] = [pub[p] EXCEPT !.pc = "post"]
    BY <1>3, Writes DEF PutNotFound, At
  <2>2. /\ HasFields(pub[p])' /\ pub'[p].pc = "post"
        /\ pub'[p].service = pub[p].service
        /\ pub'[p].artifact = pub[p].artifact
    BY <1>1, <2>1 DEF LocalsInv, HasFields
  <2>3. Halves(artifacts[pub[p].artifact]) = 2
    BY <1>1, <2>1 DEF LocalsInv
  <2> QED
    BY <1>2, <2>1, <2>2, <2>3, MoveLocals
<1>4. CASE PutRefused(p) \/ Fail(p)
  BY <1>2, <1>4, EndLocals DEF PutRefused, Fail
<1> QED
  BY <1>3, <1>4

\* All steps by which the service stores nothing.
LEMMA QuietLocals ==
  ASSUME PublishInv, NEW p \in Publishers, Quiet(p)
  PROVE  QuietOutcome(p)
BY BeginLocals, StatLocals, WriteMetaLocals, PackLocals, OpenLocals,
   UploadReturnsLocals, UploadFailsLocals, PutFailureLocals DEF Quiet

\* Only WriteMeta touches the meta file.
LEMMA QuietKeepsInv ==
  ASSUME PublishInv, NEW p \in Publishers, Quiet(p)
  PROVE  PublishInv'
<1>1. QuietOutcome(p)
  BY QuietLocals
<1>2. ArtifactsInv' /\ ArtifactsGrow
  BY <1>1, GrowReflexive DEF QuietOutcome, PublishInv
<1>3. PubInv'
  BY <1>1, <1>2, PubKept DEF QuietOutcome
<1>4. CatalogInv'
  BY <1>1 DEF QuietOutcome, PublishInv, CatalogInv
<1>5. MetaInv'
  <2>1. CASE WriteMeta(p)
    BY <2>1, WriteMetaLocals
  <2>2. CASE ~WriteMeta(p)
    <3>1. meta' = meta
      BY <2>2 DEF Quiet, BeginUpdate, BeginCreate, Stat, Pack, PackReturns,
         OpenArchive, UploadReturns, UploadFails, PutNotFound, PutRefused, Fail
    <3> QED
      BY <1>1, <3>1 DEF QuietOutcome, PublishInv, MetaInv
  <2> QED
    BY <2>1, <2>2
<1> QED
  BY <1>2, <1>3, <1>4, <1>5 DEF PublishInv

-----------------------------------------------------------------------------
(* Steps by which the service stores something                             *)

\* Which artifacts there are, and which of them are complete, after a record
\* was created ...
LEMMA RecordCreated ==
  ASSUME PublishInv, NEW p \in Publishers, CreateRecord(p)
  PROVE  /\ ArtifactsInv' /\ ArtifactsGrow
         /\ Len(artifacts) + 1 \in DOMAIN artifacts'
         /\ \A a \in DOMAIN artifacts' :
              Halves(artifacts'[a]) = 2 <=>
                a \in DOMAIN artifacts /\ Halves(artifacts[a]) = 2
<1>1. IsSeq(artifacts) /\ artifacts' = Append(artifacts, <<>>)
  BY DEF PublishInv, ArtifactsInv, CreateRecord
<1>2. Len(artifacts) \in Nat /\ DOMAIN artifacts = 1..Len(artifacts)
  BY <1>1, IsSeqProperties
<1>3. /\ IsSeq(artifacts')
      /\ DOMAIN artifacts' = 1..(Len(artifacts) + 1)
      /\ \A a \in DOMAIN artifacts : artifacts'[a] = artifacts[a]
      /\ artifacts'[Len(artifacts) + 1] = <<>>
  BY <1>1, AppendIsSeq
<1> DEFINE n == Len(artifacts) + 1
<1>4. /\ n \in DOMAIN artifacts' /\ n \notin DOMAIN artifacts
      /\ \A a \in DOMAIN artifacts' : a \in DOMAIN artifacts \/ a = n
      /\ DOMAIN artifacts \subseteq DOMAIN artifacts'
      /\ artifacts'[n] = <<>>
  BY <1>2, <1>3
<1> HIDE DEF n
<1>5. IsSeq(artifacts'[n]) /\ Halves(artifacts'[n]) = 0
  BY <1>4, EmptyIsSeq
<1>6. ASSUME NEW a \in DOMAIN artifacts
      PROVE  /\ IsSeq(artifacts'[a]) /\ artifacts'[a] = artifacts[a]
             /\ Halves(artifacts'[a]) \in 0..2
             /\ Halves(artifacts[a]) = Halves(artifacts'[a])
  <2>1. IsSeq(artifacts[a]) /\ Halves(artifacts[a]) \in 0..2
    BY ArtifactsLength DEF PublishInv, ArtifactsInv
  <2> QED
    BY <1>3, <2>1
<1>7. ArtifactsInv'
  BY <1>3, <1>4, <1>5, <1>6 DEF ArtifactsInv
<1>8. ArtifactsGrow
  BY <1>4, <1>6 DEF ArtifactsGrow
<1> QED
  BY <1>4, <1>5, <1>6, <1>7, <1>8 DEF n

\* A half is stored, of the archive or cut.
Stores(p) == StoreHalf(p) \/ StoreCut(p)

Storing(p, half) ==
  /\ pub[p].pc = "send" /\ pub[p].offset < 2 /\ pub[p].offset = Stored(p)
  /\ artifacts' = [artifacts EXCEPT ![pub[p].artifact] =
                     Append(artifacts[pub[p].artifact], half)]

\* The two have this in common: p sends on, or asks for the offset again.
LEMMA StoresIsStoring ==
  ASSUME PublishInv, NEW p \in Publishers, Stores(p)
  PROVE  /\ Storing(p, pub[p].archive) \/ (Storing(p, Cut) /\ pub[p].tool = "cli")
         /\ UNCHANGED <<disk, meta, library, catalog, serial, mishap>>
         /\ OnlyOf(p) /\ HasFields(pub[p])'
         /\ pub'[p].service = pub[p].service /\ pub'[p].artifact = pub[p].artifact
         /\ \/ pub'[p].pc = "send" /\ pub'[p].offset = pub[p].offset + 1
            \/ pub'[p].pc = "open"
<1>1. HasFields(pub[p])
  BY DEF PublishInv, PubInv, LocalsInv
<1>2. CASE StoreHalf(p)
  <2>1. /\ pub[p].pc = "send" /\ OnlyOf(p)
        /\ pub'[p] = [pub[p] EXCEPT !.offset = @ + 1]
    BY <1>2, Writes DEF StoreHalf, At
  <2>2. Storing(p, pub[p].archive)
    BY <1>2 DEF StoreHalf, At, Storing
  <2>3. UNCHANGED <<disk, meta, library, catalog, serial, mishap>>
    BY <1>2 DEF StoreHalf
  <2> QED
    BY <1>1, <2>1, <2>2, <2>3 DEF HasFields
<1>3. CASE StoreCut(p)
  <2>1. OnlyOf(p) /\ pub'[p] = [pub[p] EXCEPT !.pc = "open"]
    BY <1>3, Writes DEF StoreCut
  <2>2. Storing(p, Cut) /\ pub[p].tool = "cli"
    BY <1>3 DEF StoreCut, At, Storing
  <2>3. UNCHANGED <<disk, meta, library, catalog, serial, mishap>>
    BY <1>3 DEF StoreCut
  <2> QED
    BY <1>1, <2>1, <2>2, <2>3 DEF HasFields
<1> QED
  BY <1>2, <1>3 DEF Stores

\* ... and after a half was stored.
LEMMA HalfStored ==
  ASSUME PublishInv, NEW p \in Publishers, NEW half, Storing(p, half)
  PROVE  /\ ArtifactsInv' /\ ArtifactsGrow
         /\ DOMAIN artifacts' = DOMAIN artifacts
         /\ pub[p].artifact \in DOMAIN artifacts
         /\ pub[p].offset \in Nat
         /\ Halves(artifacts'[pub[p].artifact]) = pub[p].offset + 1
<1> DEFINE a == pub[p].artifact
           new == Append(artifacts[a], half)
<1>1. /\ pub[p].pc = "send" /\ pub[p].offset < 2 /\ pub[p].offset = Stored(p)
      /\ artifacts' = [artifacts EXCEPT ![a] = new]
  BY DEF Storing
<1>2. a \in DOMAIN artifacts /\ pub[p].offset \in Nat
  BY <1>1 DEF PublishInv, PubInv, LocalsInv
<1>3. IsSeq(artifacts) /\ IsSeq(artifacts[a]) /\ Halves(artifacts[a]) \in 0..1
  <2>1. IsSeq(artifacts) /\ IsSeq(artifacts[a])
    BY <1>2 DEF PublishInv, ArtifactsInv
  <2>2. Halves(artifacts[a]) = pub[p].offset
    BY <1>1, StoredHalves
  <2> QED
    BY <1>1, <1>2, <2>1, <2>2
<1>4. IsSeq(new) /\ Halves(new) = Halves(artifacts[a]) + 1
  BY <1>3, AppendIsSeq
<1> HIDE DEF new
<1>5. /\ IsSeq(artifacts') /\ DOMAIN artifacts' = DOMAIN artifacts
      /\ artifacts'[a] = new
      /\ \A b \in DOMAIN artifacts : b # a => artifacts'[b] = artifacts[b]
  BY <1>1, <1>2, <1>3, ExceptIsSeq
<1>6. /\ IsSeq(artifacts'[a])
      /\ Halves(artifacts'[a]) \in 1..2
      /\ Halves(artifacts'[a]) = Halves(artifacts[a]) + 1
  <2>1. Halves(new) \in 1..2
    BY <1>3, <1>4
  <2> QED
    BY <1>4, <1>5, <2>1
<1>7. ASSUME NEW b \in DOMAIN artifacts
      PROVE  /\ IsSeq(artifacts'[b]) /\ Halves(artifacts'[b]) <= 2
             /\ Halves(artifacts[b]) <= Halves(artifacts'[b])
  <2>1. CASE b = a
    BY <1>3, <1>6, <2>1
  <2>2. CASE b # a
    <3>1. IsSeq(artifacts[b]) /\ Halves(artifacts[b]) \in 0..2
      BY ArtifactsLength DEF PublishInv, ArtifactsInv
    <3>2. artifacts'[b] = artifacts[b]
      BY <1>5, <2>2
    <3> QED
      BY <3>1, <3>2
  <2> QED
    BY <2>1, <2>2
<1>8. ArtifactsInv' /\ ArtifactsGrow
  BY <1>5, <1>7 DEF ArtifactsInv, ArtifactsGrow
<1>9. Halves(artifacts[a]) = pub[p].offset
  BY <1>1, StoredHalves
<1> QED
  BY <1>2, <1>5, <1>6, <1>8, <1>9

\* A record is created.
LEMMA CreateKeepsInv ==
  ASSUME PublishInv, NEW p \in Publishers, CreateRecord(p)
  PROVE  /\ PublishInv'
         /\ pub[p].pc = "create"
         /\ pub' = pub \/ (OnlyOf(p) /\ pub'[p].pc # "idle")
<1>1. ArtifactsInv' /\ ArtifactsGrow /\ Len(artifacts) + 1 \in DOMAIN artifacts'
  BY RecordCreated
<1>2. UNCHANGED <<meta, catalog, serial>> /\ pub[p].pc = "create"
  BY DEF CreateRecord, At
<1>3. MetaInv' /\ CatalogInv'
  BY <1>1, <1>2 DEF PublishInv, MetaInv, CatalogInv, ArtifactsGrow
<1>4. CASE UNCHANGED pub
  <2>1. \A q \in Publishers : LocalsInv(pub[q])'
    BY <1>1, <1>4, LocalsKept
  <2>2. PubInv'
    BY <1>4, <2>1 DEF PublishInv, PubInv
  <2> QED
    BY <1>1, <1>2, <1>3, <1>4, <2>2 DEF PublishInv
<1>5. ASSUME NEW pc \in {"meta", "open"},
             Step(p, [pub[p] EXCEPT !.artifact = Len(artifacts) + 1, !.pc = pc])
      PROVE  PubInv' /\ OnlyOf(p) /\ pub'[p].pc # "idle"
  <2>1. /\ OnlyOf(p)
        /\ pub'[p] = [pub[p] EXCEPT !.artifact = Len(artifacts) + 1, !.pc = pc]
    BY <1>5, Writes
  <2>2. LocalsInv(pub[p])
    BY DEF PublishInv, PubInv
  <2>3. /\ HasFields(pub[p])' /\ pub'[p].pc = pc
        /\ pub'[p].service = pub[p].service
        /\ pub'[p].artifact = Len(artifacts) + 1
    BY <2>1, <2>2 DEF LocalsInv, HasFields
  <2>4. LocalsInv(pub[p])'
    BY <1>1, <1>2, <2>2, <2>3 DEF LocalsInv
  <2> QED
    BY <1>1, <1>5, <2>1, <2>3, <2>4, PubKept
<1>6. UNCHANGED pub \/ \E pc \in {"meta", "open"} :
        Step(p, [pub[p] EXCEPT !.artifact = Len(artifacts) + 1, !.pc = pc])
  BY DEF CreateRecord
<1> QED
  BY <1>1, <1>2, <1>3, <1>4, <1>5, <1>6 DEF PublishInv

\* A half is stored.
LEMMA StoreKeepsInv ==
  ASSUME PublishInv, NEW p \in Publishers, Stores(p)
  PROVE  /\ PublishInv' /\ ArtifactsGrow
         /\ DOMAIN artifacts' = DOMAIN artifacts
         /\ OnlyOf(p) /\ pub[p].pc = "send" /\ pub'[p].pc \in {"send", "open"}
<1>1. /\ ArtifactsInv' /\ ArtifactsGrow
      /\ DOMAIN artifacts' = DOMAIN artifacts
      /\ pub[p].artifact \in DOMAIN artifacts
      /\ pub[p].offset \in Nat
      /\ Halves(artifacts'[pub[p].artifact]) = pub[p].offset + 1
  BY StoresIsStoring, HalfStored
<1>2. /\ UNCHANGED <<meta, catalog, serial>> /\ pub[p].pc = "send" /\ OnlyOf(p)
  BY StoresIsStoring DEF Storing
<1>3. MetaInv' /\ CatalogInv'
  BY <1>1, <1>2 DEF PublishInv, MetaInv, CatalogInv
<1>4. LocalsInv(pub[p])
  BY DEF PublishInv, PubInv
<1>5. /\ HasFields(pub[p])' /\ pub'[p].service = pub[p].service
      /\ pub'[p].artifact = pub[p].artifact
      /\ \/ pub'[p].pc = "send" /\ pub'[p].offset = pub[p].offset + 1
         \/ pub'[p].pc = "open"
  BY StoresIsStoring
<1>6. pub'[p].pc = "send" =>
        /\ pub'[p].offset \in Nat
        /\ pub'[p].offset <= Halves(artifacts'[pub'[p].artifact])
  BY <1>1, <1>5
<1>7. LocalsInv(pub[p])'
  BY <1>1, <1>2, <1>4, <1>5, <1>6 DEF LocalsInv
<1>8. PubInv'
  BY <1>1, <1>2, <1>7, PubKept
<1> QED
  BY <1>1, <1>2, <1>3, <1>5, <1>8 DEF PublishInv

\* A PUT or POST that is served: p has succeeded, or sends it again.
Served(p) ==
  /\ UNCHANGED <<artifacts, meta>>
  /\ pub[p].pc \in {"put", "post"}
  /\ serial' = serial + 1
  /\ \/ /\ \E r : catalog[pub[p].service] = {r}
        /\ catalog' = [catalog EXCEPT ![pub[p].service] = {Description(p)}]
     \/ catalog' = [catalog EXCEPT ![pub[p].service] = @ \cup {Description(p)}]
  /\ OnlyOf(p)
  /\ \/ pub'[p] = Locals("idle", "ok")
     \/ pub'[p] = pub[p]
     \/ pub'[p] = [pub[p] EXCEPT !.posted = TRUE]

\* PUT and POST are the two that store a description.
LEMMA PutOrPostServed ==
  ASSUME PublishInv, NEW p \in Publishers, PutReplaces(p) \/ Post(p)
  PROVE  Served(p)
<1>1. pub[p].pc \in {"put", "post"} /\ pub[p].service \in Services
  BY DEF PublishInv, PubInv, LocalsInv, PutReplaces, Post, At
<1>2. CASE PutReplaces(p)
  <2>1. \E r : catalog[pub[p].service] = {r}
    BY <1>1, <1>2, FS_Singleton DEF PutReplaces, PublishInv, CatalogInv
  <2>2. /\ UNCHANGED <<artifacts, meta>> /\ serial' = serial + 1
        /\ catalog' = [catalog EXCEPT ![pub[p].service] = {Description(p)}]
        /\ Step(p, Locals("idle", "ok")) \/ Step(p, pub[p])
    BY <1>2 DEF PutReplaces, Answered, End
  <2>3. OnlyOf(p) /\ (pub'[p] = Locals("idle", "ok") \/ pub'[p] = pub[p])
    BY <2>2, Writes
  <2> QED
    BY <1>1, <2>1, <2>2, <2>3 DEF Served
<1>3. CASE Post(p)
  <2>1. /\ UNCHANGED <<artifacts, meta>> /\ serial' = serial + 1
        /\ catalog' = [catalog EXCEPT ![pub[p].service] = @ \cup {Description(p)}]
        /\ \/ Step(p, Locals("idle", "ok"))
           \/ Step(p, [pub[p] EXCEPT !.posted = TRUE])
    BY <1>3 DEF Post, Answered, End
  <2>2. /\ OnlyOf(p)
        /\ \/ pub'[p] = Locals("idle", "ok")
           \/ pub'[p] = [pub[p] EXCEPT !.posted = TRUE]
    BY <2>1, Writes
  <2> QED
    BY <1>1, <2>1, <2>2 DEF Served
<1> QED
  BY <1>2, <1>3

\* What they do to the publisher.
LEMMA ServedLocals ==
  ASSUME PublishInv, NEW p \in Publishers, Served(p)
  PROVE  /\ LocalsInv(pub[p])'
         /\ \/ pub'[p].pc = pub[p].pc /\ pub'[p].service = pub[p].service
            \/ pub'[p].pc = "idle" /\ pub'[p].result = "ok"
<1>1. LocalsInv(pub[p]) /\ pub[p].pc \in {"put", "post"} /\ artifacts' = artifacts
  BY DEF PublishInv, PubInv, Served
<1>2. CASE pub'[p] = Locals("idle", "ok")
  BY <1>2 DEF LocalsInv, HasFields, Locals
<1>3. CASE pub'[p] = pub[p] \/ pub'[p] = [pub[p] EXCEPT !.posted = TRUE]
  <2>1. /\ HasFields(pub[p])' /\ pub'[p].pc = pub[p].pc
        /\ pub'[p].service = pub[p].service
        /\ pub'[p].artifact = pub[p].artifact
    BY <1>1, <1>3 DEF LocalsInv, HasFields
  <2>2. LocalsInv(pub[p])'
    BY <1>1, <2>1 DEF LocalsInv
  <2> QED
    BY <2>1, <2>2
<1> QED
  BY <1>2, <1>3 DEF Served

\* The record is new, and the only one that is.
LEMMA ServedCatalog ==
  ASSUME PublishInv, NEW p \in Publishers, Served(p)
  PROVE  /\ CatalogInv'
         /\ pub[p].service \in Services
         /\ \A s \in Services : s # pub[p].service => catalog'[s] = catalog[s]
         /\ Description(p) \in catalog'[pub[p].service]
         /\ Description(p) \notin catalog[pub[p].service]
<1> DEFINE s == pub[p].service
           d == Description(p)
<1>1. s \in Services
  BY DEF Served, PublishInv, PubInv, LocalsInv
<1>2. d.rid = serial + 1
  BY DEF Description
<1> HIDE DEF d
<1>3. CatalogInv
  BY DEF PublishInv
<1>4. /\ serial' = serial + 1
      /\ catalog' = [catalog EXCEPT ![s] = {d}]
         \/ catalog' = [catalog EXCEPT ![s] = @ \cup {d}]
  BY DEF Served, d
<1>5. catalog = [z \in Services |-> catalog[z]] /\ serial \in Nat
  BY <1>3 DEF CatalogInv
<1>6. /\ catalog' = [z \in Services |-> catalog'[z]]
      /\ \A z \in Services : z # s => catalog'[z] = catalog[z]
      /\ catalog'[s] = {d} \/ catalog'[s] = catalog[s] \cup {d}
  BY <1>1, <1>4, <1>5
<1>7. IsFiniteSet(catalog[s]) /\ IsFiniteSet({d})
  BY <1>1, <1>3, FS_Singleton DEF CatalogInv
<1>8. IsFiniteSet(catalog'[s])
  BY <1>6, <1>7, FS_AddElement
<1>9. ASSUME NEW z \in Services, NEW r \in catalog'[z]
      PROVE  r.rid \in 1..serial'
  <2>1. r = d \/ r \in catalog[z]
    BY <1>6
  <2>2. CASE r = d
    BY <1>2, <1>4, <1>5, <2>2
  <2>3. CASE r \in catalog[z]
    <3>1. r.rid \in 1..serial
      BY <1>3, <2>3 DEF CatalogInv
    <3> QED
      BY <1>4, <1>5, <3>1
  <2> QED
    BY <2>1, <2>2, <2>3
<1>10. \A z \in Services : IsFiniteSet(catalog'[z])
  BY <1>3, <1>6, <1>8 DEF CatalogInv
<1>11. CatalogInv'
  BY <1>4, <1>5, <1>6, <1>9, <1>10 DEF CatalogInv
<1>12. d \notin catalog[s]
  <2>1. \A r \in catalog[s] : r.rid \in 1..serial
    BY <1>1, <1>3 DEF CatalogInv
  <2> QED
    BY <1>2, <1>5, <2>1
<1> QED
  BY <1>1, <1>6, <1>11, <1>12 DEF d

\* A description is stored.
LEMMA ServedKeepsInv ==
  ASSUME PublishInv, NEW p \in Publishers, Served(p)
  PROVE  PublishInv'
<1>1. UNCHANGED <<artifacts, meta>> /\ OnlyOf(p)
  BY DEF Served
<1>2. ArtifactsInv' /\ ArtifactsGrow /\ MetaInv'
  BY <1>1, GrowReflexive DEF PublishInv, MetaInv
<1>3. PubInv'
  BY <1>1, <1>2, ServedLocals, PubKept
<1> QED
  BY <1>2, <1>3, ServedCatalog DEF PublishInv

\* The archive is built again: only `sure` changes.
LEMMA ChangeKeepsInv ==
  ASSUME PublishInv, Change
  PROVE  /\ PublishInv'
         /\ UNCHANGED <<artifacts, catalog>>
         /\ \A p \in Publishers :
              /\ pub'[p].pc = pub[p].pc /\ pub'[p].result = pub[p].result
              /\ pub'[p].service = pub[p].service
              /\ pub'[p].posted = pub[p].posted
<1>1. UNCHANGED <<artifacts, meta, catalog, serial>>
  BY DEF Change
<1>2. pub' = [p \in Publishers |-> pub'[p]]
  BY DEF Change
<1>3. ASSUME NEW p \in Publishers
      PROVE  /\ LocalsInv(pub[p])'
             /\ pub'[p].pc = pub[p].pc /\ pub'[p].result = pub[p].result
             /\ pub'[p].service = pub[p].service
             /\ pub'[p].posted = pub[p].posted
  <2>1. LocalsInv(pub[p])
    BY DEF PublishInv, PubInv
  <2>2. \E b : pub'[p] = [pub[p] EXCEPT !.sure = b]
    BY DEF Change
  <2>3. /\ HasFields(pub[p])'
        /\ pub'[p].pc = pub[p].pc /\ pub'[p].result = pub[p].result
        /\ pub'[p].service = pub[p].service
        /\ pub'[p].artifact = pub[p].artifact
        /\ pub'[p].offset = pub[p].offset
        /\ pub'[p].posted = pub[p].posted
    BY <2>1, <2>2 DEF LocalsInv, HasFields
  <2>4. LocalsInv(pub[p])'
    BY <1>1, <2>1, <2>3 DEF LocalsInv
  <2> QED
    BY <2>3, <2>4
<1>4. ArtifactsInv' /\ MetaInv' /\ CatalogInv'
  BY <1>1, GrowReflexive DEF PublishInv, MetaInv, CatalogInv
<1> QED
  BY <1>1, <1>2, <1>3, <1>4 DEF PublishInv, PubInv

\* Nothing that matters changes.
LEMMA UnchangedKeepsInv ==
  ASSUME PublishInv, UNCHANGED <<artifacts, meta, catalog, pub, serial>>
  PROVE  PublishInv'
<1>1. ArtifactsInv' /\ ArtifactsGrow /\ MetaInv' /\ CatalogInv'
  BY GrowReflexive DEF PublishInv, MetaInv, CatalogInv
<1>2. \A p \in Publishers : LocalsInv(pub[p])'
  BY <1>1, LocalsKept
<1> QED
  BY <1>1, <1>2 DEF PublishInv, PubInv

-----------------------------------------------------------------------------
(* The invariant of publishing is inductive                                *)

\* Initially.
LEMMA InitInv ==
  ASSUME Init
  PROVE  PublishInv
<1>1. ArtifactsInv /\ MetaInv
  BY EmptyIsSeq DEF Init, ArtifactsInv, MetaInv
<1>2. PubInv
  BY DEF Init, PubInv, LocalsInv, HasFields, Locals
<1>3. CatalogInv
  BY FS_EmptySet DEF Init, CatalogInv
<1> QED
  BY <1>1, <1>2, <1>3 DEF PublishInv

\* Every step is of one of these forms.
LEMMA StepCases ==
  ASSUME PublishInv, [Next]_vars
  PROVE  \/ \E p \in Publishers :
              Quiet(p) \/ CreateRecord(p) \/ Stores(p) \/ Served(p)
         \/ Change
         \/ UNCHANGED <<artifacts, meta, catalog, pub, serial, mishap>>
BY PutOrPostServed
   DEF Next, vars, Packing, Uploading, Describing, Quiet, Stores, LibraryGrows

\* Every step keeps the invariant.
LEMMA NextKeepsInv ==
  ASSUME PublishInv, [Next]_vars
  PROVE  PublishInv'
BY StepCases, QuietKeepsInv, CreateKeepsInv, StoreKeepsInv, ServedKeepsInv,
   ChangeKeepsInv, UnchangedKeepsInv

\* PublishInv holds in every state, whatever is killed, lost or sent again.
THEOREM PublishInvariant == Spec => []PublishInv
BY InitInv, NextKeepsInv, PTL DEF Spec

-----------------------------------------------------------------------------
(* Publishing implements ServiceCatalog                                    *)

\* What ServiceCatalog sees of a state.
Record(r) == [rid |-> r.rid, artifact |-> r.artifact]
MappedCatalog == [s \in Services |-> {Record(r) : r \in catalog[s]}]
MappedComplete == {a \in DOMAIN artifacts : Halves(artifacts[a]) = 2}
MappedStatus ==
  [p \in Publishers |-> IF Working(p) THEN "working" ELSE pub[p].result]

MappedVars == <<MappedCatalog, MappedComplete, MappedStatus>>

\* A step of p is seen in the status of p alone.
LEMMA StatusOfOne ==
  ASSUME PublishInv, NEW p \in Publishers, OnlyOf(p)
  PROVE  /\ MappedStatus[p] =
              IF pub[p].pc # "idle" THEN "working" ELSE pub[p].result
         /\ MappedStatus'[p] =
              IF pub'[p].pc # "idle" THEN "working" ELSE pub'[p].result
         /\ MappedStatus' = [MappedStatus EXCEPT ![p] = MappedStatus'[p]]
         /\ MappedStatus[p] \in {"none", "working", "ok", "failed"}
<1>1. \A q \in Publishers : q # p => pub'[q] = pub[q]
  BY DEF PublishInv, PubInv, OnlyOf
<1>2. /\ MappedStatus[p] =
           IF pub[p].pc # "idle" THEN "working" ELSE pub[p].result
      /\ MappedStatus'[p] =
           IF pub'[p].pc # "idle" THEN "working" ELSE pub'[p].result
      /\ \A q \in Publishers : q # p => MappedStatus'[q] = MappedStatus[q]
  BY <1>1 DEF MappedStatus, Working
<1>3. MappedStatus' = [MappedStatus EXCEPT ![p] = MappedStatus'[p]]
  <2>1. /\ MappedStatus = [q \in Publishers |-> MappedStatus[q]]
        /\ MappedStatus' = [q \in Publishers |-> MappedStatus'[q]]
    BY DEF MappedStatus
  <2> HIDE DEF MappedStatus
  <2> QED
    BY <1>2, <2>1
<1>4. pub[p].pc = "idle" => pub[p].result \in {"none", "ok", "failed"}
  BY DEF PublishInv, PubInv, LocalsInv
<1> QED
  BY <1>2, <1>3, <1>4

\* A step by which nothing is stored is a stutter, or the publisher fails or begins.
LEMMA QuietRefines ==
  ASSUME PublishInv, NEW p \in Publishers, Quiet(p)
  PROVE  /\ UNCHANGED <<MappedCatalog, MappedComplete>>
         /\ \/ UNCHANGED MappedStatus
            \/ /\ MappedStatus[p] # "working"
               /\ MappedStatus' = [MappedStatus EXCEPT ![p] = "working"]
            \/ /\ MappedStatus[p] \in {"none", "working", "ok", "failed"}
               /\ MappedStatus' = [MappedStatus EXCEPT ![p] = "failed"]
<1>1. QuietOutcome(p)
  BY QuietLocals
<1>2. UNCHANGED <<MappedCatalog, MappedComplete>>
  BY <1>1 DEF QuietOutcome, MappedCatalog, MappedComplete
<1>3. MappedStatus'[p] \in {"working", "failed"}
  BY <1>1, StatusOfOne DEF QuietOutcome
<1>4. /\ MappedStatus' = [MappedStatus EXCEPT ![p] = MappedStatus'[p]]
      /\ MappedStatus[p] \in {"none", "working", "ok", "failed"}
  BY <1>1, StatusOfOne DEF QuietOutcome
<1>5. MappedStatus = [q \in Publishers |-> MappedStatus[q]]
  BY DEF MappedStatus
<1> HIDE DEF MappedStatus
<1>6. CASE MappedStatus'[p] = "failed"
  BY <1>2, <1>4, <1>6
<1>7. CASE MappedStatus'[p] = "working" /\ MappedStatus[p] # "working"
  BY <1>2, <1>4, <1>7
<1>8. CASE MappedStatus'[p] = "working" /\ MappedStatus[p] = "working"
  BY <1>2, <1>4, <1>5, <1>8
<1> QED
  BY <1>3, <1>6, <1>7, <1>8

\* A record that is created is complete only later.
LEMMA CreateRefines ==
  ASSUME PublishInv, NEW p \in Publishers, CreateRecord(p)
  PROVE  UNCHANGED MappedVars
<1>1. MappedComplete' = MappedComplete
  <2>1. ArtifactsGrow
    BY RecordCreated
  <2> QED
    BY <2>1, RecordCreated DEF MappedComplete, ArtifactsGrow
<1>2. MappedCatalog' = MappedCatalog
  BY DEF CreateRecord, MappedCatalog
<1>3. pub[p].pc = "create" /\ (pub' = pub \/ (OnlyOf(p) /\ pub'[p].pc # "idle"))
  BY CreateKeepsInv
<1>4. MappedStatus' = MappedStatus
  <2>1. CASE pub' = pub
    BY <2>1 DEF MappedStatus, Working
  <2>2. CASE OnlyOf(p) /\ pub'[p].pc # "idle"
    BY <1>3, <2>2 DEF MappedStatus, Working, OnlyOf, PublishInv, PubInv
  <2> QED
    BY <1>3, <2>1, <2>2
<1> QED
  BY <1>1, <1>2, <1>4 DEF MappedVars

\* A half that is stored may complete its artifact.
LEMMA StoreRefines ==
  ASSUME PublishInv, NEW p \in Publishers, Stores(p)
  PROVE  /\ MappedComplete \subseteq MappedComplete'
         /\ UNCHANGED <<MappedCatalog, MappedStatus>>
<1>1. ArtifactsInv' /\ ArtifactsGrow /\ DOMAIN artifacts' = DOMAIN artifacts
  BY StoreKeepsInv DEF PublishInv
<1>2. ASSUME NEW a \in DOMAIN artifacts, Halves(artifacts[a]) = 2
      PROVE  Halves(artifacts'[a]) = 2
  <2>1. IsSeq(artifacts'[a]) /\ Halves(artifacts'[a]) <= 2
    BY <1>1 DEF ArtifactsInv
  <2>2. Halves(artifacts'[a]) \in Nat
    BY <2>1, IsSeqProperties
  <2>3. 2 <= Halves(artifacts'[a])
    BY <1>1, <1>2 DEF ArtifactsGrow
  <2> QED
    BY <2>1, <2>2, <2>3
<1>3. MappedComplete \subseteq MappedComplete'
  BY <1>1, <1>2 DEF MappedComplete
<1>4. MappedCatalog' = MappedCatalog
  BY StoresIsStoring DEF MappedCatalog
<1>5. OnlyOf(p) /\ pub[p].pc = "send" /\ pub'[p].pc \in {"send", "open"}
  BY StoreKeepsInv
<1>6. MappedStatus' = MappedStatus
  BY <1>5 DEF MappedStatus, Working, OnlyOf, PublishInv, PubInv
<1> QED
  BY <1>3, <1>4, <1>6

\* A PUT or POST that is served describes the service.
LEMMA ServedRefines ==
  ASSUME PublishInv, NEW p \in Publishers, Served(p)
  PROVE  \E s \in Services : Catalog!Describe(p, s)
<1> DEFINE s == pub[p].service
           d == Description(p)
           new == MappedCatalog'[s]
           old == MappedCatalog[s]
<1>1. /\ CatalogInv /\ s \in Services
      /\ \A z \in Services : z # s => catalog'[z] = catalog[z]
      /\ d \in catalog'[s] /\ d \notin catalog[s]
  BY ServedCatalog DEF PublishInv
<1>2. d.rid = serial + 1 /\ d.artifact = pub[p].artifact
  BY DEF Description
<1>3. pub[p].artifact \in MappedComplete /\ MappedComplete' = MappedComplete
  BY DEF MappedComplete, Served, PublishInv, PubInv, LocalsInv
<1>4. /\ new = {Record(r) : r \in catalog'[s]}
      /\ old = {Record(r) : r \in catalog[s]}
      /\ MappedCatalog' = [MappedCatalog EXCEPT ![s] = new]
  BY <1>1 DEF MappedCatalog
<1>5. Record(d) \notin old
  <2>1. \A r \in catalog[s] : Record(r).rid \in 1..serial
    BY <1>1 DEF CatalogInv, Record
  <2>2. Record(d).rid \notin 1..serial
    BY <1>1, <1>2 DEF CatalogInv, Record
  <2> QED
    BY <1>4, <2>1, <2>2
<1>6. \/ catalog'[s] = {d} /\ \E r : catalog[s] = {r}
      \/ catalog'[s] = catalog[s] \cup {d}
  BY <1>1 DEF Served, CatalogInv
<1> HIDE DEF d
<1>7. \/ new = {Record(d)} /\ (\E r \in old : old = {r})
      \/ new = old \cup {Record(d)}
  BY <1>4, <1>6
<1>8. Record(d).artifact = pub[p].artifact
  BY <1>2 DEF Record
<1> DEFINE fresh == {r \in new : r \notin old}
<1> HIDE DEF new, old
<1>9. fresh = {Record(d)}
  BY <1>5, <1>7
<1>10. old \subseteq new \/ \E r \in old : old = {r}
  BY <1>7
<1>11. /\ OnlyOf(p)
       /\ pub[p].pc \in {"put", "post"}
       /\ \/ pub'[p].pc = pub[p].pc
          \/ pub'[p].pc = "idle" /\ pub'[p].result = "ok"
  BY ServedLocals DEF Served
<1>12. /\ MappedStatus[p] = "working" /\ MappedStatus'[p] \in {"working", "ok"}
       /\ MappedStatus' = [MappedStatus EXCEPT ![p] = MappedStatus'[p]]
  BY <1>11, StatusOfOne
<1>13. \E r \in fresh : fresh = {r} /\ r.artifact = pub[p].artifact
  BY <1>8, <1>9
<1>14. \E end \in {"working", "ok", "failed"} :
         MappedStatus' = [MappedStatus EXCEPT ![p] = end]
  BY <1>12
<1> QED
  BY <1>1, <1>3, <1>4, <1>10, <1>12, <1>13, <1>14
     DEF Catalog!Describe, MappedCatalog, MappedComplete, MappedStatus,
         Record, Halves, new, old

\* Every step is one of ServiceCatalog, or a stutter.
LEMMA StepRefines ==
  ASSUME PublishInv, [Next]_vars
  PROVE  [Catalog!CatalogNext]_MappedVars
<1>1. ASSUME NEW p \in Publishers, Quiet(p)
      PROVE  [Catalog!CatalogNext]_MappedVars
  <2>1. Catalog!Start(p) \/ Catalog!Fail(p) \/ UNCHANGED MappedVars
    BY <1>1, QuietRefines
       DEF Catalog!Start, Catalog!Fail, MappedCatalog, MappedComplete,
           MappedStatus, MappedVars, Record, Halves
  <2> QED
    BY <2>1 DEF Catalog!CatalogNext
<1>2. ASSUME NEW p \in Publishers, CreateRecord(p)
      PROVE  [Catalog!CatalogNext]_MappedVars
  BY <1>2, CreateRefines
<1>3. ASSUME NEW p \in Publishers, Stores(p)
      PROVE  [Catalog!CatalogNext]_MappedVars
  <2>1. Catalog!Complete \/ UNCHANGED MappedVars
    BY <1>3, StoreRefines
       DEF Catalog!Complete, MappedCatalog, MappedComplete, MappedStatus,
           MappedVars, Record, Halves
  <2> QED
    BY <2>1 DEF Catalog!CatalogNext
<1>4. ASSUME NEW p \in Publishers, Served(p)
      PROVE  [Catalog!CatalogNext]_MappedVars
  BY <1>4, ServedRefines DEF Catalog!CatalogNext
<1>5. CASE Change
  <2>1. UNCHANGED <<artifacts, catalog>>
    BY <1>5, ChangeKeepsInv
  <2>2. MappedStatus' = MappedStatus
    BY <1>5, ChangeKeepsInv DEF MappedStatus, Working
  <2> QED
    BY <2>1, <2>2 DEF MappedVars, MappedCatalog, MappedComplete
<1>6. CASE UNCHANGED <<artifacts, meta, catalog, pub, serial, mishap>>
  BY <1>6 DEF MappedVars, MappedCatalog, MappedComplete, MappedStatus, Working
<1> QED
  BY StepCases, <1>1, <1>2, <1>3, <1>4, <1>5, <1>6

\* ImplementsCatalog for every number of publishers, services, faults and runs:
\* descriptions name artifacts that are complete, none is taken away, and only
\* who has described its service reports success.
THEOREM CatalogRefinement == Spec => ImplementsCatalog
<1>1. Init => Catalog!CatalogInit
  BY EmptyIsSeq DEF Init, Catalog!CatalogInit, Working, Locals, Halves
<1>2. PublishInv /\ [Next]_vars => [Catalog!CatalogNext]_MappedVars
  BY StepRefines
<1> QED
  BY <1>1, <1>2, PublishInvariant, PTL
     DEF Spec, ImplementsCatalog, Catalog!CatalogSpec, MappedVars,
         MappedCatalog, MappedComplete, MappedStatus, Record, Halves

-----------------------------------------------------------------------------
(* A service is described once                                             *)

Posting(p, s) == pub[p].pc = "post" /\ pub[p].service = s

\* OneDescription is not inductive: a publisher that waits to POST would add a
\* second record.  It is the only one to do so, and there is a record only if
\* it sent its POST already.
OnceInv(s) ==
  /\ \A r, q \in catalog[s] : r = q
  /\ \A p, q \in Publishers : Posting(p, s) /\ Posting(q, s) => p = q
  /\ \A p \in Publishers :
       Posting(p, s) /\ catalog[s] # {} => pub[p].posted

DescribedOnceInv == \A s \in Services \ mishap : OnceInv(s)

\* Nobody comes to a POST but by PutNotFound.
LEMMA QuietPosting ==
  ASSUME PublishInv, NEW p \in Publishers, Quiet(p), ~PutNotFound(p)
  PROVE  pub'[p].pc # "post" /\ UNCHANGED mishap
<1>1. HasFields(pub[p])
  BY DEF PublishInv, PubInv, LocalsInv
<1>2. \A new : Step(p, new) => pub'[p] = new
  BY Writes
<1>3. End(p, "failed") => pub'[p].pc = "idle"
  BY <1>2 DEF End, Locals
<1>4. CASE \E s \in Services : BeginUpdate(p, s)
  BY <1>2, <1>3, <1>4 DEF BeginUpdate, Locals
<1>5. CASE \E s \in Services, sources \in SourceLists : BeginCreate(p, s, sources)
  BY <1>2, <1>5 DEF BeginCreate, Locals
<1>6. CASE Stat(p) \/ WriteMeta(p)
  BY <1>1, <1>2, <1>6 DEF Stat, WriteMeta, HasFields
<1>7. CASE Pack(p)
  <2>1. \A a, e : pub'[p] = [pub[p] EXCEPT !.archive = a, !.early = e] =>
          pub'[p].pc = pub[p].pc
    BY <1>1 DEF HasFields
  <2> QED
    BY <1>2, <1>3, <1>7, <2>1 DEF Pack, At
<1>8. CASE PackReturns(p)
  <2>1. \A a, h :
          pub'[p] = [pub[p] EXCEPT !.archive = a, !.header = h, !.pc = "create"] =>
            pub'[p].pc = "create"
    BY <1>1 DEF HasFields
  <2> QED
    BY <1>2, <1>3, <1>8, <2>1 DEF PackReturns
<1>9. CASE OpenArchive(p) \/ UploadReturns(p)
  BY <1>1, <1>2, <1>9 DEF OpenArchive, UploadReturns, HasFields
<1>10. CASE UploadFails(p)
  <2>1. pub'[p] = [pub[p] EXCEPT !.pc = "open"] => pub'[p].pc = "open"
    BY <1>1 DEF HasFields
  <2> QED
    BY <1>2, <1>3, <1>10, <2>1 DEF UploadFails
<1>11. CASE PutRefused(p) \/ Fail(p)
  BY <1>3, <1>11 DEF PutRefused, Fail
<1> QED
  BY <1>4, <1>5, <1>6, <1>7, <1>8, <1>9, <1>10, <1>11 DEF Quiet

\* Where the records of s stay and nobody comes to a POST for it.
LEMMA OnceKept ==
  ASSUME NEW s \in Services, OnceInv(s), catalog'[s] = catalog[s],
         \A p \in Publishers : Posting(p, s)' =>
           Posting(p, s) /\ pub'[p].posted = pub[p].posted
  PROVE  OnceInv(s)'
BY DEF OnceInv

\* The others do not move.
LEMMA OthersPosting ==
  ASSUME PublishInv, NEW p \in Publishers, OnlyOf(p), NEW q \in Publishers, q # p
  PROVE  pub'[q] = pub[q]
BY DEF PublishInv, PubInv, OnlyOf

\* Steps that describe nothing.
LEMMA QuietOnce ==
  ASSUME PublishInv, NEW p \in Publishers, Quiet(p), NEW s \in Services,
         s \notin mishap', DescribedOnceInv
  PROVE  OnceInv(s)'
<1>1. OnlyOf(p) /\ UNCHANGED catalog
  BY QuietLocals DEF QuietOutcome
<1>2. CASE ~PutNotFound(p)
  <2>1. pub'[p].pc # "post" /\ OnceInv(s)
    BY <1>2, QuietPosting DEF DescribedOnceInv
  <2> QED
    BY <1>1, <2>1, OthersPosting, OnceKept DEF Posting
<1>3. CASE PutNotFound(p)
  <2>1. /\ catalog[pub[p].service] = {}
        /\ mishap' = IF Racing(p, pub[p].service)
                     THEN mishap \cup {pub[p].service} ELSE mishap
        /\ pub'[p] = [pub[p] EXCEPT !.pc = "post"]
    BY <1>3, Writes DEF PutNotFound
  <2>2. OnceInv(s)
    BY <2>1 DEF DescribedOnceInv
  <2>3. pub'[p].service = pub[p].service
    BY <2>1 DEF PublishInv, PubInv, LocalsInv, HasFields
  <2>4. CASE s # pub[p].service
    BY <1>1, <2>2, <2>3, <2>4, OthersPosting, OnceKept DEF Posting
  <2>5. CASE s = pub[p].service
    <3>1. ~Racing(p, s)
      BY <2>1, <2>5
    <3>2. \A q \in Publishers : Posting(q, s)' => q = p
      BY <1>1, <3>1, OthersPosting DEF Posting, Racing, At
    <3> QED
      BY <1>1, <2>1, <2>5, <3>2 DEF OnceInv
  <2> QED
    BY <2>4, <2>5
<1> QED
  BY <1>2, <1>3

\* PUT leaves one description.
LEMMA PutReplacesOnce ==
  ASSUME PublishInv, NEW p \in Publishers, PutReplaces(p), NEW s \in Services,
         s \notin mishap', DescribedOnceInv
  PROVE  OnceInv(s)'
<1>1. Served(p)
  BY PutOrPostServed
<1>2. OnceInv(s)
  BY DEF DescribedOnceInv, PutReplaces
<1>3. OnlyOf(p) /\ pub'[p].pc # "post"
  <2>1. pub[p].pc = "put" /\ OnlyOf(p)
    BY <1>1 DEF PutReplaces, At, Served
  <2>2. pub'[p].pc = pub[p].pc \/ pub'[p].pc = "idle"
    BY <1>1, ServedLocals
  <2> QED
    BY <2>1, <2>2
<1>4. \A q \in Publishers : Posting(q, s)' => Posting(q, s) /\ pub'[q] = pub[q]
  BY <1>3, OthersPosting DEF Posting
<1>5. CASE s # pub[p].service
  BY <1>1, <1>2, <1>4, <1>5, ServedCatalog, OnceKept
<1>6. CASE s = pub[p].service
  <2>1. catalog'[s] = {Description(p)}
    BY <1>6 DEF PutReplaces, PublishInv, CatalogInv
  <2>2. \E r : catalog[s] = {r}
    BY <1>6, FS_Singleton DEF PutReplaces, PublishInv, CatalogInv
  <2> QED
    BY <1>2, <1>4, <2>1, <2>2 DEF OnceInv
<1> QED
  BY <1>5, <1>6

\* POST adds one, where there was none or the service has had its mishap.
LEMMA PostOnce ==
  ASSUME PublishInv, NEW p \in Publishers, Post(p), NEW s \in Services,
         s \notin mishap', DescribedOnceInv
  PROVE  OnceInv(s)'
<1>1. Served(p) /\ OnlyOf(p) /\ pub[p].pc = "post"
  BY PutOrPostServed DEF Served, Post, At
<1>2. OnceInv(s)
  BY DEF DescribedOnceInv, Post
<1>3. \/ pub'[p].pc = "idle"
      \/ /\ pub'[p].pc = "post" /\ pub'[p].service = pub[p].service
         /\ pub'[p].posted = TRUE
  <2>1. \/ pub'[p] = Locals("idle", "ok")
        \/ pub'[p] = [pub[p] EXCEPT !.posted = TRUE]
    BY Writes DEF Post, Answered, End
  <2>2. HasFields(pub[p])
    BY DEF PublishInv, PubInv, LocalsInv
  <2> QED
    BY <1>1, <2>1, <2>2 DEF HasFields, Locals
<1>4. CASE s # pub[p].service
  <2>1. catalog'[s] = catalog[s]
    BY <1>1, <1>4, ServedCatalog
  <2>2. \A q \in Publishers : Posting(q, s)' =>
          Posting(q, s) /\ pub'[q].posted = pub[q].posted
    BY <1>1, <1>3, <1>4, OthersPosting DEF Posting
  <2> QED
    BY <1>2, <2>1, <2>2, OnceKept
<1>5. CASE s = pub[p].service
  <2>1. ~pub[p].posted
    BY <1>5 DEF Post
  <2>2. catalog[s] = {}
    BY <1>1, <1>2, <1>5, <2>1 DEF OnceInv, Posting
  <2>3. catalog'[s] = {Description(p)}
    BY <1>5, <2>2 DEF Post, PublishInv, CatalogInv
  <2>4. \A q \in Publishers : Posting(q, s)' => q = p /\ pub'[q].posted
    <3>1. \A q \in Publishers : Posting(q, s) => q = p
      BY <1>1, <1>2, <1>5 DEF OnceInv, Posting
    <3> QED
      BY <1>1, <1>3, <3>1, OthersPosting DEF Posting
  <2> QED
    BY <2>3, <2>4 DEF OnceInv
<1> QED
  BY <1>4, <1>5

\* Every step keeps that.
LEMMA OnceInductive ==
  ASSUME PublishInv, DescribedOnceInv, [Next]_vars
  PROVE  DescribedOnceInv'
<1> SUFFICES ASSUME NEW s \in Services, s \notin mishap'
             PROVE  OnceInv(s)'
  BY DEF DescribedOnceInv
<1>1. ASSUME NEW p \in Publishers, Quiet(p)
      PROVE  OnceInv(s)'
  BY <1>1, QuietOnce
<1>2. ASSUME NEW p \in Publishers, PutReplaces(p) \/ Post(p)
      PROVE  OnceInv(s)'
  BY <1>2, PutReplacesOnce, PostOnce
<1>3. ASSUME UNCHANGED <<catalog, mishap>>,
             \A p \in Publishers : Posting(p, s)' =>
               Posting(p, s) /\ pub'[p].posted = pub[p].posted
      PROVE  OnceInv(s)'
  BY <1>3, OnceKept DEF DescribedOnceInv
<1>4. ASSUME NEW p \in Publishers, CreateRecord(p)
      PROVE  OnceInv(s)'
  <2>1. pub[p].pc = "create" /\ UNCHANGED <<catalog, mishap>>
    BY <1>4 DEF CreateRecord, At
  <2>2. UNCHANGED pub \/ (OnlyOf(p) /\ pub'[p].pc # "post")
    <3>1. \A a : \A pc \in {"meta", "open"} :
            pub'[p] = [pub[p] EXCEPT !.artifact = a, !.pc = pc] => pub'[p].pc = pc
      BY DEF PublishInv, PubInv, LocalsInv, HasFields
    <3>2. UNCHANGED pub \/ \E pc \in {"meta", "open"} :
            Step(p, [pub[p] EXCEPT !.artifact = Len(artifacts) + 1, !.pc = pc])
      BY <1>4 DEF CreateRecord
    <3>3. ASSUME NEW pc \in {"meta", "open"},
                 Step(p, [pub[p] EXCEPT !.artifact = Len(artifacts) + 1, !.pc = pc])
          PROVE  OnlyOf(p) /\ pub'[p].pc # "post"
      <4>1. OnlyOf(p)
            /\ pub'[p] = [pub[p] EXCEPT !.artifact = Len(artifacts) + 1, !.pc = pc]
        BY <3>3, Writes
      <4>2. pub'[p].pc = pc
        BY <3>1, <4>1
      <4> QED
        BY <4>1, <4>2
    <3> QED
      BY <3>2, <3>3
  <2> QED
    BY <1>3, <2>1, <2>2, OthersPosting DEF Posting
<1>5. ASSUME NEW p \in Publishers, Stores(p)
      PROVE  OnceInv(s)'
  <2>1. OnlyOf(p) /\ pub'[p].pc # "post" /\ UNCHANGED <<catalog, mishap>>
    BY <1>5, StoresIsStoring
  <2> QED
    BY <1>3, <2>1, OthersPosting DEF Posting
<1>6. CASE Change
  <2>1. UNCHANGED <<catalog, mishap>>
    BY <1>6 DEF Change
  <2> QED
    BY <1>3, <1>6, <2>1, ChangeKeepsInv DEF Posting
<1>7. CASE UNCHANGED <<catalog, mishap, pub>>
  BY <1>3, <1>7 DEF Posting
<1> QED
  BY <1>1, <1>2, <1>4, <1>5, <1>6, <1>7
     DEF Next, vars, Packing, Uploading, Describing, Quiet, Stores, LibraryGrows

\* OneDescription for every number of publishers, faults and kills: unless a
\* POST is repeated or two publishers both find nothing to replace, no service
\* comes to have two descriptions, of which PUT would replace none.
THEOREM DescribedOnce == Spec => []OneDescription
<1>1. Init => DescribedOnceInv
  BY DEF Init, DescribedOnceInv, OnceInv, Posting, Locals
<1>2. PublishInv /\ DescribedOnceInv /\ [Next]_vars => DescribedOnceInv'
  BY OnceInductive
<1>3. PublishInv /\ DescribedOnceInv => OneDescription
  <2> SUFFICES ASSUME DescribedOnceInv, NEW s \in Services \ mishap
               PROVE  Cardinality(catalog[s]) <= 1
    BY DEF OneDescription
  <2>1. \A r, q \in catalog[s] : r = q
    BY DEF DescribedOnceInv, OnceInv
  <2>2. CASE catalog[s] = {}
    BY <2>2, FS_EmptySet
  <2>3. ASSUME NEW r \in catalog[s]
        PROVE  Cardinality(catalog[s]) <= 1
    <3>1. catalog[s] = {r}
      BY <2>1
    <3>2. Cardinality(catalog[s]) = 1
      BY <3>1, FS_Singleton
    <3> QED
      BY <3>2
  <2> QED
    BY <2>2, <2>3
<1> QED
  BY <1>1, <1>2, <1>3, PublishInvariant, PTL DEF Spec

-----------------------------------------------------------------------------
(* What nextflow_create packs                                              *)

\* Archives and sources are sequences of files with paths and countable samples.
LEMMA FilesAre ==
  ASSUME NEW files \in Archives \cup SourceLists \cup {Library}
  PROVE  /\ IsSeq(files)
         /\ \A i \in DOMAIN files : files[i].path \in Seq(STRING) /\ Sampled(files[i].data)
<1>1. /\ files \in Seq(ToSet(files))
      /\ \A i \in DOMAIN files :
           /\ files[i].path \in Seq(STRING)
           /\ files[i].data.kind = "simple" => files[i].data.samples \in Seq(STRING)
  BY FilesAssumption
<1>2. \A s : s \in Seq(STRING) => IsSeq(s)
  BY DEF IsSeq
<1>3. IsSeq(files)
  BY <1>1 DEF IsSeq
<1> QED
  BY <1>1, <1>2, <1>3 DEF Sampled

\* Whatever is found in an archive of such files is one of them, or empty.
LEMMA FoundSampled ==
  ASSUME NEW parts, IsSeq(parts), \A i \in DOMAIN parts : Sampled(parts[i].data),
         NEW whole, NEW name
  PROVE  Sampled(FindFile(parts, whole, name).data)
<1>1. DOMAIN parts \subseteq Nat
  BY IsSeqProperties
<1>2. PICK found, exact, named :
        /\ exact \subseteq DOMAIN parts /\ named \subseteq DOMAIN parts
        /\ found = FindFile(parts, whole, name)
        /\ LET hits == IF exact # {} THEN {Min(exact)} ELSE named
           IN  \/ found = Failed
               \/ hits = {} /\ found = NotFound
               \/ hits # {} /\ found = Found(parts[Min(hits)].data)
  <2>1. PICK exact : exact = {i \in DOMAIN parts :
                      Clean(TrimSlash(parts[i].path)) = Clean(TrimSlash(name))}
    OBVIOUS
  <2>2. PICK named : named = {i \in DOMAIN parts :
                      <<Last(Clean(TrimSlash(parts[i].path)))>> = Clean(TrimSlash(name))}
    OBVIOUS
  <2>3. PICK paths : paths = [i \in DOMAIN parts |-> Clean(TrimSlash(parts[i].path))]
    OBVIOUS
  <2>4. /\ exact = {i \in DOMAIN parts : paths[i] = Clean(TrimSlash(name))}
        /\ named = {i \in DOMAIN parts : <<Last(paths[i])>> = Clean(TrimSlash(name))}
    BY <2>1, <2>2, <2>3
  <2>5. PICK hits : hits = IF exact # {} THEN {Min(exact)} ELSE named
    OBVIOUS
  <2>6. PICK found : found = FindFile(parts, whole, name)
    OBVIOUS
  <2>7. \/ found = Failed
        \/ hits = {} /\ found = NotFound
        \/ hits # {} /\ found = Found(parts[Min(hits)].data)
    BY <2>3, <2>4, <2>5, <2>6, Zenon DEF FindFile
  <2> QED
    BY <2>1, <2>2, <2>5, <2>6, <2>7
<1>3. \A d : Found(d).data = d
  BY DEF Found
<1>4. Sampled(Failed.data) /\ Sampled(NotFound.data)
  BY DEF Sampled, Failed, NotFound
<1>5. PICK hits : hits = IF exact # {} THEN {Min(exact)} ELSE named
  OBVIOUS
<1>6. hits \subseteq DOMAIN parts
  <2>1. exact # {} => Min(exact) \in exact
    BY <1>1, <1>2, LeastIs
  <2> QED
    BY <1>2, <1>5, <2>1
<1>7. hits # {} => Min(hits) \in DOMAIN parts
  BY <1>1, <1>6, LeastIs
<1> QED
  BY <1>2, <1>3, <1>4, <1>5, <1>7

\* What is stored of the library, and all of it in the end.
LEMMA LibraryParts ==
  ASSUME NEW n \in 0..2
  PROVE  /\ IsSeq(LibraryPart(n))
         /\ \A i \in DOMAIN LibraryPart(n) : Sampled(LibraryPart(n)[i].data)
         /\ LibraryPart(2) = Library
<1>1. /\ IsSeq(Library)
      /\ \A i \in DOMAIN Library : Sampled(Library[i].data)
  BY FilesAre
<1>2. PICK S : Library \in Seq(S)
  BY <1>1 DEF IsSeq
<1>3. PICK m : m = Len(Library)
  OBVIOUS
<1>4. m \in Nat /\ DOMAIN Library = 1..m
  BY <1>2, <1>3, LenProperties
<1>5. PICK k : k = (n * m) \div 2
  OBVIOUS
<1>6. k \in 0..m /\ (2 * m) \div 2 = m
  <2>1. n = 0 \/ n = 1 \/ n = 2
    OBVIOUS
  <2>2. (0 * m) \div 2 = 0 /\ (1 * m) \div 2 \in 0..m /\ (2 * m) \div 2 = m
    BY <1>4
  <2> QED
    BY <1>4, <1>5, <2>1, <2>2
<1>7. \A j \in 0..m : /\ SubSeq(Library, 1, j) \in Seq(S)
                      /\ DOMAIN SubSeq(Library, 1, j) = 1..j
                      /\ \A i \in 1..j : SubSeq(Library, 1, j)[i] = Library[i]
  <2>1. ASSUME NEW j \in 0..m
        PROVE  /\ SubSeq(Library, 1, j) \in Seq(S)
               /\ DOMAIN SubSeq(Library, 1, j) = 1..j
               /\ \A i \in 1..j : SubSeq(Library, 1, j)[i] = Library[i]
    BY <1>2, <1>3, <1>4
  <2> QED
    BY <2>1
<1>8. LibraryPart(n) = SubSeq(Library, 1, k) /\ LibraryPart(2) = SubSeq(Library, 1, m)
  BY <1>3, <1>5, <1>6 DEF LibraryPart
<1>9. SubSeq(Library, 1, m) = Library
  <2>1. m \in 0..m
    BY <1>4
  <2>2. SubSeq(Library, 1, m) \in Seq(S) /\ DOMAIN SubSeq(Library, 1, m) = 1..m
        /\ \A i \in 1..m : SubSeq(Library, 1, m)[i] = Library[i]
    BY <1>7, <2>1
  <2>3. Len(SubSeq(Library, 1, m)) = m
    BY <1>4, <2>2, LenProperties
  <2>4. PICK part : part = SubSeq(Library, 1, m)
    OBVIOUS
  <2>5. /\ part \in Seq(S) /\ Library \in Seq(S) /\ Len(part) = Len(Library)
        /\ \A i \in 1..Len(part) : part[i] = Library[i]
    BY <1>2, <1>3, <2>2, <2>3, <2>4
  <2>6. part = Library
    BY <2>5, SeqEqual
  <2> QED
    BY <2>4, <2>6
<1>10. IsSeq(SubSeq(Library, 1, k)) /\ DOMAIN SubSeq(Library, 1, k) \subseteq DOMAIN Library
  <2>1. SubSeq(Library, 1, k) \in Seq(S) /\ DOMAIN SubSeq(Library, 1, k) = 1..k
    BY <1>6, <1>7
  <2>2. 1..k \subseteq 1..m
    BY <1>4, <1>6
  <2> QED
    BY <1>4, <2>1, <2>2 DEF IsSeq
<1>11. \A i \in DOMAIN SubSeq(Library, 1, k) : SubSeq(Library, 1, k)[i] = Library[i]
  BY <1>6, <1>7
<1> QED
  BY <1>1, <1>8, <1>9, <1>10, <1>11

\* What a source yields; the library must be complete for one that names it.
LEMMA SourceIs ==
  ASSUME library \in 0..2, NEW sources \in SourceLists, NEW i \in DOMAIN sources,
         SourceData(sources[i]).result = "found"
  PROVE  /\ Sampled(SourceData(sources[i]).data)
         /\ sources[i].type # "artifact" \/ library = 2 =>
              SourceData(sources[i]).data = Meant(sources[i])
<1>1. PICK src : src = sources[i]
  OBVIOUS
<1>2. Sampled(src.data)
  BY <1>1, FilesAre
<1>3. PICK inner : inner = FindFile(LibraryPart(library), library # 1, TrimSlash(src.inner))
  OBVIOUS
<1>4. Sampled(inner.data)
  BY <1>3, LibraryParts, FoundSampled
<1>5. /\ \A d : Found(d).result = "found" /\ Found(d).data = d
      /\ Failed.result # "found"
  BY DEF Found, Failed
<1>6. PICK copy : copy = [kind |-> "copy", halves |-> library]
  OBVIOUS
<1>7. Sampled(copy)
  BY <1>6 DEF Sampled
<1>8. SourceData(src) =
        CASE src.type \in {"text", "base64", "url"} -> Found(src.data)
          [] src.type = "artifact" /\ src.inner = EmptyPath -> Found(copy)
          [] src.type = "artifact" /\ src.inner # EmptyPath ->
               IF inner.result = "error" THEN Failed ELSE Found(inner.data)
          [] OTHER -> Failed
  BY <1>3, <1>6, Zenon DEF SourceData
<1>9. CASE src.type \in {"text", "base64", "url"}
  <2>1. src.type # "artifact"
    BY <1>9
  <2>2. SourceData(src) = Found(src.data)
    BY <1>8, <1>9, <2>1
  <2>3. Meant(src) = src.data
    BY <2>1 DEF Meant
  <2> QED
    BY <1>1, <1>2, <1>5, <2>2, <2>3
<1>10. CASE src.type = "artifact" /\ src.inner = EmptyPath
  <2>1. SourceData(src) = Found(copy)
    BY <1>8, <1>10
  <2>2. library = 2 => Meant(src) = copy
    BY <1>6, <1>10 DEF Meant
  <2> QED
    BY <1>1, <1>5, <1>7, <1>10, <2>1, <2>2
<1>11. CASE src.type = "artifact" /\ src.inner # EmptyPath
  <2>1. SourceData(src) = IF inner.result = "error" THEN Failed ELSE Found(inner.data)
    BY <1>8, <1>11
  <2>2. SourceData(src) = Found(inner.data)
    BY <1>1, <1>5, <2>1
  <2>3. library = 2 => Meant(src) = inner.data
    <3>1. ASSUME library = 2 PROVE Meant(src) = inner.data
      <4>1. inner = FindFile(Library, TRUE, TrimSlash(src.inner))
        <5>1. library # 1 <=> TRUE
          BY <3>1
        <5>2. (library # 1) = TRUE
          BY <5>1
        <5>3. LibraryPart(library) = Library
          BY <3>1, LibraryParts
        <5> QED
          BY <1>3, <5>2, <5>3
      <4> QED
        BY <1>11, <4>1 DEF Meant
    <3> QED
      BY <3>1
  <2> QED
    BY <1>1, <1>4, <1>5, <1>11, <2>2, <2>3
<1>12. CASE src.type \notin {"text", "base64", "url", "artifact"}
  <2>1. SourceData(src) = Failed
    BY <1>8, <1>12
  <2> QED
    BY <1>1, <1>5, <2>1
<1> QED
  BY <1>9, <1>10, <1>11, <1>12

-----------------------------------------------------------------------------
(* A publisher at work                                                     *)

\* It keeps what it has to publish; `nextflow create` reads its archive anew.
KeepsWork(r, new) ==
  /\ r.pc \notin {"idle", "pack"} /\ new.pc \notin {"idle", "pack"}
  /\ new.tool = r.tool /\ new.sources = r.sources /\ new.early = r.early
  /\ new.header = r.header /\ new.sure = r.sure
  /\ r.tool = "cli" \/ new.archive = r.archive

\* It goes on or is done.
Works(p) == OnlyOf(p) /\ (KeepsWork(pub[p], pub'[p]) \/ pub'[p].pc = "idle")

\* From the record of the artifact to the description.
Using == {"meta", "open", "send", "put", "post"}

\* It keeps its artifact, and sends the archive it read.
GoesOn(r, new) ==
  /\ KeepsWork(r, new)
  /\ r.pc \in Using /\ new.pc \in Using \ {"meta"}
  /\ new.artifact = r.artifact /\ new.mtime = r.mtime
  /\ r.tool = "cli" /\ new.pc = "send" =>
       \/ new.archive = disk.archive
       \/ r.pc = "send" /\ new.archive = r.archive

\* The steps after the artifact is created, and the ends.
ProceedingStep(p) ==
  \/ WriteMeta(p) \/ OpenArchive(p) \/ StoreHalf(p) \/ StoreCut(p)
  \/ UploadReturns(p) \/ UploadFails(p) \/ Describing(p) \/ Fail(p)

\* The steps after the archive is packed.
PublishingStep(p) == Uploading(p) \/ Describing(p) \/ Fail(p)

Proceeds(p) == OnlyOf(p) /\ (GoesOn(pub[p], pub'[p]) \/ pub'[p].pc = "idle")

\* What such a step does to the locals.
LEMMA Proceeding ==
  ASSUME PublishInv, NEW p \in Publishers, ProceedingStep(p)
  PROVE  Proceeds(p)
<1>1. HasFields(pub[p]) /\ pub = [q \in Publishers |-> pub[q]]
  BY DEF PublishInv, PubInv, LocalsInv
<1>2. \A result : End(p, result) => Proceeds(p)
  <2>1. ASSUME NEW result, End(p, result) PROVE Proceeds(p)
    <3>1. OnlyOf(p) /\ pub'[p] = Locals("idle", result)
      BY <2>1, Writes DEF End
    <3> QED
      BY <3>1 DEF Proceeds, Locals
  <2> QED
    BY <2>1
<1>3. CASE WriteMeta(p)
  <2>1. pub[p].pc = "meta" /\ OnlyOf(p) /\ pub'[p] = [pub[p] EXCEPT !.pc = "open"]
    BY <1>3, Writes DEF WriteMeta, At
  <2> QED
    BY <1>1, <2>1 DEF Proceeds, GoesOn, Using, KeepsWork, HasFields
<1>4. CASE OpenArchive(p)
  <2>1. pub[p].pc = "open" /\ OnlyOf(p)
        /\ pub'[p] = [pub[p] EXCEPT
             !.offset = Stored(p),
             !.archive = IF pub[p].tool = "cli" THEN disk.archive ELSE @,
             !.pc = IF Stored(p) = 2 THEN "put" ELSE "send"]
    BY <1>4, Writes DEF OpenArchive, At
  <2> QED
    BY <1>1, <2>1 DEF Proceeds, GoesOn, Using, KeepsWork, HasFields
<1>5. CASE StoreHalf(p)
  <2>1. pub[p].pc = "send" /\ OnlyOf(p)
        /\ pub'[p] = [pub[p] EXCEPT !.offset = @ + 1]
    BY <1>5, Writes DEF StoreHalf, At
  <2> QED
    BY <1>1, <2>1 DEF Proceeds, GoesOn, Using, KeepsWork, HasFields
<1>6. CASE UploadReturns(p)
  <2>1. pub[p].pc = "send" /\ OnlyOf(p) /\ pub'[p] = [pub[p] EXCEPT !.pc = "put"]
    BY <1>6, Writes DEF UploadReturns, At
  <2> QED
    BY <1>1, <2>1 DEF Proceeds, GoesOn, Using, KeepsWork, HasFields
<1>7. CASE UploadFails(p)
  <2>1. pub[p].pc = "send"
    BY <1>7 DEF UploadFails, At
  <2>2. CASE Step(p, [pub[p] EXCEPT !.pc = "open"])
    <3>1. OnlyOf(p) /\ pub'[p] = [pub[p] EXCEPT !.pc = "open"]
      BY <2>2, Writes
    <3> QED
      BY <1>1, <2>1, <3>1 DEF Proceeds, GoesOn, Using, KeepsWork, HasFields
  <2> QED
    BY <1>2, <1>7, <2>2 DEF UploadFails
<1>8. CASE PutReplaces(p)
  <2>1. pub[p].pc = "put"
    BY <1>8 DEF PutReplaces, At
  <2>2. CASE Step(p, pub[p])
    <3>1. OnlyOf(p) /\ pub'[p] = pub[p]
      BY <2>2, Writes
    <3> QED
      BY <2>1, <3>1 DEF Proceeds, GoesOn, Using, KeepsWork
  <2> QED
    BY <1>2, <1>8, <2>2 DEF PutReplaces, Answered
<1>9. CASE PutNotFound(p)
  <2>1. pub[p].pc = "put" /\ OnlyOf(p) /\ pub'[p] = [pub[p] EXCEPT !.pc = "post"]
    BY <1>9, Writes DEF PutNotFound, At
  <2> QED
    BY <1>1, <2>1 DEF Proceeds, GoesOn, Using, KeepsWork, HasFields
<1>10. CASE Post(p)
  <2>1. pub[p].pc = "post"
    BY <1>10 DEF Post, At
  <2>2. CASE Step(p, [pub[p] EXCEPT !.posted = TRUE])
    <3>1. OnlyOf(p) /\ pub'[p] = [pub[p] EXCEPT !.posted = TRUE]
      BY <2>2, Writes
    <3> QED
      BY <1>1, <2>1, <3>1 DEF Proceeds, GoesOn, Using, KeepsWork, HasFields
  <2> QED
    BY <1>2, <1>10, <2>2 DEF Post, Answered
<1>11. CASE PutRefused(p) \/ Fail(p)
  BY <1>2, <1>11 DEF PutRefused, Fail
<1>12. CASE StoreCut(p)
  <2>1. pub[p].pc = "send" /\ OnlyOf(p) /\ pub'[p] = [pub[p] EXCEPT !.pc = "open"]
    BY <1>12, Writes DEF StoreCut, At
  <2> QED
    BY <1>1, <2>1 DEF Proceeds, GoesOn, Using, KeepsWork, HasFields
<1> QED
  BY <1>3, <1>4, <1>5, <1>6, <1>7, <1>8, <1>9, <1>10, <1>11, <1>12
     DEF ProceedingStep, Describing

\* And what all steps after the packing do.
LEMMA Publishing ==
  ASSUME PublishInv, NEW p \in Publishers, PublishingStep(p)
  PROVE  Works(p)
<1>1. HasFields(pub[p]) /\ pub = [q \in Publishers |-> pub[q]]
  BY DEF PublishInv, PubInv, LocalsInv
<1>2. CASE Stat(p)
  <2>1. pub[p].pc = "stat" /\ OnlyOf(p)
        /\ pub'[p] = [pub[p] EXCEPT
             !.mtime = disk.mtime,
             !.pc = IF Recorded(disk.mtime) THEN "open" ELSE "create",
             !.artifact = IF Recorded(disk.mtime) THEN meta[1].artifact ELSE 0]
    BY <1>2, Writes DEF Stat, At
  <2> QED
    BY <1>1, <2>1 DEF Works, KeepsWork, HasFields
<1>3. CASE CreateRecord(p)
  <2>1. pub[p].pc = "create"
    BY <1>3 DEF CreateRecord, At
  <2>2. CASE UNCHANGED pub
    BY <1>1, <2>1, <2>2 DEF Works, KeepsWork, OnlyOf
  <2>3. CASE Step(p, [pub[p] EXCEPT
               !.artifact = Len(artifacts) + 1,
               !.pc = IF pub[p].tool = "cli" THEN "meta" ELSE "open"])
    <3>1. OnlyOf(p) /\ pub'[p] = [pub[p] EXCEPT
               !.artifact = Len(artifacts) + 1,
               !.pc = IF pub[p].tool = "cli" THEN "meta" ELSE "open"]
      BY <2>3, Writes
    <3> QED
      BY <1>1, <2>1, <3>1 DEF Works, KeepsWork, HasFields
  <2> QED
    BY <1>3, <2>2, <2>3 DEF CreateRecord
<1>4. CASE ProceedingStep(p)
  BY <1>4, Proceeding DEF Proceeds, GoesOn, Works
<1> QED
  BY <1>2, <1>3, <1>4 DEF PublishingStep, ProceedingStep, Uploading

-----------------------------------------------------------------------------
(* The archive that nextflow_create makes of its sources                   *)

\* File i is under the path of its source, with what the source names.
PackedPart(r, i) ==
  LET src == r.sources[i]
  IN  /\ r.archive[i].path = SanitizeTarPath(src.path)
      /\ r.archive[i].path \notin {NoPath, Manifest}
      /\ (src.type = "artifact" => i \notin r.early) => r.archive[i].data = Meant(src)

\* The first n sources are packed.
PackedUpTo(r, n) ==
  /\ \A i \in 1..n : PackedPart(r, i)
  /\ \A i, j \in 1..n : r.archive[i].path = r.archive[j].path => i = j

\* It packs one source after the other, and the manifest in the end.
PacksInv(r) ==
  /\ r.pc = "pack" => r.tool = "mcp"
  /\ r.pc # "idle" /\ r.tool = "mcp" =>
       /\ r.sources \in SourceLists
       /\ IsSeq(r.archive) /\ \A i \in DOMAIN r.archive : Sampled(r.archive[i].data)
       /\ \E n \in 0..Len(r.sources) :
            /\ PackedUpTo(r, n)
            /\ r.pc = "pack" => Len(r.archive) = n
            /\ r.pc # "pack" => /\ n = Len(r.sources) /\ Len(r.archive) = n + 1
                                /\ r.archive[n + 1].path = Manifest

PackingInv == library \in 0..2 /\ \A p \in Publishers : PacksInv(pub[p])

\* What is packed stays packed.
LEMMA PacksKept ==
  ASSUME NEW r, NEW new, PacksInv(r), r.pc # "idle", new.pc # "idle",
         new.pc = "pack" <=> r.pc = "pack",
         new.tool = r.tool, new.sources = r.sources, new.early = r.early,
         r.tool = "mcp" => new.archive = r.archive
  PROVE  PacksInv(new)
<1>1. CASE r.tool = "mcp"
  <2>1. \A n : PackedUpTo(r, n) => PackedUpTo(new, n)
    BY <1>1 DEF PackedUpTo, PackedPart
  <2> QED
    BY <1>1, <2>1 DEF PacksInv
<1>2. CASE r.tool # "mcp"
  BY <1>2 DEF PacksInv
<1> QED
  BY <1>1, <1>2

\* One more part.
LEMMA PartPacked ==
  ASSUME PublishInv, PackingInv, NEW p \in Publishers, Pack(p)
  PROVE  OnlyOf(p) /\ PacksInv(pub'[p])
<1>1. PICK r : r = pub[p]
  OBVIOUS
<1>2. HasFields(r) /\ PacksInv(r) /\ r.pc = "pack" /\ r.tool = "mcp"
  BY <1>1 DEF PublishInv, PubInv, LocalsInv, PackingInv, Pack, At, PacksInv
<1>3. PICK k : k = Len(r.archive)
  OBVIOUS
<1>4. /\ r.sources \in SourceLists
      /\ IsSeq(r.archive) /\ \A i \in DOMAIN r.archive : Sampled(r.archive[i].data)
      /\ k \in 0..Len(r.sources) /\ PackedUpTo(r, k)
  BY <1>2, <1>3 DEF PacksInv
<1>5. k + 1 <= Len(r.sources)
  BY <1>1, <1>3 DEF Pack
<1>6. PICK src : src = r.sources[k + 1]
  OBVIOUS
<1>7. PICK path : path = SanitizeTarPath(src.path)
  OBVIOUS
<1>8. PICK found : found = SourceData(src)
  OBVIOUS
<1>9. \/ End(p, "failed")
      \/ /\ ~Taken(p, path) /\ found.result = "found"
         /\ Step(p, [r EXCEPT
              !.archive = Append(@, [path |-> path, data |-> found.data]),
              !.early = IF library < 2 THEN @ \cup {k + 1} ELSE @])
  BY <1>1, <1>3, <1>6, <1>7, <1>8, Zenon DEF Pack
<1>10. CASE End(p, "failed")
  <2>1. OnlyOf(p) /\ pub'[p] = Locals("idle", "failed")
    BY <1>10, Writes DEF End
  <2> QED
    BY <2>1 DEF PacksInv, Locals
<1>11. CASE /\ ~Taken(p, path) /\ found.result = "found"
            /\ Step(p, [r EXCEPT
                 !.archive = Append(@, [path |-> path, data |-> found.data]),
                 !.early = IF library < 2 THEN @ \cup {k + 1} ELSE @])
  <2>1. PICK part : part = [path |-> path, data |-> found.data]
    OBVIOUS
  <2>2. PICK new : new = pub'[p]
    OBVIOUS
  <2>3. OnlyOf(p) /\ new = [r EXCEPT
              !.archive = Append(@, part),
              !.early = IF library < 2 THEN @ \cup {k + 1} ELSE @]
    BY <1>11, <2>1, <2>2, Writes
  <2>4. /\ new.pc = "pack" /\ new.tool = "mcp" /\ new.sources = r.sources
        /\ new.archive = Append(r.archive, part)
        /\ new.early = IF library < 2 THEN r.early \cup {k + 1} ELSE r.early
    BY <1>2, <2>3 DEF HasFields
  <2>5. library \in 0..2
    BY DEF PackingInv
  <2>6. IsSeq(r.sources) /\ k + 1 \in DOMAIN r.sources
    <3>1. IsSeq(r.sources)
      BY <1>4, FilesAre
    <3>2. Len(r.sources) \in Nat /\ DOMAIN r.sources = 1..Len(r.sources)
      BY <3>1, IsSeqProperties
    <3> QED
      BY <1>4, <1>5, <3>1, <3>2
  <2>7. /\ Sampled(found.data)
        /\ src.type # "artifact" \/ library = 2 => found.data = Meant(src)
    BY <1>4, <1>6, <1>8, <1>11, <2>5, <2>6, SourceIs
  <2>8. /\ path \notin {NoPath, Manifest}
        /\ \A i \in DOMAIN r.archive : r.archive[i].path # path
    BY <1>1, <1>11 DEF Taken
  <2>9. part.path = path /\ part.data = found.data
    BY <2>1
  <2>10. DOMAIN r.archive = 1..k /\ k \in Nat
    BY <1>3, <1>4, IsSeqProperties
  <2>11. PICK archive : archive = Append(r.archive, part)
    OBVIOUS
  <2>12. /\ IsSeq(archive) /\ DOMAIN archive = 1..k + 1 /\ Len(archive) = k + 1
         /\ \A i \in 1..k : archive[i] = r.archive[i]
         /\ archive[k + 1] = part
    <3>1. /\ IsSeq(archive) /\ DOMAIN archive = 1..k + 1
          /\ \A i \in 1..k : archive[i] = r.archive[i]
          /\ archive[k + 1] = part
      BY <1>3, <1>4, <2>10, <2>11, AppendIsSeq
    <3>2. Len(archive) = k + 1
      BY <1>3, <1>4, <2>11, AppendIsSeq DEF Halves
    <3> QED
      BY <3>1, <3>2
  <2>13. \A i \in 1..k + 1 : i \in 1..k \/ i = k + 1
    BY <2>10
  <2>14. \A i \in 1..k + 1 : Sampled(archive[i].data)
    BY <1>4, <2>7, <2>9, <2>10, <2>12, <2>13
  <2>15. \A i \in 1..k : PackedPart(new, i)
    <3>1. ASSUME NEW i \in 1..k PROVE PackedPart(new, i)
      <4>1. PackedPart(r, i)
        BY <1>4 DEF PackedUpTo
      <4>2. new.archive[i] = r.archive[i] /\ new.sources[i] = r.sources[i]
        BY <2>4, <2>11, <2>12
      <4>3. i \notin new.early => i \notin r.early
        BY <2>4
      <4> QED
        BY <4>1, <4>2, <4>3 DEF PackedPart
    <3> QED
      BY <3>1
  <2>16. PackedPart(new, k + 1)
    <3>1. new.archive[k + 1] = part /\ new.sources[k + 1] = src
      BY <1>6, <2>4, <2>11, <2>12
    <3>2. (src.type = "artifact" => k + 1 \notin new.early)
            => src.type # "artifact" \/ library = 2
      BY <2>4, <2>5
    <3> QED
      BY <1>7, <2>7, <2>8, <2>9, <3>1, <3>2 DEF PackedPart
  <2>17. \A i, j \in 1..k + 1 : archive[i].path = archive[j].path => i = j
    <3>1. \A i, j \in 1..k : r.archive[i].path = r.archive[j].path => i = j
      BY <1>4 DEF PackedUpTo
    <3>2. \A i \in 1..k : archive[i].path # archive[k + 1].path
      BY <2>8, <2>9, <2>10, <2>12
    <3> QED
      BY <2>12, <2>13, <3>1, <3>2
  <2>18. PackedUpTo(new, k + 1)
    BY <2>4, <2>11, <2>13, <2>15, <2>16, <2>17 DEF PackedUpTo
  <2>19. k + 1 \in 0..Len(new.sources)
    BY <1>4, <1>5, <2>4, <2>6, IsSeqProperties
  <2>20. PacksInv(new)
    BY <1>4, <2>4, <2>11, <2>12, <2>14, <2>18, <2>19 DEF PacksInv
  <2> QED
    BY <2>2, <2>3, <2>20
<1> QED
  BY <1>9, <1>10, <1>11

\* The archive of PackReturns.
Closed(parts) == Append(parts, [path |-> Manifest, data |-> [kind |-> "manifest"]])

\* The manifest is added, and the archive is complete.
LEMMA ArchivePacked ==
  ASSUME PublishInv, PackingInv, NEW p \in Publishers, PackReturns(p)
  PROVE  OnlyOf(p) /\ PacksInv(pub'[p])
<1>1. PICK r : r = pub[p]
  OBVIOUS
<1>2. HasFields(r) /\ PacksInv(r) /\ r.pc = "pack" /\ r.tool = "mcp"
  BY <1>1 DEF PublishInv, PubInv, LocalsInv, PackingInv, PackReturns, At, PacksInv
<1>3. PICK k : k = Len(r.archive)
  OBVIOUS
<1>4. /\ r.sources \in SourceLists
      /\ IsSeq(r.archive) /\ \A i \in DOMAIN r.archive : Sampled(r.archive[i].data)
      /\ k \in 0..Len(r.sources) /\ PackedUpTo(r, k)
  BY <1>2, <1>3 DEF PacksInv
<1>5. k = Len(r.sources)
  BY <1>1, <1>3 DEF PackReturns
<1>6. PICK archive : archive = Closed(r.archive)
  OBVIOUS
<1>7. \/ End(p, "failed")
      \/ \E h : Step(p, [r EXCEPT !.archive = archive, !.header = h, !.pc = "create"])
  BY <1>1, <1>6 DEF PackReturns, Closed
<1>8. CASE End(p, "failed")
  <2>1. OnlyOf(p) /\ pub'[p] = Locals("idle", "failed")
    BY <1>8, Writes DEF End
  <2> QED
    BY <2>1 DEF PacksInv, Locals
<1>9. ASSUME NEW h, Step(p, [r EXCEPT !.archive = archive, !.header = h, !.pc = "create"])
      PROVE  OnlyOf(p) /\ PacksInv(pub'[p])
  <2>1. PICK new : new = pub'[p]
    OBVIOUS
  <2>2. OnlyOf(p) /\ new = [r EXCEPT !.archive = archive, !.header = h, !.pc = "create"]
    BY <1>9, <2>1, Writes
  <2>3. /\ new.pc = "create" /\ new.tool = "mcp" /\ new.sources = r.sources
        /\ new.archive = archive /\ new.early = r.early
    BY <1>2, <2>2 DEF HasFields
  <2>4. PICK part : part = [path |-> Manifest, data |-> [kind |-> "manifest"]]
    OBVIOUS
  <2>5. part.path = Manifest /\ Sampled(part.data)
    BY <2>4 DEF Sampled
  <2>6. DOMAIN r.archive = 1..k /\ k \in Nat
    BY <1>3, <1>4, IsSeqProperties
  <2>7. archive = Append(r.archive, part)
    BY <1>6, <2>4 DEF Closed
  <2>8. /\ IsSeq(archive) /\ DOMAIN archive = 1..k + 1 /\ Len(archive) = k + 1
        /\ \A i \in 1..k : archive[i] = r.archive[i]
        /\ archive[k + 1] = part
    <3>1. /\ IsSeq(archive) /\ DOMAIN archive = 1..k + 1
          /\ \A i \in 1..k : archive[i] = r.archive[i]
          /\ archive[k + 1] = part
      BY <1>3, <1>4, <2>6, <2>7, AppendIsSeq
    <3>2. Len(archive) = k + 1
      BY <1>3, <1>4, <2>7, AppendIsSeq DEF Halves
    <3> QED
      BY <3>1, <3>2
  <2>9. \A i \in 1..k + 1 : i \in 1..k \/ i = k + 1
    BY <2>6
  <2>10. \A i \in 1..k + 1 : Sampled(archive[i].data)
    BY <1>4, <2>5, <2>6, <2>8, <2>9
  <2>11. PackedUpTo(new, k)
    <3>1. \A i \in 1..k : new.archive[i] = r.archive[i]
      BY <2>3, <2>8
    <3> QED
      BY <1>4, <2>3, <3>1 DEF PackedUpTo, PackedPart
  <2>12. PacksInv(new)
    BY <1>4, <1>5, <2>3, <2>5, <2>8, <2>10, <2>11 DEF PacksInv
  <2> QED
    BY <2>1, <2>2, <2>12
<1> QED
  BY <1>7, <1>8, <1>9

\* A new run has nothing packed.
LEMMA PackBegun ==
  ASSUME PublishInv, PackingInv, NEW p \in Publishers, NEW s \in Services,
         BeginUpdate(p, s) \/ \E sources \in SourceLists : BeginCreate(p, s, sources)
  PROVE  OnlyOf(p) /\ PacksInv(pub'[p])
<1>1. CASE BeginUpdate(p, s)
  <2>1. CASE End(p, "failed")
    <3>1. OnlyOf(p) /\ pub'[p] = Locals("idle", "failed")
      BY <2>1, Writes DEF End
    <3> QED
      BY <3>1 DEF PacksInv, Locals
  <2>2. ASSUME NEW h,
               Step(p, [Locals("stat", "none") EXCEPT !.service = s, !.header = h])
        PROVE  OnlyOf(p) /\ PacksInv(pub'[p])
    <3>1. /\ OnlyOf(p)
          /\ pub'[p] = [Locals("stat", "none") EXCEPT !.service = s, !.header = h]
      BY <2>2, Writes
    <3>2. pub'[p].pc = "stat" /\ pub'[p].tool = "cli"
      BY <3>1 DEF Locals
    <3> QED
      BY <3>1, <3>2 DEF PacksInv
  <2> QED
    BY <1>1, <2>1, <2>2 DEF BeginUpdate
<1>2. ASSUME NEW sources \in SourceLists, BeginCreate(p, s, sources)
      PROVE  OnlyOf(p) /\ PacksInv(pub'[p])
  <2>1. /\ OnlyOf(p)
        /\ pub'[p] = [Locals("pack", "none") EXCEPT
             !.tool = "mcp", !.service = s, !.sources = sources]
    BY <1>2, Writes DEF BeginCreate
  <2>2. PICK new : new = pub'[p]
    OBVIOUS
  <2>3. /\ new.pc = "pack" /\ new.tool = "mcp" /\ new.sources = sources
        /\ new.archive = <<>>
    BY <2>1, <2>2 DEF Locals
  <2>4. IsSeq(new.archive) /\ Len(new.archive) = 0 /\ DOMAIN new.archive = {}
    BY <2>3, EmptyIsSeq DEF Halves
  <2>5. 0 \in 0..Len(sources)
    <3>1. IsSeq(sources)
      BY FilesAre
    <3> QED
      BY <3>1, IsSeqProperties
  <2>6. PackedUpTo(new, 0)
    BY DEF PackedUpTo
  <2>7. PacksInv(new)
    BY <2>3, <2>4, <2>5, <2>6 DEF PacksInv
  <2> QED
    BY <2>1, <2>2, <2>7
<1> QED
  BY <1>1, <1>2

\* The library is seen by those who pack, and grows.
LEMMA NextPacks ==
  ASSUME PublishInv, PackingInv, [Next]_vars
  PROVE  PackingInv'
<1>1. ASSUME NEW p \in Publishers, OnlyOf(p), PacksInv(pub'[p]), UNCHANGED library
      PROVE  PackingInv'
  <2>1. \A q \in Publishers : q # p => pub'[q] = pub[q]
    BY <1>1 DEF OnlyOf, PublishInv, PubInv
  <2>2. \A q \in Publishers : PacksInv(pub'[q])
    BY <1>1, <2>1 DEF PackingInv
  <2> QED
    BY <1>1, <2>2 DEF PackingInv
<1>2. ASSUME NEW p \in Publishers, PublishingStep(p)
      PROVE  PackingInv'
  <2>1. Works(p)
    BY <1>2, Publishing
  <2>2. PacksInv(pub[p])
    BY DEF PackingInv
  <2>3. PacksInv(pub'[p])
    <3>1. CASE KeepsWork(pub[p], pub'[p])
      <4>1. pub[p].tool = "mcp" => pub'[p].archive = pub[p].archive
        BY <3>1 DEF KeepsWork
      <4> QED
        BY <2>2, <3>1, <4>1, PacksKept DEF KeepsWork
    <3>2. CASE pub'[p].pc = "idle"
      BY <3>2 DEF PacksInv
    <3> QED
      BY <2>1, <3>1, <3>2 DEF Works
  <2>4. UNCHANGED library
    BY <1>2 DEF PublishingStep, Uploading, Describing, Stat, CreateRecord, WriteMeta,
       OpenArchive, StoreHalf, StoreCut, UploadReturns, UploadFails, PutReplaces,
       PutNotFound, PutRefused, Post, Fail
  <2> QED
    BY <1>1, <2>1, <2>3, <2>4 DEF Works
<1>3. ASSUME NEW p \in Publishers, NEW s \in Services,
             BeginUpdate(p, s) \/ \E sources \in SourceLists : BeginCreate(p, s, sources)
      PROVE  PackingInv'
  <2>1. UNCHANGED library
    BY <1>3 DEF BeginUpdate, BeginCreate
  <2> QED
    BY <1>1, <1>3, <2>1, PackBegun
<1>4. ASSUME NEW p \in Publishers, Pack(p) \/ PackReturns(p)
      PROVE  PackingInv'
  <2>1. UNCHANGED library
    BY <1>4 DEF Pack, PackReturns
  <2> QED
    BY <1>1, <1>4, <2>1, PartPacked, ArchivePacked
<1>5. CASE Change
  <2>1. ASSUME NEW p \in Publishers PROVE PacksInv(pub'[p])
    <3>1. HasFields(pub[p]) /\ PacksInv(pub[p])
      BY DEF PublishInv, PubInv, LocalsInv, PackingInv
    <3>2. \E b : pub'[p] = [pub[p] EXCEPT !.sure = b]
      BY <1>5 DEF Change
    <3>3. /\ pub'[p].pc = pub[p].pc /\ pub'[p].tool = pub[p].tool
          /\ pub'[p].sources = pub[p].sources /\ pub'[p].early = pub[p].early
          /\ pub'[p].archive = pub[p].archive
      BY <3>1, <3>2 DEF HasFields
    <3>4. CASE pub[p].pc = "idle"
      BY <3>3, <3>4 DEF PacksInv
    <3>5. CASE pub[p].pc # "idle"
      BY <3>1, <3>3, <3>5, PacksKept
    <3> QED
      BY <3>4, <3>5
  <2>2. UNCHANGED library
    BY <1>5 DEF Change
  <2> QED
    BY <2>1, <2>2 DEF PackingInv
<1>6. CASE LibraryGrows
  <2>1. library' \in 0..2
    BY <1>6 DEF LibraryGrows, PackingInv
  <2>2. UNCHANGED pub
    BY <1>6 DEF LibraryGrows
  <2> QED
    BY <2>1, <2>2 DEF PackingInv
<1>7. CASE UNCHANGED vars
  BY <1>7 DEF vars, PackingInv
<1> QED
  BY <1>2, <1>3, <1>4, <1>5, <1>6, <1>7 DEF Next, Packing, PublishingStep

\* Initially nothing is packed.
LEMMA InitPacks ==
  ASSUME Init
  PROVE  PackingInv
BY DEF Init, PackingInv, PacksInv, Locals

\* An archive that nextflow_create made, under the clean paths of its sources.
LEMMA PackedClean ==
  ASSUME NEW r, PacksInv(r), r.tool = "mcp", r.pc \notin {"idle", "pack"}
  PROVE  /\ \E S : CleanParts(r.archive, S)
         /\ \A i \in DOMAIN r.sources : i \in DOMAIN r.archive /\ PackedPart(r, i)
<1>1. PICK S : STRING \subseteq S /\ Names(S)
  BY NamesExist
<1>2. PICK n : n = Len(r.sources)
  OBVIOUS
<1>3. /\ r.sources \in SourceLists /\ IsSeq(r.archive)
      /\ PackedUpTo(r, n) /\ Len(r.archive) = n + 1
      /\ r.archive[n + 1].path = Manifest
  BY <1>2 DEF PacksInv
<1>4. /\ DOMAIN r.sources = 1..n /\ n \in Nat
      /\ DOMAIN r.archive = 1..n + 1
  <2>1. IsSeq(r.sources)
    BY <1>3, FilesAre
  <2> QED
    BY <1>2, <1>3, <2>1, IsSeqProperties
<1>5. \A i \in 1..n + 1 : i \in 1..n \/ i = n + 1
  BY <1>4
<1>6. ASSUME NEW i \in 1..n
      PROVE  /\ r.archive[i].path \in Seq(S) /\ CleanTar(r.archive[i].path)
             /\ r.archive[i].path # Manifest
  <2>1. r.sources[i].path \in Seq(STRING)
    BY <1>3, <1>4, FilesAre
  <2>2. r.sources[i].path \in Seq(S)
    <3>1. Seq(STRING) \subseteq Seq(S)
      BY <1>1, SeqMonotonic
    <3> QED
      BY <2>1, <3>1
  <2>3. /\ r.archive[i].path = SanitizeTarPath(r.sources[i].path)
        /\ r.archive[i].path \notin {NoPath, Manifest}
    BY <1>3 DEF PackedUpTo, PackedPart
  <2> QED
    BY <2>2, <2>3, SanitizedClean
<1>7. Manifest \in Seq(S) /\ CleanTar(Manifest)
  BY <1>1, ManifestClean DEF Names
<1>8. \A i \in 1..n + 1 : r.archive[i].path \in Seq(S) /\ CleanTar(r.archive[i].path)
  BY <1>3, <1>5, <1>6, <1>7
<1>9. \A i, j \in 1..n + 1 : r.archive[i].path = r.archive[j].path => i = j
  <2>1. \A i, j \in 1..n : r.archive[i].path = r.archive[j].path => i = j
    BY <1>3 DEF PackedUpTo
  <2> QED
    BY <1>3, <1>5, <1>6, <2>1
<1>10. CleanParts(r.archive, S)
  <2>1. n + 1 \in Nat
    BY <1>4
  <2> QED
    BY <1>3, <1>4, <1>8, <1>9, <2>1 DEF CleanParts
<1> QED
  BY <1>3, <1>4, <1>10 DEF PackedUpTo

\* PackedExact follows.
LEMMA PackedInv ==
  ASSUME PackingInv
  PROVE  PackedExact
<1>1. ASSUME NEW p \in Publishers, pub[p].tool = "mcp", pub[p].pc \in {"create", "put"},
             NEW i \in DOMAIN pub[p].sources,
             pub[p].sources[i].type = "artifact" => i \notin pub[p].early
      PROVE  FindFile(pub[p].archive, TRUE, SanitizeTarPath(pub[p].sources[i].path))
               = Found(Meant(pub[p].sources[i]))
  <2>1. PICK r : r = pub[p]
    OBVIOUS
  <2>2. PacksInv(r) /\ r.tool = "mcp" /\ r.pc \notin {"idle", "pack"}
    BY <1>1, <2>1 DEF PackingInv
  <2>3. PICK S : CleanParts(r.archive, S)
    BY <2>2, PackedClean
  <2>4. i \in DOMAIN r.archive /\ PackedPart(r, i)
    BY <2>1, <2>2, PackedClean
  <2>5. FindFile(r.archive, TRUE, r.archive[i].path) = Found(r.archive[i].data)
    BY <2>3, <2>4, FileFound
  <2> QED
    BY <1>1, <2>1, <2>4, <2>5 DEF PackedPart
<1> QED
  BY <1>1 DEF PackedExact

\* In an archive of nextflow_create every file is found under the path its source
\* gave, with what the source names in the finished library, unless the artifact
\* was fetched before its upload was complete: for sources and archives of any
\* length, and whatever path.Clean makes of their names.
THEOREM FilesArePacked == Spec => []PackedExact
<1>1. Init => PublishInv /\ PackingInv
  BY InitInv, InitPacks
<1>2. PublishInv /\ PackingInv /\ [Next]_vars => (PublishInv /\ PackingInv)'
  BY NextKeepsInv, NextPacks
<1>3. PublishInv /\ PackingInv => PackedExact
  BY PackedInv
<1> QED
  BY <1>1, <1>2, <1>3, PTL DEF Spec

-----------------------------------------------------------------------------
(* What published artifacts hold, and what is said of them                 *)

\* All that is stored was read from that archive, but for halves that were cut.
HalvesAre(halves, archive) == \A i \in DOMAIN halves : halves[i] \in {archive, Cut}

\* The header was found in that archive.
HeaderOf(header, archive) ==
  /\ WellFormed(archive)
  /\ header \in LoadToolHeader(archive) /\ header.result = "found"

\* A publisher of the file d, with these halves of its artifact: while the file
\* has the time that the run saw, the artifact holds that file and no other.
FileTrue(r, d, halves) ==
  /\ r.pc \in Using /\ r.mtime = d.mtime => HalvesAre(halves, d.archive)
  /\ r.pc = "send" /\ r.mtime = d.mtime => r.archive = d.archive
  /\ r.sure => HeaderOf(r.header, d.archive) /\ (r.pc # "stat" => r.mtime = d.mtime)

\* A publisher of what it packed itself.
BytesTrue(r, halves) ==
  /\ r.pc \in Using => HalvesAre(halves, r.archive)
  /\ r.pc # "pack" => HeaderOf(r.header, r.archive)

Honest(r, d, halves) ==
  r.pc # "idle" =>
    /\ r.mtime \in Nat /\ r.mtime <= d.mtime
    /\ r.pc \in {"stat", "meta"} => r.tool = "cli"
    /\ r.tool = "cli" => FileTrue(r, d, halves)
    /\ r.tool # "cli" => BytesTrue(r, halves)

DiskInv == disk.archive \in Archives /\ disk.mtime \in Nat

\* The meta file names an artifact that holds the file of its time.
MetaTrue ==
  meta # <<>> =>
    /\ meta[1].mtime \in Nat /\ meta[1].mtime <= disk.mtime
    /\ meta[1].mtime = disk.mtime => HalvesAre(artifacts[meta[1].artifact], disk.archive)

\* Two share an artifact only if both resume what was begun at the same time.
Compatible(r, t) ==
  r.pc \in Using /\ t.pc \in Using /\ r.artifact = t.artifact =>
    r.tool = "cli" /\ t.tool = "cli" /\ r.mtime = t.mtime

Resumes(r, m) ==
  r.pc \in Using /\ r.artifact = m.artifact => r.tool = "cli" /\ r.mtime = m.mtime

SharingInv ==
  /\ \A p, q \in Publishers : p # q => Compatible(pub[p], pub[q])
  /\ meta # <<>> => \A p \in Publishers : Resumes(pub[p], meta[1])

\* A description that is sure has the header of what its artifact holds.
Described(r) ==
  r.sure =>
    /\ r.artifact \in DOMAIN artifacts /\ Halves(artifacts[r.artifact]) = 2
    /\ \E archive, header : /\ HalvesAre(artifacts[r.artifact], archive)
                            /\ HeaderOf(header, archive)
                            /\ r.schema = header.schema

TruthInv ==
  /\ DiskInv /\ MetaTrue /\ SharingInv
  /\ \A p \in Publishers : Honest(pub[p], disk, artifacts[pub[p].artifact])
  /\ \A s \in Services : \A r \in catalog[s] : Described(r)

\* The three invariants together.
TrueInv == PublishInv /\ PackingInv /\ TruthInv

-----------------------------------------------------------------------------
(* What a step leaves true                                                 *)

\* What there was of an artifact is still there.
ArtifactsStay ==
  DOMAIN artifacts \subseteq DOMAIN artifacts'
  /\ \A a \in DOMAIN artifacts : artifacts'[a] = artifacts[a]

\* An artifact that is complete stays as it is.
CompleteStay ==
  \A a \in DOMAIN artifacts :
    Halves(artifacts[a]) = 2 => a \in DOMAIN artifacts' /\ artifacts'[a] = artifacts[a]

\* p works on with its artifact, or without one.
Stays(r, new) ==
  new.pc \in Using =>
    /\ r.pc \in Using /\ new.artifact = r.artifact
    /\ new.tool = r.tool /\ new.mtime = r.mtime

\* A publisher without an artifact says nothing of its halves.
LEMMA HonestWithout ==
  ASSUME NEW r, NEW d, NEW halves, NEW others, Honest(r, d, halves), r.pc \notin Using
  PROVE  Honest(r, d, others)
BY DEF Honest, FileTrue, BytesTrue

\* Artifacts stay, and all publishers are honest if p is.
LEMMA HonestKept ==
  ASSUME TrueInv, NEW p \in Publishers, OnlyOf(p), UNCHANGED disk, ArtifactsStay,
         Honest(pub'[p], disk, artifacts'[pub'[p].artifact])
  PROVE  \A q \in Publishers : Honest(pub'[q], disk', artifacts'[pub'[q].artifact])
<1>1. ASSUME NEW q \in Publishers, q # p
      PROVE  Honest(pub'[q], disk', artifacts'[pub'[q].artifact])
  <2>1. pub'[q] = pub[q]
    BY <1>1 DEF OnlyOf, TrueInv, PublishInv, PubInv
  <2>2. Honest(pub[q], disk, artifacts[pub[q].artifact])
    BY DEF TrueInv, TruthInv
  <2>3. CASE pub[q].pc \in Using
    <3>1. pub[q].artifact \in DOMAIN artifacts
      BY <2>3 DEF TrueInv, PublishInv, PubInv, LocalsInv, Using
    <3> QED
      BY <2>1, <2>2, <3>1 DEF ArtifactsStay
  <2>4. CASE pub[q].pc \notin Using
    BY <2>1, <2>2, <2>4, HonestWithout
  <2> QED
    BY <2>3, <2>4
<1> QED
  BY <1>1

\* Descriptions stay true while complete artifacts stay.
LEMMA DescribedKept ==
  ASSUME TrueInv, CompleteStay, NEW s \in Services, NEW r \in catalog[s]
  PROVE  Described(r)'
<1>1. Described(r)
  BY DEF TrueInv, TruthInv
<1> QED
  BY <1>1 DEF Described, CompleteStay

\* And so does the meta file while artifacts stay.
LEMMA MetaKept ==
  ASSUME TrueInv, UNCHANGED <<disk, meta>>, ArtifactsStay
  PROVE  MetaTrue'
<1>1. MetaTrue
  BY DEF TrueInv, TruthInv
<1>2. meta # <<>> => meta[1].artifact \in DOMAIN artifacts
  BY DEF TrueInv, PublishInv, MetaInv
<1> QED
  BY <1>1, <1>2 DEF MetaTrue, ArtifactsStay

\* p may share the artifacts it shares.
LEMMA SharingKept ==
  ASSUME TrueInv, NEW p \in Publishers, OnlyOf(p), UNCHANGED meta,
         \A q \in Publishers : q # p => Compatible(pub'[p], pub[q]),
         meta # <<>> => Resumes(pub'[p], meta[1])
  PROVE  SharingInv'
<1>1. \A q \in Publishers : q # p => pub'[q] = pub[q]
  BY DEF OnlyOf, TrueInv, PublishInv, PubInv
<1>2. SharingInv
  BY DEF TrueInv, TruthInv
<1>3. \A q \in Publishers : q # p => Compatible(pub[q], pub'[p])
  BY DEF Compatible
<1>4. \A q, t \in Publishers : q # t => Compatible(pub'[q], pub'[t])
  <2>1. ASSUME NEW q \in Publishers, NEW t \in Publishers, q # t
        PROVE  Compatible(pub'[q], pub'[t])
    <3>1. CASE q = p
      BY <1>1, <2>1, <3>1
    <3>2. CASE q # p /\ t = p
      BY <1>1, <1>3, <2>1, <3>2
    <3>3. CASE q # p /\ t # p
      BY <1>1, <1>2, <2>1, <3>3 DEF SharingInv
    <3> QED
      BY <3>1, <3>2, <3>3
  <2> QED
    BY <2>1
<1>5. meta # <<>> => \A q \in Publishers : Resumes(pub'[q], meta[1])
  BY <1>1, <1>2 DEF SharingInv
<1> QED
  BY <1>4, <1>5 DEF SharingInv

\* A publisher that keeps its artifact shares it with the same ones.
LEMMA StaysShares ==
  ASSUME TrueInv, NEW p \in Publishers, NEW new, Stays(pub[p], new)
  PROVE  /\ \A q \in Publishers : q # p => Compatible(new, pub[q])
         /\ meta # <<>> => Resumes(new, meta[1])
<1>1. SharingInv
  BY DEF TrueInv, TruthInv
<1> QED
  BY <1>1 DEF SharingInv, Stays, Compatible, Resumes

\* A step of p that leaves files, artifacts and descriptions alone.
LEMMA MoveTrue ==
  ASSUME TrueInv, NEW p \in Publishers, OnlyOf(p),
         UNCHANGED <<disk, meta, artifacts, catalog>>,
         Stays(pub[p], pub'[p]),
         Honest(pub'[p], disk, artifacts[pub'[p].artifact])
  PROVE  TruthInv'
<1>1. ArtifactsStay /\ CompleteStay
  BY DEF ArtifactsStay, CompleteStay
<1>2. DiskInv'
  BY DEF TrueInv, TruthInv, DiskInv
<1>3. MetaTrue'
  BY <1>1, MetaKept
<1>4. SharingInv'
  BY StaysShares, SharingKept
<1>5. \A q \in Publishers : Honest(pub'[q], disk', artifacts'[pub'[q].artifact])
  <2>1. Honest(pub'[p], disk, artifacts'[pub'[p].artifact])
    OBVIOUS
  <2> QED
    BY <1>1, <2>1, HonestKept
<1>6. \A s \in Services : \A r \in catalog[s] : Described(r)'
  BY <1>1, DescribedKept
<1> QED
  BY <1>2, <1>3, <1>4, <1>5, <1>6 DEF TruthInv

\* A publisher that goes on is as honest as before.
LEMMA GoesOnHonest ==
  ASSUME NEW r, NEW new, NEW halves, Honest(r, disk, halves), GoesOn(r, new)
  PROVE  Stays(r, new) /\ Honest(new, disk, halves)
BY DEF Honest, FileTrue, BytesTrue, GoesOn, KeepsWork, Stays, Using

-----------------------------------------------------------------------------
(* The steps of publishers one by one                                      *)

\* The ends, and the steps at which nothing changes but the publisher.
LEMMA ProceedTrue ==
  ASSUME TrueInv, NEW p \in Publishers, Proceeds(p),
         UNCHANGED <<disk, meta, artifacts, catalog>>
  PROVE  TruthInv'
<1>1. Honest(pub[p], disk, artifacts[pub[p].artifact])
  BY DEF TrueInv, TruthInv
<1>2. CASE GoesOn(pub[p], pub'[p])
  <2>1. pub'[p].artifact = pub[p].artifact
    BY <1>2 DEF GoesOn
  <2>2. Stays(pub[p], pub'[p]) /\ Honest(pub'[p], disk, artifacts[pub'[p].artifact])
    BY <1>1, <1>2, <2>1, GoesOnHonest
  <2> QED
    BY <2>2, MoveTrue DEF Proceeds
<1>3. CASE pub'[p].pc = "idle"
  <2>1. Stays(pub[p], pub'[p]) /\ Honest(pub'[p], disk, artifacts[pub'[p].artifact])
    BY <1>3 DEF Stays, Using, Honest
  <2> QED
    BY <2>1, MoveTrue DEF Proceeds
<1> QED
  BY <1>2, <1>3 DEF Proceeds

\* The archive on disk is one of Archives.
LEMMA ArchiveWellFormed ==
  ASSUME TrueInv
  PROVE  WellFormed(disk.archive)
<1>1. disk.archive \in Archives
  BY DEF TrueInv, TruthInv, DiskInv
<1>2. PICK parts : parts = disk.archive
  OBVIOUS
<1>3. IsSeq(parts) /\ \A i \in DOMAIN parts : Sampled(parts[i].data)
  BY <1>1, <1>2, FilesAre
<1>4. Len(parts) \in Nat /\ DOMAIN parts = 1..Len(parts)
  BY <1>3, IsSeqProperties
<1> QED
  BY <1>2, <1>3, <1>4 DEF WellFormed

\* A run begins: the header is that of the file as it is.
LEMMA BeginTrue ==
  ASSUME TrueInv, NEW p \in Publishers, NEW s \in Services,
         BeginUpdate(p, s) \/ \E sources \in SourceLists : BeginCreate(p, s, sources)
  PROVE  TruthInv'
<1>1. UNCHANGED <<disk, meta, artifacts, catalog>>
  BY DEF BeginUpdate, BeginCreate
<1>2. PublishInv /\ disk.mtime \in Nat
  BY DEF TrueInv, TruthInv, DiskInv
<1>3. CASE BeginUpdate(p, s)
  <2>1. CASE End(p, "failed")
    <3>1. OnlyOf(p) /\ pub'[p] = Locals("idle", "failed")
      BY <1>2, <2>1, Writes DEF End
    <3>2. Stays(pub[p], pub'[p]) /\ Honest(pub'[p], disk, artifacts[pub'[p].artifact])
      BY <3>1 DEF Stays, Using, Honest, Locals
    <3> QED
      BY <1>1, <3>1, <3>2, MoveTrue
  <2>2. ASSUME NEW h \in LoadToolHeader(disk.archive), h.result = "found",
               Step(p, [Locals("stat", "none") EXCEPT !.service = s, !.header = h])
        PROVE  TruthInv'
    <3>1. /\ OnlyOf(p)
          /\ pub'[p] = [Locals("stat", "none") EXCEPT !.service = s, !.header = h]
      BY <1>2, <2>2, Writes
    <3>2. /\ pub'[p].pc = "stat" /\ pub'[p].tool = "cli"
          /\ pub'[p].mtime = 0 /\ pub'[p].header = h
      BY <3>1 DEF Locals
    <3>3. HeaderOf(h, disk.archive)
      BY <2>2, ArchiveWellFormed DEF HeaderOf
    <3>4. Stays(pub[p], pub'[p])
      BY <3>2 DEF Stays, Using
    <3>5. Honest(pub'[p], disk, artifacts[pub'[p].artifact])
      BY <1>2, <3>2, <3>3 DEF Honest, FileTrue, Using
    <3> QED
      BY <1>1, <3>1, <3>4, <3>5, MoveTrue
  <2> QED
    BY <1>3, <2>1, <2>2 DEF BeginUpdate
<1>4. ASSUME NEW sources \in SourceLists, BeginCreate(p, s, sources)
      PROVE  TruthInv'
  <2>1. /\ OnlyOf(p)
        /\ pub'[p] = [Locals("pack", "none") EXCEPT
             !.tool = "mcp", !.service = s, !.sources = sources]
    BY <1>2, <1>4, Writes DEF BeginCreate
  <2>2. pub'[p].pc = "pack" /\ pub'[p].tool = "mcp" /\ pub'[p].mtime = 0
    BY <2>1 DEF Locals
  <2>3. /\ Stays(pub[p], pub'[p])
        /\ Honest(pub'[p], disk, artifacts[pub'[p].artifact])
    BY <1>2, <2>2 DEF Stays, Using, Honest, BytesTrue
  <2> QED
    BY <1>1, <2>1, <2>3, MoveTrue
<1> QED
  BY <1>3, <1>4

\* A file is packed, or the header is read from what was packed.
LEMMA PackTrue ==
  ASSUME TrueInv, NEW p \in Publishers, Pack(p) \/ PackReturns(p)
  PROVE  TruthInv'
<1>1. UNCHANGED <<disk, meta, artifacts, catalog>>
  BY DEF Pack, PackReturns
<1>2. /\ PublishInv /\ PackingInv /\ HasFields(pub[p]) /\ PacksInv(pub[p])
      /\ Honest(pub[p], disk, artifacts[pub[p].artifact])
  BY DEF TrueInv, TruthInv, PublishInv, PubInv, LocalsInv, PackingInv
<1>3. pub[p].pc = "pack" /\ pub[p].tool = "mcp"
  BY <1>2 DEF Pack, PackReturns, At, PacksInv
<1>4. pub[p].mtime \in Nat /\ pub[p].mtime <= disk.mtime
  BY <1>2, <1>3 DEF Honest
<1>5. CASE End(p, "failed")
  <2>1. OnlyOf(p) /\ pub'[p] = Locals("idle", "failed")
    BY <1>2, <1>5, Writes DEF End
  <2>2. Stays(pub[p], pub'[p]) /\ Honest(pub'[p], disk, artifacts[pub'[p].artifact])
    BY <2>1 DEF Stays, Using, Honest, Locals
  <2> QED
    BY <1>1, <2>1, <2>2, MoveTrue
<1>6. ASSUME NEW a, NEW e, Step(p, [pub[p] EXCEPT !.archive = a, !.early = e])
      PROVE  TruthInv'
  <2>1. OnlyOf(p) /\ pub'[p] = [pub[p] EXCEPT !.archive = a, !.early = e]
    BY <1>2, <1>6, Writes
  <2>2. /\ pub'[p].pc = "pack" /\ pub'[p].tool = "mcp"
        /\ pub'[p].mtime = pub[p].mtime
    BY <1>2, <1>3, <2>1 DEF HasFields
  <2>3. /\ Stays(pub[p], pub'[p])
        /\ Honest(pub'[p], disk, artifacts[pub'[p].artifact])
    BY <1>4, <2>2 DEF Stays, Using, Honest, BytesTrue
  <2> QED
    BY <1>1, <2>1, <2>3, MoveTrue
<1>7. ASSUME NEW a, NEW h \in LoadToolHeader(a), h.result = "found", PackReturns(p),
             Step(p, [pub[p] EXCEPT !.archive = a, !.header = h, !.pc = "create"])
      PROVE  TruthInv'
  <2>1. /\ OnlyOf(p)
        /\ pub'[p] = [pub[p] EXCEPT !.archive = a, !.header = h, !.pc = "create"]
    BY <1>2, <1>7, Writes
  <2>2. /\ pub'[p].pc = "create" /\ pub'[p].tool = "mcp"
        /\ pub'[p].mtime = pub[p].mtime
        /\ pub'[p].archive = a /\ pub'[p].header = h
    BY <1>2, <1>3, <2>1 DEF HasFields
  <2>3. PacksInv(pub'[p])
    BY <1>2, <1>7, ArchivePacked
  <2>4. IsSeq(a) /\ \A i \in DOMAIN a : Sampled(a[i].data)
    BY <2>2, <2>3 DEF PacksInv
  <2>5. Len(a) \in Nat /\ DOMAIN a = 1..Len(a)
    BY <2>4, IsSeqProperties
  <2>6. HeaderOf(h, a)
    BY <1>7, <2>4, <2>5 DEF HeaderOf, WellFormed
  <2>7. /\ Stays(pub[p], pub'[p])
        /\ Honest(pub'[p], disk, artifacts[pub'[p].artifact])
    BY <1>4, <2>2, <2>6 DEF Stays, Using, Honest, BytesTrue
  <2> QED
    BY <1>1, <2>1, <2>7, MoveTrue
<1>8. CASE Pack(p)
  BY <1>5, <1>6, <1>8 DEF Pack
<1>9. CASE PackReturns(p)
  BY <1>5, <1>7, <1>9 DEF PackReturns
<1> QED
  BY <1>8, <1>9

\* An artifact is resumed only if it holds the file as it is.
LEMMA StatTrue ==
  ASSUME TrueInv, NEW p \in Publishers, Stat(p)
  PROVE  TruthInv'
<1>1. UNCHANGED <<disk, meta, artifacts, catalog>> /\ pub[p].pc = "stat"
  BY DEF Stat, At
<1>2. /\ PublishInv /\ HasFields(pub[p]) /\ MetaTrue /\ SharingInv
      /\ Honest(pub[p], disk, artifacts[pub[p].artifact])
      /\ disk.mtime \in Nat
  BY DEF TrueInv, TruthInv, PublishInv, PubInv, LocalsInv, DiskInv
<1>3. PICK r, new : r = pub[p] /\ new = pub'[p]
  OBVIOUS
<1>4. r.tool = "cli" /\ (r.sure => HeaderOf(r.header, disk.archive))
  BY <1>1, <1>2, <1>3 DEF Honest, FileTrue
<1>5. OnlyOf(p)
      /\ new = [r EXCEPT
           !.mtime = disk.mtime,
           !.pc = IF Recorded(disk.mtime) THEN "open" ELSE "create",
           !.artifact = IF Recorded(disk.mtime) THEN meta[1].artifact ELSE 0]
  BY <1>2, <1>3, Writes DEF Stat
<1>6. /\ new.tool = "cli" /\ new.mtime = disk.mtime
      /\ new.header = r.header /\ new.sure = r.sure
      /\ \/ new.pc = "create"
         \/ new.pc = "open" /\ new.artifact = meta[1].artifact /\ Recorded(disk.mtime)
  BY <1>2, <1>3, <1>4, <1>5 DEF HasFields
<1>7. CASE new.pc = "create"
  <2>1. Stays(r, new) /\ Honest(new, disk, artifacts[new.artifact])
    BY <1>2, <1>4, <1>6, <1>7 DEF Stays, Using, Honest, FileTrue
  <2> QED
    BY <1>1, <1>3, <1>5, <2>1, MoveTrue
<1>8. CASE new.pc = "open" /\ new.artifact = meta[1].artifact /\ Recorded(disk.mtime)
  <2>1. meta # <<>> /\ meta[1].mtime = disk.mtime
    BY <1>8 DEF Recorded
  <2>2. HalvesAre(artifacts[new.artifact], disk.archive)
    BY <1>2, <1>8, <2>1 DEF MetaTrue
  <2>3. Honest(new, disk, artifacts[new.artifact])
    BY <1>2, <1>4, <1>6, <1>8, <2>2 DEF Honest, FileTrue, Using
  <2>4. \A q \in Publishers : q # p => Compatible(new, pub[q])
    <3>1. \A q \in Publishers : Resumes(pub[q], meta[1])
      BY <1>2, <2>1 DEF SharingInv
    <3> QED
      BY <1>6, <1>8, <2>1, <3>1 DEF Resumes, Compatible
  <2>5. Resumes(new, meta[1])
    BY <1>6, <2>1 DEF Resumes
  <2>6. ArtifactsStay /\ CompleteStay
    BY <1>1 DEF ArtifactsStay, CompleteStay
  <2>7. DiskInv'
    BY <1>1 DEF TrueInv, TruthInv, DiskInv
  <2>8. MetaTrue'
    BY <1>1, <2>6, MetaKept
  <2>9. SharingInv'
    BY <1>1, <1>3, <1>5, <2>4, <2>5, SharingKept
  <2>10. \A q \in Publishers : Honest(pub'[q], disk', artifacts'[pub'[q].artifact])
    <3>1. Honest(pub'[p], disk, artifacts'[pub'[p].artifact])
      BY <1>1, <1>3, <2>3
    <3> QED
      BY <1>1, <1>5, <2>6, <3>1, HonestKept
  <2>11. \A s \in Services : \A d \in catalog[s] : Described(d)'
    BY <2>6, DescribedKept
  <2> QED
    BY <1>1, <2>7, <2>8, <2>9, <2>10, <2>11 DEF TruthInv
<1> QED
  BY <1>6, <1>7, <1>8

\* A new artifact holds nothing, and nobody else has it.
LEMMA CreateTrue ==
  ASSUME TrueInv, NEW p \in Publishers, CreateRecord(p)
  PROVE  TruthInv'
<1>1. UNCHANGED <<disk, meta, catalog>> /\ pub[p].pc = "create"
  BY DEF CreateRecord, At
<1>2. /\ PublishInv /\ HasFields(pub[p]) /\ IsSeq(artifacts)
      /\ Honest(pub[p], disk, artifacts[pub[p].artifact])
      /\ pub = [q \in Publishers |-> pub[q]]
  BY DEF TrueInv, TruthInv, PublishInv, PubInv, LocalsInv, ArtifactsInv
<1>3. PICK n : n = Len(artifacts) + 1
  OBVIOUS
<1>4. Len(artifacts) \in Nat /\ DOMAIN artifacts = 1..Len(artifacts)
  BY <1>2, IsSeqProperties
<1>5. /\ DOMAIN artifacts' = 1..n /\ n \in DOMAIN artifacts' /\ n \notin DOMAIN artifacts
      /\ \A a \in DOMAIN artifacts : artifacts'[a] = artifacts[a]
      /\ artifacts'[n] = <<>>
  <2>1. artifacts' = Append(artifacts, <<>>)
    BY DEF CreateRecord
  <2> QED
    BY <1>2, <1>3, <1>4, <2>1, AppendIsSeq
<1>6. ArtifactsStay /\ CompleteStay
  BY <1>3, <1>4, <1>5 DEF ArtifactsStay, CompleteStay
<1>7. PICK r, new : r = pub[p] /\ new = pub'[p]
  OBVIOUS
<1>8. /\ OnlyOf(p)
      /\ \/ new = r
         \/ new = [r EXCEPT !.artifact = n,
                            !.pc = IF r.tool = "cli" THEN "meta" ELSE "open"]
  <2>1. CASE UNCHANGED pub
    BY <1>2, <1>7, <2>1 DEF OnlyOf
  <2>2. CASE Step(p, [r EXCEPT !.artifact = n,
                               !.pc = IF r.tool = "cli" THEN "meta" ELSE "open"])
    BY <1>2, <1>7, <2>2, Writes
  <2> QED
    BY <1>3, <1>7, <2>1, <2>2 DEF CreateRecord
<1>9. DiskInv'
  BY <1>1 DEF TrueInv, TruthInv, DiskInv
<1>10. MetaTrue'
  BY <1>1, <1>6, MetaKept
<1>11. \A s \in Services : \A d \in catalog[s] : Described(d)'
  BY <1>6, DescribedKept
<1>12. /\ Honest(new, disk, artifacts'[new.artifact])
       /\ \A q \in Publishers : q # p => Compatible(new, pub[q])
       /\ meta # <<>> => Resumes(new, meta[1])
  <2>1. CASE new = r
    <3>1. Stays(r, new) /\ r.pc \notin Using
      BY <1>1, <1>7, <2>1 DEF Stays, Using
    <3>2. Honest(new, disk, artifacts'[new.artifact])
      BY <1>2, <1>7, <2>1, <3>1, HonestWithout
    <3> QED
      BY <1>7, <3>1, <3>2, StaysShares
  <2>2. CASE new = [r EXCEPT !.artifact = n,
                             !.pc = IF r.tool = "cli" THEN "meta" ELSE "open"]
    <3>1. /\ new.artifact = n /\ new.tool = r.tool /\ new.mtime = r.mtime
          /\ new.header = r.header /\ new.sure = r.sure /\ new.archive = r.archive
          /\ new.pc = IF r.tool = "cli" THEN "meta" ELSE "open"
      BY <1>2, <1>7, <2>2 DEF HasFields
    <3>2. \A archive : HalvesAre(artifacts'[new.artifact], archive)
      BY <1>5, <3>1, EmptyIsSeq DEF HalvesAre
    <3>3. Honest(new, disk, artifacts'[new.artifact])
      <4>1. CASE r.tool = "cli"
        BY <1>1, <1>2, <1>7, <3>1, <3>2, <4>1 DEF Honest, FileTrue, Using
      <4>2. CASE r.tool # "cli"
        BY <1>1, <1>2, <1>7, <3>1, <3>2, <4>2 DEF Honest, BytesTrue, Using
      <4> QED
        BY <4>1, <4>2
    <3>4. \A q \in Publishers : pub[q].pc \in Using => pub[q].artifact # n
      BY <1>2, <1>5 DEF PublishInv, PubInv, LocalsInv, Using
    <3>5. meta # <<>> => meta[1].artifact # n
      BY <1>2, <1>5 DEF PublishInv, MetaInv
    <3> QED
      BY <3>1, <3>3, <3>4, <3>5 DEF Compatible, Resumes
  <2> QED
    BY <1>8, <2>1, <2>2
<1>13. SharingInv'
  BY <1>1, <1>7, <1>8, <1>12, SharingKept
<1>14. \A q \in Publishers : Honest(pub'[q], disk', artifacts'[pub'[q].artifact])
  BY <1>1, <1>6, <1>7, <1>8, <1>12, HonestKept
<1> QED
  BY <1>1, <1>9, <1>10, <1>11, <1>13, <1>14 DEF TruthInv

\* The meta file tells what its writer knows.
LEMMA WriteMetaTrue ==
  ASSUME TrueInv, NEW p \in Publishers, WriteMeta(p)
  PROVE  TruthInv'
<1>1. UNCHANGED <<disk, artifacts, catalog>> /\ pub[p].pc = "meta"
  BY DEF WriteMeta, At
<1>2. /\ PublishInv /\ MetaTrue /\ SharingInv
      /\ Honest(pub[p], disk, artifacts[pub[p].artifact])
  BY DEF TrueInv, TruthInv
<1>3. ProceedingStep(p)
  BY DEF ProceedingStep
<1>4. OnlyOf(p) /\ GoesOn(pub[p], pub'[p])
  <2>1. pub'[p].pc = "open"
    <3>1. pub'[p] = [pub[p] EXCEPT !.pc = "open"]
      BY <1>2, Writes DEF WriteMeta
    <3> QED
      BY <1>2, <3>1 DEF PublishInv, PubInv, LocalsInv, HasFields
  <2> QED
    BY <1>2, <1>3, <2>1, Proceeding DEF Proceeds
<1>5. PICK r, new : r = pub[p] /\ new = pub'[p]
  OBVIOUS
<1>6. /\ r.tool = "cli" /\ r.mtime \in Nat /\ r.mtime <= disk.mtime
      /\ r.mtime = disk.mtime => HalvesAre(artifacts[r.artifact], disk.archive)
  BY <1>1, <1>2, <1>5 DEF Honest, FileTrue, Using
<1>7. PICK m : m = [artifact |-> r.artifact, mtime |-> r.mtime]
  OBVIOUS
<1>8. meta' = <<m>> \/ meta' = <<>> \/ meta' = meta
  BY <1>5, <1>7 DEF WriteMeta
<1>9. \A x : <<x>>[1] = x
  OBVIOUS
<1>10. m.artifact = r.artifact /\ m.mtime = r.mtime
  BY <1>7
<1>11. MetaTrue'
  <2>1. CASE meta' = <<m>>
    BY <1>1, <1>6, <1>9, <1>10, <2>1 DEF MetaTrue
  <2>2. CASE meta' = <<>>
    BY <2>2 DEF MetaTrue
  <2>3. CASE meta' = meta
    BY <1>1, <1>2, <2>3 DEF MetaTrue
  <2> QED
    BY <1>8, <2>1, <2>2, <2>3
<1>12. ArtifactsStay /\ CompleteStay
  BY <1>1 DEF ArtifactsStay, CompleteStay
<1>13. \A q \in Publishers : q # p => pub'[q] = pub[q]
  BY <1>2, <1>4 DEF OnlyOf, PublishInv, PubInv
<1>14. Stays(r, new) /\ Honest(new, disk, artifacts[new.artifact])
  <2>1. new.artifact = r.artifact
    BY <1>4, <1>5 DEF GoesOn
  <2> QED
    BY <1>2, <1>4, <1>5, <2>1, GoesOnHonest
<1>15. \A q \in Publishers : Resumes(pub[q], m)
  <2>1. \A q \in Publishers : q # p => Compatible(pub[p], pub[q])
    BY <1>2 DEF SharingInv
  <2>2. r.pc \in Using
    BY <1>1, <1>5 DEF Using
  <2> QED
    BY <1>5, <1>6, <1>10, <2>1, <2>2 DEF Compatible, Resumes
<1>16. /\ \A q \in Publishers : q # p => Compatible(new, pub[q])
       /\ meta # <<>> => Resumes(new, meta[1])
  BY <1>5, <1>14, StaysShares
<1>17. \A q \in Publishers : Resumes(pub'[q], m)
  <2>1. Resumes(new, m)
    BY <1>5, <1>14, <1>15 DEF Resumes, Stays
  <2> QED
    BY <1>5, <1>13, <1>15, <2>1
<1>18. /\ \A q, t \in Publishers : q # t => Compatible(pub'[q], pub'[t])
       /\ meta # <<>> => \A q \in Publishers : Resumes(pub'[q], meta[1])
  <2>1. \A q \in Publishers : q # p => Compatible(pub[q], new)
    BY <1>16 DEF Compatible
  <2>2. ASSUME NEW q \in Publishers, NEW t \in Publishers, q # t
        PROVE  Compatible(pub'[q], pub'[t])
    <3>1. CASE q = p
      BY <1>5, <1>13, <1>16, <2>2, <3>1
    <3>2. CASE q # p /\ t = p
      BY <1>5, <1>13, <2>1, <2>2, <3>2
    <3>3. CASE q # p /\ t # p
      BY <1>2, <1>13, <2>2, <3>3 DEF SharingInv
    <3> QED
      BY <3>1, <3>2, <3>3
  <2> QED
    BY <1>2, <1>5, <1>13, <1>16, <2>2 DEF SharingInv
<1>19. SharingInv'
  <2>1. CASE meta' = <<m>>
    BY <1>9, <1>17, <1>18, <2>1 DEF SharingInv
  <2>2. CASE meta' = <<>>
    BY <1>18, <2>2 DEF SharingInv
  <2>3. CASE meta' = meta
    BY <1>18, <2>3 DEF SharingInv
  <2> QED
    BY <1>8, <2>1, <2>2, <2>3
<1>20. DiskInv'
  BY <1>1 DEF TrueInv, TruthInv, DiskInv
<1>21. \A q \in Publishers : Honest(pub'[q], disk', artifacts'[pub'[q].artifact])
  <2>1. Honest(pub'[p], disk, artifacts'[pub'[p].artifact])
    BY <1>1, <1>5, <1>14
  <2> QED
    BY <1>1, <1>4, <1>12, <2>1, HonestKept
<1>22. \A s \in Services : \A d \in catalog[s] : Described(d)'
  BY <1>12, DescribedKept
<1> QED
  BY <1>1, <1>11, <1>19, <1>20, <1>21, <1>22 DEF TruthInv

\* A half is stored, cut or of the archive that those who have the artifact mean.
LEMMA StoreTrue ==
  ASSUME TrueInv, NEW p \in Publishers, Stores(p)
  PROVE  TruthInv'
<1>1. UNCHANGED <<disk, meta, catalog>> /\ pub[p].pc = "send"
  BY StoresIsStoring DEF TrueInv, Storing
<1>2. /\ PublishInv /\ HasFields(pub[p]) /\ MetaTrue /\ SharingInv
      /\ Honest(pub[p], disk, artifacts[pub[p].artifact])
  BY DEF TrueInv, TruthInv, PublishInv, PubInv, LocalsInv
<1>3. PICK r, new, a : r = pub[p] /\ new = pub'[p] /\ a = r.artifact
  OBVIOUS
<1>4. OnlyOf(p) /\ GoesOn(r, new)
  <2>1. new.pc # "idle"
    BY <1>2, <1>3, StoresIsStoring
  <2>2. ProceedingStep(p)
    BY DEF Stores, ProceedingStep
  <2> QED
    BY <1>2, <1>3, <2>1, <2>2, Proceeding DEF Proceeds
<1>5. new.artifact = a
  BY <1>3, <1>4 DEF GoesOn
<1>6. a \in DOMAIN artifacts /\ IsSeq(artifacts) /\ IsSeq(artifacts[a])
  BY <1>1, <1>2, <1>3 DEF PublishInv, PubInv, LocalsInv, ArtifactsInv
<1>7. Halves(artifacts[a]) = r.offset /\ r.offset < 2
  BY <1>2, <1>3, StoresIsStoring, StoredHalves DEF Storing
<1>8. PICK half \in {r.archive, Cut} : Storing(p, half)
  BY <1>2, <1>3, StoresIsStoring
<1>9. PICK halves : halves = Append(artifacts[a], half)
  OBVIOUS
<1>10. /\ DOMAIN artifacts' = DOMAIN artifacts /\ artifacts'[a] = halves
      /\ \A b \in DOMAIN artifacts : b # a => artifacts'[b] = artifacts[b]
  <2>1. artifacts' = [artifacts EXCEPT ![a] = halves]
    BY <1>3, <1>8, <1>9 DEF Storing
  <2> QED
    BY <1>6, <2>1
<1>11. CompleteStay
  <2>1. Halves(artifacts[a]) # 2
    BY <1>7
  <2> QED
    BY <1>10, <2>1 DEF CompleteStay
<1>12. HalvesAre(artifacts[a], r.archive) => HalvesAre(halves, r.archive)
  <2>1. /\ DOMAIN halves = 1..(Len(artifacts[a]) + 1)
        /\ \A i \in DOMAIN artifacts[a] : halves[i] = artifacts[a][i]
        /\ halves[Len(artifacts[a]) + 1] \in {r.archive, Cut}
    BY <1>6, <1>8, <1>9, AppendIsSeq
  <2>2. /\ Len(artifacts[a]) \in Nat
        /\ DOMAIN artifacts[a] = 1..Len(artifacts[a])
    BY <1>6, IsSeqProperties
  <2>3. \A i \in DOMAIN halves : i \in DOMAIN artifacts[a] \/ i = Len(artifacts[a]) + 1
    BY <2>1, <2>2
  <2> QED
    BY <2>1, <2>3 DEF HalvesAre
<1>13. /\ r.tool = "cli" /\ r.mtime = disk.mtime => HalvesAre(halves, disk.archive)
       /\ r.tool # "cli" => HalvesAre(halves, r.archive)
  <2>1. r.tool = "cli" /\ r.mtime = disk.mtime =>
          HalvesAre(artifacts[a], disk.archive) /\ r.archive = disk.archive
    BY <1>1, <1>2, <1>3 DEF Honest, FileTrue, Using
  <2>2. r.tool # "cli" => HalvesAre(artifacts[a], r.archive)
    BY <1>1, <1>2, <1>3 DEF Honest, BytesTrue, Using
  <2> QED
    BY <1>12, <2>1, <2>2
<1>14. r.pc \in Using
  BY <1>1, <1>3 DEF Using
<1>15. Honest(new, disk, artifacts'[new.artifact])
  <2>1. /\ Honest(r, disk, artifacts[a])
        /\ Stays(r, new) /\ Honest(new, disk, artifacts[a])
    BY <1>2, <1>3, <1>4, GoesOnHonest
  <2>2. /\ new.tool = r.tool /\ new.mtime = r.mtime
        /\ r.tool # "cli" => new.archive = r.archive
    BY <1>4 DEF GoesOn, KeepsWork
  <2> QED
    BY <1>5, <1>10, <1>13, <2>1, <2>2 DEF Honest, FileTrue, BytesTrue
<1>16. ASSUME NEW q \in Publishers, q # p
       PROVE  Honest(pub[q], disk, artifacts'[pub[q].artifact])
  <2>1. Honest(pub[q], disk, artifacts[pub[q].artifact])
    BY DEF TrueInv, TruthInv
  <2>2. CASE pub[q].pc \notin Using
    BY <2>1, <2>2, HonestWithout
  <2>3. CASE pub[q].pc \in Using /\ pub[q].artifact # a
    <3>1. pub[q].artifact \in DOMAIN artifacts
      BY <1>2, <2>3 DEF PublishInv, PubInv, LocalsInv, Using
    <3> QED
      BY <1>10, <2>1, <2>3, <3>1
  <2>4. CASE pub[q].pc \in Using /\ pub[q].artifact = a
    <3>1. Compatible(r, pub[q])
      BY <1>2, <1>3, <1>16 DEF SharingInv
    <3>2. r.tool = "cli" /\ pub[q].tool = "cli" /\ r.mtime = pub[q].mtime
      BY <1>3, <1>14, <2>4, <3>1 DEF Compatible
    <3> QED
      BY <1>10, <1>13, <2>1, <2>4, <3>2 DEF Honest, FileTrue
  <2> QED
    BY <2>2, <2>3, <2>4
<1>17. \A q \in Publishers : Honest(pub'[q], disk', artifacts'[pub'[q].artifact])
  <2>1. \A q \in Publishers : q # p => pub'[q] = pub[q]
    BY <1>2, <1>4 DEF OnlyOf, PublishInv, PubInv
  <2> QED
    BY <1>1, <1>3, <1>15, <1>16, <2>1
<1>18. MetaTrue'
  <2>1. CASE meta # <<>> /\ meta[1].artifact = a
    <3>1. r.tool = "cli" /\ r.mtime = meta[1].mtime
      BY <1>2, <1>3, <1>14, <2>1 DEF SharingInv, Resumes
    <3> QED
      BY <1>1, <1>2, <1>10, <1>13, <2>1, <3>1 DEF MetaTrue
  <2>2. CASE meta # <<>> /\ meta[1].artifact # a
    <3>1. meta[1].artifact \in DOMAIN artifacts
      BY <1>2, <2>2 DEF PublishInv, MetaInv
    <3> QED
      BY <1>1, <1>2, <1>10, <2>2, <3>1 DEF MetaTrue
  <2>3. CASE meta = <<>>
    BY <1>1, <2>3 DEF MetaTrue
  <2> QED
    BY <2>1, <2>2, <2>3
<1>19. SharingInv'
  <2>1. Stays(r, new)
    BY <1>2, <1>3, <1>4, GoesOnHonest
  <2>2. /\ \A q \in Publishers : q # p => Compatible(pub'[p], pub[q])
        /\ meta # <<>> => Resumes(pub'[p], meta[1])
    BY <1>3, <2>1, StaysShares
  <2> QED
    BY <1>1, <1>4, <2>2, SharingKept
<1>20. DiskInv'
  BY <1>1 DEF TrueInv, TruthInv, DiskInv
<1>21. \A s \in Services : \A d \in catalog[s] : Described(d)'
  BY <1>11, DescribedKept
<1> QED
  BY <1>1, <1>17, <1>18, <1>19, <1>20, <1>21 DEF TruthInv

\* A description tells the header of what its artifact holds.
LEMMA ServedTrue ==
  ASSUME TrueInv, NEW p \in Publishers, PutReplaces(p) \/ Post(p)
  PROVE  TruthInv'
<1>1. UNCHANGED <<disk, meta, artifacts>>
  BY DEF PutReplaces, Post
<1>2. /\ PublishInv /\ HasFields(pub[p]) /\ MetaTrue /\ SharingInv /\ CatalogInv
      /\ Honest(pub[p], disk, artifacts[pub[p].artifact])
  BY DEF TrueInv, TruthInv, PublishInv, PubInv, LocalsInv
<1>3. Served(p) /\ ProceedingStep(p)
  BY <1>2, PutOrPostServed DEF ProceedingStep, Describing
<1>4. Proceeds(p)
  BY <1>2, <1>3, Proceeding
<1>5. PICK r : r = pub[p]
  OBVIOUS
<1>6. PICK d : d = Description(p)
  OBVIOUS
<1>7. /\ d.artifact = r.artifact /\ d.schema = r.header.schema /\ d.sure = r.sure
  BY <1>5, <1>6 DEF Description
<1>8. /\ r.pc \in {"put", "post"}
      /\ r.artifact \in DOMAIN artifacts /\ Halves(artifacts[r.artifact]) = 2
  BY <1>2, <1>3, <1>5 DEF Served, PublishInv, PubInv, LocalsInv
<1>9. Described(d)
  <2>1. CASE r.tool = "cli"
    <3>1. FileTrue(r, disk, artifacts[r.artifact])
      BY <1>2, <1>5, <1>8, <2>1 DEF Honest
    <3>2. r.sure => /\ HalvesAre(artifacts[r.artifact], disk.archive)
                    /\ HeaderOf(r.header, disk.archive)
      BY <1>8, <3>1 DEF FileTrue, Using
    <3> QED
      BY <1>7, <1>8, <3>2 DEF Described
  <2>2. CASE r.tool # "cli"
    <3>1. /\ HalvesAre(artifacts[r.artifact], r.archive)
          /\ HeaderOf(r.header, r.archive)
      BY <1>2, <1>5, <1>8, <2>2 DEF Honest, BytesTrue, Using
    <3> QED
      BY <1>7, <1>8, <3>1 DEF Described
  <2> QED
    BY <2>1, <2>2
<1>10. \A s \in Services : \A x \in catalog'[s] : x = d \/ x \in catalog[s]
  <2>1. \A s \in Services : s # r.service => catalog'[s] = catalog[s]
    BY <1>2, <1>3, <1>5, ServedCatalog
  <2>2. catalog'[r.service] = {d} \/ catalog'[r.service] = catalog[r.service] \cup {d}
    <3>1. r.service \in Services
      BY <1>2, <1>3, <1>5, ServedCatalog
    <3>2. \/ catalog' = [catalog EXCEPT ![r.service] = {d}]
          \/ catalog' = [catalog EXCEPT ![r.service] = @ \cup {d}]
      BY <1>3, <1>5, <1>6 DEF Served
    <3> QED
      BY <1>2, <3>1, <3>2 DEF CatalogInv
  <2> QED
    BY <2>1, <2>2
<1>11. ArtifactsStay /\ CompleteStay
  BY <1>1 DEF ArtifactsStay, CompleteStay
<1>12. \A s \in Services : \A x \in catalog'[s] : Described(x)'
  <2>1. Described(d)'
    BY <1>1, <1>9 DEF Described
  <2>2. \A s \in Services : \A x \in catalog[s] : Described(x)'
    BY <1>11, DescribedKept
  <2> QED
    BY <1>10, <2>1, <2>2
<1>13. Stays(pub[p], pub'[p]) /\ Honest(pub'[p], disk, artifacts[pub'[p].artifact])
  <2>1. CASE GoesOn(pub[p], pub'[p])
    <3>1. pub'[p].artifact = pub[p].artifact
      BY <2>1 DEF GoesOn
    <3> QED
      BY <1>2, <2>1, <3>1, GoesOnHonest
  <2>2. CASE pub'[p].pc = "idle"
    BY <2>2 DEF Stays, Using, Honest
  <2> QED
    BY <1>4, <2>1, <2>2 DEF Proceeds
<1>14. OnlyOf(p)
  BY <1>4 DEF Proceeds
<1>15. DiskInv'
  BY <1>1 DEF TrueInv, TruthInv, DiskInv
<1>16. MetaTrue'
  BY <1>1, <1>11, MetaKept
<1>17. SharingInv'
  BY <1>1, <1>13, <1>14, StaysShares, SharingKept
<1>18. \A q \in Publishers : Honest(pub'[q], disk', artifacts'[pub'[q].artifact])
  <2>1. Honest(pub'[p], disk, artifacts'[pub'[p].artifact])
    BY <1>1, <1>13
  <2> QED
    BY <1>1, <1>11, <1>14, <2>1, HonestKept
<1> QED
  BY <1>12, <1>15, <1>16, <1>17, <1>18 DEF TruthInv

\* A new archive has a new time, and nobody who began before it is sure.
LEMMA ChangeTrue ==
  ASSUME TrueInv, Change
  PROVE  TruthInv'
<1>1. UNCHANGED <<meta, artifacts, catalog>>
  BY DEF Change
<1>2. disk.archive \in Archives /\ disk.mtime \in Nat /\ MetaTrue /\ SharingInv
  BY DEF TrueInv, TruthInv, DiskInv
<1>3. disk'.archive \in Archives /\ disk'.mtime = disk.mtime + 1
  BY DEF Change
<1>4. DiskInv'
  BY <1>2, <1>3 DEF DiskInv
<1>5. MetaTrue'
  <2>1. meta # <<>> => /\ meta[1].mtime \in Nat /\ meta[1].mtime <= disk'.mtime
                       /\ meta[1].mtime # disk'.mtime
    BY <1>2, <1>3 DEF MetaTrue
  <2> QED
    BY <1>1, <2>1 DEF MetaTrue
<1>6. ASSUME NEW p \in Publishers
      PROVE  /\ pub'[p].pc = pub[p].pc /\ pub'[p].tool = pub[p].tool
             /\ pub'[p].mtime = pub[p].mtime /\ pub'[p].artifact = pub[p].artifact
             /\ pub'[p].archive = pub[p].archive /\ pub'[p].header = pub[p].header
             /\ pub[p].pc # "idle" /\ pub[p].tool = "cli" => ~pub'[p].sure
  <2>1. HasFields(pub[p])
    BY DEF TrueInv, PublishInv, PubInv, LocalsInv
  <2>2. PICK b : b = (pub[p].sure /\ (pub[p].pc = "idle" \/ pub[p].tool # "cli"))
    OBVIOUS
  <2>3. pub'[p] = [pub[p] EXCEPT !.sure = b]
    BY <2>2 DEF Change
  <2>4. pub'[p].sure = b
    BY <2>1, <2>3 DEF HasFields
  <2>5. pub[p].pc # "idle" /\ pub[p].tool = "cli" => ~b
    BY <2>2
  <2>6. /\ pub'[p].pc = pub[p].pc /\ pub'[p].tool = pub[p].tool
        /\ pub'[p].mtime = pub[p].mtime /\ pub'[p].artifact = pub[p].artifact
        /\ pub'[p].archive = pub[p].archive /\ pub'[p].header = pub[p].header
    BY <2>1, <2>3 DEF HasFields
  <2> QED
    BY <2>4, <2>5, <2>6
<1>7. SharingInv'
  BY <1>1, <1>2, <1>6 DEF SharingInv, Compatible, Resumes
<1>8. ASSUME NEW p \in Publishers
      PROVE  Honest(pub'[p], disk', artifacts'[pub'[p].artifact])
  <2>1. PICK r, new, halves : /\ r = pub[p] /\ new = pub'[p]
                              /\ halves = artifacts[pub[p].artifact]
    OBVIOUS
  <2>2. Honest(r, disk, halves)
    BY <2>1 DEF TrueInv, TruthInv
  <2>3. /\ new.pc = r.pc /\ new.tool = r.tool /\ new.mtime = r.mtime
        /\ new.archive = r.archive /\ new.header = r.header
        /\ r.pc # "idle" /\ r.tool = "cli" => ~new.sure
    BY <1>6, <2>1
  <2>4. CASE r.pc # "idle" /\ r.tool = "cli"
    <3>1. r.mtime \in Nat /\ r.mtime <= disk.mtime
      BY <2>2, <2>4 DEF Honest
    <3>2. r.mtime <= disk'.mtime /\ r.mtime # disk'.mtime
      BY <1>2, <1>3, <3>1
    <3>3. Honest(new, disk', halves)
      BY <2>2, <2>3, <2>4, <3>1, <3>2 DEF Honest, FileTrue
    <3> QED
      BY <1>1, <1>6, <2>1, <3>3
  <2>5. CASE r.pc # "idle" /\ r.tool # "cli"
    <3>1. r.mtime \in Nat /\ r.mtime <= disk.mtime
      BY <2>2, <2>5 DEF Honest
    <3>2. r.mtime <= disk'.mtime
      BY <1>2, <1>3, <3>1
    <3>3. Honest(new, disk', halves)
      BY <2>2, <2>3, <2>5, <3>1, <3>2 DEF Honest, BytesTrue
    <3> QED
      BY <1>1, <1>6, <2>1, <3>3
  <2>6. CASE r.pc = "idle"
    BY <2>1, <2>3, <2>6 DEF Honest
  <2> QED
    BY <2>4, <2>5, <2>6
<1>9. CompleteStay
  BY <1>1 DEF CompleteStay
<1>10. \A s \in Services : \A d \in catalog[s] : Described(d)'
  BY <1>9, DescribedKept
<1> QED
  BY <1>1, <1>4, <1>5, <1>7, <1>8, <1>10 DEF TruthInv

\* Nothing of it changes.
LEMMA StutterTrue ==
  ASSUME TrueInv, UNCHANGED <<disk, meta, artifacts, catalog, pub>>
  PROVE  TruthInv'
<1>1. TruthInv
  BY DEF TrueInv
<1>2. DiskInv' /\ MetaTrue' /\ SharingInv'
  BY <1>1 DEF TruthInv, DiskInv, MetaTrue, SharingInv
<1>3. CompleteStay
  BY DEF CompleteStay
<1>4. \A s \in Services : \A r \in catalog[s] : Described(r)'
  BY <1>3, DescribedKept
<1>5. \A p \in Publishers : Honest(pub'[p], disk', artifacts'[pub'[p].artifact])
  BY <1>1 DEF TruthInv
<1> QED
  BY <1>2, <1>4, <1>5 DEF TruthInv

\* Every step keeps the three invariants.
LEMMA NextTrue ==
  ASSUME TrueInv, [Next]_vars
  PROVE  TrueInv'
<1>1. PublishInv' /\ PackingInv'
  BY NextKeepsInv, NextPacks DEF TrueInv
<1>2. ASSUME NEW p \in Publishers,
             \/ OpenArchive(p) \/ UploadReturns(p) \/ UploadFails(p)
             \/ PutNotFound(p) \/ PutRefused(p) \/ Fail(p)
      PROVE  TruthInv'
  <2>1. UNCHANGED <<disk, meta, artifacts, catalog>>
    BY <1>2 DEF OpenArchive, UploadReturns, UploadFails, PutNotFound, PutRefused, Fail
  <2>2. ProceedingStep(p)
    BY <1>2 DEF ProceedingStep, Describing
  <2>3. Proceeds(p)
    BY <2>2, Proceeding DEF TrueInv
  <2> QED
    BY <2>1, <2>3, ProceedTrue
<1>3. ASSUME LibraryGrows \/ UNCHANGED vars
      PROVE  TruthInv'
  <2>1. UNCHANGED <<disk, meta, artifacts, catalog, pub>>
    BY <1>3 DEF LibraryGrows, vars
  <2> QED
    BY <2>1, StutterTrue
<1>4. ASSUME NEW p \in Publishers,
             Packing(p) \/ Uploading(p) \/ Describing(p)
      PROVE  TruthInv'
  <2>1. CASE Packing(p)
    BY <2>1, BeginTrue, PackTrue DEF Packing
  <2>2. CASE Uploading(p)
    BY <1>2, <2>2, StatTrue, CreateTrue, WriteMetaTrue, StoreTrue DEF Uploading, Stores
  <2>3. CASE Describing(p)
    BY <1>2, <2>3, ServedTrue DEF Describing
  <2> QED
    BY <1>4, <2>1, <2>2, <2>3
<1>5. TruthInv'
  BY <1>2, <1>3, <1>4, BeginTrue, ChangeTrue DEF Next
<1> QED
  BY <1>1, <1>5 DEF TrueInv

\* They hold initially.
LEMMA InitTrue ==
  ASSUME Init
  PROVE  TrueInv
<1>1. PublishInv /\ PackingInv
  BY InitInv, InitPacks
<1>2. DiskInv /\ meta = <<>> /\ \A s \in Services : catalog[s] = {}
  BY DEF Init, DiskInv
<1>3. \A p \in Publishers : pub[p].pc = "idle"
  BY DEF Init, Locals
<1>4. MetaTrue /\ SharingInv
  BY <1>2, <1>3 DEF MetaTrue, SharingInv, Compatible, Using
<1>5. \A p \in Publishers : Honest(pub[p], disk, artifacts[pub[p].artifact])
  BY <1>3 DEF Honest
<1>6. TruthInv
  BY <1>2, <1>4, <1>5 DEF TruthInv
<1> QED
  BY <1>1, <1>6 DEF TrueInv

\* SchemaOfItsArchive follows.
LEMMA TruthDescribes ==
  ASSUME TrueInv
  PROVE  SchemaOfItsArchive
<1>1. ASSUME NEW s \in Services, NEW r \in catalog[s], r.sure
      PROVE  LET halves == artifacts[r.artifact]
                 whole == {i \in DOMAIN halves : halves[i] # Cut}
             IN  /\ Len(halves) = 2
                 /\ \A i, j \in whole : halves[i] = halves[j]
                 /\ \A i \in whole, given \in SUBSET {"p", "q"}, row \in 0..2 :
                      Admits(r.schema, given, row)
                        = Documented(HeaderFile(halves[i]), given, row)
  <2>1. Described(r) /\ PublishInv
    BY DEF TrueInv, TruthInv
  <2>2. PICK archive, header :
          /\ HalvesAre(artifacts[r.artifact], archive)
          /\ HeaderOf(header, archive) /\ r.schema = header.schema
    BY <1>1, <2>1 DEF Described
  <2>3. PICK halves : halves = artifacts[r.artifact]
    OBVIOUS
  <2>4. IsSeq(halves) /\ Halves(halves) = 2
    BY <1>1, <2>1, <2>3 DEF Described, PublishInv, ArtifactsInv
  <2>5. Len(halves) = 2 /\ DOMAIN halves = 1..2
    BY <2>4, IsSeqProperties DEF Halves
  <2>6. \A i \in DOMAIN halves : halves[i] # Cut => halves[i] = archive
    BY <2>2, <2>3 DEF HalvesAre
  <2>7. \A given, row :
          Admits(r.schema, given, row) = Documented(HeaderFile(archive), given, row)
    BY <2>2, HeaderMeans DEF HeaderOf
  <2> QED
    BY <2>3, <2>5, <2>6, <2>7
<1> QED
  BY <1>1 DEF SchemaOfItsArchive

\* A service whose archive did not change under the run that published it takes
\* exactly the requests that its archive documents, whoever resumes the upload of
\* another run, and whatever the meta file says; every half of the archive but
\* those of which a chunk was cut is of the file that documents them.
THEOREM ArchiveDescribed == Spec => []SchemaOfItsArchive
BY InitTrue, NextTrue, TruthDescribes, PTL DEF Spec
=============================================================================
