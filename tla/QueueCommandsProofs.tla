------------------------ MODULE QueueCommandsProofs ------------------------
(***************************************************************************)
(* Proofs about QueueCommands for all sets of terminals, numbers of        *)
(* queues, messages, commands and faults, and sizes of a page:             *)
(* TokensMeanShown, PagesCover and DequeueExact.                           *)
(***************************************************************************)
EXTENDS QueueCommands, SequenceTheorems, FiniteSetTheorems, WellFoundedInduction, TLAPS

-----------------------------------------------------------------------------
(* The inductive invariant                                                 *)

Item == [kind: {"queue", "page", "none"}, id: Nat]

HasLocals(c) ==
  c = [pc |-> c.pc, result |-> c.result, op |-> c.op, target |-> c.target,
       meant |-> c.meant, sure |-> c.sure, limit |-> c.limit, again |-> c.again,
       table |-> c.table, payload |-> c.payload, taken |-> c.taken,
       before |-> c.before]

\* The locals of a command.
Command(c) ==
  /\ HasLocals(c)
  /\ c.target \in Item /\ c.limit \in Nat
  /\ c.table.history \in Seq(Item) /\ c.table = MakeHistory(c.table.history)
  /\ c.payload \in Seq(Nat) /\ c.taken \in Seq(Nat)

Types ==
  /\ file \in Seq(Item)
  /\ queues \in Seq(Seq(Nat)) /\ live \in SUBSET (1..Len(queues)) /\ accepted \in Nat
  /\ DOMAIN out = Terminals /\ out = [t \in Terminals |-> out[t]]
  /\ DOMAIN shown = Terminals /\ shown = [t \in Terminals |-> shown[t]]
  /\ walk = [t \in Terminals |-> [seen |-> walk[t].seen, began |-> walk[t].began,
                                  next |-> walk[t].next, sure |-> walk[t].sure]]
  /\ cmd = [t \in Terminals |-> cmd[t]] /\ \A t \in Terminals : Command(cmd[t])

\* A token on s that file f knows is that of the item it was printed for.
Means(s, f) ==
  \A i \in DOMAIN s : s[i].token \in DOMAIN f => f[s[i].token] = s[i].item

\* The screen of t shows what the file says, but if t is about to save what it
\* has shown, or another terminal was at the file since.
Tokens(t) ==
  /\ t \notin stale => Means(shown[t], file)
  /\ cmd[t].pc \in {"save", "write"} =>
       /\ t \in stale /\ shown[t] = cmd[t].table.printed
  /\ cmd[t].pc # "done" /\ cmd[t].sure => cmd[t].target = cmd[t].meant

Ordered(s) == \A i, j \in DOMAIN s : i < j => s[i] < s[j]

\* The messages of each queue are in the order in which they were accepted.
InOrder ==
  \A q \in 1..Len(queues) :
    /\ Ordered(queues[q])
    /\ \A i \in 1..Len(queues[q]) : queues[q][i] <= accepted

\* s is what the last request of a dequeue has taken out.
LastTaken(c, s) ==
  /\ Ordered(s) /\ IsSuffix(s, c.taken) /\ Len(s) <= Max({c.limit, 1})
  /\ ~c.again => s = c.taken

\* What a dequeue has taken out, and what is in its file.
Dequeued(c, o) ==
  c.op = "dequeue" =>
    /\ c.pc \in {"request", "format", "fill", "done"}
    /\ c.pc \in {"request", "format"} => o = c.before
    /\ c.pc = "request" /\ ~c.again => c.taken = <<>>
    /\ c.pc \in {"format", "fill"} => LastTaken(c, c.payload)
    /\ c.pc = "done" /\ c.result = "ok" => LastTaken(c, o)
    /\ c.pc = "done" /\ c.result = "failed" => o = c.before

\* What a walk has seen are in their order all queues, or all up to the next
\* page, of those that were there when it began and still are.
Covers(seen, began, next) ==
  /\ seen \in Seq(Nat) /\ Ordered(seen)
  /\ \/ next = <<>> /\ began \cap live \subseteq ToSet(seen)
     \/ \E n \in Nat :
          /\ next = <<n>>
          /\ \A i \in 1..Len(seen) : seen[i] <= n
          /\ \A q \in began \cap live : q <= n => q \in ToSet(seen)

Walked(w) ==
  /\ w.began \in SUBSET (1..Len(queues))
  /\ w.sure => Covers(w.seen, w.began, w.next)

QueueInv ==
  /\ Types
  /\ InOrder
  /\ \A t \in Terminals : Tokens(t) /\ Dequeued(cmd[t], out[t]) /\ Walked(walk[t])

-----------------------------------------------------------------------------
(* Sets of numbers in their order                                          *)

\* A set of naturals that has 0 and every successor has them all.
LEMMA SetInduction ==
  ASSUME NEW T \in SUBSET Nat, 0 \in T, \A n \in T : n + 1 \in T
  PROVE  T = Nat
<1> DEFINE Less == OpToRel(<, Nat)
<1>1. IsWellFoundedOn(Less, Nat)
  BY NatLessThanWellFounded, Zenon
<1>2. Less = {ss \in Nat \X Nat : ss[1] < ss[2]}
  BY Zenon DEF OpToRel
<1>3. \A x, y \in Nat : x < y => <<x, y>> \in Less
  BY <1>2
<1> HIDE DEF Less
<1>4. ASSUME Nat \ T # {} PROVE FALSE
  <2>1. PICK x \in Nat \ T : \A y \in Nat \ T : ~(<<y, x>> \in Less)
    BY <1>1, <1>4, WFMin, Zenon
  <2>2. x - 1 \in Nat /\ x - 1 < x
    <3>1. x # 0
      BY <2>1
    <3> QED
      BY <2>1, <3>1
  <2>3. x - 1 \in T
    BY <1>3, <2>1, <2>2
  <2>4. (x - 1) + 1 \in T
    BY <2>3
  <2>5. (x - 1) + 1 = x
    BY <2>1
  <2> QED
    BY <2>1, <2>4, <2>5
<1> QED
  BY <1>4

\* The numbers of a bounded set can be brought into their order.
LEMMA OrderExists ==
  ASSUME NEW n \in Nat, NEW S \in SUBSET (1..n)
  PROVE  /\ IsFiniteSet(S)
         /\ \E s \in [1..Cardinality(S) -> S] : Ordered(s)
<1> DEFINE Sortable(R) == IsFiniteSet(R) /\ \E s \in [1..Cardinality(R) -> R] : Ordered(s)
           T == {m \in Nat : \A R \in SUBSET (1..m) : Sortable(R)}
<1>1. 0 \in T
  <2> SUFFICES ASSUME NEW R \in SUBSET (1..0) PROVE Sortable(R)
    OBVIOUS
  <2>1. R = {}
    OBVIOUS
  <2>2. IsFiniteSet(R) /\ Cardinality(R) = 0
    BY <2>1, FS_EmptySet
  <2>3. [i \in 1..0 |-> i] \in [1..0 -> R] /\ Ordered([i \in 1..0 |-> i])
    BY DEF Ordered
  <2> QED
    BY <2>2, <2>3
<1>2. ASSUME NEW m \in Nat, \A R \in SUBSET (1..m) : Sortable(R),
             NEW R \in SUBSET (1..m + 1)
      PROVE  Sortable(R)
  <2>1. CASE m + 1 \notin R
    <3>1. \A x \in R : x \in 1..m
      BY <1>2, <2>1
    <3> QED
      BY <1>2, <3>1
  <2>2. CASE m + 1 \in R
    <3> DEFINE Q == R \ {m + 1}
    <3>1. \A x \in Q : x \in 1..m
      BY <1>2
    <3>2. Sortable(Q)
      BY <1>2, <3>1
    <3>3. R = Q \cup {m + 1} /\ m + 1 \notin Q
      BY <2>2
    <3> HIDE DEF Q
    <3>4. /\ IsFiniteSet(R) /\ Cardinality(R) = Cardinality(Q) + 1
          /\ Cardinality(Q) \in Nat
      BY <3>2, <3>3, FS_AddElement, FS_CardinalityType
    <3>5. PICK s \in [1..Cardinality(Q) -> Q] : Ordered(s)
      BY <3>2
    <3> DEFINE k == Cardinality(Q)
               r == [i \in 1..k + 1 |-> IF i <= k THEN s[i] ELSE m + 1]
    <3>6. r \in [1..k + 1 -> R]
      BY <3>3, <3>4, <3>5
    <3>7. ASSUME NEW i \in 1..k + 1, NEW j \in 1..k + 1, i < j PROVE r[i] < r[j]
      <4>1. i \in 1..k /\ r[i] = s[i] /\ s[i] \in 1..m
        BY <3>1, <3>4, <3>5, <3>7
      <4>2. CASE j <= k
        <5>1. j \in 1..k /\ r[j] = s[j]
          BY <3>4, <3>7, <4>2
        <5> QED
          BY <3>5, <3>7, <4>1, <5>1 DEF Ordered
      <4>3. CASE ~(j <= k)
        BY <1>2, <3>4, <4>1, <4>3
      <4> QED
        BY <4>2, <4>3
    <3>8. Ordered(r)
      BY <3>6, <3>7 DEF Ordered
    <3> QED
      BY <3>4, <3>6, <3>8
  <2> QED
    BY <2>1, <2>2
<1> HIDE DEF Sortable
<1>3. T \in SUBSET Nat
  OBVIOUS
<1>4. T = Nat
  <2>1. \A m \in T : m + 1 \in T
    BY <1>2
  <2> HIDE DEF T
  <2> QED
    BY <1>1, <1>3, <2>1, SetInduction
<1>5. Sortable(S)
  BY <1>4
<1> QED
  BY <1>5 DEF Sortable

\* Ascending brings them into their order.
LEMMA AscendingSorts ==
  ASSUME NEW n \in Nat, NEW S \in SUBSET (1..n)
  PROVE  /\ Ascending(S) \in Seq(Nat) /\ Ordered(Ascending(S))
         /\ Len(Ascending(S)) = Cardinality(S)
         /\ ToSet(Ascending(S)) = S
<1> DEFINE k == Cardinality(S)
           s == Ascending(S)
<1>1. IsFiniteSet(S) /\ k \in Nat /\ \E r \in [1..k -> S] : Ordered(r)
  BY OrderExists, FS_CardinalityType
<1>2. s = CHOOSE r \in [1..k -> S] : Ordered(r)
  BY Zenon DEF Ascending, Ordered
<1>3. s \in [1..k -> S] /\ Ordered(s)
  BY <1>1, <1>2
<1> HIDE DEF s, k
<1>4. s \in Seq(Nat) /\ Len(s) = k /\ DOMAIN s = 1..k
  <2>1. \A x \in S : x \in Nat
    OBVIOUS
  <2>2. s \in [1..k -> Nat]
    BY <1>3, <2>1
  <2> QED
    BY <1>1, <2>2, LenProperties
<1>5. s \in Injection(1..k, S)
  <2> SUFFICES ASSUME NEW i \in 1..k, NEW j \in 1..k, s[i] = s[j] PROVE i = j
    BY <1>3 DEF Injection, IsInjective
  <2>1. s[i] \in Nat /\ s[j] \in Nat
    BY <1>4, LenProperties
  <2>2. ~(i < j) /\ ~(j < i)
    BY <1>3, <1>4, <2>1 DEF Ordered
  <2> QED
    BY <1>1, <2>2
<1>6. s \in Surjection(1..k, S)
  <2>1. Cardinality(1..k) = k
    BY <1>1, FS_Interval
  <2> QED
    BY <1>1, <1>5, <2>1, FS_Injection DEF k
<1>7. ToSet(s) = S
  BY <1>3, <1>6 DEF ToSet, Surjection
<1> QED
  BY <1>3, <1>4, <1>7 DEF s, k

-----------------------------------------------------------------------------
(* Pages of the listing                                                    *)

\* The greatest of two numbers.
LEMMA MaxOfTwo ==
  ASSUME NEW a \in Nat, NEW b \in Nat
  PROVE  Max({a, b}) \in {a, b} /\ Max({a, b}) >= a /\ Max({a, b}) >= b
<1>1. \E x \in {a, b} : \A y \in {a, b} : x >= y
  <2>1. a >= b \/ b >= a
    OBVIOUS
  <2> QED
    BY <2>1
<1> QED
  BY <1>1 DEF Max

\* The least of two numbers.
LEMMA MinOfTwo ==
  ASSUME NEW a \in Nat, NEW b \in Nat
  PROVE  Min({a, b}) \in {a, b} /\ Min({a, b}) <= a /\ Min({a, b}) <= b
<1>1. \E x \in {a, b} : \A y \in {a, b} : x <= y
  <2>1. a <= b \/ b <= a
    OBVIOUS
  <2> QED
    BY <2>1
<1> QED
  BY <1>1 DEF Min

-----------------------------------------------------------------------------
(* Listings                                                                *)

\* The link to the next page is found where there is one.
LEMMA NextLink ==
  ASSUME NEW q, NEW n
  PROVE  /\ FindNextPage(<<[rel |-> "self", page |-> q]>> \o <<>>) = <<>>
         /\ FindNextPage(<<[rel |-> "self", page |-> q]>> \o
                         <<[rel |-> "next", page |-> n]>>) = <<n>>
<1> DEFINE self == [rel |-> "self", page |-> q]
           next == [rel |-> "next", page |-> n]
           one == <<self>> \o <<>>
           two == <<self>> \o <<next>>
<1>1. DOMAIN one = {1} /\ one[1].rel # "next"
  OBVIOUS
<1>2. DOMAIN two = {1, 2} /\ two[1].rel # "next" /\ two[2].rel = "next" /\ two[2].page = n
  OBVIOUS
<1> HIDE DEF one, two
<1>3. {i \in DOMAIN one : one[i].rel = "next"} = {}
  BY <1>1
<1>4. {i \in DOMAIN two : two[i].rel = "next"} = {2}
  BY <1>2
<1>5. Min({2}) = 2
  BY DEF Min
<1>6. FindNextPage(one) = <<>>
  BY <1>3 DEF FindNextPage
<1>7. FindNextPage(two) = <<n>>
  BY <1>2, <1>4, <1>5 DEF FindNextPage
<1> QED
  BY <1>6, <1>7 DEF one, two

\* A page has queues behind q, in order; all of them, or there is a next page,
\* and it has all up to where that begins.
LEMMA PageListed ==
  ASSUME Types, NEW q \in Nat
  PROVE  LET ids == ListedAfter(q).ids
             next == FindNextPage(ListedAfter(q).links)
         IN  /\ ids \in Seq(Nat) /\ Ordered(ids)
             /\ \A i \in 1..Len(ids) : ids[i] > q
             /\ \/ next = <<>> /\ \A k \in live : k > q => k \in ToSet(ids)
                \/ \E n \in Nat :
                     /\ next = <<n>> /\ n > q
                     /\ \A i \in 1..Len(ids) : ids[i] <= n
                     /\ \A k \in live : k > q /\ k <= n => k \in ToSet(ids)
<1> DEFINE after == {i \in live : i > q}
           below(i) == {j \in after : j < i}
           first == {i \in after : Cardinality(below(i)) < PageSize}
           ids == Ascending(first)
           links == <<[rel |-> "self", page |-> q]>> \o
                    IF first = after THEN <<>>
                    ELSE <<[rel |-> "next", page |-> Last(ids)]>>
<1>1. ListedAfter(q).ids = ids /\ ListedAfter(q).links = links
  BY Zenon DEF ListedAfter
<1>2. /\ Len(queues) \in Nat /\ first \in SUBSET (1..Len(queues))
      /\ after \in SUBSET (1..Len(queues)) /\ PageSize \in Nat \ {0}
  BY LenProperties, QueueAssumption DEF Types
<1>3. /\ ids \in Seq(Nat) /\ Ordered(ids) /\ Len(ids) = Cardinality(first)
      /\ ToSet(ids) = first
  BY <1>2, AscendingSorts
<1>4. \A i \in 1..Len(ids) : ids[i] \in first /\ ids[i] \in Nat
  BY <1>3, LenProperties DEF ToSet
<1>5. \A i \in 1..Len(ids) : ids[i] > q
  BY <1>4
<1>6. IsFiniteSet(after) /\ \A i : IsFiniteSet(below(i)) /\ Cardinality(below(i)) \in Nat
  <2>1. IsFiniteSet(after)
    BY <1>2, OrderExists
  <2>2. \A i : below(i) \subseteq after
    OBVIOUS
  <2> HIDE DEF after
  <2> QED
    BY <2>1, <2>2, FS_Subset, FS_CardinalityType
<1>7. CASE first = after
  <2>1. FindNextPage(ListedAfter(q).links) = <<>>
    BY <1>1, <1>7, NextLink
  <2>2. \A k \in live : k > q => k \in ToSet(ids)
    BY <1>3, <1>7
  <2> QED
    BY <1>1, <1>3, <1>5, <2>1, <2>2
<1>8. CASE first # after
  <2> DEFINE n == Last(ids)
  <2>1. FindNextPage(ListedAfter(q).links) = <<n>>
    BY <1>1, <1>8, NextLink
  <2>2. \A i, j \in after : i <= j /\ j \in first => i \in first
    <3> SUFFICES ASSUME NEW i \in after, NEW j \in after, i <= j, j \in first
                 PROVE  i \in first
      OBVIOUS
    <3>1. below(i) \subseteq below(j)
      BY <1>2
    <3>2. Cardinality(below(i)) <= Cardinality(below(j))
      BY <1>6, <3>1, FS_Subset
    <3>3. Cardinality(below(j)) < PageSize
      OBVIOUS
    <3>4. Cardinality(below(i)) < PageSize
      <4> HIDE DEF below
      <4> QED
        BY <1>2, <1>6, <3>2, <3>3
    <3> QED
      BY <3>4
  <2>3. first # {}
    <3>1. PICK x \in after : \A y \in after : x <= y
      <4>1. Ascending(after) \in Seq(Nat) /\ Ordered(Ascending(after))
            /\ ToSet(Ascending(after)) = after
        BY <1>2, AscendingSorts
      <4> DEFINE s == Ascending(after)
      <4>2. after # {}
        BY <1>8
      <4> HIDE DEF s, after
      <4>3. DOMAIN s = 1..Len(s) /\ Len(s) \in Nat
        BY <4>1, LenProperties DEF s
      <4>4. 1 \in 1..Len(s)
        BY <4>1, <4>2, <4>3 DEF ToSet, s
      <4>5. \A i \in 1..Len(s) : s[i] \in Nat /\ (1 < i => s[1] < s[i])
        BY <4>1, <4>3, <4>4 DEF Ordered, s
      <4>6. \A i \in 1..Len(s) : s[1] <= s[i]
        <5>1. \A i \in 1..Len(s) : i = 1 \/ 1 < i
          BY <4>3
        <5> QED
          BY <4>4, <4>5, <5>1
      <4>7. after = {s[i] : i \in 1..Len(s)}
        BY <4>1, <4>3 DEF ToSet, s
      <4>8. s[1] \in after /\ \A y \in after : s[1] <= y
        BY <4>4, <4>6, <4>7
      <4> QED
        BY <4>8
    <3>2. below(x) = {}
      BY <1>2, <3>1
    <3>3. Cardinality(below(x)) = 0
      BY <3>2, FS_EmptySet
    <3> QED
      BY <1>2, <3>1, <3>3
  <2>4. Len(ids) \in 1..Len(ids) /\ Len(ids) \in Nat
    <3>1. DOMAIN ids = 1..Len(ids) /\ Len(ids) \in Nat
      BY <1>3, LenProperties
    <3>2. Len(ids) # 0
      <4> HIDE DEF ids, first
      <4>1. first = {ids[i] : i \in 1..Len(ids)}
        BY <1>3, <3>1 DEF ToSet
      <4> QED
        BY <2>3, <3>1, <4>1
    <3> QED
      BY <3>1, <3>2
  <2>5. n \in first /\ n \in Nat /\ n > q
    BY <1>4, <1>5, <2>4 DEF Last
  <2>6. \A i \in 1..Len(ids) : ids[i] <= n
    <3> SUFFICES ASSUME NEW i \in 1..Len(ids) PROVE ids[i] <= n
      OBVIOUS
    <3>1. i = Len(ids) \/ i < Len(ids)
      BY <2>4
    <3>2. DOMAIN ids = 1..Len(ids)
      BY <1>3, LenProperties
    <3>3. i < Len(ids) => ids[i] < ids[Len(ids)]
      BY <1>3, <2>4, <3>2 DEF Ordered
    <3>4. ids[i] \in Nat
      BY <1>4
    <3> HIDE DEF ids
    <3> QED
      BY <2>5, <3>1, <3>3, <3>4 DEF Last
  <2>7. \A k \in live : k > q /\ k <= n => k \in ToSet(ids)
    <3> HIDE DEF ids
    <3> QED
      BY <1>3, <2>2, <2>5
  <2> QED
    BY <1>1, <1>3, <1>5, <2>1, <2>5, <2>6, <2>7
<1> QED
  BY <1>7, <1>8

\* The queues of a page come behind those that were seen before.
LEMMA Joined ==
  ASSUME NEW a \in Seq(Nat), NEW b \in Seq(Nat), Ordered(a), Ordered(b), NEW q \in Nat,
         \A i \in 1..Len(a) : a[i] <= q, \A i \in 1..Len(b) : b[i] > q
  PROVE  /\ a \o b \in Seq(Nat) /\ Ordered(a \o b)
         /\ \A i \in 1..Len(a \o b) : \/ i \in 1..Len(a) /\ (a \o b)[i] = a[i]
                                      \/ /\ i - Len(a) \in 1..Len(b)
                                         /\ (a \o b)[i] = b[i - Len(a)]
         /\ \A x : x \in ToSet(a) \/ x \in ToSet(b) => x \in ToSet(a \o b)
<1> DEFINE c == a \o b
<1>1. Len(a) \in Nat /\ Len(b) \in Nat /\ DOMAIN a = 1..Len(a) /\ DOMAIN b = 1..Len(b)
  BY LenProperties
<1>2. c \in Seq(Nat) /\ Len(c) = Len(a) + Len(b)
      /\ \A i \in 1..Len(c) : c[i] = IF i <= Len(a) THEN a[i] ELSE b[i - Len(a)]
  BY ConcatProperties
<1>3. DOMAIN c = 1..Len(c)
  BY <1>2, LenProperties
<1> HIDE DEF c
<1>4. \A i \in 1..Len(c) : i \in 1..Len(a) \/ (~(i <= Len(a)) /\ i - Len(a) \in 1..Len(b))
  BY <1>1, <1>2
<1>5. \A i \in 1..Len(a) : i \in 1..Len(c) /\ c[i] = a[i]
  BY <1>1, <1>2
<1>6. \A i \in 1..Len(b) : i + Len(a) \in 1..Len(c) /\ c[i + Len(a)] = b[i]
  <2> SUFFICES ASSUME NEW i \in 1..Len(b)
               PROVE  i + Len(a) \in 1..Len(c) /\ c[i + Len(a)] = b[i]
    OBVIOUS
  <2>1. i + Len(a) \in 1..Len(c) /\ ~(i + Len(a) <= Len(a)) /\ (i + Len(a)) - Len(a) = i
    BY <1>1, <1>2
  <2> QED
    BY <1>2, <2>1
<1>7. \A i \in 1..Len(c) : \/ i \in 1..Len(a) /\ c[i] = a[i]
                           \/ i - Len(a) \in 1..Len(b) /\ c[i] = b[i - Len(a)]
  BY <1>2, <1>4
<1>8. \A x : x \in ToSet(a) \/ x \in ToSet(b) => x \in ToSet(c)
  <2>1. \A i \in 1..Len(a) : a[i] \in ToSet(c)
    BY <1>3, <1>5 DEF ToSet
  <2>2. \A i \in 1..Len(b) : b[i] \in ToSet(c)
    BY <1>3, <1>6 DEF ToSet
  <2> QED
    BY <1>1, <2>1, <2>2 DEF ToSet
<1>9. Ordered(c)
  <2> SUFFICES ASSUME NEW i \in 1..Len(c), NEW j \in 1..Len(c), i < j PROVE c[i] < c[j]
    BY <1>3 DEF Ordered
  <2>1. CASE j <= Len(a)
    <3>1. i \in 1..Len(a) /\ j \in 1..Len(a)
      BY <1>1, <1>2, <2>1
    <3> QED
      BY <1>1, <1>5, <3>1 DEF Ordered
  <2>2. CASE ~(i <= Len(a))
    <3>1. i - Len(a) \in 1..Len(b) /\ j - Len(a) \in 1..Len(b) /\ i - Len(a) < j - Len(a)
      BY <1>1, <1>2, <2>2
    <3>2. b[i - Len(a)] < b[j - Len(a)]
      BY <1>1, <3>1 DEF Ordered
    <3>3. ~(j <= Len(a))
      BY <1>1, <2>2
    <3> QED
      BY <1>2, <2>2, <3>2, <3>3
  <2>3. CASE i <= Len(a) /\ ~(j <= Len(a))
    <3>1. i \in 1..Len(a) /\ j - Len(a) \in 1..Len(b)
      BY <1>1, <1>2, <2>3
    <3>2. a[i] <= q /\ b[j - Len(a)] > q /\ a[i] \in Nat /\ b[j - Len(a)] \in Nat
      BY <3>1, LenProperties
    <3>3. c[i] = a[i] /\ c[j] = b[j - Len(a)]
      BY <1>2, <2>3
    <3> QED
      BY <3>2, <3>3
  <2> QED
    BY <1>1, <1>2, <2>1, <2>2, <2>3
<1> QED
  BY <1>2, <1>7, <1>8, <1>9 DEF c

\* The first page of a walk.
LEMMA WalkBegins ==
  ASSUME Types
  PROVE  Covers(ListedAfter(0).ids, live, FindNextPage(ListedAfter(0).links))
<1>1. \A k \in live : k > 0
  BY DEF Types
<1>2. 0 \in Nat
  OBVIOUS
<1> QED
  BY <1>1, <1>2, PageListed DEF Covers

\* The page behind what was seen.
LEMMA WalkGoesOn ==
  ASSUME Types, NEW q \in Nat, NEW seen, NEW began, began \in SUBSET (1..Len(queues)),
         Covers(seen, began, <<q>>)
  PROVE  Covers(seen \o ListedAfter(q).ids, began, FindNextPage(ListedAfter(q).links))
<1> DEFINE ids == ListedAfter(q).ids
           next == FindNextPage(ListedAfter(q).links)
           all == seen \o ids
<1>1. /\ seen \in Seq(Nat) /\ Ordered(seen)
      /\ \A i \in 1..Len(seen) : seen[i] <= q
      /\ \A k \in began \cap live : k <= q => k \in ToSet(seen)
  <2>1. <<q>> # <<>> /\ \A n : <<q>> = <<n>> => q = n
    OBVIOUS
  <2> QED
    BY <2>1 DEF Covers
<1>2. /\ ids \in Seq(Nat) /\ Ordered(ids) /\ \A i \in 1..Len(ids) : ids[i] > q
      /\ \/ next = <<>> /\ \A k \in live : k > q => k \in ToSet(ids)
         \/ \E n \in Nat :
              /\ next = <<n>> /\ n > q
              /\ \A i \in 1..Len(ids) : ids[i] <= n
              /\ \A k \in live : k > q /\ k <= n => k \in ToSet(ids)
  BY PageListed
<1> HIDE DEF ids, next
<1>3. /\ all \in Seq(Nat) /\ Ordered(all)
      /\ \A i \in 1..Len(all) : \/ i \in 1..Len(seen) /\ all[i] = seen[i]
                                \/ /\ i - Len(seen) \in 1..Len(ids)
                                   /\ all[i] = ids[i - Len(seen)]
      /\ \A x : x \in ToSet(seen) \/ x \in ToSet(ids) => x \in ToSet(all)
  BY <1>1, <1>2, Joined
<1>4. \A k \in live : k \in Nat
  BY LenProperties DEF Types
<1> HIDE DEF all
<1>5. \A k \in began \cap live : k <= q \/ k > q
  BY <1>4
<1>6. CASE next = <<>> /\ \A k \in live : k > q => k \in ToSet(ids)
  <2>1. began \cap live \subseteq ToSet(all)
    BY <1>1, <1>3, <1>5, <1>6
  <2> QED
    BY <1>3, <1>6, <2>1 DEF Covers, all, ids, next
<1>7. ASSUME NEW n \in Nat, next = <<n>>, n > q,
             \A i \in 1..Len(ids) : ids[i] <= n,
             \A k \in live : k > q /\ k <= n => k \in ToSet(ids)
      PROVE  Covers(all, began, next)
  <2>1. \A k \in began \cap live : k <= n => k \in ToSet(all)
    BY <1>1, <1>3, <1>5, <1>7
  <2>2. \A i \in 1..Len(seen) : seen[i] <= n
    <3>1. \A i \in 1..Len(seen) : seen[i] \in Nat
      BY <1>1, LenProperties
    <3> QED
      BY <1>1, <1>7, <3>1
  <2>3. \A i \in 1..Len(all) : all[i] <= n
    BY <1>3, <1>7, <2>2
  <2> QED
    BY <1>3, <1>7, <2>1, <2>3 DEF Covers
<1> QED
  BY <1>2, <1>6, <1>7 DEF all, ids, next

-----------------------------------------------------------------------------
(* The locals of a command                                                 *)

\* How locals c are followed by d: at the command's end, with another pc, after
\* a table was shown, when a request is repeated, when messages have come; and
\* how they begin.
Ended(c, r, d)   == d = [c EXCEPT !.pc = "done", !.result = r]
Moved(c, pc, d)  == d = [c EXCEPT !.pc = pc]
Showed(c, h, d)  == d = [c EXCEPT !.pc = "save", !.table = MakeHistory(h)]
Repeated(c, d)   == d = [c EXCEPT !.again = TRUE]
TookAgain(c, s, d) == d = [c EXCEPT !.again = TRUE, !.taken = s]
Got(c, m, s, d)  == d = [c EXCEPT !.pc = "format", !.payload = m, !.taken = s]
Blanked(c, o, d) == d = [c EXCEPT !.pc = "request", !.before = o]
Asked(c, d)      == d = [c EXCEPT !.sure = TRUE]
AskedFor(c, x, y, sure, n, d) ==
  d = [c EXCEPT !.target = x, !.meant = y, !.sure = sure, !.limit = n]

\* What a command was begun with.
SameCall(c, d) ==
  /\ d.op = c.op /\ d.target = c.target /\ d.meant = c.meant /\ d.sure = c.sure
  /\ d.limit = c.limit /\ d.before = c.before

\* The command ends.
LEMMA Ends ==
  ASSUME NEW c, Command(c), NEW r, NEW d, Ended(c, r, d)
  PROVE  /\ Command(d) /\ SameCall(c, d) /\ d.pc = "done" /\ d.result = r
         /\ d.again = c.again /\ d.payload = c.payload /\ d.taken = c.taken
<1>1. HasLocals(d)
  BY DEF Ended, Command, HasLocals
<1>2. /\ SameCall(c, d) /\ d.pc = "done" /\ d.result = r /\ d.table = c.table
      /\ d.again = c.again /\ d.payload = c.payload /\ d.taken = c.taken
  BY DEF Ended, Command, HasLocals, SameCall
<1> QED
  BY <1>1, <1>2 DEF Command, SameCall

\* The command goes on.
LEMMA GoesOn ==
  ASSUME NEW c, Command(c), NEW pc, NEW d, Moved(c, pc, d)
  PROVE  /\ Command(d) /\ SameCall(c, d) /\ d.pc = pc /\ d.table = c.table
         /\ d.again = c.again /\ d.payload = c.payload /\ d.taken = c.taken
<1>1. HasLocals(d)
  BY DEF Moved, Command, HasLocals
<1>2. /\ SameCall(c, d) /\ d.pc = pc /\ d.table = c.table
      /\ d.again = c.again /\ d.payload = c.payload /\ d.taken = c.taken
  BY DEF Moved, Command, HasLocals, SameCall
<1> QED
  BY <1>1, <1>2 DEF Command, SameCall

\* It has shown a table.
LEMMA Shows ==
  ASSUME NEW c, Command(c), NEW h \in Seq(Item), NEW d, Showed(c, h, d)
  PROVE  Command(d) /\ SameCall(c, d) /\ d.pc = "save" /\ d.table = MakeHistory(h)
<1>1. MakeHistory(h).history = h
  BY DEF MakeHistory
<1>2. HasLocals(d)
  BY DEF Showed, Command, HasLocals
<1>3. /\ SameCall(c, d) /\ d.pc = "save" /\ d.table = MakeHistory(h)
      /\ d.payload = c.payload /\ d.taken = c.taken
  BY DEF Showed, Command, HasLocals, SameCall
<1> QED
  BY <1>1, <1>2, <1>3 DEF Command, SameCall

\* Its request is sent again.
LEMMA Repeats ==
  ASSUME NEW c, Command(c), NEW s \in Seq(Nat), NEW d,
         (Repeated(c, d) /\ s = c.taken) \/ TookAgain(c, s, d)
  PROVE  /\ Command(d) /\ SameCall(c, d) /\ d.pc = c.pc /\ d.again
         /\ d.taken = s /\ d.payload = c.payload /\ d.table = c.table /\ d.result = c.result
<1>1. HasLocals(d)
  BY DEF Repeated, TookAgain, Command, HasLocals
<1>2. /\ SameCall(c, d) /\ d.pc = c.pc /\ d.again
      /\ d.taken = s /\ d.payload = c.payload /\ d.table = c.table /\ d.result = c.result
  BY DEF Repeated, TookAgain, Command, HasLocals, SameCall
<1> QED
  BY <1>1, <1>2 DEF Command, SameCall

\* It has got messages.
LEMMA Gets ==
  ASSUME NEW c, Command(c), NEW m \in Seq(Nat), NEW s \in Seq(Nat), NEW d, Got(c, m, s, d)
  PROVE  /\ Command(d) /\ SameCall(c, d) /\ d.pc = "format" /\ d.again = c.again
         /\ d.payload = m /\ d.taken = s
<1>1. HasLocals(d)
  BY DEF Got, Command, HasLocals
<1>2. /\ SameCall(c, d) /\ d.pc = "format" /\ d.again = c.again
      /\ d.payload = m /\ d.taken = s /\ d.table = c.table
  BY DEF Got, Command, HasLocals, SameCall
<1> QED
  BY <1>1, <1>2 DEF Command, SameCall

\* A command that was never begun.
LEMMA NoCommand ==
  ASSUME NEW op, NEW r
  PROVE  /\ Command(Locals(op, r))
         /\ Locals(op, r).pc = "done" /\ Locals(op, r).op = op
         /\ ~Locals(op, r).again /\ Locals(op, r).taken = <<>>
         /\ Locals(op, r).target = NoItem /\ Locals(op, r).meant = NoItem
<1> DEFINE c == Locals(op, r)
<1>1. <<>> \in Seq(Item) /\ <<>> \in Seq(Nat) /\ NoItem \in Item /\ 1 \in Nat
  BY EmptySeq DEF NoItem, Item
<1>2. NoHistory.history = <<>> /\ NoHistory = MakeHistory(NoHistory.history)
  BY DEF NoHistory, MakeHistory
<1>3. HasLocals(c)
  BY DEF Locals, HasLocals
<1>4. /\ c.pc = "done" /\ c.op = op /\ c.table = NoHistory
      /\ ~c.again /\ c.taken = <<>> /\ c.target = NoItem
      /\ c.meant = NoItem /\ c.limit = 1 /\ c.payload = <<>>
  BY DEF Locals
<1> HIDE DEF c
<1>5. Command(c)
  BY <1>1, <1>2, <1>3, <1>4 DEF Command
<1> QED
  BY <1>4, <1>5 DEF c

\* One that was just begun.
LEMMA Begun ==
  ASSUME NEW op, NEW r, NEW o, NEW d, Blanked(Locals(op, r), o, d)
  PROVE  /\ Command(d) /\ d.pc = "request" /\ d.op = op /\ d.before = o
         /\ ~d.again /\ d.taken = <<>> /\ d.target = NoItem /\ d.meant = NoItem
<1>1. ASSUME NEW c, Command(c), Blanked(c, o, d)
      PROVE  /\ Command(d) /\ d.pc = "request" /\ d.op = c.op /\ d.before = o
             /\ d.again = c.again /\ d.taken = c.taken /\ d.target = c.target
             /\ d.meant = c.meant
  <2>1. HasLocals(d)
    BY <1>1 DEF Blanked, Command, HasLocals
  <2>2. /\ d.pc = "request" /\ d.op = c.op /\ d.before = o /\ d.limit = c.limit
        /\ d.again = c.again /\ d.taken = c.taken /\ d.target = c.target
        /\ d.meant = c.meant /\ d.payload = c.payload /\ d.table = c.table
    BY <1>1 DEF Blanked, Command, HasLocals
  <2> QED
    BY <1>1, <2>1, <2>2 DEF Command
<1> QED
  BY <1>1, NoCommand

\* One that was begun with what its argument stands for.
LEMMA BegunWith ==
  ASSUME NEW c, Command(c), NEW x \in Item, NEW y, NEW sure, NEW n \in Nat, NEW d,
         AskedFor(c, x, y, sure, n, d)
  PROVE  /\ Command(d) /\ d.target = x /\ d.meant = y /\ d.sure = sure
         /\ d.pc = c.pc /\ d.op = c.op /\ d.before = c.before /\ d.again = c.again
         /\ d.taken = c.taken
<1>1. HasLocals(d)
  BY DEF AskedFor, Command, HasLocals
<1>2. /\ d.target = x /\ d.meant = y /\ d.sure = sure /\ d.limit = n
      /\ d.pc = c.pc /\ d.op = c.op /\ d.before = c.before /\ d.again = c.again
      /\ d.taken = c.taken /\ d.payload = c.payload /\ d.table = c.table
  BY DEF AskedFor, Command, HasLocals
<1> QED
  BY <1>1, <1>2 DEF Command

\* One that needs no argument.
LEMMA BegunPlain ==
  ASSUME NEW c, Command(c), NEW d, Asked(c, d)
  PROVE  /\ Command(d) /\ d.target = c.target /\ d.meant = c.meant
         /\ d.pc = c.pc /\ d.op = c.op /\ d.before = c.before /\ d.again = c.again
         /\ d.taken = c.taken
<1>1. HasLocals(d)
  BY DEF Asked, Command, HasLocals
<1>2. /\ d.target = c.target /\ d.meant = c.meant /\ d.limit = c.limit
      /\ d.pc = c.pc /\ d.op = c.op /\ d.before = c.before /\ d.again = c.again
      /\ d.taken = c.taken /\ d.payload = c.payload /\ d.table = c.table
  BY DEF Asked, Command, HasLocals
<1> QED
  BY <1>1, <1>2 DEF Command

-----------------------------------------------------------------------------
(* QueueInv is inductive                                                   *)

\* A step of one terminal's command.
LEMMA OneStep ==
  ASSUME Types, NEW t \in Terminals, NEW d, Step(t, d), Command(d)
  PROVE  /\ cmd'[t] = d /\ \A u \in Terminals : u # t => cmd'[u] = cmd[u]
         /\ cmd' = [u \in Terminals |-> cmd'[u]] /\ \A u \in Terminals : Command(cmd'[u])
<1>1. cmd = [u \in Terminals |-> cmd[u]] /\ cmd' = [cmd EXCEPT ![t] = d]
  BY DEF Types, Step
<1>2. DOMAIN cmd = Terminals
  BY <1>1
<1>3. cmd' = [u \in Terminals |-> IF u = t THEN d ELSE cmd[u]]
  BY <1>1, <1>2
<1>4. cmd'[t] = d /\ \A u \in Terminals : u # t => cmd'[u] = cmd[u]
  BY <1>3
<1>5. cmd' = [u \in Terminals |-> cmd'[u]]
  BY <1>3
<1>6. \A u \in Terminals : Command(cmd'[u])
  BY <1>4 DEF Types
<1> QED
  BY <1>4, <1>5, <1>6

\* One that neither prints nor touches a file, but perhaps the queues.
LEMMA ServiceStep ==
  ASSUME QueueInv, NEW t \in Terminals, NEW d, Step(t, d), Command(d),
         UNCHANGED <<file, out, shown, stale, walk>>,
         queues' \in Seq(Seq(Nat)), Len(queues) <= Len(queues'),
         live' \in SUBSET (1..Len(queues')),
         \A q \in live' : q \in 1..Len(queues) => q \in live,
         accepted' \in Nat, InOrder',
         d.pc \notin {"save", "write"},
         d.pc # "done" /\ d.sure => d.target = d.meant,
         Dequeued(d, out[t])
  PROVE  QueueInv'
<1>1. /\ cmd'[t] = d /\ \A u \in Terminals : u # t => cmd'[u] = cmd[u]
      /\ cmd' = [u \in Terminals |-> cmd'[u]] /\ \A u \in Terminals : Command(cmd'[u])
  BY OneStep DEF QueueInv
<1>2. Types'
  BY <1>1 DEF QueueInv, Types
<1>3. ASSUME NEW u \in Terminals
      PROVE  Tokens(u)' /\ Dequeued(cmd'[u], out'[u])
  BY <1>1 DEF QueueInv, Tokens
<1>4. ASSUME NEW u \in Terminals PROVE Walked(walk[u])'
  <2> DEFINE w == walk[u]
  <2>1. Walked(w)
    BY DEF QueueInv
  <2>2. Len(queues) \in Nat /\ Len(queues') \in Nat
    BY LenProperties DEF QueueInv, Types
  <2>3. walk'[u] = w
    OBVIOUS
  <2> HIDE DEF w
  <2>4. w.began \in SUBSET (1..Len(queues'))
    BY <2>1, <2>2 DEF Walked
  <2>5. w.began \cap live' \subseteq w.began \cap live
    BY <2>1 DEF Walked
  <2>6. w.sure => Covers(w.seen, w.began, w.next)'
    <3> SUFFICES ASSUME w.sure PROVE Covers(w.seen, w.began, w.next)'
      BY <2>3 DEF w
    <3>1. Covers(w.seen, w.began, w.next)
      BY <2>1 DEF Walked
    <3>2. w'.seen = w.seen /\ w'.began = w.began /\ w'.next = w.next
      BY <2>3 DEF w
    <3> QED
      BY <2>5, <3>1, <3>2 DEF Covers
  <2> QED
    BY <2>3, <2>4, <2>6 DEF Walked, w
<1> QED
  BY <1>2, <1>3, <1>4 DEF QueueInv

\* One that leaves the queues alone as well.
LEMMA QuietStep ==
  ASSUME QueueInv, NEW t \in Terminals, NEW d, Step(t, d), Command(d),
         UNCHANGED <<file, out, shown, stale, walk, queues, live, accepted>>,
         d.pc \notin {"save", "write"},
         d.pc # "done" /\ d.sure => d.target = d.meant,
         Dequeued(d, out[t])
  PROVE  QueueInv'
<1>1. /\ queues' \in Seq(Seq(Nat)) /\ Len(queues) <= Len(queues')
      /\ live' \in SUBSET (1..Len(queues')) /\ accepted' \in Nat /\ InOrder'
      /\ \A q \in live' : q \in 1..Len(queues) => q \in live
  BY LenProperties DEF QueueInv, Types, InOrder
<1> QED
  BY <1>1, ServiceStep

\* `queue list` and `queue create` begin.
LEMMA BeginPlainInv ==
  ASSUME QueueInv, NEW t \in Terminals, NEW op \in {"list", "create"}, BeginPlain(t, op)
  PROVE  QueueInv'
<1> PICK none : none = "none"
  OBVIOUS
<1> PICK c : Blanked(Locals(op, none), out[t], c) /\ c = Blank(t, op)
  BY Zenon DEF Blanked, Blank
<1> PICK d : Asked(c, d)
  BY Zenon DEF Asked
<1>1. /\ Step(t, d)
      /\ UNCHANGED <<file, out, shown, stale, walk, queues, live, accepted>>
  BY DEF BeginPlain, Ready, service, screen, Asked
<1>2. /\ Command(c) /\ c.pc = "request" /\ c.op = op
      /\ c.target = NoItem /\ c.meant = NoItem
  BY Begun
<1>3. /\ Command(d) /\ d.pc = "request" /\ d.op = op /\ d.target = d.meant
  BY <1>2, BegunPlain
<1>4. Dequeued(d, out[t])
  BY <1>3 DEF Dequeued
<1> QED
  BY <1>1, <1>3, <1>4, QuietStep

\* A command with an argument begins.
LEMMA BeginWithInv ==
  ASSUME QueueInv, NEW t \in Terminals, NEW op, NEW entry \in ToSet(shown[t]),
         NEW limit \in Nat, BeginWith(t, op, entry, limit)
  PROVE  QueueInv'
<1> PICK none : none = "none"
  OBVIOUS
<1> PICK c : Blanked(Locals(op, none), out[t], c) /\ c = Blank(t, op)
  BY Zenon DEF Blanked, Blank
<1> PICK x : x = GetHistory(entry.token)
  OBVIOUS
<1> PICK sure : sure = (t \notin stale)
  OBVIOUS
<1> PICK b : AskedFor(c, x, entry.item, sure, limit, b)
  BY Zenon DEF AskedFor
<1> PICK e : Ended(b, "failed", e)
  BY Zenon DEF Ended
<1>1. /\ Step(t, IF x # NoItem THEN b ELSE e)
      /\ UNCHANGED <<file, out, shown, stale, walk, queues, live, accepted>>
  BY DEF BeginWith, Ready, service, screen, AskedFor, Ended
<1>2. x \in Item
  <2>1. NoItem \in Item
    BY DEF NoItem, Item
  <2>2. \A i \in DOMAIN file : file[i] \in Item
    BY LenProperties DEF QueueInv, Types
  <2> QED
    BY <2>1, <2>2 DEF GetHistory
<1>3. /\ Command(c) /\ c.pc = "request" /\ c.op = op /\ c.before = out[t]
      /\ ~c.again /\ c.taken = <<>>
  BY Begun
<1>4. /\ Command(b) /\ b.target = x /\ b.meant = entry.item /\ b.sure = sure
      /\ b.pc = "request" /\ b.op = op /\ b.before = out[t] /\ ~b.again
      /\ b.taken = <<>>
  BY <1>2, <1>3, BegunWith
<1>5. CASE x # NoItem
  <2>1. sure => x = entry.item
    <3>1. PICK i \in DOMAIN shown[t] : entry = shown[t][i]
      BY DEF ToSet
    <3>2. entry.token \in DOMAIN file /\ x = file[entry.token]
      BY <1>5 DEF GetHistory
    <3>3. t \notin stale => Means(shown[t], file)
      BY DEF QueueInv, Tokens
    <3> QED
      BY <3>1, <3>2, <3>3 DEF Means
  <2>2. Dequeued(b, out[t])
    BY <1>4 DEF Dequeued
  <2>3. Step(t, b)
    BY <1>1, <1>5
  <2> QED
    BY <1>1, <1>4, <2>1, <2>2, <2>3, QuietStep
<1>6. CASE x = NoItem
  <2>1. Command(e) /\ SameCall(b, e) /\ e.pc = "done" /\ e.result = "failed"
    BY <1>4, Ends
  <2>2. Dequeued(e, out[t])
    BY <1>4, <2>1 DEF Dequeued, SameCall
  <2>3. Step(t, e)
    BY <1>1, <1>6
  <2> QED
    BY <1>1, <2>1, <2>2, <2>3, QuietStep
<1> QED
  BY <1>5, <1>6

\* A command that ends without having written anything.
LEMMA EndInv ==
  ASSUME QueueInv, NEW t \in Terminals, NEW r, End(t, r),
         UNCHANGED <<file, out, shown, stale, walk, queues, live, accepted>>,
         \/ cmd[t].op # "dequeue"
         \/ cmd[t].pc \in {"request", "format"} /\ r = "failed"
         \/ r = "cut"
  PROVE  QueueInv'
<1> PICK d : Ended(cmd[t], r, d)
  BY Zenon DEF Ended
<1>1. Step(t, d) /\ Command(cmd[t])
  BY DEF End, Ended, QueueInv, Types
<1>2. Command(d) /\ SameCall(cmd[t], d) /\ d.pc = "done" /\ d.result = r
  BY <1>1, Ends
<1>3. Dequeued(cmd[t], out[t])
  BY DEF QueueInv
<1>4. Dequeued(d, out[t])
  BY <1>2, <1>3 DEF Dequeued, SameCall
<1> QED
  BY <1>1, <1>2, <1>4, QuietStep

\* A command fails, shows something without tokens, or has nothing to write.
LEMMA FailInv ==
  ASSUME QueueInv, NEW t \in Terminals, Fail(t) \/ ShowPlain(t) \/ FormatFails(t)
  PROVE  QueueInv'
<1>1. UNCHANGED <<file, out, shown, stale, walk, queues, live, accepted>>
  BY DEF Fail, ShowPlain, FormatFails, service, screen
<1>2. ASSUME Fail(t) PROVE QueueInv'
  <2>1. Dequeued(cmd[t], out[t]) /\ Tokens(t) /\ cmd[t].pc # "done"
    BY <1>2 DEF QueueInv, Fail
  <2>2. cmd[t].op = "dequeue" => cmd[t].pc \in {"request", "format", "fill"}
    BY <2>1 DEF Tokens, Dequeued
  <2>3. End(t, IF cmd[t].pc = "fill" THEN "cut" ELSE "failed")
    BY <1>2 DEF Fail
  <2>4. CASE cmd[t].pc = "fill"
    BY <1>1, <2>3, <2>4, EndInv
  <2>5. CASE cmd[t].pc # "fill"
    BY <1>1, <2>2, <2>3, <2>5, EndInv
  <2> QED
    BY <2>4, <2>5
<1>3. ASSUME ShowPlain(t) PROVE QueueInv'
  BY <1>1, <1>3, EndInv DEF ShowPlain, At
<1>4. ASSUME FormatFails(t) PROVE QueueInv'
  BY <1>1, <1>4, EndInv DEF FormatFails, At
<1> QED
  BY <1>2, <1>3, <1>4

-----------------------------------------------------------------------------
(* Steps of the queue commands                                             *)

\* A request that is no dequeue is answered, or sent again.
LEMMA Replies ==
  ASSUME QueueInv, NEW t \in Terminals, Answered(t), cmd[t].pc = "request",
         cmd[t].op # "dequeue"
  PROVE  \E d : /\ Step(t, d) /\ Command(d) /\ d.pc \notin {"save", "write"}
                /\ d.pc # "done" /\ d.sure => d.target = d.meant
                /\ Dequeued(d, out[t])
<1>1. Command(cmd[t]) /\ Tokens(t)
  BY DEF QueueInv, Types
<1>2. CASE End(t, "ok")
  <2> PICK d : Ended(cmd[t], "ok", d)
    BY Zenon DEF Ended
  <2>1. Step(t, d)
    BY <1>2 DEF End, Ended
  <2>2. Command(d) /\ d.pc = "done" /\ SameCall(cmd[t], d)
    BY <1>1, Ends
  <2>3. Dequeued(d, out[t])
    BY <2>2 DEF Dequeued, SameCall
  <2> QED
    BY <2>1, <2>2, <2>3
<1>3. CASE Step(t, [cmd[t] EXCEPT !.again = TRUE])
  <2> PICK d : Repeated(cmd[t], d)
    BY Zenon DEF Repeated
  <2>1. Step(t, d)
    BY <1>3 DEF Repeated
  <2>2. cmd[t].taken \in Seq(Nat)
    BY <1>1 DEF Command
  <2>3. Command(d) /\ d.pc = "request" /\ SameCall(cmd[t], d)
    BY <1>1, <2>2, Repeats
  <2>4. Dequeued(d, out[t])
    BY <2>3 DEF Dequeued, SameCall
  <2>5. d.sure => d.target = d.meant
    BY <1>1, <2>3 DEF Tokens, SameCall
  <2> QED
    BY <2>1, <2>3, <2>4, <2>5
<1> QED
  BY <1>2, <1>3 DEF Answered

\* A queue is created.
LEMMA CreateQueueInv ==
  ASSUME QueueInv, NEW t \in Terminals, CreateQueue(t)
  PROVE  QueueInv'
<1>1. /\ queues' = Append(queues, <<>>) /\ live' = live \cup {Len(queues) + 1}
      /\ UNCHANGED <<file, out, shown, stale, walk>> /\ accepted' = accepted
      /\ Answered(t) /\ cmd[t].pc = "request" /\ cmd[t].op # "dequeue"
  BY DEF CreateQueue, At, screen
<1>2. /\ queues \in Seq(Seq(Nat)) /\ Len(queues) \in Nat /\ live \in SUBSET (1..Len(queues))
      /\ accepted \in Nat /\ <<>> \in Seq(Nat) /\ Len(<<>>) = 0
  BY LenProperties, EmptySeq DEF QueueInv, Types
<1>3. /\ queues' \in Seq(Seq(Nat)) /\ Len(queues') = Len(queues) + 1
      /\ \A q \in 1..Len(queues) : queues'[q] = queues[q]
      /\ queues'[Len(queues) + 1] = <<>>
  BY <1>1, <1>2, AppendProperties
<1>4. live' \in SUBSET (1..Len(queues'))
      /\ \A q \in live' : q \in 1..Len(queues) => q \in live
  <2>1. Len(queues) + 1 \notin 1..Len(queues) /\ Len(queues) + 1 \in 1..Len(queues')
    BY <1>2, <1>3
  <2>2. \A q \in 1..Len(queues) : q \in 1..Len(queues')
    BY <1>2, <1>3
  <2> QED
    BY <1>1, <1>2, <2>1, <2>2
<1>5. InOrder'
  <2> SUFFICES ASSUME NEW q \in 1..Len(queues')
               PROVE  /\ Ordered(queues'[q])
                      /\ \A i \in 1..Len(queues'[q]) : queues'[q][i] <= accepted
    BY <1>1 DEF InOrder, Ordered
  <2>1. CASE q \in 1..Len(queues)
    BY <1>3, <2>1 DEF QueueInv, InOrder
  <2>2. CASE q = Len(queues) + 1
    <3>1. queues'[q] = <<>>
      BY <1>3, <2>2
    <3> QED
      BY <1>2, <3>1 DEF Ordered
  <2> QED
    BY <1>2, <1>3, <2>1, <2>2
<1> QED
  BY <1>1, <1>2, <1>3, <1>4, <1>5, Replies, ServiceStep

\* One queue gets other messages.
LEMMA OtherMessages ==
  ASSUME QueueInv, NEW q \in 1..Len(queues), NEW s \in Seq(Nat), Ordered(s),
         queues' = [queues EXCEPT ![q] = s], live' = live, accepted' \in Nat,
         accepted <= accepted', \A i \in 1..Len(s) : s[i] <= accepted'
  PROVE  /\ queues' \in Seq(Seq(Nat)) /\ Len(queues') = Len(queues) /\ Len(queues) \in Nat
         /\ live' \in SUBSET (1..Len(queues'))
         /\ \A k \in live' : k \in 1..Len(queues) => k \in live
         /\ InOrder'
<1>1. /\ queues \in Seq(Seq(Nat)) /\ Len(queues) \in Nat /\ accepted \in Nat
      /\ live \in SUBSET (1..Len(queues))
  BY LenProperties DEF QueueInv, Types
<1>2. /\ queues' \in Seq(Seq(Nat)) /\ Len(queues') = Len(queues)
      /\ \A k \in 1..Len(queues) : queues'[k] = IF k = q THEN s ELSE queues[k]
  BY <1>1, ExceptSeq
<1>3. ASSUME NEW k \in 1..Len(queues)
      PROVE  /\ Ordered(queues'[k])
             /\ \A i \in 1..Len(queues'[k]) : queues'[k][i] <= accepted'
  <2>1. CASE k = q
    BY <1>2, <2>1
  <2>2. CASE k # q
    <3>1. queues'[k] = queues[k] /\ queues[k] \in Seq(Nat)
      BY <1>1, <1>2, <2>2, LenProperties
    <3>2. /\ Ordered(queues[k])
          /\ \A i \in 1..Len(queues[k]) : queues[k][i] <= accepted /\ queues[k][i] \in Nat
      BY <3>1, LenProperties DEF QueueInv, InOrder
    <3>3. \A i \in 1..Len(queues[k]) : queues[k][i] <= accepted'
      BY <1>1, <3>2
    <3> QED
      BY <3>1, <3>2, <3>3
  <2> QED
    BY <2>1, <2>2
<1>4. InOrder'
  BY <1>2, <1>3 DEF InOrder, Ordered
<1> QED
  BY <1>1, <1>2, <1>4

\* A message is accepted.
LEMMA EnqueueInv ==
  ASSUME QueueInv, NEW t \in Terminals, Enqueue(t)
  PROVE  QueueInv'
<1>1. PICK q \in Targets(t) : queues' = [queues EXCEPT ![q] = Append(@, accepted + 1)]
  BY DEF Enqueue
<1>2. /\ accepted' = accepted + 1 /\ live' = live
      /\ UNCHANGED <<file, out, shown, stale, walk>>
      /\ Answered(t) /\ cmd[t].pc = "request" /\ cmd[t].op # "dequeue"
  BY DEF Enqueue, At, screen
<1>3. q \in 1..Len(queues) /\ accepted \in Nat /\ queues \in Seq(Seq(Nat))
  BY DEF Targets, QueueInv, Types
<1> DEFINE m == queues[q]
           s == Append(m, accepted + 1)
<1>4. m \in Seq(Nat) /\ Len(m) \in Nat /\ DOMAIN m = 1..Len(m)
  BY <1>3, LenProperties
<1>5. Ordered(m) /\ \A i \in 1..Len(m) : m[i] <= accepted /\ m[i] \in Nat
  BY <1>3, <1>4, LenProperties DEF QueueInv, InOrder
<1>6. queues' = [queues EXCEPT ![q] = s]
  BY <1>1
<1> HIDE DEF m
<1>7. /\ s \in Seq(Nat) /\ Len(s) = Len(m) + 1
      /\ \A i \in 1..Len(m) : s[i] = m[i]
      /\ s[Len(m) + 1] = accepted + 1
  BY <1>3, <1>4, AppendProperties
<1>8. DOMAIN s = 1..Len(s)
  BY <1>7, LenProperties
<1> HIDE DEF s
<1>9. \A i \in 1..Len(s) : i \in 1..Len(m) \/ i = Len(m) + 1
  BY <1>4, <1>7
<1>10. \A i \in 1..Len(m) : m[i] < accepted + 1
  <2>1. \A a, b \in Nat : a <= b => a < b + 1
    OBVIOUS
  <2> QED
    BY <1>3, <1>5, <2>1
<1>11. \A i \in 1..Len(s) : s[i] <= accepted'
  <2> SUFFICES ASSUME NEW i \in 1..Len(s) PROVE s[i] <= accepted + 1
    BY <1>2
  <2>1. CASE i \in 1..Len(m)
    <3>1. s[i] = m[i] /\ m[i] < accepted + 1 /\ m[i] \in Nat
      BY <1>5, <1>7, <1>10, <2>1
    <3> QED
      BY <1>3, <3>1
  <2>2. CASE i = Len(m) + 1
    BY <1>3, <1>7, <2>2
  <2> QED
    BY <1>9, <2>1, <2>2
<1>12. Ordered(s)
  <2> SUFFICES ASSUME NEW i \in 1..Len(s), NEW j \in 1..Len(s), i < j PROVE s[i] < s[j]
    BY <1>8 DEF Ordered
  <2>1. i \in 1..Len(m)
    BY <1>4, <1>7
  <2>2. CASE j \in 1..Len(m)
    BY <1>4, <1>5, <1>7, <2>1, <2>2 DEF Ordered
  <2>3. CASE j = Len(m) + 1
    BY <1>7, <1>10, <2>1, <2>3
  <2> QED
    BY <1>9, <2>2, <2>3
<1>13. accepted' \in Nat /\ accepted <= accepted'
  BY <1>2, <1>3
<1>14. /\ queues' \in Seq(Seq(Nat)) /\ Len(queues') = Len(queues) /\ Len(queues) \in Nat
       /\ live' \in SUBSET (1..Len(queues'))
       /\ \A k \in live' : k \in 1..Len(queues) => k \in live
       /\ InOrder'
  BY <1>2, <1>3, <1>6, <1>7, <1>11, <1>12, <1>13, OtherMessages
<1>15. Len(queues) <= Len(queues')
  BY <1>14
<1> QED
  BY <1>2, <1>13, <1>14, <1>15, Replies, ServiceStep

\* A queue is deleted.
LEMMA DeleteQueueInv ==
  ASSUME QueueInv, NEW t \in Terminals, DeleteQueue(t)
  PROVE  QueueInv'
<1>1. /\ \E q \in Targets(t) : live' = live \ {q}
      /\ UNCHANGED <<file, out, shown, stale, walk, queues, accepted>>
      /\ Answered(t) /\ cmd[t].pc = "request" /\ cmd[t].op # "dequeue"
  BY DEF DeleteQueue, At, screen
<1>2. /\ queues' \in Seq(Seq(Nat)) /\ Len(queues) <= Len(queues')
      /\ live' \in SUBSET (1..Len(queues')) /\ accepted' \in Nat
      /\ \A q \in live' : q \in 1..Len(queues) => q \in live
  BY <1>1, LenProperties DEF QueueInv, Types
<1>3. InOrder'
  BY <1>1 DEF QueueInv, InOrder, Ordered
<1> QED
  BY <1>1, <1>2, <1>3, Replies, ServiceStep

\* A part of an ordered sequence is ordered.
LEMMA PartOf ==
  ASSUME NEW s \in Seq(Nat), Ordered(s), NEW a \in Nat, NEW b \in Nat, a >= 1, b <= Len(s)
  PROVE  /\ SubSeq(s, a, b) \in Seq(Nat) /\ Ordered(SubSeq(s, a, b))
         /\ Len(SubSeq(s, a, b)) = IF a <= b THEN b - a + 1 ELSE 0
         /\ \A i \in 1..Len(SubSeq(s, a, b)) :
              \E j \in 1..Len(s) : SubSeq(s, a, b)[i] = s[j]
<1> DEFINE r == SubSeq(s, a, b)
<1>1. Len(s) \in Nat /\ DOMAIN s = 1..Len(s) /\ \A i \in 1..Len(s) : s[i] \in Nat
  BY LenProperties
<1>2. \A i \in a..b : s[i] \in Nat
  BY <1>1
<1>3. r \in Seq(Nat) /\ Len(r) = (IF a <= b THEN b - a + 1 ELSE 0)
      /\ \A i \in 1..b - a + 1 : r[i] = s[a + i - 1]
  BY <1>2, SubSeqProperties
<1>4. DOMAIN r = 1..Len(r)
  BY <1>3, LenProperties
<1> HIDE DEF r
<1>5. \A i \in 1..Len(r) : a + i - 1 \in 1..Len(s) /\ r[i] = s[a + i - 1]
  BY <1>1, <1>3
<1>6. Ordered(r)
  <2> SUFFICES ASSUME NEW i \in 1..Len(r), NEW j \in 1..Len(r), i < j PROVE r[i] < r[j]
    BY <1>4 DEF Ordered
  <2>1. a + i - 1 < a + j - 1
    BY <1>3
  <2> QED
    BY <1>1, <1>5, <2>1 DEF Ordered
<1> QED
  BY <1>3, <1>5, <1>6 DEF r

\* What was appended is a suffix.
LEMMA SuffixOf ==
  ASSUME NEW a \in Seq(Nat), NEW b \in Seq(Nat)
  PROVE  IsSuffix(b, a \o b)
<1> DEFINE c == a \o b
           m == Len(a)
           n == Len(b)
           rb == Reverse(b)
           rc == Reverse(c)
<1>1. m \in Nat /\ n \in Nat
  BY LenProperties
<1>2. c \in Seq(Nat) /\ Len(c) = m + n
      /\ \A i \in 1..m + n : c[i] = IF i <= m THEN a[i] ELSE b[i - m]
  BY ConcatProperties
<1> HIDE DEF c, m, n
<1>3. /\ rb = [i \in 1..n |-> b[(n - i) + 1]]
      /\ rc = [i \in 1..m + n |-> c[((m + n) - i) + 1]]
  BY <1>2 DEF Reverse, n
<1>4. \A i \in 1..n : rb[i] \in Nat
  <2>1. \A i \in 1..n : (n - i) + 1 \in 1..n
    BY <1>1
  <2>2. \A i \in 1..n : b[i] \in Nat
    BY LenProperties DEF n
  <2> QED
    BY <1>3, <2>1, <2>2
<1>5. \A i \in 1..n : rc[i] = rb[i]
  <2> SUFFICES ASSUME NEW i \in 1..n PROVE rc[i] = rb[i]
    OBVIOUS
  <2>1. i \in 1..m + n /\ rc[i] = c[((m + n) - i) + 1] /\ rb[i] = b[(n - i) + 1]
    BY <1>1, <1>3
  <2>2. /\ ((m + n) - i) + 1 \in 1..m + n /\ ~(((m + n) - i) + 1 <= m)
        /\ (((m + n) - i) + 1) - m = (n - i) + 1
    BY <1>1
  <2>3. c[((m + n) - i) + 1] = b[(((m + n) - i) + 1) - m]
    BY <1>2, <2>2
  <2> QED
    BY <2>1, <2>2, <2>3
<1>6. Len(rb) = n /\ Len(rc) = m + n
  BY <1>1, <1>3
<1> HIDE DEF rb, rc
<1>7. \A i \in 1..n : rc[i] \in Nat
  BY <1>4, <1>5
<1>8. SubSeq(rb, 1, n) = SubSeq(rc, 1, n)
  <2>1. /\ SubSeq(rb, 1, n) \in Seq(Nat)
        /\ Len(SubSeq(rb, 1, n)) = IF 1 <= n THEN n - 1 + 1 ELSE 0
        /\ \A i \in 1..n - 1 + 1 : SubSeq(rb, 1, n)[i] = rb[1 + i - 1]
    BY <1>1, <1>4, SubSeqProperties
  <2>2. /\ SubSeq(rc, 1, n) \in Seq(Nat)
        /\ Len(SubSeq(rc, 1, n)) = IF 1 <= n THEN n - 1 + 1 ELSE 0
        /\ \A i \in 1..n - 1 + 1 : SubSeq(rc, 1, n)[i] = rc[1 + i - 1]
    BY <1>1, <1>7, SubSeqProperties
  <2>3. n - 1 + 1 = n /\ \A i \in 1..n : 1 + i - 1 = i
    BY <1>1
  <2>4. Len(SubSeq(rb, 1, n)) = n /\ Len(SubSeq(rc, 1, n)) = n
    BY <1>1, <2>1, <2>2
  <2>5. \A i \in 1..n : SubSeq(rb, 1, n)[i] = SubSeq(rc, 1, n)[i]
    BY <1>5, <2>1, <2>2, <2>3
  <2> QED
    BY <2>1, <2>2, <2>4, <2>5, SeqEqual
<1>9. n <= m + n
  BY <1>1
<1>10. IsPrefix(rb, rc)
  BY <1>6, <1>8, <1>9 DEF IsPrefix
<1> QED
  BY <1>10 DEF IsSuffix, rb, rc, c

\* Messages are taken out.
LEMMA DequeueInv ==
  ASSUME QueueInv, NEW t \in Terminals, Dequeue(t)
  PROVE  QueueInv'
<1> PICK c : c = cmd[t]
  OBVIOUS
<1>1. /\ c.op = "dequeue" /\ c.pc = "request"
      /\ UNCHANGED <<file, out, shown, stale, walk>> /\ accepted' = accepted /\ live' = live
  BY DEF Dequeue, At, screen
<1>2. PICK q \in Targets(t) :
        LET n == Min({Max({c.limit, 1}), Len(queues[q])})
            messages == SubSeq(queues[q], 1, n)
            taken == c.taken \o messages
        IN  /\ queues' = [queues EXCEPT ![q] = SubSeq(@, n + 1, Len(@))]
            /\ \/ /\ Step(t, [cmd[t] EXCEPT !.pc = "format", !.payload = messages,
                                            !.taken = taken])
                  /\ UNCHANGED faults
               \/ Fault /\ Step(t, [cmd[t] EXCEPT !.again = TRUE, !.taken = taken])
  BY DEF Dequeue
<1> DEFINE m == queues[q]
           n == Min({Max({c.limit, 1}), Len(m)})
           got == SubSeq(m, 1, n)
           rest == SubSeq(m, n + 1, Len(m))
           taken == c.taken \o got
<1>3. /\ queues' = [queues EXCEPT ![q] = rest]
      /\ \/ Step(t, [cmd[t] EXCEPT !.pc = "format", !.payload = got, !.taken = taken])
         \/ Step(t, [cmd[t] EXCEPT !.again = TRUE, !.taken = taken])
  BY <1>2
<1>4. /\ Command(c) /\ Tokens(t) /\ Dequeued(c, out[t])
      /\ q \in 1..Len(queues) /\ accepted \in Nat /\ queues \in Seq(Seq(Nat))
  BY DEF Targets, QueueInv, Types
<1>5. m \in Seq(Nat) /\ Len(m) \in Nat
  BY <1>4, LenProperties
<1>6. Ordered(m) /\ \A i \in 1..Len(m) : m[i] <= accepted
  BY <1>4 DEF QueueInv, InOrder
<1> HIDE DEF m
<1>7. /\ Max({c.limit, 1}) \in Nat /\ n \in Nat /\ n <= Len(m) /\ n <= Max({c.limit, 1})
  <2>1. c.limit \in Nat
    BY <1>4 DEF Command
  <2>2. Max({c.limit, 1}) \in Nat
    BY <2>1, MaxOfTwo
  <2> QED
    BY <1>5, <2>2, MinOfTwo
<1> HIDE DEF n
<1>8. got \in Seq(Nat) /\ Ordered(got) /\ Len(got) <= Max({c.limit, 1})
  <2>1. got \in Seq(Nat) /\ Ordered(got) /\ Len(got) = IF 1 <= n THEN n - 1 + 1 ELSE 0
    BY <1>5, <1>6, <1>7, PartOf
  <2>2. Len(got) = n
    BY <1>7, <2>1
  <2> QED
    BY <1>7, <2>1, <2>2
<1>9. rest \in Seq(Nat) /\ Ordered(rest) /\ \A i \in 1..Len(rest) : rest[i] <= accepted
  <2> DEFINE From(r) == /\ r \in Seq(Nat) /\ Ordered(r)
                        /\ \A i \in 1..Len(r) : \E j \in 1..Len(m) : r[i] = m[j]
  <2>1. ASSUME NEW a \in Nat, NEW b \in Nat, a >= 1, b <= Len(m)
        PROVE  From(SubSeq(m, a, b))
    BY <1>5, <1>6, <2>1, PartOf
  <2>2. n + 1 \in Nat /\ n + 1 >= 1 /\ Len(m) <= Len(m)
    BY <1>5, <1>7
  <2> HIDE DEF From
  <2>3. From(rest)
    BY <1>5, <2>1, <2>2
  <2> HIDE DEF rest
  <2> QED
    BY <1>6, <2>3 DEF From
<1> HIDE DEF got, rest
<1>10. taken \in Seq(Nat) /\ IsSuffix(got, taken) /\ (~c.again => got = taken)
  <2>1. c.taken \in Seq(Nat) /\ (~c.again => c.taken = <<>>)
    BY <1>1, <1>4 DEF Command, Dequeued
  <2>2. <<>> \o got = got
    BY <1>8, ConcatEmptySeq
  <2> QED
    BY <1>8, <2>1, <2>2, SuffixOf, ConcatProperties
<1> HIDE DEF taken
<1>11. \E d : /\ Step(t, d) /\ Command(d) /\ d.pc \notin {"save", "write"}
              /\ d.pc # "done" /\ d.sure => d.target = d.meant
              /\ Dequeued(d, out[t])
  <2>1. CASE Step(t, [cmd[t] EXCEPT !.pc = "format", !.payload = got, !.taken = taken])
    <3> PICK d : Got(c, got, taken, d)
      BY Zenon DEF Got
    <3>1. Step(t, d)
      BY <2>1 DEF Got
    <3>2. /\ Command(d) /\ SameCall(c, d) /\ d.pc = "format" /\ d.again = c.again
          /\ d.payload = got /\ d.taken = taken
      BY <1>4, <1>8, <1>10, Gets
    <3>3. LastTaken(d, d.payload)
      BY <1>8, <1>10, <3>2 DEF LastTaken, SameCall
    <3>4. Dequeued(d, out[t])
      BY <1>1, <1>4, <3>2, <3>3 DEF Dequeued, SameCall
    <3>5. d.sure => d.target = d.meant
      BY <1>1, <1>4, <3>2 DEF Tokens, SameCall
    <3> QED
      BY <3>1, <3>2, <3>4, <3>5
  <2>2. CASE Step(t, [cmd[t] EXCEPT !.again = TRUE, !.taken = taken])
    <3> PICK d : TookAgain(c, taken, d)
      BY Zenon DEF TookAgain
    <3>1. Step(t, d)
      BY <2>2 DEF TookAgain
    <3>2. Command(d) /\ SameCall(c, d) /\ d.pc = "request" /\ d.again
      BY <1>1, <1>4, <1>10, Repeats
    <3>3. Dequeued(d, out[t])
      BY <1>1, <1>4, <3>2 DEF Dequeued, SameCall
    <3>4. d.sure => d.target = d.meant
      BY <1>1, <1>4, <3>2 DEF Tokens, SameCall
    <3> QED
      BY <3>1, <3>2, <3>3, <3>4
  <2> QED
    BY <1>3, <2>1, <2>2
<1>12. /\ accepted' \in Nat /\ accepted <= accepted'
       /\ \A i \in 1..Len(rest) : rest[i] <= accepted'
  BY <1>1, <1>4, <1>9
<1>13. /\ queues' \in Seq(Seq(Nat)) /\ Len(queues') = Len(queues) /\ Len(queues) \in Nat
       /\ live' \in SUBSET (1..Len(queues'))
       /\ \A k \in live' : k \in 1..Len(queues) => k \in live
       /\ InOrder'
  BY <1>1, <1>3, <1>4, <1>9, <1>12, OtherMessages
<1>14. Len(queues) <= Len(queues')
  BY <1>13
<1> QED
  BY <1>1, <1>11, <1>12, <1>13, <1>14, ServiceStep

\* Another step of a dequeue, at its file.
LEMMA FileStep ==
  ASSUME QueueInv, NEW t \in Terminals, NEW d, Step(t, d), Command(d),
         UNCHANGED <<file, shown, stale, walk, queues, live, accepted>>,
         NEW o, out' = [out EXCEPT ![t] = o],
         d.pc \notin {"save", "write"},
         d.pc # "done" /\ d.sure => d.target = d.meant,
         Dequeued(d, o)
  PROVE  QueueInv'
<1>1. /\ cmd'[t] = d /\ \A u \in Terminals : u # t => cmd'[u] = cmd[u]
      /\ cmd' = [u \in Terminals |-> cmd'[u]] /\ \A u \in Terminals : Command(cmd'[u])
  BY OneStep DEF QueueInv
<1>2. /\ out'[t] = o /\ \A u \in Terminals : u # t => out'[u] = out[u]
      /\ DOMAIN out' = Terminals /\ out' = [u \in Terminals |-> out'[u]]
  BY DEF QueueInv, Types
<1>3. Types'
  BY <1>1, <1>2 DEF QueueInv, Types
<1>4. ASSUME NEW u \in Terminals PROVE Tokens(u)'
  BY <1>1 DEF QueueInv, Tokens
<1>5. ASSUME NEW u \in Terminals PROVE Dequeued(cmd'[u], out'[u])
  BY <1>1, <1>2 DEF QueueInv
<1>6. ASSUME NEW u \in Terminals PROVE Walked(walk[u])'
  BY DEF QueueInv, Walked, Covers, Ordered
<1>7. InOrder'
  BY DEF QueueInv, InOrder, Ordered
<1> QED
  BY <1>3, <1>4, <1>5, <1>6, <1>7 DEF QueueInv

\* The file is created, and then filled.
LEMMA OpenFileInv ==
  ASSUME QueueInv, NEW t \in Terminals, OpenFile(t)
  PROVE  QueueInv'
<1> PICK c : c = cmd[t]
  OBVIOUS
<1> PICK pc : pc = "fill"
  OBVIOUS
<1> PICK d : Moved(c, pc, d)
  BY Zenon DEF Moved
<1>1. /\ c.op = "dequeue" /\ c.pc = "format" /\ Step(t, d)
      /\ UNCHANGED <<file, shown, stale, walk, queues, live, accepted>>
      /\ out' = [out EXCEPT ![t] = <<>>]
  BY DEF OpenFile, At, Moved, service, screen
<1>2. Command(c) /\ Tokens(t) /\ Dequeued(c, out[t])
  BY DEF QueueInv, Types
<1>3. /\ Command(d) /\ SameCall(c, d) /\ d.pc = "fill"
      /\ d.again = c.again /\ d.payload = c.payload /\ d.taken = c.taken
  BY <1>2, GoesOn
<1>4. Dequeued(d, <<>>)
  BY <1>1, <1>2, <1>3 DEF Dequeued, SameCall, LastTaken
<1>5. d.sure => d.target = d.meant
  BY <1>1, <1>2, <1>3 DEF Tokens, SameCall
<1> QED
  BY <1>1, <1>3, <1>4, <1>5, FileStep

LEMMA SaveMessagesInv ==
  ASSUME QueueInv, NEW t \in Terminals, SaveMessages(t)
  PROVE  QueueInv'
<1> PICK c : c = cmd[t]
  OBVIOUS
<1> PICK r : r = "ok"
  OBVIOUS
<1> PICK d : Ended(c, r, d)
  BY Zenon DEF Ended
<1>1. /\ c.op = "dequeue" /\ c.pc = "fill" /\ Step(t, d)
      /\ UNCHANGED <<file, shown, stale, walk, queues, live, accepted>>
      /\ out' = [out EXCEPT ![t] = c.payload]
  BY DEF SaveMessages, At, End, Ended, service, screen
<1>2. Command(c) /\ Dequeued(c, out[t])
  BY DEF QueueInv, Types
<1>3. /\ Command(d) /\ SameCall(c, d) /\ d.pc = "done" /\ d.result = "ok"
      /\ d.again = c.again /\ d.payload = c.payload /\ d.taken = c.taken
  BY <1>2, Ends
<1>4. Dequeued(d, c.payload)
  BY <1>1, <1>2, <1>3 DEF Dequeued, SameCall, LastTaken
<1> QED
  BY <1>1, <1>3, <1>4, FileStep

-----------------------------------------------------------------------------
(* Steps that show and save tokens                                         *)

\* Items that were printed stand in the history under their tokens.
LEMMA Printed ==
  ASSUME NEW h \in Seq(Item), NEW r \in Seq(Item)
  PROVE  Means(MakeHistory(h).printed, h) /\ Means(MakeHistory(h).printed, h \o r)
<1> DEFINE s == MakeHistory(h).printed
<1>1. s = [i \in DOMAIN h |-> [token |-> i, item |-> h[i]]]
  BY DEF MakeHistory
<1>2. DOMAIN s = DOMAIN h /\ \A i \in DOMAIN h : s[i].token = i /\ s[i].item = h[i]
  BY <1>1
<1>3. Len(h) \in Nat /\ Len(r) \in Nat /\ DOMAIN h = 1..Len(h)
  BY LenProperties
<1>4. \A i \in DOMAIN h : (h \o r)[i] = h[i]
  <2>1. \A i \in 1..Len(h) + Len(r) :
          (h \o r)[i] = IF i <= Len(h) THEN h[i] ELSE r[i - Len(h)]
    BY ConcatProperties
  <2>2. \A i \in 1..Len(h) : i \in 1..Len(h) + Len(r) /\ i <= Len(h)
    BY <1>3
  <2> QED
    BY <1>3, <2>1, <2>2
<1> HIDE DEF s
<1> QED
  BY <1>2, <1>4 DEF Means, s

\* The table of a listing is a history of its items.
LEMMA TableItems ==
  ASSUME NEW ids \in Seq(Nat), NEW links,
         FindNextPage(links) = <<>> \/ \E n \in Nat : FindNextPage(links) = <<n>>
  PROVE  \E h \in Seq(Item) : Table(ids, links) = MakeHistory(h)
<1> DEFINE rows == [i \in DOMAIN ids |-> Queue(ids[i])]
           next == FindNextPage(links)
<1>1. rows \in Seq(Item)
  <2>1. /\ Len(ids) \in Nat /\ DOMAIN ids = 1..Len(ids)
        /\ \A i \in 1..Len(ids) : ids[i] \in Nat
    BY LenProperties
  <2>2. rows \in [1..Len(ids) -> Item]
    BY <2>1 DEF Queue, Item
  <2> QED
    BY <2>1, <2>2, SeqDef
<1>2. Table(ids, links) =
        MakeHistory(IF next = <<>> THEN rows ELSE Append(rows, Page(next[1])))
  BY Zenon DEF Table
<1> HIDE DEF rows, next
<1>3. CASE next = <<>>
  BY <1>1, <1>2, <1>3
<1>4. ASSUME NEW n \in Nat, next = <<n>>
      PROVE  \E h \in Seq(Item) : Table(ids, links) = MakeHistory(h)
  <2>1. next # <<>> /\ next[1] = n
    BY <1>4
  <2>2. Page(n) \in Item
    BY DEF Page, Item
  <2>3. Append(rows, Page(n)) \in Seq(Item)
    BY <1>1, <2>2, AppendProperties
  <2> QED
    BY <1>2, <2>1, <2>3
<1> QED
  BY <1>3, <1>4 DEF next

HasPages(w) ==
  w = [seen |-> w.seen, began |-> w.began, next |-> w.next, sure |-> w.sure]

\* The walk of t becomes w.
WalkStep(t, w) ==
  \/ walk' = [walk EXCEPT ![t] = w]
  \/ walk' = walk /\ w = walk[t]

\* A table is shown, and its tokens are still to be saved, if there are any.
LEMMA ShowStep ==
  ASSUME QueueInv, NEW t \in Terminals, NEW h \in Seq(Item), NEW d,
         Showed(cmd[t], h, d) \/ Ended(cmd[t], "ok", d), Step(t, d),
         cmd[t].pc = "request", cmd[t].op # "dequeue",
         shown' = [shown EXCEPT ![t] = MakeHistory(h).printed],
         stale' = stale \cup {t}, UNCHANGED <<file, queues, live, accepted, out>>,
         NEW w, WalkStep(t, w), HasPages(w), Walked(w)
  PROVE  QueueInv'
<1> PICK c : c = cmd[t]
  OBVIOUS
<1>1. Command(c) /\ Tokens(t)
  BY DEF QueueInv, Types
<1>2. /\ Command(d) /\ SameCall(c, d)
      /\ \/ d.pc = "save" /\ d.table = MakeHistory(h)
         \/ d.pc = "done"
  BY <1>1, Shows, Ends
<1>3. /\ cmd'[t] = d /\ \A u \in Terminals : u # t => cmd'[u] = cmd[u]
      /\ cmd' = [u \in Terminals |-> cmd'[u]] /\ \A u \in Terminals : Command(cmd'[u])
  BY <1>2, OneStep DEF QueueInv
<1>4. /\ shown'[t] = MakeHistory(h).printed
      /\ \A u \in Terminals : u # t => shown'[u] = shown[u]
      /\ DOMAIN shown' = Terminals /\ shown' = [u \in Terminals |-> shown'[u]]
  BY DEF QueueInv, Types
<1>5. walk'[t] = w /\ \A u \in Terminals : u # t => walk'[u] = walk[u]
  BY DEF QueueInv, Types, WalkStep
<1>6. walk' = [u \in Terminals |-> [seen |-> walk'[u].seen, began |-> walk'[u].began,
                                    next |-> walk'[u].next, sure |-> walk'[u].sure]]
  <2> DEFINE Four(x) == [seen |-> x.seen, began |-> x.began,
                         next |-> x.next, sure |-> x.sure]
  <2>1. walk = [u \in Terminals |-> Four(walk[u])] /\ w = Four(w)
    BY DEF QueueInv, Types, HasPages
  <2>2. \A u \in Terminals : walk[u] = Four(walk[u])
    BY <2>1
  <2>3. \A u \in Terminals : walk'[u] = Four(walk'[u])
    BY <1>5, <2>1, <2>2
  <2> HIDE DEF Four
  <2>4. DOMAIN walk' = Terminals /\ walk' = [u \in Terminals |-> walk'[u]]
    BY <2>1 DEF WalkStep
  <2>5. walk' = [u \in Terminals |-> Four(walk'[u])]
    BY <2>3, <2>4
  <2> QED
    BY <2>5 DEF Four
<1>7. Types'
  BY <1>3, <1>4, <1>6 DEF QueueInv, Types
<1>8. ASSUME NEW u \in Terminals PROVE Tokens(u)'
  <2>1. CASE u = t
    BY <1>1, <1>2, <1>3, <1>4, <2>1 DEF Tokens, SameCall
  <2>2. CASE u # t
    BY <1>3, <1>4, <2>2 DEF QueueInv, Tokens
  <2> QED
    BY <2>1, <2>2
<1>9. ASSUME NEW u \in Terminals PROVE Dequeued(cmd'[u], out'[u])
  <2>1. CASE u = t
    BY <1>2, <1>3, <2>1 DEF Dequeued, SameCall
  <2>2. CASE u # t
    BY <1>3, <2>2 DEF QueueInv
  <2> QED
    BY <2>1, <2>2
<1>10. ASSUME NEW u \in Terminals PROVE Walked(walk[u])'
  <2>1. Walked(walk[u])' <=> Walked(walk'[u])
    BY DEF Walked, Covers, Ordered
  <2> QED
    BY <1>5, <2>1 DEF QueueInv
<1>11. InOrder'
  BY DEF QueueInv, InOrder, Ordered
<1> QED
  BY <1>7, <1>8, <1>9, <1>10, <1>11 DEF QueueInv

\* A page of queues is listed.
LEMMA ShowListInv ==
  ASSUME QueueInv, NEW t \in Terminals, ShowList(t)
  PROVE  QueueInv'
<1> PICK c : c = cmd[t]
  OBVIOUS
<1> PICK v : v = walk[t]
  OBVIOUS
<1> PICK from : from = c.target
  OBVIOUS
<1> DEFINE ids == ListedAfter(from.id).ids
           links == ListedAfter(from.id).links
           next == FindNextPage(links)
           follows == v.next = <<c.meant.id>> /\ c.sure /\ v.sure
           w == [seen |-> IF from = NoItem THEN ids ELSE v.seen \o ids,
                 began |-> IF from = NoItem THEN live ELSE v.began,
                 next |-> next, sure |-> from = NoItem \/ follows]
<1>1. Command(c) /\ Tokens(t) /\ Walked(v) /\ Types
  BY DEF QueueInv, Types
<1>2. from \in Item /\ from.id \in Nat
  BY <1>1 DEF Command, Item
<1>3. /\ ids \in Seq(Nat)
      /\ next = <<>> \/ \E n \in Nat : next = <<n>>
  BY <1>1, <1>2, PageListed
<1>4. PICK h \in Seq(Item) : Table(ids, links) = MakeHistory(h)
  <2> HIDE DEF ids, links
  <2> QED
    BY <1>3, TableItems
<1> PICK d : Showed(c, h, d)
  BY Zenon DEF Showed
<1> PICK e : Ended(c, "ok", e)
  BY Zenon DEF Ended
<1>5. /\ c.pc = "request" /\ c.op # "dequeue"
      /\ \/ End(t, "ok")
         \/ Step(t, [c EXCEPT !.pc = "save", !.table = Table(ids, links)])
      /\ shown' = [shown EXCEPT ![t] = Table(ids, links).printed]
      /\ stale' = stale \cup {t} /\ UNCHANGED <<file, queues, live, accepted, out>>
  BY DEF ShowList, At, service
<1>6. walk' = [walk EXCEPT ![t] = w]
  BY DEF ShowList
<1>7. /\ Step(t, d) \/ Step(t, e)
      /\ shown' = [shown EXCEPT ![t] = MakeHistory(h).printed]
  BY <1>4, <1>5 DEF Showed, End, Ended
<1>8. w.began \in SUBSET (1..Len(queues))
  BY <1>1 DEF Walked, Types
<1>9. w.sure => Covers(w.seen, w.began, w.next)
  <2>1. CASE from = NoItem
    <3>1. from.id = 0
      BY <2>1 DEF NoItem
    <3> QED
      BY <1>1, <2>1, <3>1, WalkBegins
  <2>2. CASE from # NoItem /\ follows
    <3>1. from = c.meant /\ c.sure /\ v.sure /\ v.next = <<from.id>>
      BY <1>1, <1>5, <2>2 DEF Tokens
    <3>2. v.began \in SUBSET (1..Len(queues)) /\ Covers(v.seen, v.began, <<from.id>>)
      BY <1>1, <3>1 DEF Walked
    <3>3. Covers(v.seen \o ids, v.began, next)
      BY <1>1, <1>2, <3>2, WalkGoesOn
    <3> QED
      BY <2>2, <3>3
  <2>3. CASE from # NoItem /\ ~follows
    BY <2>3
  <2> QED
    BY <2>1, <2>2, <2>3
<1>10. w = [seen |-> w.seen, began |-> w.began, next |-> w.next, sure |-> w.sure]
  OBVIOUS
<1> HIDE DEF w, ids, links, next, follows
<1>11. Walked(w)
  BY <1>8, <1>9 DEF Walked
<1> PICK x : x = w
  OBVIOUS
<1>12. WalkStep(t, x)
  BY <1>6, Zenon DEF WalkStep
<1>13. HasPages(x)
  BY <1>10, Zenon DEF HasPages
<1>14. Walked(x)
  BY <1>11, Zenon
<1>15. /\ cmd[t].pc = "request" /\ cmd[t].op # "dequeue" /\ Showed(cmd[t], h, d)
       /\ Ended(cmd[t], "ok", e)
       /\ stale' = stale \cup {t} /\ UNCHANGED <<file, queues, live, accepted, out>>
  BY <1>5
<1>16. CASE Step(t, d)
  BY <1>7, <1>12, <1>13, <1>14, <1>15, <1>16, ShowStep
<1>17. CASE Step(t, e)
  BY <1>7, <1>12, <1>13, <1>14, <1>15, <1>17, ShowStep
<1> QED
  BY <1>7, <1>16, <1>17

\* A queue is shown.
LEMMA ShowQueueInv ==
  ASSUME QueueInv, NEW t \in Terminals, ShowQueue(t)
  PROVE  QueueInv'
<1> PICK c : c = cmd[t]
  OBVIOUS
<1> PICK w : w = walk[t]
  OBVIOUS
<1> PICK h : h = <<c.target>>
  OBVIOUS
<1> PICK d : Showed(c, h, d)
  BY Zenon DEF Showed
<1>1. /\ c.pc = "request" /\ c.op # "dequeue" /\ Step(t, d)
      /\ shown' = [shown EXCEPT ![t] = MakeHistory(h).printed]
      /\ stale' = stale \cup {t} /\ UNCHANGED <<file, queues, live, accepted, out>>
      /\ WalkStep(t, w)
  BY DEF ShowQueue, At, Showed, service, WalkStep
<1>2. Command(c) /\ Walked(w) /\ HasPages(w)
  BY DEF QueueInv, Types, HasPages
<1>3. h \in Seq(Item)
  BY <1>2 DEF Command
<1> QED
  BY <1>1, <1>2, <1>3, ShowStep

\* A step at the history file.
LEMMA HistoryStep ==
  ASSUME QueueInv, NEW t \in Terminals, NEW d, Step(t, d), Command(d), SameCall(cmd[t], d),
         cmd[t].pc \in {"save", "write"}, d.table = cmd[t].table,
         UNCHANGED <<out, shown, walk, queues, live, accepted>>,
         file' \in Seq(Item),
         \/ file' = <<>> /\ stale' = stale \cup {t} /\ d.pc = "write"
         \/ /\ stale' = Terminals \ {t} /\ d.pc = "done"
            /\ Means(shown[t], file')
  PROVE  QueueInv'
<1>1. /\ cmd'[t] = d /\ \A u \in Terminals : u # t => cmd'[u] = cmd[u]
      /\ cmd' = [u \in Terminals |-> cmd'[u]] /\ \A u \in Terminals : Command(cmd'[u])
  BY OneStep DEF QueueInv
<1>2. Types'
  BY <1>1 DEF QueueInv, Types
<1>3. Tokens(t) /\ Dequeued(cmd[t], out[t])
  BY DEF QueueInv
<1>4. ASSUME NEW u \in Terminals PROVE Tokens(u)'
  <2>1. CASE file' = <<>> /\ stale' = stale \cup {t} /\ d.pc = "write"
    <3>1. Means(shown[u], file')
      BY <2>1 DEF Means
    <3>2. CASE u = t
      BY <1>1, <1>3, <2>1, <3>1, <3>2 DEF Tokens, SameCall
    <3>3. CASE u # t
      BY <1>1, <2>1, <3>1, <3>3 DEF QueueInv, Tokens
    <3> QED
      BY <3>2, <3>3
  <2>2. CASE stale' = Terminals \ {t} /\ d.pc = "done" /\ Means(shown[t], file')
    <3>1. CASE u = t
      BY <1>1, <2>2, <3>1 DEF Tokens
    <3>2. CASE u # t
      BY <1>1, <2>2, <3>2 DEF QueueInv, Tokens
    <3> QED
      BY <3>1, <3>2
  <2> QED
    BY <2>1, <2>2
<1>5. ASSUME NEW u \in Terminals PROVE Dequeued(cmd'[u], out'[u])
  <2>1. CASE u = t
    BY <1>1, <1>3, <2>1 DEF Dequeued, SameCall
  <2>2. CASE u # t
    BY <1>1, <2>2 DEF QueueInv
  <2> QED
    BY <2>1, <2>2
<1>6. ASSUME NEW u \in Terminals PROVE Walked(walk[u])'
  BY DEF QueueInv, Walked, Covers, Ordered
<1>7. InOrder'
  BY DEF QueueInv, InOrder, Ordered
<1> QED
  BY <1>2, <1>4, <1>5, <1>6, <1>7 DEF QueueInv

\* The history is emptied.
LEMMA TruncateHistoryInv ==
  ASSUME QueueInv, NEW t \in Terminals, TruncateHistory(t)
  PROVE  QueueInv'
<1> PICK c : c = cmd[t]
  OBVIOUS
<1> PICK pc : pc = "write"
  OBVIOUS
<1> PICK d : Moved(c, pc, d)
  BY Zenon DEF Moved
<1>1. /\ c.pc = "save" /\ Step(t, d) /\ file' = <<>> /\ stale' = stale \cup {t}
      /\ UNCHANGED <<out, shown, walk, queues, live, accepted>>
  BY DEF TruncateHistory, Moved, service
<1>2. Command(c)
  BY DEF QueueInv, Types
<1>3. Command(d) /\ SameCall(c, d) /\ d.pc = "write" /\ d.table = c.table
  BY <1>2, GoesOn
<1>4. <<>> \in Seq(Item)
  BY EmptySeq
<1> QED
  BY <1>1, <1>3, <1>4, HistoryStep

\* It is written.
LEMMA WriteHistoryInv ==
  ASSUME QueueInv, NEW t \in Terminals, WriteHistory(t)
  PROVE  QueueInv'
<1> PICK c : c = cmd[t]
  OBVIOUS
<1> PICK r : r = "ok"
  OBVIOUS
<1> PICK d : Ended(c, r, d)
  BY Zenon DEF Ended
<1> PICK mine : mine = c.table.history
  OBVIOUS
<1> PICK rest : rest = SubSeq(file, Len(mine) + 1, Len(file))
  OBVIOUS
<1>1. /\ c.pc = "write" /\ Step(t, d) /\ stale' = Terminals \ {t}
      /\ file' \in IF file = <<>> THEN {mine} ELSE {mine \o rest, <<>>}
      /\ UNCHANGED <<out, shown, walk, queues, live, accepted>>
  BY DEF WriteHistory, End, Ended, service
<1>2. Command(c) /\ Tokens(t) /\ file \in Seq(Item)
  BY DEF QueueInv, Types
<1>3. mine \in Seq(Item) /\ c.table = MakeHistory(mine)
  BY <1>2 DEF Command
<1>4. Command(d) /\ SameCall(c, d) /\ d.pc = "done" /\ d.table = c.table
  <2>1. d.table = c.table
    BY <1>2 DEF Ended, Command, HasLocals
  <2> QED
    BY <1>2, <2>1, Ends
<1>5. shown[t] = MakeHistory(mine).printed
  BY <1>1, <1>2, <1>3 DEF Tokens
<1>6. rest \in Seq(Item)
  <2>1. Len(mine) \in Nat /\ Len(file) \in Nat /\ \A i \in 1..Len(file) : file[i] \in Item
    BY <1>2, <1>3, LenProperties
  <2>2. \A i \in Len(mine) + 1..Len(file) : file[i] \in Item
    BY <2>1
  <2> QED
    BY <2>1, <2>2, SubSeqProperties
<1>7. <<>> \in Seq(Item) /\ mine \o rest \in Seq(Item)
  BY <1>3, <1>6, EmptySeq, ConcatProperties
<1>8. file' \in Seq(Item)
  BY <1>1, <1>3, <1>7
<1>9. Means(shown[t], file')
  <2>1. Means(shown[t], mine) /\ Means(shown[t], mine \o rest)
    BY <1>3, <1>5, <1>6, Printed
  <2>2. Means(shown[t], <<>>)
    BY DEF Means
  <2> QED
    BY <1>1, <2>1, <2>2
<1> QED
  BY <1>1, <1>4, <1>8, <1>9, HistoryStep

-----------------------------------------------------------------------------
(* The specification                                                       *)

\* The message i of the first queue q is one of those accepted.
LEMMA BacklogAccepted ==
  ASSUME NEW m \in Nat, NEW n \in Nat, NEW q \in 1..m, NEW i \in 1..n
  PROVE  (q - 1) * n + i \in Nat /\ (q - 1) * n + i <= m * n
<1>1. PICK p \in Nat : p = q - 1
  OBVIOUS
<1>2. PICK k \in Nat : m = p + 1 + k
  <2>1. m - q \in Nat /\ m = p + 1 + (m - q)
    BY <1>1
  <2> QED
    BY <2>1
<1>3. p * n \in Nat /\ k * n \in Nat
  OBVIOUS
<1>4. m * n = p * n + n + k * n
  BY <1>2, SMT
<1>5. p * n + i \in Nat /\ p * n + i <= m * n
  BY <1>3, <1>4
<1> QED
  BY <1>1, <1>5

\* QueueInv holds at first.
LEMMA QueueInit == Init => QueueInv
<1> SUFFICES ASSUME Init PROVE QueueInv
  OBVIOUS
<1> USE QueueAssumption
<1>1. /\ Len(queues) = Queues
      /\ \A q \in 1..Queues : /\ queues[q] \in Seq(Nat) /\ Len(queues[q]) = Backlog
                              /\ \A i \in 1..Backlog : queues[q][i] = (q - 1) * Backlog + i
      /\ queues \in Seq(Seq(Nat))
  <2>1. queues = [q \in 1..Queues |-> [i \in 1..Backlog |-> (q - 1) * Backlog + i]]
    BY DEF Init
  <2>2. ASSUME NEW q \in 1..Queues
        PROVE  /\ queues[q] \in Seq(Nat) /\ Len(queues[q]) = Backlog
               /\ \A i \in 1..Backlog : queues[q][i] = (q - 1) * Backlog + i
    <3>1. queues[q] = [i \in 1..Backlog |-> (q - 1) * Backlog + i]
      BY <2>1
    <3>2. \A i \in 1..Backlog : (q - 1) * Backlog + i \in Nat
      BY BacklogAccepted
    <3>3. queues[q] \in [1..Backlog -> Nat]
      BY <3>1, <3>2
    <3>4. queues[q] \in Seq(Nat)
      BY <3>3, SeqDef
    <3>5. /\ DOMAIN queues[q] = 1..Backlog
          /\ \A i \in 1..Backlog : queues[q][i] = (q - 1) * Backlog + i
      BY <3>1
    <3> QED
      BY <3>4, <3>5, LenProperties
  <2>3. queues \in [1..Queues -> Seq(Nat)]
    BY <2>1, <2>2
  <2>4. queues \in Seq(Seq(Nat))
    BY <2>3, SeqDef
  <2>5. DOMAIN queues = 1..Queues
    BY <2>1
  <2> QED
    BY <2>2, <2>4, <2>5, LenProperties
<1>2. accepted = Queues * Backlog /\ accepted \in Nat
  BY DEF Init
<1>3. InOrder
  <2> SUFFICES ASSUME NEW q \in 1..Queues
               PROVE  /\ Ordered(queues[q])
                      /\ \A i \in 1..Len(queues[q]) : queues[q][i] <= accepted
    BY <1>1 DEF InOrder
  <2>1. PICK base \in Int : base = (q - 1) * Backlog
    OBVIOUS
  <2>2. /\ queues[q] \in Seq(Nat) /\ Len(queues[q]) = Backlog
        /\ \A i \in 1..Backlog : queues[q][i] = base + i
    BY <1>1, <2>1
  <2>3. \A i \in 1..Backlog : base + i <= accepted
    BY <1>2, <2>1, BacklogAccepted
  <2>4. DOMAIN queues[q] = 1..Backlog
    BY <2>2, LenProperties
  <2>5. Ordered(queues[q])
    BY <2>2, <2>4 DEF Ordered
  <2> QED
    BY <2>2, <2>3, <2>5
<1> PICK none : none = "none"
  OBVIOUS
<1> PICK c : c = Locals(none, none)
  OBVIOUS
<1>4. Command(c) /\ c.pc = "done" /\ c.op = none
  BY NoCommand
<1>5. /\ cmd = [t \in Terminals |-> c] /\ walk = [t \in Terminals |-> NoWalk]
      /\ out = [t \in Terminals |-> <<>>] /\ shown = [t \in Terminals |-> <<>>]
      /\ file = <<>> /\ live = 1..Queues
  BY Zenon DEF Init
<1>6. Types
  <2>1. file \in Seq(Item)
    BY <1>5, EmptySeq
  <2>2. walk = [t \in Terminals |-> [seen |-> walk[t].seen, began |-> walk[t].began,
                                     next |-> walk[t].next, sure |-> walk[t].sure]]
    BY <1>5 DEF NoWalk
  <2>3. cmd = [t \in Terminals |-> cmd[t]] /\ \A t \in Terminals : Command(cmd[t])
    BY <1>4, <1>5
  <2> QED
    BY <1>1, <1>2, <1>5, <2>1, <2>2, <2>3 DEF Types
<1>7. ASSUME NEW t \in Terminals
      PROVE  Tokens(t) /\ Dequeued(cmd[t], out[t]) /\ Walked(walk[t])
  <2>1. Tokens(t)
    BY <1>4, <1>5 DEF Tokens, Means
  <2>2. Dequeued(cmd[t], out[t])
    BY <1>4, <1>5 DEF Dequeued
  <2>3. Walked(walk[t])
    BY <1>5 DEF Walked, NoWalk
  <2> QED
    BY <2>1, <2>2, <2>3
<1> QED
  BY <1>3, <1>6, <1>7 DEF QueueInv

\* A step with nothing to it.
LEMMA QueueStutter ==
  ASSUME QueueInv, UNCHANGED vars
  PROVE  QueueInv'
<1>1. UNCHANGED <<file, queues, live, accepted, out, cmd, shown, stale, walk>>
  BY DEF vars
<1>2. Types' /\ InOrder'
  BY <1>1 DEF QueueInv, Types, InOrder, Ordered
<1>3. ASSUME NEW t \in Terminals
      PROVE  Tokens(t)' /\ Dequeued(cmd[t], out[t])' /\ Walked(walk[t])'
  BY <1>1 DEF QueueInv, Tokens, Dequeued, LastTaken, Ordered, Walked, Covers
<1> QED
  BY <1>2, <1>3 DEF QueueInv

\* QueueInv is kept by every step.
LEMMA QueueNext == QueueInv /\ [Next]_vars => QueueInv'
<1> SUFFICES ASSUME QueueInv, [Next]_vars PROVE QueueInv'
  OBVIOUS
<1>1. ASSUME NEW t \in Terminals, Begin(t) PROVE QueueInv'
  <2>1. \/ \E op \in {"list", "create"} : BeginPlain(t, op)
        \/ \E op \in {"list", "get", "enqueue", "delete"}, entry \in ToSet(shown[t]) :
             BeginWith(t, op, entry, 1)
        \/ \E entry \in ToSet(shown[t]), limit \in Limits :
             BeginWith(t, "dequeue", entry, limit)
    BY <1>1 DEF Begin
  <2>2. ASSUME NEW op \in {"list", "create"}, BeginPlain(t, op) PROVE QueueInv'
    BY <2>2, BeginPlainInv
  <2>3. ASSUME NEW op, NEW entry \in ToSet(shown[t]), NEW limit \in Nat,
               BeginWith(t, op, entry, limit)
        PROVE  QueueInv'
    BY <2>3, BeginWithInv
  <2>4. 1 \in Nat /\ \A limit \in Limits : limit \in Nat
    BY QueueAssumption
  <2> QED
    BY <2>1, <2>2, <2>3, <2>4
<1>2. ASSUME NEW t \in Terminals, Showing(t) PROVE QueueInv'
  BY <1>2, ShowListInv, ShowQueueInv, FailInv, TruncateHistoryInv, WriteHistoryInv
     DEF Showing
<1>3. ASSUME NEW t \in Terminals, Queueing(t) PROVE QueueInv'
  BY <1>3, CreateQueueInv, EnqueueInv, DeleteQueueInv, DequeueInv, FailInv, OpenFileInv,
     SaveMessagesInv DEF Queueing
<1>4. ASSUME NEW t \in Terminals, Fail(t) PROVE QueueInv'
  BY <1>4, FailInv
<1> QED
  BY <1>1, <1>2, <1>3, <1>4, QueueStutter DEF Next

\* QueueInv always holds.
THEOREM QueueInductive == Spec => []QueueInv
<1> QED
  BY QueueInit, QueueNext, PTL DEF Spec

-----------------------------------------------------------------------------
(* What follows                                                            *)

\* TokensMeanShown always: a token that a command looks up stands for the item
\* it was printed for.
THEOREM TokensKeepMeaning == Spec => []TokensMeanShown
<1>1. QueueInv => TokensMeanShown
  BY DEF QueueInv, Tokens, TokensMeanShown
<1> QED
  BY <1>1, QueueInductive, PTL

\* PagesCover always: the pages of a listing show no queue twice and miss none.
THEOREM WalksCover == Spec => []PagesCover
<1>1. ASSUME NEW s \in Seq(Nat), Ordered(s) PROVE IsInjective(s)
  <2>1. DOMAIN s = 1..Len(s) /\ Len(s) \in Nat /\ \A i \in 1..Len(s) : s[i] \in Nat
    BY LenProperties
  <2>2. ASSUME NEW i \in DOMAIN s, NEW j \in DOMAIN s, s[i] = s[j] PROVE i = j
    <3>1. ~(i < j) /\ ~(j < i)
      BY <1>1, <2>1, <2>2 DEF Ordered
    <3> QED
      BY <2>1, <3>1
  <2> QED
    BY <2>2 DEF IsInjective
<1>2. QueueInv => PagesCover
  <2> SUFFICES ASSUME QueueInv, NEW t \in Terminals, walk[t].sure
               PROVE  /\ IsInjective(walk[t].seen)
                      /\ walk[t].next = <<>> =>
                           walk[t].began \cap live \subseteq ToSet(walk[t].seen)
    BY DEF PagesCover
  <2>1. Covers(walk[t].seen, walk[t].began, walk[t].next)
    BY DEF QueueInv, Walked
  <2>2. \A n \in Nat : <<n>> # <<>>
    OBVIOUS
  <2> QED
    BY <1>1, <2>1, <2>2 DEF Covers
<1> QED
  BY <1>2, QueueInductive, PTL

\* DequeueExact always: what dequeue leaves in the file.
THEOREM DequeueLosesNothing == Spec => []DequeueExact
<1>1. QueueInv => DequeueExact
  <2> SUFFICES ASSUME QueueInv, NEW t \in Terminals,
                      cmd[t].op = "dequeue", cmd[t].pc = "done"
               PROVE  /\ cmd[t].result = "ok" => LastTaken(cmd[t], out[t])
                      /\ cmd[t].result = "failed" => out[t] = cmd[t].before
    BY Zenon DEF DequeueExact, At, LastTaken, Ordered
  <2> QED
    BY DEF QueueInv, Dequeued
<1> QED
  BY <1>1, QueueInductive, PTL
=============================================================================
