---------------------------- MODULE TopListProofs ----------------------------
(***************************************************************************)
(* Theorems about module TopList, for any number of workers, any intervals, *)
(* windows, values and lengths of the list.                                 *)
(***************************************************************************)
EXTENDS TopList, FiniteSetTheorems, SequenceTheorems, TLAPS

-----------------------------------------------------------------------------
(* Lists *)

Descending(s) ==
  \A i \in 1 .. Len(s), k \in 1 .. Len(s) : i < k => s[i].value >= s[k].value

\* s is a list of the members of U in descending order, each of them once.
Lists(s, U) ==
  /\ s \in Seq(U) /\ Descending(s)
  /\ \A i \in 1 .. Len(s), k \in 1 .. Len(s) : i # k => s[i] # s[k]
  /\ \A u \in U : \E i \in 1 .. Len(s) : s[i] = u

\* s is a list of members of A, and no other member of A is above any of s.
TopOf(s, A) ==
  \E U \in SUBSET A :
    Lists(s, U) /\ \A a \in A \ U : \A i \in 1 .. Len(s) : a.value <= s[i].value

-----------------------------------------------------------------------------
(* The inductive invariant *)

\* What w has scanned, as entries, and what an entry of w's lists can be.
Scanned(w) == 0 .. Least(st[w], Size[w]) - 1
EntriesOf(w) == {Entry(v, value[<<w, v>>]) : v \in Scanned(w)}
Possible(w) == {Entry(v, x) : v \in Local(w), x \in Values} \cup Unwritten
AnyEntry == UNION {Possible(w) : w \in Worker}

\* Once something is scanned.
ListInv(w) ==
  IF st[w] = 0 THEN topbuf[w] = <<>> /\ buffer[w] = <<>>
  ELSE /\ st[w] \in Window .. Size[w] + Window
       /\ Len(topbuf[w]) = Wanted(w) /\ TopOf(topbuf[w], EntriesOf(w))
       /\ buffer[w] \in Seq(EntriesOf(w)) /\ Len(buffer[w]) > 0

\* What the master has taken from w's list, and what is left of it.
Popped(w) == NTop - Len(q[w])

QueueInv(w) ==
  IF w \in done
  THEN /\ st[w] >= Size[w]
       /\ q[w] \in Seq(Possible(w)) /\ Popped(w) \in 0 .. Len(out)
       /\ \A i \in 1 .. Len(q[w]) :
            Popped(w) + i <= Wanted(w) => q[w][i] = topbuf[w][Popped(w) + i]
  ELSE q[w] = <<>>

TopInv ==
  /\ value \in [Vertex -> Values] /\ st \in [Worker -> Nat] /\ done \subseteq Worker
  /\ topbuf \in [Worker -> Seq(AnyEntry)]
  /\ buffer \in [Worker -> Seq(AnyEntry)]
  /\ q \in [Worker -> Seq(AnyEntry)]
  /\ out \in Seq(AnyEntry) /\ Len(out) <= NTop
  /\ done = Worker \/ out = <<>>
  /\ \A w \in Worker : ListInv(w) /\ QueueInv(w)

\* The vertex of the i-th entry of w's list.
VertexAt(w, i) == <<w, topbuf[w][i].vid>>

\* The entries printed are those taken from the lists, each with a vertex of its own.
TakenFrom(g) ==
  /\ \A k \in 1 .. Len(out) :
       /\ value[g[k]] = out[k].value
       /\ \E w \in Worker : \E i \in 1 .. Popped(w) : g[k] = VertexAt(w, i)
  /\ \A w \in Worker : \A i \in 1 .. Popped(w) : \E k \in 1 .. Len(out) : g[k] = VertexAt(w, i)

\* What is left is not above what is printed, nor is the last of any list.
PrintInv ==
  done = Worker =>
    /\ \E g \in Injection(1 .. Len(out), Vertex) : TakenFrom(g)
    /\ Descending(out)
    /\ \A k \in 1 .. Len(out) : \A w \in Worker : \A i \in 1 .. NTop :
         i > Popped(w) \/ i = NTop => topbuf[w][i].value <= out[k].value

\* No value is below 0 and no interval is shorter than the list.
Ordinary == (\A x \in Values : x >= 0) /\ \A w \in Worker : Size[w] >= NTop

\* A set of natural numbers that has a member has a least one.
LEMMA LeastNumber ==
  ASSUME NEW S \in SUBSET Nat, S # {}
  PROVE  \E m \in S : \A n \in S : m <= n
<1> DEFINE R == OpToRel(<, Nat)
<1>1. IsWellFoundedOn(R, Nat)
  BY NatLessThanWellFounded
<1>2. ASSUME NEW m \in Nat, NEW n \in Nat, n < m PROVE <<n, m>> \in R
  BY <1>2 DEF OpToRel
<1> HIDE DEF R
<1>3. PICK m \in S : \A n \in S : ~ (<<n, m>> \in R)
  BY <1>1, WFMin
<1>4. ASSUME NEW n \in S PROVE m <= n
  <2>1. m \in Nat /\ n \in Nat
    OBVIOUS
  <2>2. ~ (n < m)
    BY <2>1, <1>2, <1>3
  <2>3. QED
    BY <2>1, <2>2
<1>5. QED
  BY <1>4

-----------------------------------------------------------------------------
(* The recursion of Merge *)

\* One turn of the loop, m giving the rest.
MergeAt(m, s1, s2, n, i, j) ==
  IF Greater(s2[j], s1[i])
  THEN <<s2[j]>> \o (IF j >= n THEN SubSeq(s1, i, Len(s1)) ELSE m[<<i, j + 1>>])
  ELSE <<s1[i]>> \o (IF i = Len(s1) THEN SubSeq(s2, j, n)
                     ELSE IF j = n + 1 THEN SubSeq(s1, i + 1, Len(s1)) ELSE m[<<i + 1, j>>])

\* m is the function that Merge defines by recursion.
MergeBy(m, s1, s2, n) ==
  m = [p \in (1 .. Len(s1)) \X (1 .. n + 1) |-> MergeAt(m, s1, s2, n, p[1], p[2])]

\* m gives what is written from every turn on.
Turns(m, s1, s2, n) ==
  \A i \in 1 .. Len(s1) : \A j \in 1 .. n + 1 : m[<<i, j>>] = MergeAt(m, s1, s2, n, i, j)

\* A turn depends on turns nearer to the end only.
LEMMA MergeAgree ==
  ASSUME NEW s1, NEW s2, NEW n \in Nat, Len(s1) \in Nat, NEW f, NEW g,
         NEW i \in 1 .. Len(s1), NEW j \in 1 .. n + 1,
         \A x \in 1 .. Len(s1) : \A y \in 1 .. n + 1 :
           x + y > i + j => f[<<x, y>>] = g[<<x, y>>]
  PROVE  MergeAt(f, s1, s2, n, i, j) = MergeAt(g, s1, s2, n, i, j)
<1>1. ASSUME ~ (j >= n) PROVE f[<<i, j + 1>>] = g[<<i, j + 1>>]
  BY <1>1
<1>2. ASSUME i # Len(s1) PROVE f[<<i + 1, j>>] = g[<<i + 1, j>>]
  BY <1>2
<1>3. CASE Greater(s2[j], s1[i])
  BY <1>1, <1>3, Zenon DEF MergeAt
<1>4. CASE ~ Greater(s2[j], s1[i])
  BY <1>2, <1>4, Zenon DEF MergeAt
<1>5. QED
  BY <1>3, <1>4

\* The recursion is well-founded: its function exists.
LEMMA MergeExists ==
  ASSUME NEW s1, NEW s2, NEW n \in Nat, Len(s1) \in Nat
  PROVE  \E m : MergeBy(m, s1, s2, n)
<1> DEFINE L == Len(s1)
           D == (1 .. L) \X (1 .. n + 1)
           K == L + n + 1
           Turn(f, i, j) == MergeAt(f, s1, s2, n, i, j)
           Upto(f, k) == \A x \in 1 .. L : \A y \in 1 .. n + 1 :
                           x + y + k > K => f[<<x, y>>] = Turn(f, x, y)
           Bad == {k \in Nat : ~ \E f : Upto(f, k)}
<1>1. K \in Nat /\ L \in Nat
  OBVIOUS
<1>2. \E f : Upto(f, 0)
  <2>1. Upto(s1, 0)
    BY <1>1
  <2>2. QED
    BY <2>1
<1>3. ASSUME NEW k \in Nat, NEW f, Upto(f, k)
      PROVE  \E g : Upto(g, k + 1)
  <2> DEFINE g == [p \in D |-> IF p[1] + p[2] + k > K THEN f[p] ELSE Turn(f, p[1], p[2])]
  <2>1. ASSUME NEW x \in 1 .. L, NEW y \in 1 .. n + 1
        PROVE  g[<<x, y>>] = IF x + y + k > K THEN f[<<x, y>>] ELSE Turn(f, x, y)
    <3> HIDE DEF Turn
    <3>1. QED
      OBVIOUS
  <2> HIDE DEF g
  <2>2. ASSUME NEW x \in 1 .. L, NEW y \in 1 .. n + 1, x + y + (k + 1) > K
        PROVE  g[<<x, y>>] = Turn(g, x, y)
    <3>1. g[<<x, y>>] = Turn(f, x, y)
      <4>1. CASE x + y + k > K
        BY <4>1, <1>3, <2>1
      <4>2. CASE ~ (x + y + k > K)
        BY <4>2, <2>1
      <4>3. QED
        BY <4>1, <4>2
    <3>2. \A a \in 1 .. L : \A b \in 1 .. n + 1 : a + b > x + y => f[<<a, b>>] = g[<<a, b>>]
      <4> HIDE DEF Turn
      <4>1. \A a \in 1 .. L : \A b \in 1 .. n + 1 : a + b > x + y => a + b + k > K
        BY <1>1, <2>2
      <4>2. QED
        BY <4>1, <2>1
    <3>3. Turn(f, x, y) = Turn(g, x, y)
      BY <3>2, MergeAgree
    <3>4. QED
      BY <3>1, <3>3
  <2>3. Upto(g, k + 1)
    BY <2>2
  <2>4. QED
    BY <2>3
<1> HIDE DEF Upto
<1>4. Bad = {}
  <2>1. SUFFICES ASSUME Bad # {} PROVE FALSE
    OBVIOUS
  <2>2. PICK k \in Bad : \A b \in Bad : k <= b
    BY <2>1, LeastNumber
  <2>3. k # 0 /\ k \in Nat
    BY <1>2
  <2>4. k - 1 \in Nat /\ ~ (k <= k - 1)
    BY <2>3
  <2>5. k - 1 \notin Bad
    BY <2>2, <2>4
  <2>6. PICK f : Upto(f, k - 1)
    BY <2>4, <2>5
  <2>7. \E g : Upto(g, (k - 1) + 1)
    BY <1>3, <2>4, <2>6
  <2>8. (k - 1) + 1 = k
    BY <2>3
  <2>9. QED
    BY <2>7, <2>8
<1>5. PICK f : Upto(f, K)
  BY <1>1, <1>4
<1> DEFINE m == [p \in D |-> f[p]]
<1>6. \A x \in 1 .. L : \A y \in 1 .. n + 1 : m[<<x, y>>] = f[<<x, y>>]
  OBVIOUS
<1>7. ASSUME NEW x \in 1 .. L, NEW y \in 1 .. n + 1
      PROVE  m[<<x, y>>] = Turn(m, x, y)
  <2> HIDE DEF m
  <2>1. f[<<x, y>>] = Turn(f, x, y)
    BY <1>1, <1>5 DEF Upto
  <2>2. Turn(f, x, y) = Turn(m, x, y)
    BY <1>6, MergeAgree
  <2>3. QED
    BY <1>6, <2>1, <2>2
<1>8. m = [p \in D |-> Turn(m, p[1], p[2])]
  <2>1. m = [p \in D |-> m[p]]
    OBVIOUS
  <2> HIDE DEF m
  <2>2. ASSUME NEW p \in D PROVE m[p] = Turn(m, p[1], p[2])
    <3>1. p[1] \in 1 .. L /\ p[2] \in 1 .. n + 1 /\ p = <<p[1], p[2]>>
      OBVIOUS
    <3> HIDE DEF Turn
    <3>2. QED
      BY <1>7, <3>1
  <2> HIDE DEF Turn
  <2>3. QED
    BY <2>1, <2>2
<1>9. MergeBy(m, s1, s2, n)
  BY <1>8, Zenon DEF MergeBy
<1>10. QED
  BY <1>9

\* What Merge is, turn by turn.
LEMMA MergeTurns ==
  ASSUME NEW s1, NEW s2, NEW n \in Nat, Len(s1) \in Nat \ {0}
  PROVE  \E m : Turns(m, s1, s2, n) /\ Merge(s1, s2, n) = m[<<1, 1>>]
<1> DEFINE f == CHOOSE m : m = [p \in (1 .. Len(s1)) \X (1 .. n + 1) |-> MergeAt(m, s1, s2, n, p[1], p[2])]
<1>1. MergeBy(f, s1, s2, n)
  <2>1. Len(s1) \in Nat
    OBVIOUS
  <2>2. \E m : MergeBy(m, s1, s2, n)
    BY <2>1, MergeExists
  <2>3. f = CHOOSE m : MergeBy(m, s1, s2, n)
    BY DEF MergeBy
  <2> HIDE DEF f
  <2>4. QED
    BY <2>2, <2>3
<1>2. Merge(s1, s2, n) = f[<<1, 1>>]
  BY DEF Merge, MergeAt
<1> HIDE DEF f
<1>3. ASSUME NEW i \in 1 .. Len(s1), NEW j \in 1 .. n + 1
      PROVE  f[<<i, j>>] = MergeAt(f, s1, s2, n, i, j)
  BY <1>1 DEF MergeBy
<1>4. QED
  BY <1>2, <1>3 DEF Turns
-----------------------------------------------------------------------------
(* Lists in descending order *)

\* A list has as many entries as the set has members.
LEMMA ListLength ==
  ASSUME NEW U, NEW s, Lists(s, U)
  PROVE  /\ Len(s) \in Nat /\ \A i \in 1 .. Len(s) : s[i] \in U
         /\ IsFiniteSet(U) /\ Cardinality(U) = Len(s)
<1>1. Len(s) \in Nat /\ s \in [1 .. Len(s) -> U]
  BY LenProperties DEF Lists
<1>2. s \in Bijection(1 .. Len(s), U)
  BY <1>1 DEF Lists, Bijection, Injection, Surjection, IsInjective
<1>3. IsFiniteSet(1 .. Len(s)) /\ Cardinality(1 .. Len(s)) = Len(s)
  BY <1>1, FS_Interval
<1>4. ExistsBijection(1 .. Len(s), U)
  BY <1>2 DEF ExistsBijection
<1>5. IsFiniteSet(U) /\ Cardinality(U) = Len(s)
  BY <1>3, <1>4, FS_Bijection
<1>6. QED
  BY <1>1, <1>5

\* An entry that is not below any of a list can be put before it.
LEMMA ListCons ==
  ASSUME NEW U, NEW r, Lists(r, U), NEW h, h \notin U,
         \A u \in U : h.value >= u.value
  PROVE  Lists(<<h>> \o r, U \cup {h})
<1> DEFINE s == <<h>> \o r
           V == U \cup {h}
<1>1. Len(r) \in Nat /\ r \in Seq(V) /\ \A i \in 1 .. Len(r) : r[i] \in U
  <2>1. r \in Seq(U)
    BY DEF Lists
  <2>2. QED
    BY <2>1, ListLength, SeqMonotonic
<1>2. <<h>> \in Seq(V) /\ Len(<<h>>) = 1 /\ <<h>>[1] = h
  OBVIOUS
<1>3. /\ s \in Seq(V) /\ Len(s) = Len(r) + 1
      /\ \A i \in 1 .. Len(r) + 1 : s[i] = IF i <= 1 THEN h ELSE r[i - 1]
  BY <1>1, <1>2, ConcatProperties
<1> HIDE DEF s
<1>4. \A i \in 1 .. Len(s) : (i = 1 /\ s[i] = h) \/ (i - 1 \in 1 .. Len(r) /\ s[i] = r[i - 1])
  BY <1>1, <1>3
<1>5. Descending(s)
  <2> SUFFICES ASSUME NEW i \in 1 .. Len(s), NEW k \in 1 .. Len(s), i < k
               PROVE  s[i].value >= s[k].value
    BY DEF Descending
  <2>1. k - 1 \in 1 .. Len(r) /\ s[k] = r[k - 1]
    BY <1>1, <1>3, <1>4
  <2>2. CASE i = 1
    BY <1>1, <1>4, <2>1, <2>2
  <2>3. CASE i # 1
    <3>1. i - 1 \in 1 .. Len(r) /\ s[i] = r[i - 1] /\ i - 1 < k - 1
      BY <1>1, <1>3, <1>4, <2>3
    <3>2. QED
      BY <2>1, <3>1 DEF Lists, Descending
  <2>4. QED
    BY <2>2, <2>3
<1>6. ASSUME NEW i \in 1 .. Len(s), NEW k \in 1 .. Len(s), i # k
      PROVE  s[i] # s[k]
  <2>1. CASE i = 1
    BY <1>1, <1>4, <1>6, <2>1
  <2>2. CASE k = 1
    BY <1>1, <1>4, <1>6, <2>2
  <2>3. CASE i # 1 /\ k # 1
    <3>1. /\ i - 1 \in 1 .. Len(r) /\ s[i] = r[i - 1]
          /\ k - 1 \in 1 .. Len(r) /\ s[k] = r[k - 1] /\ i - 1 # k - 1
      BY <1>1, <1>3, <1>4, <1>6, <2>3
    <3>2. QED
      BY <3>1 DEF Lists
  <2>4. QED
    BY <2>1, <2>2, <2>3
<1>7. ASSUME NEW u \in V PROVE \E i \in 1 .. Len(s) : s[i] = u
  <2>1. CASE u = h
    <3>1. 1 \in 1 .. Len(s) /\ s[1] = h
      BY <1>1, <1>3
    <3>2. QED
      BY <2>1, <3>1
  <2>2. CASE u \in U
    <3>1. PICK i \in 1 .. Len(r) : r[i] = u
      BY <2>2 DEF Lists
    <3>2. i + 1 \in 1 .. Len(s) /\ s[i + 1] = r[i]
      BY <1>1, <1>3, <3>1
    <3>3. QED
      BY <3>1, <3>2
  <2>3. QED
    BY <2>1, <2>2
<1>8. Lists(s, V)
  <2> HIDE DEF V
  <2>1. QED
    BY <1>3, <1>5, <1>6, <1>7 DEF Lists
<1>9. QED
  BY <1>8 DEF s

\* A part of a list is the list of a part.
LEMMA ListPart ==
  ASSUME NEW U, NEW s, Lists(s, U), NEW a \in Nat \ {0}, NEW b \in Nat, b <= Len(s)
  PROVE  Lists(SubSeq(s, a, b), {s[x] : x \in a .. b})
<1> DEFINE r == SubSeq(s, a, b)
           V == {s[x] : x \in a .. b}
           l == IF a <= b THEN b - a + 1 ELSE 0
<1>1. /\ r \in Seq(V) /\ Len(r) = l
      /\ \A i \in 1 .. b - a + 1 : r[i] = s[a + i - 1]
  <2>1. a \in Int /\ b \in Int /\ \A x \in a .. b : s[x] \in V
    OBVIOUS
  <2> HIDE DEF V
  <2>2. QED
    BY <2>1, SubSeqProperties
<1> HIDE DEF r
<1>2. Len(s) \in Nat
  BY ListLength
<1>3. ASSUME NEW i \in 1 .. Len(r)
      PROVE  a + i - 1 \in 1 .. Len(s) /\ a + i - 1 \in a .. b /\ r[i] = s[a + i - 1]
  BY <1>1, <1>2
<1>4. Descending(r)
  <2> SUFFICES ASSUME NEW i \in 1 .. Len(r), NEW k \in 1 .. Len(r), i < k
               PROVE  r[i].value >= r[k].value
    BY DEF Descending
  <2>1. a + i - 1 < a + k - 1
    BY <1>1
  <2>2. QED
    BY <1>3, <2>1 DEF Lists, Descending
<1>5. ASSUME NEW i \in 1 .. Len(r), NEW k \in 1 .. Len(r), i # k
      PROVE  r[i] # r[k]
  <2>1. a + i - 1 # a + k - 1
    BY <1>1, <1>5
  <2>2. /\ a + i - 1 \in 1 .. Len(s) /\ r[i] = s[a + i - 1]
        /\ a + k - 1 \in 1 .. Len(s) /\ r[k] = s[a + k - 1]
    BY <1>3
  <2>3. s[a + i - 1] # s[a + k - 1]
    BY <2>1, <2>2 DEF Lists
  <2>4. QED
    BY <2>2, <2>3
<1>6. ASSUME NEW u \in V PROVE \E i \in 1 .. Len(r) : r[i] = u
  <2>1. PICK x \in a .. b : u = s[x]
    OBVIOUS
  <2>2. x - a + 1 \in 1 .. b - a + 1 /\ a + (x - a + 1) - 1 = x /\ b - a + 1 = Len(r)
    BY <1>1
  <2>3. r[x - a + 1] = s[x]
    BY <1>1, <2>2
  <2>4. QED
    BY <2>1, <2>2, <2>3
<1>7. Lists(r, V)
  <2> HIDE DEF V
  <2>1. QED
    BY <1>1, <1>4, <1>5, <1>6 DEF Lists
<1>8. QED
  BY <1>7 DEF r

\* The merge of two lists is the list of the members of both, also if the second one is
\* empty, provided that what is looked at then is not above the first entry.
LEMMA MergeLists ==
  ASSUME NEW A, NEW B, \A e \in A \cup B : e.value \in Int, A \cap B = {},
         NEW s1, Lists(s1, A), Len(s1) > 0,
         NEW s2, NEW n \in Nat, Lists(SubSeq(s2, 1, n), B), Len(SubSeq(s2, 1, n)) = n,
         \A y \in 1 .. n : s2[y] = SubSeq(s2, 1, n)[y],
         n = 0 => ~ Greater(s2[1], s1[1])
  PROVE  Lists(Merge(s1, s2, n), A \cup B)
<1> DEFINE L == Len(s1)
           t == SubSeq(s2, 1, n)
           Of1(i) == {s1[x] : x \in i .. L}
           Of2(j) == {s2[y] : y \in j .. n}
<1>1. L \in Nat \ {0} /\ \A i \in 1 .. L : s1[i] \in A
  BY ListLength
<1>2. \A y \in 1 .. n : s2[y] \in B
  BY ListLength
<1>3. \A x, i \in 1 .. L : i < x => s1[i].value >= s1[x].value /\ s1[i] # s1[x]
  BY <1>1 DEF Lists, Descending
<1>4. \A y, j \in 1 .. n : j < y => s2[j].value >= s2[y].value /\ s2[j] # s2[y]
  BY <1>1 DEF Lists, Descending
<1>5. \A a \in A, b \in B : a # b
  OBVIOUS
<1>6. Of1(1) = A /\ Of2(1) = B
  <2>1. \A a \in A : \E i \in 1 .. L : s1[i] = a
    BY DEF Lists
  <2>2. \A b \in B : \E i \in 1 .. n : t[i] = b
    BY DEF Lists
  <2>3. QED
    BY <1>1, <1>2, <2>1, <2>2
<1>7. ASSUME NEW i \in Nat \ {0}, NEW x \in i .. L PROVE x \in 1 .. L
  BY <1>1
<1>8. ASSUME NEW i \in Nat \ {0}, NEW y \in i .. n PROVE y \in 1 .. n
  OBVIOUS
<1>9. ASSUME NEW i \in Nat \ {0} PROVE Lists(SubSeq(s1, i, L), Of1(i))
  BY <1>1, ListPart
<1>10. ASSUME NEW j \in Nat \ {0} PROVE Lists(SubSeq(s2, j, n), Of2(j))
  <2>1. {t[y] : y \in j .. n} = Of2(j)
    BY <1>8
  <2>2. SubSeq(t, j, n) = SubSeq(s2, j, n)
    BY <1>8
  <2>3. n <= Len(t) /\ Lists(t, B)
    OBVIOUS
  <2> HIDE DEF t, Of2
  <2>4. Lists(SubSeq(t, j, n), {t[y] : y \in j .. n})
    BY <2>3, ListPart
  <2>5. QED
    BY <2>1, <2>2, <2>4
<1>11. PICK m : Turns(m, s1, s2, n) /\ Merge(s1, s2, n) = m[<<1, 1>>]
  BY <1>1, MergeTurns
<1> DEFINE Rest(i, j) == Of1(i) \cup Of2(j)
           At(i, j) == Lists(m[<<i, j>>], Rest(i, j))
\* The entry of s2 is taken.
<1>12. ASSUME NEW i \in 1 .. L, NEW j \in 1 .. n, Greater(s2[j], s1[i]),
              j < n => At(i, j + 1)
       PROVE  At(i, j)
  <2> DEFINE r == IF j >= n THEN SubSeq(s1, i, L) ELSE m[<<i, j + 1>>]
  <2>1. Lists(r, Rest(i, j + 1))
    <3>1. CASE j >= n
      <4>1. Of2(j + 1) = {}
        BY <3>1
      <4>2. Lists(SubSeq(s1, i, L), Of1(i))
        BY <1>9
      <4> HIDE DEF Of1, Of2
      <4>3. QED
        BY <3>1, <4>1, <4>2
    <3>2. CASE ~ (j >= n)
      BY <1>12, <3>2
    <3>3. QED
      BY <3>1, <3>2
  <2>2. s2[j] \notin Rest(i, j + 1)
    BY <1>1, <1>2, <1>4, <1>5, <1>7
  <2>3. ASSUME NEW u \in Rest(i, j + 1) PROVE s2[j].value >= u.value
    <3>1. CASE u \in Of2(j + 1)
      BY <1>4, <3>1
    <3>2. CASE u \in Of1(i)
      <4>1. PICK x \in i .. L : u = s1[x]
        BY <3>2
      <4>2. x \in 1 .. L /\ s1[i].value \in Int /\ s1[x].value \in Int /\ s2[j].value \in Int
        BY <1>1, <1>2
      <4>3. x = i \/ s1[i].value >= s1[x].value
        BY <1>3, <4>2
      <4>4. s2[j].value > s1[i].value
        BY <1>12 DEF Greater
      <4>5. QED
        BY <4>1, <4>2, <4>3, <4>4
    <3>3. QED
      BY <3>1, <3>2
  <2>4. Rest(i, j) = Rest(i, j + 1) \cup {s2[j]}
    <3>1. \A y : y \in j .. n <=> y \in j + 1 .. n \/ y = j
      OBVIOUS
    <3>2. QED
      BY <3>1
  <2>5. m[<<i, j>>] = <<s2[j]>> \o r
    <3>1. j \in 1 .. n + 1
      OBVIOUS
    <3>2. m[<<i, j>>] = MergeAt(m, s1, s2, n, i, j)
      BY <1>11, <3>1 DEF Turns
    <3>3. QED
      BY <1>12, <3>2, Zenon DEF MergeAt
  <2> HIDE DEF r, Rest
  <2>6. Lists(<<s2[j]>> \o r, Rest(i, j + 1) \cup {s2[j]})
    BY <2>1, <2>2, <2>3, ListCons
  <2>7. QED
    BY <2>4, <2>5, <2>6
\* The entry of s1 is taken.
<1>13. ASSUME NEW i \in 1 .. L, NEW j \in 1 .. n + 1, ~ Greater(s2[j], s1[i]),
              i < L /\ j # n + 1 => At(i + 1, j)
       PROVE  At(i, j)
  <2> DEFINE r == IF i = L THEN SubSeq(s2, j, n)
                  ELSE IF j = n + 1 THEN SubSeq(s1, i + 1, L) ELSE m[<<i + 1, j>>]
  <2>1. Lists(r, Rest(i + 1, j))
    <3>1. CASE i = L
      <4>1. Of1(i + 1) = {}
        BY <3>1, <1>1
      <4>2. Lists(SubSeq(s2, j, n), Of2(j))
        BY <1>10
      <4> HIDE DEF Of1, Of2
      <4>3. QED
        BY <3>1, <4>1, <4>2
    <3>2. CASE i # L /\ j = n + 1
      <4>1. Of2(j) = {}
        BY <3>2
      <4>2. i + 1 \in Nat \ {0}
        OBVIOUS
      <4>3. Lists(SubSeq(s1, i + 1, L), Of1(i + 1))
        BY <1>9, <4>2
      <4> HIDE DEF Of1, Of2
      <4>4. QED
        BY <3>2, <4>1, <4>3
    <3>3. CASE i # L /\ j # n + 1
      BY <1>1, <1>13, <3>3
    <3>4. QED
      BY <3>1, <3>2, <3>3
  <2>2. s1[i] \notin Rest(i + 1, j)
    BY <1>1, <1>2, <1>3, <1>5, <1>7, <1>8
  <2>3. ASSUME NEW u \in Rest(i + 1, j) PROVE s1[i].value >= u.value
    <3>1. CASE u \in Of1(i + 1)
      BY <1>1, <1>3, <3>1
    <3>2. CASE u \in Of2(j)
      <4>1. PICK y \in j .. n : u = s2[y]
        BY <3>2
      <4>2. /\ y \in 1 .. n /\ j \in 1 .. n
            /\ s1[i].value \in Int /\ s2[y].value \in Int /\ s2[j].value \in Int
        BY <1>1, <1>2
      <4>3. y = j \/ s2[j].value >= s2[y].value
        BY <1>4, <4>2
      <4>4. ~ (s2[j].value > s1[i].value)
        BY <1>13 DEF Greater
      <4>5. QED
        BY <4>1, <4>2, <4>3, <4>4
    <3>3. QED
      BY <3>1, <3>2
  <2>4. Rest(i, j) = Rest(i + 1, j) \cup {s1[i]}
    <3>1. \A x : x \in i .. L <=> x \in i + 1 .. L \/ x = i
      BY <1>1
    <3>2. QED
      BY <3>1
  <2>5. m[<<i, j>>] = <<s1[i]>> \o r
    BY <1>11, <1>13 DEF Turns, MergeAt
  <2> HIDE DEF r, Rest
  <2>6. Lists(<<s1[i]>> \o r, Rest(i + 1, j) \cup {s1[i]})
    BY <2>1, <2>2, <2>3, ListCons
  <2>7. QED
    BY <2>4, <2>5, <2>6
<1> HIDE DEF At
<1>14. CASE n > 0
  <2> HIDE DEF L
  <2> DEFINE Bad == {k \in Nat : \E i \in 1 .. L : \E j \in 1 .. n :
                       k = (L - i) + (n - j) /\ ~ At(i, j)}
  <2>1. Bad = {}
    <3>1. SUFFICES ASSUME Bad # {} PROVE FALSE
      OBVIOUS
    <3>2. PICK k \in Bad : \A b \in Bad : k <= b
      BY <3>1, LeastNumber
    <3>3. PICK i \in 1 .. L, j \in 1 .. n : k = (L - i) + (n - j) /\ ~ At(i, j)
      OBVIOUS
    <3>4. ASSUME j < n PROVE At(i, j + 1)
      <4>1. (L - i) + (n - (j + 1)) \in Nat /\ j + 1 \in 1 .. n
        BY <1>1, <3>4
      <4>2. ~ (k <= (L - i) + (n - (j + 1)))
        BY <1>1, <3>3
      <4>3. QED
        BY <3>2, <4>1, <4>2
    <3>5. ASSUME i < L PROVE At(i + 1, j)
      <4>1. (L - (i + 1)) + (n - j) \in Nat /\ i + 1 \in 1 .. L
        BY <1>1, <3>5
      <4>2. ~ (k <= (L - (i + 1)) + (n - j))
        BY <1>1, <3>3
      <4>3. QED
        BY <3>2, <4>1, <4>2
    <3>6. j \in 1 .. n + 1
      OBVIOUS
    <3>7. CASE Greater(s2[j], s1[i])
      BY <1>12, <3>3, <3>4, <3>7
    <3>8. CASE ~ Greater(s2[j], s1[i])
      BY <1>13, <3>3, <3>5, <3>6, <3>8
    <3>9. QED
      BY <3>7, <3>8
  <2>2. 1 \in 1 .. L /\ 1 \in 1 .. n /\ (L - 1) + (n - 1) \in Nat
    BY <1>1, <1>14
  <2>3. At(1, 1)
    BY <2>1, <2>2
  <2>4. QED
    BY <1>6, <1>11, <2>3 DEF At
<1>15. CASE n = 0
  <2>1. 1 \in 1 .. L /\ 1 \in 1 .. n + 1 /\ 1 = n + 1
    BY <1>1, <1>15
  <2>2. At(1, 1)
    BY <1>13, <1>15, <2>1
  <2>3. QED
    BY <1>6, <1>11, <2>2 DEF At
<1>16. QED
  BY <1>14, <1>15
-----------------------------------------------------------------------------
(* The greatest of a set *)

\* If W members of a list reach x, so does its W-th entry.
LEMMA EntryReaches ==
  ASSUME NEW V, \A e \in V : e.value \in Int, NEW r, Lists(r, V),
         NEW U \in SUBSET V, NEW W \in 1 .. Len(r), Cardinality(U) >= W,
         NEW x \in Int, \A u \in U : u.value >= x
  PROVE  r[W].value >= x
<1>1. Len(r) \in Nat /\ (\A i \in 1 .. Len(r) : r[i] \in V) /\ IsFiniteSet(V)
  BY ListLength
<1>2. SUFFICES ASSUME ~ (r[W].value >= x) PROVE FALSE
  OBVIOUS
<1>3. ASSUME NEW u \in U PROVE \E k \in 1 .. W - 1 : r[k] = u
  <2>1. PICK k \in 1 .. Len(r) : r[k] = u
    BY DEF Lists
  <2>2. r[k].value >= x /\ r[k].value \in Int /\ r[W].value \in Int
    BY <1>1, <2>1
  <2>3. k # W /\ ~ (r[W].value >= r[k].value)
    BY <1>2, <2>2
  <2>4. ~ (W < k)
    BY <2>3 DEF Lists, Descending
  <2>5. k \in 1 .. W - 1
    BY <1>1, <2>3, <2>4
  <2>6. QED
    BY <2>1, <2>5
<1> DEFINE pos == [u \in U |-> CHOOSE k \in 1 .. W - 1 : r[k] = u]
<1>4. \A u \in U : pos[u] \in 1 .. W - 1 /\ r[pos[u]] = u
  BY <1>3
<1>5. pos \in [U -> 1 .. W - 1]
  BY <1>4
<1> HIDE DEF pos
<1>6. IsFiniteSet(U)
  BY <1>1, FS_Subset
<1>7. IsFiniteSet(1 .. W - 1) /\ Cardinality(1 .. W - 1) < W
  <2>1. 1 \in Int /\ W - 1 \in Int
    BY <1>1
  <2>2. IsFiniteSet(1 .. W - 1) /\ Cardinality(1 .. W - 1) = IF 1 > W - 1 THEN 0 ELSE (W - 1) - 1 + 1
    BY <2>1, FS_Interval
  <2>3. QED
    BY <1>1, <2>2
<1>8. Cardinality(1 .. W - 1) < Cardinality(U)
  <2>1. Cardinality(U) \in Nat /\ Cardinality(1 .. W - 1) \in Nat
    BY <1>6, <1>7, FS_CardinalityType
  <2>2. QED
    BY <1>1, <1>7, <2>1
<1>9. \E a, b \in U : a # b /\ pos[a] = pos[b]
  BY <1>5, <1>6, <1>7, <1>8, FS_PigeonHole
<1>10. QED
  BY <1>4, <1>9

\* The first entries of a list are the top of a set, if what is not on the list is not
\* above the last of them.
LEMMA PrefixTop ==
  ASSUME NEW C, \A e \in C : e.value \in Int, NEW V \in SUBSET C, NEW r, Lists(r, V),
         NEW W \in 1 .. Len(r), \A e \in C \ V : e.value <= r[W].value
  PROVE  TopOf(SubSeq(r, 1, W), C) /\ Len(SubSeq(r, 1, W)) = W
<1> DEFINE s == SubSeq(r, 1, W)
           U == {r[x] : x \in 1 .. W}
<1>1. Len(r) \in Nat /\ \A i \in 1 .. Len(r) : r[i] \in V
  BY ListLength
<1>2. Lists(s, U)
  BY <1>1, ListPart
<1>3. Len(s) = W /\ \A i \in 1 .. W : s[i] = r[i]
  <2>1. W \in Int /\ 1 \in Int /\ 1 <= W /\ \A x \in 1 .. W : r[x] \in V
    BY <1>1
  <2>2. /\ Len(s) = IF 1 <= W THEN W - 1 + 1 ELSE 0
        /\ \A i \in 1 .. W - 1 + 1 : s[i] = r[1 + i - 1]
    BY <2>1, SubSeqProperties
  <2> HIDE DEF s
  <2>3. QED
    BY <2>1, <2>2
<1> HIDE DEF s
<1>4. U \in SUBSET C
  BY <1>1
<1>5. ASSUME NEW i \in 1 .. W PROVE r[i].value >= r[W].value /\ r[i].value \in Int
  <2>1. i \in 1 .. Len(r) /\ r[i].value \in Int /\ r[W].value \in Int
    BY <1>1
  <2>2. i = W \/ i < W
    BY <1>1
  <2>3. i < W => r[i].value >= r[W].value
    BY <2>1 DEF Lists, Descending
  <2>4. QED
    BY <2>1, <2>2, <2>3
<1>6. ASSUME NEW a \in C \ U PROVE a.value <= r[W].value
  <2>1. CASE a \in V
    <3>1. PICK k \in 1 .. Len(r) : r[k] = a
      BY <2>1 DEF Lists
    <3>2. W < k
      BY <1>1, <3>1
    <3>3. r[W].value >= r[k].value /\ r[W].value \in Int /\ r[k].value \in Int
      BY <1>1, <3>2 DEF Lists, Descending
    <3>4. QED
      BY <3>1, <3>3
  <2>2. CASE a \notin V
    BY <2>2
  <2>3. QED
    BY <2>1, <2>2
<1>7. ASSUME NEW a \in C \ U, NEW i \in 1 .. Len(s) PROVE a.value <= s[i].value
  <2>1. i \in 1 .. W /\ W \in 1 .. W /\ s[i] = r[i]
    BY <1>1, <1>3
  <2>2. a.value \in Int /\ r[i].value \in Int /\ r[W].value \in Int
    BY <1>5, <2>1
  <2>3. QED
    BY <1>5, <1>6, <2>1, <2>2
<1>8. TopOf(s, C)
  <2> HIDE DEF U
  <2>1. QED
    BY <1>2, <1>4, <1>7 DEF TopOf
<1>9. QED
  BY <1>3, <1>8 DEF s

\* The members of N above x.
Above(N, x) == {e \in N : e.value > x}

\* T is the list of W for what is scanned, A, and F the sorted list for the window N, of
\* which the first n are the first n of s2.
TurnFor(A, N, T, W, F, s2, n) ==
  /\ (\A e \in A \cup N : e.value \in Int) /\ A \cap N = {}
  /\ W \in Nat \ {0} /\ TopOf(T, A) /\ Len(T) = W
  /\ Lists(F, Above(N, T[W].value)) /\ n \in Nat /\ n = Least(W, Len(F))
  /\ Len(SubSeq(s2, 1, n)) = n /\ SubSeq(s2, 1, n) = SubSeq(F, 1, n)
  /\ \A y \in 1 .. n : s2[y] = F[y] /\ SubSeq(s2, 1, n)[y] = F[y]
  /\ n = 0 => ~ Greater(s2[1], T[1])

\* s is the list of W for C.
GoodTurn(s, C, W) == TopOf(s, C) /\ Len(s) = W

\* The turn of a worker: what is above the last of the list so far is sorted and merged
\* with it, and the first entries of that are the top of all that has been scanned.
LEMMA MergeTop ==
  ASSUME NEW A, NEW N, NEW T, NEW W, NEW F, NEW s2, NEW n, TurnFor(A, N, T, W, F, s2, n)
  PROVE  GoodTurn(SubSeq(Merge(T, s2, n), 1, W), A \cup N, W)
<1>a. /\ (\A e \in A \cup N : e.value \in Int) /\ A \cap N = {}
      /\ W \in Nat \ {0} /\ TopOf(T, A) /\ Len(T) = W
      /\ Lists(F, Above(N, T[W].value)) /\ n \in Nat /\ n = Least(W, Len(F))
      /\ Len(SubSeq(s2, 1, n)) = n /\ SubSeq(s2, 1, n) = SubSeq(F, 1, n)
      /\ \A y \in 1 .. n : s2[y] = F[y] /\ SubSeq(s2, 1, n)[y] = F[y]
      /\ n = 0 => ~ Greater(s2[1], T[1])
  BY DEF TurnFor
<1> USE <1>a
<1>1. PICK U \in SUBSET A :
        Lists(T, U) /\ \A a \in A \ U : \A i \in 1 .. Len(T) : a.value <= T[i].value
  BY DEF TopOf
<1> DEFINE New == Above(N, T[W].value)
           B == {F[y] : y \in 1 .. n}
           C == A \cup N
           V == U \cup B
           r == Merge(T, s2, n)
<1>2. /\ Len(F) \in Nat /\ (\A i \in 1 .. Len(F) : F[i] \in New) /\ n <= Len(F)
      /\ n = W \/ n = Len(F)
  BY ListLength DEF Least
<1>3. /\ \A i \in 1 .. W : T[i] \in U
      /\ IsFiniteSet(U) /\ Cardinality(U) = W
  BY <1>1, ListLength
<1>4. B \in SUBSET New /\ New \in SUBSET N
  BY <1>2 DEF Above
<1> HIDE DEF New
<1>5. Lists(SubSeq(s2, 1, n), B)
  <2>1. Lists(F, New) /\ 1 \in Nat \ {0} /\ n \in Nat /\ n <= Len(F)
    BY <1>2 DEF New
  <2>2. Lists(SubSeq(F, 1, n), B)
    BY <2>1, ListPart
  <2>3. QED
    BY <2>2
<1> HIDE DEF B
<1> HIDE DEF r, C
<1>6. Lists(r, V)
  <2> USE DEF r
  <2>1. \A e \in U \cup B : e.value \in Int
    BY <1>4
  <2>2. U \cap B = {}
    BY <1>4
  <2>3. Len(T) > 0
    OBVIOUS
  <2>4. \A y \in 1 .. n : s2[y] = SubSeq(s2, 1, n)[y]
    OBVIOUS
  <2>5. QED
    BY <1>1, <1>5, <2>1, <2>2, <2>3, <2>4, MergeLists
<1>0. U \in SUBSET V /\ B \in SUBSET V /\ V \in SUBSET C /\ \A e \in C : e.value \in Int
  BY <1>4 DEF V, C
<1> HIDE DEF V
<1>7. /\ Len(r) \in Nat /\ IsFiniteSet(V) /\ Cardinality(V) = Len(r)
      /\ \A i \in 1 .. Len(r) : r[i] \in V
  BY <1>6, ListLength
<1>8. W \in 1 .. Len(r)
  <2>1. Cardinality(U) <= Cardinality(V)
    BY <1>0, <1>7, FS_Subset
  <2>2. QED
    BY <1>3, <1>7, <2>1
<1>9. r[W].value \in Int /\ T[W].value \in Int /\ W \in 1 .. W
  <2>1. r[W] \in C /\ T[W] \in C
    BY <1>0, <1>3, <1>7, <1>8
  <2>2. QED
    BY <1>0, <2>1
<1>10. r[W].value >= T[W].value
  <2>1. ASSUME NEW u \in U PROVE u.value >= T[W].value
    <3>1. PICK i \in 1 .. Len(T) : T[i] = u
      BY <1>1 DEF Lists
    <3>2. i = W \/ T[i].value >= T[W].value
      BY <1>1, <1>9 DEF Lists, Descending
    <3>3. QED
      BY <1>9, <3>1, <3>2
  <2>2. \A e \in V : e.value \in Int
    BY <1>0
  <2>3. Cardinality(U) >= W
    BY <1>3
  <2>4. QED
    BY <1>0, <1>6, <1>8, <1>9, <2>1, <2>2, <2>3, EntryReaches
<1>11. ASSUME n = W PROVE r[W].value >= F[W].value /\ F[W].value \in Int
  <2>1. W \in 1 .. Len(F) /\ F[W].value \in Int
    BY <1>2, <1>4, <1>11
  <2>2. ASSUME NEW u \in B PROVE u.value >= F[W].value
    <3>1. PICK y \in 1 .. n : u = F[y]
      BY DEF B
    <3>2. y \in 1 .. Len(F) /\ (y = W \/ F[y].value >= F[W].value)
      BY <1>2, <1>11, <2>1 DEF Lists, Descending
    <3>3. QED
      BY <2>1, <3>1, <3>2
  <2>3. \A e \in V : e.value \in Int
    BY <1>0
  <2>4. Cardinality(B) >= W
    <3>1. Lists(SubSeq(F, 1, n), B) /\ Len(SubSeq(F, 1, n)) = n
      BY <1>5
    <3>2. Cardinality(B) = n
      BY <3>1, ListLength
    <3>3. QED
      BY <1>11, <3>2
  <2>5. r[W].value >= F[W].value
    BY <1>0, <1>6, <1>8, <2>1, <2>2, <2>3, <2>4, EntryReaches
  <2>6. QED
    BY <2>1, <2>5
<1>12. ASSUME NEW e \in C \ (V) PROVE e.value <= r[W].value
  <2>1. e.value \in Int /\ e \notin U /\ e \notin B
    BY <1>0 DEF V
  <2>2. CASE e \in A
    <3>1. e.value <= T[W].value
      BY <1>1, <1>9, <2>1, <2>2
    <3>2. QED
      BY <1>9, <1>10, <2>1, <3>1
  <2>3. CASE e \in N \ New
    <3>1. ~ (e.value > T[W].value)
      BY <2>3 DEF New, Above
    <3>2. QED
      BY <1>9, <1>10, <2>1, <3>1
  <2>4. CASE e \in New
    <3>1. PICK k \in 1 .. Len(F) : F[k] = e
      BY <2>4 DEF Lists, New
    <3>2. n = W /\ W < k
      BY <1>2, <2>1, <3>1 DEF B
    <3>3. F[W].value >= F[k].value
      BY <1>2, <3>2 DEF Lists, Descending
    <3>4. QED
      BY <1>9, <1>11, <2>1, <3>1, <3>2, <3>3
  <2>5. QED
    BY <2>2, <2>3, <2>4 DEF C
<1>13. TopOf(SubSeq(r, 1, W), C) /\ Len(SubSeq(r, 1, W)) = W
  BY <1>0, <1>6, <1>8, <1>12, PrefixTop
<1>14. QED
  BY <1>13 DEF r, C, GoodTurn

\* s are n values of members of A, each of a member of its own that g gives, and no other
\* member has a greater one; n is N, or all members.
StandFor(A, val, n, N, s, g) ==
  /\ IsFiniteSet(A) /\ val \in [A -> Int] /\ n \in Nat /\ N \in Nat
  /\ n = Least(N, Cardinality(A))
  /\ s \in [1 .. n -> Int] /\ g \in Injection(1 .. n, A)
  /\ \A i \in 1 .. n : val[g[i]] = s[i]
  /\ \A a \in A : (\E i \in 1 .. n : g[i] = a) \/ \A i \in 1 .. n : val[a] <= s[i]

\* As many of the values reach x as members of A, or all of them.
AsManyReach(A, val, n, N, s, x) ==
  Cardinality({i \in 1 .. n : s[i] >= x}) = Least(N, Cardinality({a \in A : val[a] >= x}))

\* The greatest values of a set are counted right.
LEMMA TopCounts ==
  ASSUME NEW A, NEW val, NEW n, NEW N, NEW s, NEW g, StandFor(A, val, n, N, s, g), NEW x \in Int
  PROVE  AsManyReach(A, val, n, N, s, x)
<1>a. /\ IsFiniteSet(A) /\ val \in [A -> Int] /\ n \in Nat /\ N \in Nat
      /\ n = Least(N, Cardinality(A))
      /\ s \in [1 .. n -> Int] /\ g \in Injection(1 .. n, A)
      /\ \A i \in 1 .. n : val[g[i]] = s[i]
      /\ \A a \in A : (\E i \in 1 .. n : g[i] = a) \/ \A i \in 1 .. n : val[a] <= s[i]
  BY DEF StandFor
<1> USE <1>a
<1> DEFINE I == {i \in 1 .. n : s[i] >= x}
           B == {a \in A : val[a] >= x}
           h == [i \in I |-> g[i]]
<1>1. g \in [1 .. n -> A] /\ \A i, k \in 1 .. n : g[i] = g[k] => i = k
  BY DEF Injection, IsInjective
<1>2. IsFiniteSet(1 .. n) /\ Cardinality(1 .. n) = n
  <2>1. 1 \in Int /\ n \in Int
    OBVIOUS
  <2>2. IsFiniteSet(1 .. n) /\ Cardinality(1 .. n) = IF 1 > n THEN 0 ELSE n - 1 + 1
    BY <2>1, FS_Interval
  <2>3. QED
    BY <2>2
<1>3. /\ IsFiniteSet(I) /\ Cardinality(I) <= n /\ Cardinality(I) \in Nat
      /\ IsFiniteSet(B) /\ Cardinality(B) <= Cardinality(A) /\ Cardinality(B) \in Nat
      /\ Cardinality(A) \in Nat
  <2>1. I \in SUBSET (1 .. n) /\ B \in SUBSET A
    OBVIOUS
  <2> HIDE DEF I, B
  <2>2. IsFiniteSet(I) /\ Cardinality(I) <= Cardinality(1 .. n)
    BY <1>2, <2>1, FS_Subset
  <2>3. IsFiniteSet(B) /\ Cardinality(B) <= Cardinality(A)
    BY <2>1, FS_Subset
  <2>4. Cardinality(I) \in Nat /\ Cardinality(B) \in Nat /\ Cardinality(A) \in Nat
    BY <2>2, <2>3, FS_CardinalityType
  <2>5. QED
    BY <1>2, <2>2, <2>3, <2>4
<1>4. h \in Injection(I, B)
  <2>1. \A i \in I : h[i] = g[i] /\ g[i] \in B /\ i \in 1 .. n
    BY <1>1
  <2>2. h \in [I -> B]
    BY <2>1
  <2> HIDE DEF h, I, B
  <2>3. \A i, k \in I : h[i] = h[k] => i = k
    BY <1>1, <2>1
  <2>4. QED
    BY <2>2, <2>3 DEF Injection, IsInjective
<1>5. Cardinality(I) <= Cardinality(B)
  <2> HIDE DEF h, I, B
  <2>1. QED
    BY <1>3, <1>4, FS_Injection
<1>6. CASE I = 1 .. n
  <2> HIDE DEF I, B
  <2>1. Cardinality(I) = n
    BY <1>2, <1>6
  <2>2. QED
    BY <1>3, <1>5, <2>1 DEF Least, I, B, AsManyReach
<1>7. CASE I # 1 .. n
  <2>1. PICK i \in 1 .. n : ~ (s[i] >= x)
    BY <1>7
  <2>2. ASSUME NEW b \in B PROVE \E k \in I : h[k] = b
    <3>1. b \in A /\ val[b] >= x /\ val[b] \in Int /\ s[i] \in Int
      OBVIOUS
    <3>2. ~ (val[b] <= s[i])
      BY <2>1, <3>1
    <3>3. PICK k \in 1 .. n : g[k] = b
      BY <2>1, <3>1, <3>2
    <3>4. k \in I
      BY <3>1, <3>3
    <3>5. QED
      BY <3>3, <3>4
  <2>3. h \in Surjection(I, B)
    <3>1. h \in [I -> B]
      BY <1>4 DEF Injection
    <3> HIDE DEF h, I, B
    <3>2. QED
      BY <2>2, <3>1 DEF Surjection
  <2>4. Cardinality(I) = Cardinality(B)
    <3> HIDE DEF h, I, B
    <3>1. QED
      BY <1>3, <1>4, <2>3, FS_Injection
  <2> HIDE DEF I, B
  <2>5. n <= N
    BY <1>3 DEF Least
  <2>6. QED
    BY <1>3, <2>4, <2>5 DEF Least, I, B, AsManyReach
<1>8. QED
  BY <1>6, <1>7

-----------------------------------------------------------------------------
(* Sorting a window *)

\* quickSort gives a list.
LEMMA SortedLists ==
  ASSUME NEW S, IsFiniteSet(S), NEW s \in Sorted(S)
  PROVE  Lists(s, S)
<1> DEFINE D == 1 .. Cardinality(S)
<1>1. Cardinality(S) \in Nat
  BY FS_CardinalityType
<1>2. /\ s \in [D -> S]
      /\ \A i, j \in D : i # j => s[i] # s[j]
      /\ \A i \in 1 .. Len(s), k \in 1 .. Len(s) : i < k => s[i].value >= s[k].value
  BY DEF Sorted, SetToSeqs
<1>3. Len(s) = Cardinality(S) /\ s \in Seq(S)
  <2> DEFINE c == Cardinality(S)
  <2> HIDE DEF c
  <2>1. c \in Nat /\ s \in [1 .. c -> S]
    BY <1>1, <1>2 DEF c
  <2>2. Len(s) = c /\ s \in Seq(S)
    BY <2>1
  <2>3. QED
    BY <2>2 DEF c
<1>4. s \in Injection(D, S)
  BY <1>2 DEF Injection, IsInjective
<1>5. IsFiniteSet(D) /\ Cardinality(D) = Cardinality(S)
  <2> DEFINE c == Cardinality(S)
  <2> HIDE DEF c
  <2>1. c \in Nat /\ 1 \in Int /\ c \in Int
    BY <1>1 DEF c
  <2>2. IsFiniteSet(1 .. c) /\ Cardinality(1 .. c) = IF 1 > c THEN 0 ELSE c - 1 + 1
    BY <2>1, FS_Interval
  <2>3. IsFiniteSet(1 .. c) /\ Cardinality(1 .. c) = c
    BY <2>1, <2>2
  <2>4. QED
    BY <2>3 DEF c
<1> HIDE DEF D
<1>6. s \in Surjection(D, S)
  BY <1>4, <1>5, FS_Injection
<1>7. \A u \in S : \E i \in D : s[i] = u
  BY <1>6 DEF Surjection
<1>8. QED
  BY <1>2, <1>3, <1>7 DEF Lists, Descending, D
-----------------------------------------------------------------------------
(* Entries and windows *)

\* The constants of one worker.
LEMMA Sizes ==
  ASSUME NEW w \in Worker
  PROVE  /\ Size[w] \in Nat /\ Size[w] > 0 /\ NTop \in Nat /\ NTop > 0
         /\ Window \in Nat /\ Window >= NTop
         /\ Wanted(w) \in Nat /\ Wanted(w) > 0 /\ Wanted(w) <= NTop /\ Wanted(w) <= Size[w]
         /\ Wanted(w) = NTop \/ Wanted(w) = Size[w]
BY TopListAssumption DEF Wanted, Least

\* Every entry of w's vertices has a value, and can be an entry of w's lists.
LEMMA EntryOfVertex ==
  ASSUME value \in [Vertex -> Values], NEW w \in Worker, NEW v \in Local(w)
  PROVE  LET e == Entry(v, value[<<w, v>>])
         IN /\ e.vid = v /\ e.value = value[<<w, v>>]
            /\ value[<<w, v>>] \in Values /\ value[<<w, v>>] \in Int
            /\ e \in Possible(w) /\ e \in AnyEntry
<1>1. <<w, v>> \in Vertex
  BY DEF Vertex
<1>2. value[<<w, v>>] \in Values /\ value[<<w, v>>] \in Int
  BY <1>1, TopListAssumption
<1>3. Entry(v, value[<<w, v>>]) \in Possible(w)
  BY <1>2 DEF Possible
<1>4. Entry(v, value[<<w, v>>]) \in AnyEntry
  BY <1>3 DEF AnyEntry
<1>5. QED
  BY <1>2, <1>3, <1>4 DEF Entry

\* The entries of the vertices from a to b.
Between(w, a, b) == {Entry(v, value[<<w, v>>]) : v \in a .. b}

\* S are the entries of the vertices from a to b, one of each.
AreEntries(S, w, a, b) ==
  /\ IsFiniteSet(S) /\ Cardinality(S) = IF a > b THEN 0 ELSE b - a + 1
  /\ \A e \in S : /\ e.value \in Int /\ e.vid \in a .. b
                  /\ e.value = value[<<w, e.vid>>] /\ e \in Possible(w) /\ e \in AnyEntry
  /\ \A v \in a .. b : \E e \in S : e.vid = v /\ e.value = value[<<w, v>>]

\* An interval of vertices has as many entries.
LEMMA EntriesBetween ==
  ASSUME value \in [Vertex -> Values], NEW w \in Worker, NEW a \in Nat, NEW b \in Int,
         b < Size[w]
  PROVE  AreEntries(Between(w, a, b), w, a, b)
<1> DEFINE S == Between(w, a, b)
<1> USE DEF Between
<1>1. \A v \in a .. b : v \in Local(w)
  BY Sizes DEF Local
<1> DEFINE f == [v \in a .. b |-> Entry(v, value[<<w, v>>])]
<1>2. ASSUME NEW v \in a .. b
      PROVE  /\ f[v].vid = v /\ f[v].value = value[<<w, v>>] /\ f[v].value \in Int
             /\ f[v] \in Possible(w) /\ f[v] \in AnyEntry /\ f[v] \in S
  BY <1>1, EntryOfVertex
<1>3. \A e \in S : \E v \in a .. b : e = f[v]
  OBVIOUS
<1>4. f \in [a .. b -> S]
  OBVIOUS
<1> HIDE DEF f, S, Between
<1>5. f \in Bijection(a .. b, S)
  <2>1. \A u, v \in a .. b : f[u] = f[v] => u = v
    BY <1>2
  <2>2. \A e \in S : \E v \in a .. b : f[v] = e
    BY <1>3
  <2>3. QED
    BY <1>4, <2>1, <2>2 DEF Bijection, Injection, Surjection, IsInjective
<1>6. IsFiniteSet(a .. b) /\ Cardinality(a .. b) = IF a > b THEN 0 ELSE b - a + 1
  BY FS_Interval
<1>7. IsFiniteSet(S) /\ Cardinality(S) = Cardinality(a .. b)
  BY <1>5, <1>6, FS_Bijection DEF ExistsBijection
<1>8. \A e \in S : /\ e.value \in Int /\ e.vid \in a .. b
                   /\ e.value = value[<<w, e.vid>>] /\ e \in Possible(w) /\ e \in AnyEntry
  <2> TAKE e \in S
  <2>1. PICK v \in a .. b : e = f[v]
    BY <1>3
  <2>2. QED
    BY <1>2, <2>1
<1>9. \A v \in a .. b : \E e \in S : e.vid = v /\ e.value = value[<<w, v>>]
  BY <1>2
<1>10. QED
  BY <1>6, <1>7, <1>8, <1>9 DEF S, AreEntries

\* What w has scanned.
LEMMA EntriesFacts ==
  ASSUME value \in [Vertex -> Values], NEW w \in Worker, st[w] \in Nat
  PROVE  /\ IsFiniteSet(EntriesOf(w)) /\ Cardinality(EntriesOf(w)) = Least(st[w], Size[w])
         /\ \A e \in EntriesOf(w) :
              /\ e.value \in Int /\ e.vid \in Scanned(w) /\ e.vid \in Local(w)
              /\ e.value = value[<<w, e.vid>>] /\ e \in Possible(w) /\ e \in AnyEntry
         /\ \A v \in Scanned(w) : \E e \in EntriesOf(w) : e.vid = v /\ e.value = value[<<w, v>>]
<1> DEFINE b == Least(st[w], Size[w]) - 1
<1>1. b \in Int /\ b < Size[w] /\ b + 1 = Least(st[w], Size[w]) /\ b + 1 >= 0
  BY Sizes DEF Least
<1>2. Scanned(w) = 0 .. b /\ EntriesOf(w) = {Entry(v, value[<<w, v>>]) : v \in 0 .. b}
  BY DEF Scanned, EntriesOf
<1>3. \A v \in 0 .. b : v \in Local(w)
  BY <1>1, Sizes DEF Local
<1> HIDE DEF b
<1> DEFINE S == EntriesOf(w)
<1>4. S = Between(w, 0, b)
  BY <1>2 DEF Between
<1> HIDE DEF S
<1>5. AreEntries(S, w, 0, b)
  BY <1>1, <1>4, EntriesBetween
<1>6. Cardinality(S) = Least(st[w], Size[w])
  BY <1>1, <1>5 DEF AreEntries
<1>7. QED
  BY <1>2, <1>3, <1>5, <1>6 DEF S, AreEntries

\* The next window: none of it is scanned, and then all of it is.
LEMMA WindowFacts ==
  ASSUME value \in [Vertex -> Values], NEW w \in Worker, st[w] \in Nat, st[w] < Size[w]
  PROVE  /\ IsFiniteSet(WindowOf(w)) /\ Cardinality(WindowOf(w)) = Least(Window, Size[w] - st[w])
         /\ \A e \in WindowOf(w) :
              e.value \in Int /\ e \in Possible(w) /\ e \in AnyEntry
         /\ EntriesOf(w) \cap WindowOf(w) = {}
         /\ value' = value /\ st'[w] = st[w] + Window
              => EntriesOf(w)' = EntriesOf(w) \cup WindowOf(w)
<1> DEFINE b == Least(st[w] + Window, Size[w]) - 1
           S == WindowOf(w)
<1>1. /\ b \in Int /\ b < Size[w] /\ b >= st[w] /\ b - st[w] + 1 = Least(Window, Size[w] - st[w])
  BY Sizes DEF Least
<1>2. S = {Entry(v, value[<<w, v>>]) : v \in st[w] .. b} /\ S = Between(w, st[w], b)
  BY DEF WindowOf, Between
<1> HIDE DEF S
<1>3. AreEntries(S, w, st[w], b)
  <2> HIDE DEF b
  <2>1. QED
    BY <1>1, <1>2, EntriesBetween
<1>4. Cardinality(S) = Least(Window, Size[w] - st[w])
  <2> HIDE DEF b
  <2>1. QED
    BY <1>1, <1>3 DEF AreEntries
<1>5. Scanned(w) = 0 .. st[w] - 1
  BY Sizes DEF Scanned, Least
<1>6. EntriesOf(w) \cap S = {}
  <2>1. \A x \in 0 .. st[w] - 1 : x \notin st[w] .. b
    BY <1>1
  <2>2. \A e \in EntriesOf(w) : e.vid \in 0 .. st[w] - 1
    BY <1>5, EntriesFacts
  <2>3. \A e \in S : e.vid \in st[w] .. b
    BY <1>3 DEF AreEntries
  <2>4. QED
    BY <2>1, <2>2, <2>3
<1>7. ASSUME value' = value, st'[w] = st[w] + Window
      PROVE  EntriesOf(w)' = EntriesOf(w) \cup S
  <2>1. Scanned(w)' = 0 .. b
    BY <1>7 DEF Scanned
  <2>2. 0 .. b = (0 .. st[w] - 1) \cup (st[w] .. b)
    <3> HIDE DEF b
    <3>1. QED
      BY <1>1
  <2>3. EntriesOf(w)' = {Entry(v, value[<<w, v>>]) : v \in 0 .. b}
    BY <1>7, <2>1 DEF EntriesOf
  <2>4. EntriesOf(w) = {Entry(v, value[<<w, v>>]) : v \in 0 .. st[w] - 1}
    BY <1>5 DEF EntriesOf
  <2> HIDE DEF b
  <2>5. QED
    BY <1>2, <2>2, <2>3, <2>4
<1>8. QED
  BY <1>3, <1>4, <1>6, <1>7 DEF S, AreEntries
-----------------------------------------------------------------------------
(* Scan *)

\* buffer_idxs after new entries have been written over the first ones.
LEMMA Overwritten ==
  ASSUME NEW E, NEW found \in Seq(E), NEW old \in Seq(E),
         NEW buf, buf = found \o SubSeq(old, Len(found) + 1, Len(old))
  PROVE  /\ buf \in Seq(E) /\ Len(buf) >= Len(found) /\ Len(buf) >= Len(old) /\ Len(buf) \in Nat
         /\ Len(found) = 0 => buf = old
         /\ old = <<>> => buf = found
         /\ \A n \in 0 .. Len(found) :
              /\ SubSeq(buf, 1, n) = SubSeq(found, 1, n) /\ Len(SubSeq(buf, 1, n)) = n
              /\ \A y \in 1 .. n : buf[y] = found[y] /\ SubSeq(buf, 1, n)[y] = found[y]
<1> DEFINE rest == SubSeq(old, Len(found) + 1, Len(old))
<1>1. Len(found) \in Nat /\ Len(old) \in Nat /\ \A i \in 1 .. Len(old) : old[i] \in E
  BY LenProperties
<1>2. /\ rest \in Seq(E)
      /\ Len(rest) = IF Len(found) + 1 <= Len(old) THEN Len(old) - (Len(found) + 1) + 1 ELSE 0
      /\ \A i \in 1 .. Len(old) - (Len(found) + 1) + 1 : rest[i] = old[Len(found) + 1 + i - 1]
  <2>1. Len(found) + 1 \in Int /\ Len(old) \in Int /\ \A i \in Len(found) + 1 .. Len(old) : old[i] \in E
    BY <1>1
  <2>2. QED
    BY <2>1, SubSeqProperties
<1> HIDE DEF rest
<1>3. buf = found \o rest
  BY DEF rest
<1>4. /\ buf \in Seq(E) /\ Len(buf) = Len(found) + Len(rest)
      /\ \A i \in 1 .. Len(found) + Len(rest) :
           buf[i] = IF i <= Len(found) THEN found[i] ELSE rest[i - Len(found)]
  BY <1>2, <1>3, ConcatProperties
<1>5. Len(rest) \in Nat
  BY <1>2, LenProperties
<1>6. Len(buf) >= Len(found) /\ Len(buf) >= Len(old) /\ Len(buf) \in Nat
  <2> DEFINE a == Len(found)
             b == Len(old)
             c == Len(rest)
  <2>1. a \in Nat /\ b \in Nat /\ c \in Nat /\ c = IF a + 1 <= b THEN b - (a + 1) + 1 ELSE 0
    BY <1>1, <1>2, <1>5
  <2>2. Len(buf) = a + c
    BY <1>4
  <2> HIDE DEF a, b, c
  <2>3. a + c >= a /\ a + c >= b /\ a + c \in Nat
    BY <2>1
  <2>4. QED
    BY <2>2, <2>3 DEF a, b
<1>7. ASSUME Len(found) = 0 PROVE buf = old
  <2>1. Len(rest) = Len(old) /\ \A i \in 1 .. Len(old) : rest[i] = old[i]
    BY <1>1, <1>2, <1>7
  <2>2. rest = old
    BY <1>2, <2>1, SeqEqual
  <2>3. found = <<>>
    BY <1>7
  <2>4. QED
    BY <1>2, <1>3, <2>2, <2>3, ConcatEmptySeq
<1>8. ASSUME old = <<>> PROVE buf = found
  <2>1. Len(old) = 0
    BY <1>8
  <2>2. Len(rest) = 0
    BY <1>1, <1>2, <2>1
  <2>3. rest = <<>>
    BY <1>2, <2>2, EmptySeq
  <2>4. QED
    BY <1>3, <2>3, ConcatEmptySeq
<1>9. ASSUME NEW n \in 0 .. Len(found)
      PROVE  /\ SubSeq(buf, 1, n) = SubSeq(found, 1, n) /\ Len(SubSeq(buf, 1, n)) = n
             /\ \A y \in 1 .. n : buf[y] = found[y] /\ SubSeq(buf, 1, n)[y] = found[y]
  <2>1. n \in Int /\ n \in Nat /\ 1 \in Int /\ n <= Len(found)
    BY <1>1
  <2>2. \A y \in 1 .. n : buf[y] = found[y] /\ buf[y] \in E /\ found[y] \in E
    <3> TAKE y \in 1 .. n
    <3>1. y \in 1 .. Len(found) /\ y <= Len(found)
      BY <1>1, <2>1
    <3>2. y \in 1 .. Len(found) + Len(rest)
      BY <1>1, <1>5, <3>1
    <3>3. buf[y] = found[y]
      BY <1>4, <3>1, <3>2
    <3>4. QED
      BY <3>1, <3>3
  <2>3. /\ SubSeq(buf, 1, n) \in Seq(E) /\ Len(SubSeq(buf, 1, n)) = IF 1 <= n THEN n - 1 + 1 ELSE 0
        /\ \A i \in 1 .. n - 1 + 1 : SubSeq(buf, 1, n)[i] = buf[1 + i - 1]
    BY <2>1, <2>2, SubSeqProperties
  <2>4. /\ SubSeq(found, 1, n) \in Seq(E) /\ Len(SubSeq(found, 1, n)) = IF 1 <= n THEN n - 1 + 1 ELSE 0
        /\ \A i \in 1 .. n - 1 + 1 : SubSeq(found, 1, n)[i] = found[1 + i - 1]
    BY <2>1, <2>2, SubSeqProperties
  <2> DEFINE u == SubSeq(buf, 1, n)
             v == SubSeq(found, 1, n)
  <2>5. u \in Seq(E) /\ v \in Seq(E) /\ Len(u) = n /\ Len(v) = n
    BY <2>1, <2>3, <2>4
  <2>6. \A y \in 1 .. n : u[y] = buf[y] /\ v[y] = found[y]
    <3> TAKE y \in 1 .. n
    <3>1. y \in 1 .. n - 1 + 1 /\ 1 + y - 1 = y
      BY <2>1
    <3>2. QED
      BY <2>3, <2>4, <3>1
  <2> HIDE DEF u, v
  <2>7. u = v
    BY <2>2, <2>5, <2>6, SeqEqual
  <2>8. QED
    BY <2>2, <2>5, <2>6, <2>7 DEF u, v
<1>10. QED
  BY <1>4, <1>6, <1>7, <1>8, <1>9

\* The list of a worker after a window.
LEMMA ScanList ==
  ASSUME TopInv, NEW w \in Worker, Scan(w)
  PROVE  /\ ListInv(w)'
         /\ topbuf'[w] \in Seq(AnyEntry) /\ buffer'[w] \in Seq(AnyEntry)
<1> DEFINE Inc == {e \in WindowOf(w) : Included(w, e)}
           A == EntriesOf(w)
           N == WindowOf(w)
           W == Wanted(w)
           T == topbuf[w]
<1>1. /\ value \in [Vertex -> Values] /\ st[w] \in Nat /\ ListInv(w)
      /\ st \in [Worker -> Nat] /\ topbuf \in [Worker -> Seq(AnyEntry)]
      /\ buffer \in [Worker -> Seq(AnyEntry)]
  BY DEF TopInv
<1>2. st[w] < Size[w] /\ value' = value /\ st' = [st EXCEPT ![w] = @ + Window]
  BY DEF Scan
<1>3. PICK found \in Sorted(Inc) :
        LET buf == found \o SubSeq(buffer[w], Len(found) + 1, Len(buffer[w]))
        IN /\ buffer' = [buffer EXCEPT ![w] = buf]
           /\ topbuf' = [topbuf EXCEPT ![w] =
                IF st[w] = 0 THEN SubSeq(buf, 1, Wanted(w))
                ELSE SubSeq(Merge(@, buf, Least(Wanted(w), Len(found))), 1, Wanted(w))]
  BY DEF Scan
<1> DEFINE buf == found \o SubSeq(buffer[w], Len(found) + 1, Len(buffer[w]))
           n == Least(W, Len(found))
<1>4. /\ buffer'[w] = buf
      /\ topbuf'[w] = IF st[w] = 0 THEN SubSeq(buf, 1, W) ELSE SubSeq(Merge(T, buf, n), 1, W)
  BY <1>1, <1>3
<1>5. st'[w] = st[w] + Window
  BY <1>1, <1>2
<1>6. /\ IsFiniteSet(N) /\ Cardinality(N) = Least(Window, Size[w] - st[w])
      /\ A \cap N = {} /\ EntriesOf(w)' = A \cup N
      /\ \A e \in A \cup N : e.value \in Int /\ e \in AnyEntry
  BY <1>1, <1>2, <1>5, EntriesFacts, WindowFacts
<1>7. /\ W \in Nat /\ W > 0 /\ W <= NTop /\ W <= Size[w]
      /\ NTop \in Nat /\ Window \in Nat /\ Window >= NTop /\ Size[w] \in Nat
  BY Sizes
<1>8. Lists(found, Inc) /\ found \in Seq(A \cup N) /\ Len(found) \in Nat
  <2>1. IsFiniteSet(Inc)
    BY <1>6, FS_Subset
  <2>2. Lists(found, Inc)
    BY <2>1, <1>3, SortedLists
  <2>3. found \in Seq(Inc) /\ Len(found) \in Nat
    BY <2>2, ListLength DEF Lists
  <2>4. Inc \subseteq A \cup N
    OBVIOUS
  <2>5. QED
    BY <2>2, <2>3, <2>4, SeqMonotonic
<1>9. buffer[w] \in Seq(A \cup N)
  <2>1. CASE st[w] = 0
    <3>1. buffer[w] = <<>>
      BY <1>1, <2>1 DEF ListInv
    <3>2. QED
      BY <3>1, EmptySeq
  <2>2. CASE st[w] # 0
    <3>1. buffer[w] \in Seq(A)
      BY <1>1, <2>2 DEF ListInv
    <3> HIDE DEF A, N
    <3>2. QED
      BY <3>1, SeqMonotonic
  <2>3. QED
    BY <2>1, <2>2
<1> HIDE DEF buf, A, N
<1>10. /\ buf \in Seq(A \cup N) /\ Len(buf) >= Len(found) /\ Len(buf) >= Len(buffer[w])
       /\ Len(buf) \in Nat
       /\ Len(found) = 0 => buf = buffer[w]
       /\ buffer[w] = <<>> => buf = found
       /\ \A k \in 0 .. Len(found) :
            /\ SubSeq(buf, 1, k) = SubSeq(found, 1, k) /\ Len(SubSeq(buf, 1, k)) = k
            /\ \A y \in 1 .. k : buf[y] = found[y] /\ SubSeq(buf, 1, k)[y] = found[y]
  BY <1>8, <1>9, Overwritten DEF buf
\* The first window: the sorted entries are copied.
<1>11. ASSUME st[w] = 0
       PROVE  TopOf(topbuf'[w], A \cup N) /\ Len(topbuf'[w]) = W /\ Len(buf) > 0
  <2>1. Inc = N /\ buf = found
    BY <1>1, <1>10, <1>11 DEF ListInv, Included, N
  <2>2. A = {}
    <3>1. Scanned(w) = {}
      BY <1>7, <1>11 DEF Scanned, Least
    <3>2. QED
      BY <3>1 DEF A, EntriesOf
  <2>3. Len(found) = Cardinality(N)
    BY <1>8, <2>1, ListLength
  <2>4. W \in 1 .. Len(found) /\ Len(found) > 0
    BY <1>6, <1>7, <1>11, <2>3 DEF Least
  <2>5. TopOf(SubSeq(found, 1, W), N) /\ Len(SubSeq(found, 1, W)) = W
    <3>1. N \in SUBSET N /\ (\A e \in N : e.value \in Int) /\ Lists(found, N)
      BY <1>6, <1>8, <2>1
    <3> HIDE DEF W, Inc
    <3>2. QED
      BY <2>4, <3>1, PrefixTop
  <2>6. topbuf'[w] = SubSeq(found, 1, W)
    BY <1>4, <1>11, <2>1
  <2> HIDE DEF W, Inc
  <2>7. TopOf(topbuf'[w], A \cup N) /\ Len(topbuf'[w]) = W /\ Len(buf) > 0
    BY <2>1, <2>2, <2>4, <2>5, <2>6
  <2>8. QED
    BY <2>7
\* A later one: they are merged with the list so far.
<1>12. ASSUME st[w] # 0
       PROVE  TopOf(topbuf'[w], A \cup N) /\ Len(topbuf'[w]) = W /\ Len(buf) > 0
  <2>1. TopOf(T, A) /\ Len(T) = W /\ buffer[w] \in Seq(A) /\ Len(buffer[w]) > 0
    BY <1>1, <1>12 DEF ListInv, A
  <2>2. Inc = Above(N, T[W].value)
    BY <1>12 DEF Included, N, Above
  <2>3. n \in Nat /\ n \in 0 .. Len(found) /\ (n = 0 => Len(found) = 0)
    BY <1>7, <1>8 DEF Least
  <2>4. ASSUME n = 0 PROVE ~ Greater(buf[1], T[1])
    <3>1. buf = buffer[w]
      BY <1>10, <2>3, <2>4
    <3>2. buf[1] \in A
      <4>1. 1 \in 1 .. Len(buffer[w])
        BY <2>1, LenProperties
      <4>2. QED
        BY <2>1, <3>1, <4>1, ElementOfSeq
    <3>3. PICK U \in SUBSET A :
            Lists(T, U) /\ \A a \in A \ U : \A i \in 1 .. Len(T) : a.value <= T[i].value
      BY <2>1 DEF TopOf
    <3>4. 1 \in 1 .. Len(T) /\ T[1] \in A
      BY <1>7, <2>1, <3>3, ListLength
    <3>5. T[1].value \in Int /\ buf[1].value \in Int
      BY <1>6, <3>2, <3>4
    <3>6. CASE buf[1] \in U
      <4>1. PICK i \in 1 .. Len(T) : T[i] = buf[1]
        BY <3>3, <3>6 DEF Lists
      <4>2. i = 1 \/ 1 < i
        BY <1>7, <2>1
      <4>3. 1 < i => T[1].value >= T[i].value
        BY <3>3, <3>4 DEF Lists, Descending
      <4>4. QED
        BY <3>5, <4>1, <4>2, <4>3 DEF Greater
    <3>7. CASE buf[1] \notin U
      <4>1. buf[1].value <= T[1].value
        BY <3>2, <3>3, <3>4, <3>7
      <4>2. QED
        BY <3>5, <4>1 DEF Greater
    <3>8. QED
      BY <3>6, <3>7
  <2>5. /\ Len(SubSeq(buf, 1, n)) = n /\ SubSeq(buf, 1, n) = SubSeq(found, 1, n)
        /\ \A y \in 1 .. n : buf[y] = found[y] /\ SubSeq(buf, 1, n)[y] = found[y]
    BY <1>10, <2>3
  <2>6. \A e \in A \cup N : e.value \in Int
    BY <1>6
  <2>7. Lists(found, Above(N, T[W].value))
    BY <1>8, <2>2
  <2>8. W \in Nat \ {0} /\ A \cap N = {} /\ n = Least(W, Len(found))
    BY <1>6, <1>7
  <2>9. topbuf'[w] = SubSeq(Merge(T, buf, n), 1, W)
    BY <1>4, <1>12
  <2> HIDE DEF W, n, T, Inc
  <2>10. TopOf(SubSeq(Merge(T, buf, n), 1, W), A \cup N) /\ Len(SubSeq(Merge(T, buf, n), 1, W)) = W
    <3>1. TurnFor(A, N, T, W, found, buf, n)
      BY <2>1, <2>3, <2>4, <2>5, <2>6, <2>7, <2>8 DEF TurnFor
    <3>2. GoodTurn(SubSeq(Merge(T, buf, n), 1, W), A \cup N, W)
      BY <3>1, MergeTop
    <3>3. QED
      BY <3>2 DEF GoodTurn
  <2>11. Len(buf) > 0
    <3>1. Len(buffer[w]) \in Nat
      BY <2>1, LenProperties
    <3>2. QED
      BY <1>10, <2>1, <3>1
  <2>12. QED
    BY <2>9, <2>10, <2>11
<1>13. /\ TopOf(topbuf'[w], A \cup N) /\ Len(topbuf'[w]) = W
       /\ buf \in Seq(A \cup N) /\ Len(buf) > 0
  <2>1. TopOf(topbuf'[w], A \cup N) /\ Len(topbuf'[w]) = W /\ Len(buf) > 0
    BY <1>11, <1>12
  <2>2. QED
    BY <1>10, <2>1
<1>14. ListInv(w)'
  <2>1. st'[w] # 0 /\ st'[w] \in Window .. Size[w] + Window
    BY <1>1, <1>2, <1>5, <1>7
  <2>2. Wanted(w)' = W /\ Size[w]' = Size[w]
    BY DEF Wanted
  <2> HIDE DEF W
  <2>3. QED
    BY <1>4, <1>6, <1>13, <2>1, <2>2 DEF ListInv
<1>15. A \cup N \in SUBSET AnyEntry
  BY <1>6
<1>16. buffer'[w] \in Seq(AnyEntry)
  BY <1>4, <1>13, <1>15, SeqMonotonic
<1>17. topbuf'[w] \in Seq(AnyEntry)
  <2>1. PICK U \in SUBSET (A \cup N) : Lists(topbuf'[w], U)
    BY <1>13 DEF TopOf
  <2>2. topbuf'[w] \in Seq(U)
    BY <2>1 DEF Lists
  <2>3. U \in SUBSET AnyEntry
    BY <1>15
  <2>4. QED
    BY <2>2, <2>3, SeqMonotonic
<1>18. QED
  BY <1>14, <1>16, <1>17
-----------------------------------------------------------------------------
(* The invariant *)

\* What a step changes of one list, the others do not notice.
LEMMA OtherLists ==
  ASSUME NEW x \in Worker, value' = value, st'[x] = st[x], topbuf'[x] = topbuf[x],
         buffer'[x] = buffer[x], ListInv(x)
  PROVE  ListInv(x)'
<1>1. EntriesOf(x)' = EntriesOf(x) /\ Wanted(x)' = Wanted(x)
  BY DEF EntriesOf, Scanned, Wanted
<1>2. QED
  BY <1>1 DEF ListInv

\* Nor do the other queues.
LEMMA OtherQueues ==
  ASSUME NEW x \in Worker, (x \in done)' <=> x \in done, q'[x] = q[x],
         x \in done => topbuf'[x] = topbuf[x] /\ st'[x] = st[x],
         Len(out) \in Nat, out' = out \/ Len(out)' = Len(out) + 1, QueueInv(x)
  PROVE  QueueInv(x)'
<1>1. Popped(x)' = Popped(x) /\ Wanted(x)' = Wanted(x) /\ Possible(x)' = Possible(x)
  BY DEF Popped, Wanted, Possible
<1>2. CASE x \notin done
  BY <1>2 DEF QueueInv
<1>3. CASE x \in done
  <2>1. /\ st[x] >= Size[x] /\ q[x] \in Seq(Possible(x)) /\ Popped(x) \in 0 .. Len(out)
        /\ \A i \in 1 .. Len(q[x]) :
             Popped(x) + i <= Wanted(x) => q[x][i] = topbuf[x][Popped(x) + i]
    BY <1>3 DEF QueueInv
  <2>2. Popped(x) \in 0 .. Len(out)'
    BY <2>1
  <2>3. (x \in done)' /\ topbuf'[x] = topbuf[x] /\ st'[x] = st[x]
    BY <1>3
  <2> HIDE DEF Possible, Popped, Wanted
  <2>4. /\ (st[x] >= Size[x])' /\ (q[x] \in Seq(Possible(x)))' /\ (Popped(x) \in 0 .. Len(out))'
        /\ (\A i \in 1 .. Len(q[x]) :
              Popped(x) + i <= Wanted(x) => q[x][i] = topbuf[x][Popped(x) + i])'
    BY <1>1, <2>1, <2>2, <2>3
  <2>5. QED
    BY <2>3, <2>4 DEF QueueInv
<1>4. QED
  BY <1>2, <1>3

\* TopInv, when a worker reads a window.
LEMMA ScanStep ==
  ASSUME TopInv, NEW w \in Worker, Scan(w)
  PROVE  TopInv'
<1>1. /\ value \in [Vertex -> Values] /\ st \in [Worker -> Nat] /\ done \subseteq Worker
      /\ topbuf \in [Worker -> Seq(AnyEntry)] /\ buffer \in [Worker -> Seq(AnyEntry)]
      /\ q \in [Worker -> Seq(AnyEntry)] /\ out \in Seq(AnyEntry) /\ Len(out) <= NTop
      /\ done = Worker \/ out = <<>>
      /\ \A x \in Worker : ListInv(x) /\ QueueInv(x)
  BY DEF TopInv
<1>2. /\ st[w] < Size[w] /\ st' = [st EXCEPT ![w] = @ + Window]
      /\ value' = value /\ done' = done /\ q' = q /\ out' = out
  BY DEF Scan
<1>3. /\ buffer' = [buffer EXCEPT ![w] = buffer'[w]]
      /\ topbuf' = [topbuf EXCEPT ![w] = topbuf'[w]]
  BY <1>1 DEF Scan
<1>4. ListInv(w)' /\ topbuf'[w] \in Seq(AnyEntry) /\ buffer'[w] \in Seq(AnyEntry)
  BY ScanList
<1>5. /\ st' \in [Worker -> Nat] /\ topbuf' \in [Worker -> Seq(AnyEntry)]
      /\ buffer' \in [Worker -> Seq(AnyEntry)]
  <2>1. st[w] + Window \in Nat
    BY <1>1, Sizes
  <2>2. QED
    BY <1>1, <1>2, <1>3, <1>4, <2>1
<1>6. w \notin done
  BY <1>1, <1>2, Sizes DEF QueueInv
<1>7. AnyEntry' = AnyEntry
  BY DEF AnyEntry, Possible
<1>8. ASSUME NEW x \in Worker PROVE (ListInv(x) /\ QueueInv(x))'
  <2>1. x # w => st'[x] = st[x] /\ topbuf'[x] = topbuf[x] /\ buffer'[x] = buffer[x]
    BY <1>1, <1>2, <1>3
  <2>2. ListInv(x)'
    <3>1. CASE x = w
      BY <1>4, <3>1
    <3>2. CASE x # w
      BY <1>1, <1>2, <2>1, <3>2, OtherLists
    <3>3. QED
      BY <3>1, <3>2
  <2>3. QueueInv(x)'
    <3>1. (x \in done)' <=> x \in done
      BY <1>2
    <3>2. x \in done => topbuf'[x] = topbuf[x] /\ st'[x] = st[x]
      BY <1>6, <2>1
    <3>3. Len(out) \in Nat /\ q'[x] = q[x]
      BY <1>1, <1>2, LenProperties
    <3>4. QED
      BY <1>1, <1>2, <3>1, <3>2, <3>3, OtherQueues
  <2>4. QED
    BY <2>2, <2>3
<1>9. QED
  BY <1>1, <1>2, <1>5, <1>7, <1>8 DEF TopInv

\* TopInv, when a worker sends its list.
LEMMA SendStep ==
  ASSUME TopInv, NEW w \in Worker, Send(w)
  PROVE  TopInv'
<1>1. /\ value \in [Vertex -> Values] /\ st \in [Worker -> Nat] /\ done \subseteq Worker
      /\ topbuf \in [Worker -> Seq(AnyEntry)] /\ buffer \in [Worker -> Seq(AnyEntry)]
      /\ q \in [Worker -> Seq(AnyEntry)] /\ out \in Seq(AnyEntry) /\ Len(out) <= NTop
      /\ done = Worker \/ out = <<>>
      /\ \A x \in Worker : ListInv(x) /\ QueueInv(x)
  BY DEF TopInv
<1>2. PICK rest \in [1 .. Unfilled(w) -> Unwritten] : q' = [q EXCEPT ![w] = topbuf[w] \o rest]
  BY DEF Send
<1>3. /\ st[w] >= Size[w] /\ w \notin done /\ done' = done \cup {w} /\ out' = out /\ value' = value
      /\ st' = st /\ topbuf' = topbuf /\ buffer' = buffer
  BY DEF Send
<1>4. /\ Wanted(w) \in Nat /\ NTop \in Nat /\ Wanted(w) > 0 /\ Wanted(w) <= NTop
      /\ Size[w] \in Nat /\ Size[w] > 0
  BY Sizes
<1>5. Len(topbuf[w]) = Wanted(w) /\ TopOf(topbuf[w], EntriesOf(w))
  BY <1>1, <1>3, <1>4 DEF ListInv
<1>6. topbuf[w] \in Seq(Possible(w))
  <2>1. PICK U \in SUBSET EntriesOf(w) : Lists(topbuf[w], U)
    BY <1>5 DEF TopOf
  <2>2. EntriesOf(w) \in SUBSET Possible(w)
    BY <1>1, EntriesFacts
  <2>3. topbuf[w] \in Seq(U) /\ U \in SUBSET Possible(w)
    BY <2>1, <2>2 DEF Lists
  <2>4. QED
    BY <2>3, SeqMonotonic
<1>7. rest \in Seq(Possible(w)) /\ Len(rest) = NTop - Wanted(w)
  <2> DEFINE k == Unfilled(w)
  <2>1. k \in Nat /\ k = NTop - Wanted(w)
    BY <1>4 DEF Unfilled
  <2>2. Unwritten \subseteq Possible(w)
    BY DEF Possible
  <2>3. rest \in [1 .. k -> Possible(w)]
    BY <2>2
  <2> HIDE DEF k
  <2>4. rest \in Seq(Possible(w)) /\ Len(rest) = k
    BY <2>1, <2>3
  <2>5. QED
    BY <2>1, <2>4
<1> DEFINE list == topbuf[w] \o rest
<1>8. /\ list \in Seq(Possible(w)) /\ Len(list) = NTop
      /\ \A i \in 1 .. Wanted(w) : list[i] = topbuf[w][i]
  <2>1. /\ list \in Seq(Possible(w)) /\ Len(list) = Len(topbuf[w]) + Len(rest)
        /\ \A i \in 1 .. Len(topbuf[w]) + Len(rest) :
             list[i] = IF i <= Len(topbuf[w]) THEN topbuf[w][i] ELSE rest[i - Len(topbuf[w])]
    BY <1>6, <1>7, ConcatProperties
  <2> HIDE DEF list
  <2>2. Len(topbuf[w]) + Len(rest) = NTop
    BY <1>4, <1>5, <1>7
  <2>3. \A i \in 1 .. Wanted(w) : i \in 1 .. NTop /\ i <= Wanted(w)
    BY <1>4
  <2>4. QED
    BY <1>5, <2>1, <2>2, <2>3
<1> HIDE DEF list
<1>9. q' = [q EXCEPT ![w] = list] /\ q'[w] = list
  BY <1>1, <1>2 DEF list
<1>10. q' \in [Worker -> Seq(AnyEntry)]
  <2>1. Possible(w) \in SUBSET AnyEntry
    BY DEF AnyEntry
  <2>2. list \in Seq(AnyEntry)
    BY <1>8, <2>1, SeqMonotonic
  <2>3. QED
    BY <1>1, <1>9, <2>2
<1>11. out = <<>> /\ Len(out) = 0
  BY <1>1, <1>3
<1>12. QueueInv(w)'
  <2>1. Popped(w)' = 0
    BY <1>4, <1>8, <1>9 DEF Popped
  <2>2. Wanted(w)' = Wanted(w) /\ Possible(w)' = Possible(w)
    BY DEF Wanted, Possible
  <2>3. \A i \in 1 .. Len(list) : 0 + i <= Wanted(w) => list[i] = topbuf[w][0 + i]
    <3> TAKE i \in 1 .. Len(list)
    <3>1. i \in Nat /\ 0 + i = i /\ (i <= Wanted(w) => i \in 1 .. Wanted(w))
      BY <1>4, <1>8
    <3>2. QED
      BY <1>8, <3>1
  <2>4. 0 \in 0 .. 0 /\ (w \in done)' /\ (st[w] >= Size[w])'
    BY <1>3
  <2>5. QED
    BY <1>3, <1>8, <1>9, <1>11, <2>1, <2>2, <2>3, <2>4 DEF QueueInv
<1>13. ASSUME NEW x \in Worker PROVE (ListInv(x) /\ QueueInv(x))'
  <2>1. ListInv(x)'
    BY <1>1, <1>3, OtherLists
  <2>2. CASE x = w
    BY <1>12, <2>1, <2>2
  <2>3. CASE x # w
    <3>1. (x \in done)' <=> x \in done
      BY <1>3, <2>3
    <3>2. q'[x] = q[x] /\ Len(out) \in Nat
      BY <1>1, <1>9, <1>11, <2>3
    <3>3. QueueInv(x)'
      BY <1>1, <1>3, <3>1, <3>2, OtherQueues
    <3>4. QED
      BY <2>1, <3>3
  <2>4. QED
    BY <2>2, <2>3
<1>14. AnyEntry' = AnyEntry
  BY DEF AnyEntry, Possible
<1>15. QED
  BY <1>1, <1>3, <1>10, <1>11, <1>13, <1>14 DEF TopInv

\* The list that a turn of the printing loop takes from.
LEMMA ChosenIs ==
  ASSUME TRUE
  PROVE  /\ Chosen \in Worker
         /\ \A w \in Worker : FrontValue(w) > 0 /\ (\A x \in Worker : FrontValue(x) <= FrontValue(w))
              => FrontValue(Chosen) > 0 /\ \A x \in Worker : FrontValue(x) <= FrontValue(Chosen)
<1> DEFINE best == {w \in Worker : FrontValue(w) > 0 /\ \A x \in Worker : FrontValue(x) <= FrontValue(w)}
<1>1. Chosen = IF best = {} THEN 0 ELSE CHOOSE w \in best : \A x \in best : w <= x
  BY DEF Chosen
<1>2. 0 \in Worker
  BY TopListAssumption DEF Worker
<1>3. ASSUME best # {} PROVE Chosen \in best
  <2>1. best \in SUBSET Nat
    BY TopListAssumption DEF Worker
  <2> HIDE DEF best
  <2>2. \E w \in best : \A x \in best : w <= x
    BY <1>3, <2>1, LeastNumber
  <2>3. QED
    BY <1>1, <1>3, <2>2
<1>4. QED
  BY <1>1, <1>2, <1>3

\* A turn of the printing loop takes the front of one list.
LEMMA PrintStep ==
  ASSUME TopInv, PrintNext
  PROVE  TopInv'
<1>1. /\ value \in [Vertex -> Values] /\ st \in [Worker -> Nat] /\ done \subseteq Worker
      /\ topbuf \in [Worker -> Seq(AnyEntry)] /\ buffer \in [Worker -> Seq(AnyEntry)]
      /\ q \in [Worker -> Seq(AnyEntry)] /\ out \in Seq(AnyEntry) /\ Len(out) <= NTop
      /\ \A x \in Worker : ListInv(x) /\ QueueInv(x)
  BY DEF TopInv
<1>3. PICK c \in Worker : c = Chosen
  BY ChosenIs
<1>2. /\ done = Worker /\ Len(out) < NTop /\ out' = Append(out, Head(q[c]))
      /\ q' = [q EXCEPT ![c] = Tail(@)]
      /\ value' = value /\ st' = st /\ topbuf' = topbuf /\ buffer' = buffer /\ done' = done
  BY <1>3 DEF PrintNext, MoreToPrint
<1>4. NTop \in Nat /\ Len(out) \in Nat /\ q[c] \in Seq(AnyEntry)
  BY <1>1, <1>3, Sizes, LenProperties
<1>5. /\ st[c] >= Size[c] /\ q[c] \in Seq(Possible(c)) /\ Popped(c) \in 0 .. Len(out)
      /\ \A i \in 1 .. Len(q[c]) : Popped(c) + i <= Wanted(c) => q[c][i] = topbuf[c][Popped(c) + i]
  BY <1>1, <1>2, <1>3 DEF QueueInv
<1>6. Len(q[c]) \in Nat /\ Len(q[c]) > 0 /\ q[c] # <<>>
  <2> DEFINE l == Len(q[c])
  <2>1. l \in Nat /\ NTop - l \in 0 .. Len(out)
    BY <1>4, <1>5, LenProperties DEF Popped
  <2> HIDE DEF l
  <2>2. l > 0
    BY <1>2, <1>4, <2>1
  <2>3. q[c] = <<>> => l = 0
    BY DEF l
  <2>4. QED
    BY <2>1, <2>2, <2>3 DEF l
<1> DEFINE t == Tail(q[c])
<1>7. /\ Head(q[c]) \in AnyEntry /\ t \in Seq(AnyEntry) /\ t \in Seq(Possible(c))
      /\ Len(t) = Len(q[c]) - 1 /\ \A i \in 1 .. Len(t) : t[i] = q[c][i + 1]
  BY <1>4, <1>5, <1>6, HeadTailProperties
<1> HIDE DEF t
<1>8. q' = [q EXCEPT ![c] = t] /\ q'[c] = t /\ q' \in [Worker -> Seq(AnyEntry)]
  BY <1>1, <1>2, <1>3, <1>7 DEF t
<1>9. out' \in Seq(AnyEntry) /\ Len(out)' = Len(out) + 1
  BY <1>1, <1>2, <1>4, <1>7, AppendProperties
<1>10. QueueInv(c)'
  <2>1. Popped(c)' = Popped(c) + 1 /\ Popped(c) \in Nat
    <3>1. Popped(c)' = NTop - (Len(q[c]) - 1)
      BY <1>7, <1>8 DEF Popped
    <3>2. Popped(c) = NTop - Len(q[c])
      BY DEF Popped
    <3> DEFINE l == Len(q[c])
    <3>3. l \in Nat /\ l > 0 /\ NTop \in Nat /\ NTop - l \in 0 .. Len(out)
      BY <1>4, <1>5, <1>6, <3>2
    <3> HIDE DEF l
    <3>4. NTop - (l - 1) = NTop - l + 1 /\ NTop - l \in Nat
      BY <1>4, <3>3
    <3>5. QED
      BY <3>1, <3>2, <3>4 DEF l
  <2>2. Wanted(c)' = Wanted(c) /\ Possible(c)' = Possible(c)
    BY DEF Wanted, Possible
  <2>3. \A i \in 1 .. Len(t) : Popped(c) + 1 + i <= Wanted(c) => t[i] = topbuf[c][Popped(c) + 1 + i]
    <3> TAKE i \in 1 .. Len(t)
    <3>1. i + 1 \in 1 .. Len(q[c]) /\ Popped(c) + (i + 1) = Popped(c) + 1 + i
      <4> DEFINE l == Len(q[c])
      <4>1. l \in Nat /\ l > 0 /\ i \in 1 .. l - 1
        BY <1>6, <1>7
      <4> HIDE DEF l
      <4>2. i + 1 \in 1 .. l /\ Popped(c) + (i + 1) = Popped(c) + 1 + i
        BY <2>1, <4>1
      <4>3. QED
        BY <4>2 DEF l
    <3>2. QED
      BY <1>5, <1>7, <3>1
  <2>4. Popped(c) + 1 \in 0 .. Len(out) + 1
    BY <1>4, <1>5
  <2> HIDE DEF t
  <2>5. QED
    BY <1>2, <1>3, <1>5, <1>7, <1>8, <1>9, <2>1, <2>2, <2>3, <2>4 DEF QueueInv
<1>11. ASSUME NEW x \in Worker PROVE (ListInv(x) /\ QueueInv(x))'
  <2>1. ListInv(x)'
    BY <1>1, <1>2, OtherLists
  <2>2. CASE x = c
    BY <1>10, <2>1, <2>2
  <2>3. CASE x # c
    <3>1. (x \in done)' <=> x \in done
      BY <1>2
    <3>2. q'[x] = q[x]
      BY <1>1, <1>3, <1>8, <2>3
    <3>3. QueueInv(x)'
      BY <1>1, <1>2, <1>4, <1>9, <3>1, <3>2, OtherQueues
    <3>4. QED
      BY <2>1, <3>3
  <2>4. QED
    BY <2>2, <2>3
<1>12. AnyEntry' = AnyEntry
  BY DEF AnyEntry, Possible
<1>13. Len(out)' <= NTop
  BY <1>2, <1>4, <1>9
<1>14. QED
  BY <1>1, <1>2, <1>8, <1>9, <1>11, <1>12, <1>13 DEF TopInv

\* Nothing is scanned, sent or printed at first.
LEMMA InitTop == Init => TopInv
<1> SUFFICES ASSUME Init PROVE TopInv
  OBVIOUS
<1>1. /\ value \in [Vertex -> Values] /\ st = [w \in Worker |-> 0] /\ done = {}
      /\ topbuf = [w \in Worker |-> <<>>] /\ buffer = [w \in Worker |-> <<>>]
      /\ q = [w \in Worker |-> <<>>] /\ out = <<>>
  BY DEF Init
<1>2. <<>> \in Seq(AnyEntry) /\ Len(<<>>) <= NTop
  BY TopListAssumption
<1>3. ASSUME NEW w \in Worker PROVE ListInv(w) /\ QueueInv(w)
  BY <1>1 DEF ListInv, QueueInv
<1>4. QED
  BY <1>1, <1>2, <1>3 DEF TopInv

\* Every step preserves the invariant.
LEMMA NextTop == TopInv /\ [Next]_vars => TopInv'
<1> SUFFICES ASSUME TopInv, [Next]_vars PROVE TopInv'
  OBVIOUS
<1>1. CASE PrintNext
  BY <1>1, PrintStep
<1>2. ASSUME NEW w \in Worker, Scan(w) PROVE TopInv'
  BY <1>2, ScanStep
<1>3. ASSUME NEW w \in Worker, Send(w) PROVE TopInv'
  BY <1>3, SendStep
<1>4. CASE UNCHANGED vars
  <2>1. /\ value' = value /\ st' = st /\ topbuf' = topbuf /\ buffer' = buffer /\ done' = done
        /\ q' = q /\ out' = out
    BY <1>4 DEF vars
  <2>2. AnyEntry' = AnyEntry
    BY DEF AnyEntry, Possible
  <2>3. ASSUME NEW x \in Worker PROVE (ListInv(x) /\ QueueInv(x))'
    <3>1. ListInv(x) /\ QueueInv(x) /\ out \in Seq(AnyEntry)
      BY DEF TopInv
    <3>2. ListInv(x)'
      BY <2>1, <3>1, OtherLists
    <3>3. Len(out) \in Nat /\ ((x \in done)' <=> x \in done)
      BY <2>1, <3>1, LenProperties
    <3>4. QueueInv(x)'
      BY <2>1, <3>1, <3>3, OtherQueues
    <3>5. QED
      BY <3>2, <3>4
  <2>4. QED
    BY <2>1, <2>2, <2>3 DEF TopInv
<1>5. QED
  BY <1>1, <1>2, <1>3, <1>4 DEF Next

\* get_top_vertices keeps, after every window, the list of the entries scanned so far, and
\* the queues of the master hold what it has not yet printed of them.
THEOREM TopInductive == Spec => []TopInv
<1>1. QED
  BY InitTop, NextTop, PTL DEF Spec
-----------------------------------------------------------------------------
(* What is checked *)

\* The list of a worker that has scanned something.
LEMMA ListFacts ==
  ASSUME TopInv, NEW w \in Worker, st[w] # 0
  PROVE  /\ Len(topbuf[w]) = Wanted(w) /\ Wanted(w) \in Nat
         /\ Wanted(w) = Least(NTop, Least(st[w], Size[w])) /\ Least(st[w], Size[w]) \in Nat
         /\ \A i \in 1 .. Wanted(w) :
              /\ topbuf[w][i].vid \in Scanned(w) /\ topbuf[w][i].vid \in Local(w)
              /\ topbuf[w][i].value \in Int
              /\ topbuf[w][i].value = value[<<w, topbuf[w][i].vid>>]
              /\ topbuf[w][i] \in Possible(w)
         /\ \A i \in 1 .. Wanted(w) : \A k \in 1 .. Wanted(w) :
              /\ i # k => topbuf[w][i].vid # topbuf[w][k].vid
              /\ i < k => topbuf[w][i].value >= topbuf[w][k].value
         /\ \A v \in Scanned(w) :
              \/ \E i \in 1 .. Wanted(w) : topbuf[w][i].vid = v
              \/ \A i \in 1 .. Wanted(w) : value[<<w, v>>] <= topbuf[w][i].value
<1> DEFINE s == topbuf[w]
<1>1. /\ value \in [Vertex -> Values] /\ st[w] \in Nat
      /\ st[w] \in Window .. Size[w] + Window /\ Len(s) = Wanted(w) /\ TopOf(s, EntriesOf(w))
  BY DEF TopInv, ListInv
<1>2. PICK U \in SUBSET EntriesOf(w) :
        Lists(s, U) /\ \A a \in EntriesOf(w) \ U : \A i \in 1 .. Len(s) : a.value <= s[i].value
  BY <1>1 DEF TopOf
<1>3. /\ \A e \in EntriesOf(w) :
           /\ e.value \in Int /\ e.vid \in Scanned(w) /\ e.vid \in Local(w)
           /\ e.value = value[<<w, e.vid>>] /\ e \in Possible(w)
      /\ \A v \in Scanned(w) : \E e \in EntriesOf(w) : e.vid = v /\ e.value = value[<<w, v>>]
  BY <1>1, EntriesFacts
<1>4. \A e \in EntriesOf(w) : \A f \in EntriesOf(w) : e.vid = f.vid => e = f
  <2>1. \A v \in Scanned(w) : Entry(v, value[<<w, v>>]).vid = v
    BY DEF Entry
  <2>2. QED
    BY <2>1 DEF EntriesOf
<1>5. /\ Wanted(w) \in Nat /\ Wanted(w) = Least(NTop, Least(st[w], Size[w]))
      /\ Least(st[w], Size[w]) \in Nat
  BY <1>1, Sizes DEF Least, Wanted
<1>6. \A i \in 1 .. Wanted(w) : s[i] \in U /\ s[i] \in EntriesOf(w)
  BY <1>1, <1>2, ListLength
<1> HIDE DEF s
<1>7. \A i \in 1 .. Wanted(w) : \A k \in 1 .. Wanted(w) :
        /\ i # k => s[i].vid # s[k].vid
        /\ i < k => s[i].value >= s[k].value
  <2>1. \A i \in 1 .. Wanted(w) : \A k \in 1 .. Wanted(w) :
          (i # k => s[i] # s[k]) /\ (i < k => s[i].value >= s[k].value)
    BY <1>1, <1>2 DEF Lists, Descending
  <2>2. QED
    BY <1>4, <1>6, <2>1
<1>8. ASSUME NEW v \in Scanned(w)
      PROVE  \/ \E i \in 1 .. Wanted(w) : s[i].vid = v
             \/ \A i \in 1 .. Wanted(w) : value[<<w, v>>] <= s[i].value
  <2>1. PICK e \in EntriesOf(w) : e.vid = v /\ e.value = value[<<w, v>>]
    BY <1>3
  <2>2. CASE e \in U
    <3>1. PICK i \in 1 .. Wanted(w) : s[i] = e
      BY <1>1, <1>2, <2>2 DEF Lists
    <3>2. QED
      BY <2>1, <3>1
  <2>3. CASE e \notin U
    <3>1. \A i \in 1 .. Wanted(w) : e.value <= s[i].value
      BY <1>1, <1>2, <2>3
    <3>2. QED
      BY <2>1, <3>1
  <2>4. QED
    BY <2>2, <2>3
<1>9. \A i \in 1 .. Wanted(w) :
        /\ s[i].vid \in Scanned(w) /\ s[i].vid \in Local(w) /\ s[i].value \in Int
        /\ s[i].value = value[<<w, s[i].vid>>] /\ s[i] \in Possible(w)
  BY <1>3, <1>6
<1>10. QED
  BY <1>1, <1>5, <1>7, <1>8, <1>9 DEF s

\* The windows end inside the file, a list has the entries wanted or none, a queue never
\* more than ntop, and every entry is one of the interval or one that was not filled in.
THEOREM TopListTypeOK == Spec => []TypeOK
<1>1. ASSUME TopInv PROVE TypeOK
  <2>1. ASSUME NEW w \in Worker
        PROVE  /\ st[w] \in 0 .. Size[w] + Window /\ Len(topbuf[w]) \in {0, Wanted(w)}
               /\ Len(q[w]) <= NTop
               /\ \A s \in {topbuf[w], buffer[w], q[w]} : \A i \in 1 .. Len(s) : s[i] \in Possible(w)
    <3>1. /\ value \in [Vertex -> Values] /\ st[w] \in Nat /\ ListInv(w) /\ QueueInv(w)
          /\ out \in Seq(AnyEntry) /\ q[w] \in Seq(AnyEntry)
      BY <1>1 DEF TopInv
    <3>2. NTop \in Nat /\ Size[w] \in Nat /\ Window \in Nat
      BY Sizes
    <3>3. st[w] \in 0 .. Size[w] + Window
      BY <3>1, <3>2 DEF ListInv
    <3>4. Len(topbuf[w]) \in {0, Wanted(w)} /\ \A i \in 1 .. Len(topbuf[w]) : topbuf[w][i] \in Possible(w)
      <4>1. CASE st[w] = 0
        BY <3>1, <4>1 DEF ListInv
      <4>2. CASE st[w] # 0
        BY <1>1, <4>2, ListFacts
      <4>3. QED
        BY <4>1, <4>2
    <3>5. \A i \in 1 .. Len(buffer[w]) : buffer[w][i] \in Possible(w)
      <4>1. CASE st[w] = 0
        BY <3>1, <4>1 DEF ListInv
      <4>2. CASE st[w] # 0
        <5>1. buffer[w] \in Seq(EntriesOf(w))
          BY <3>1, <4>2 DEF ListInv
        <5>2. \A e \in EntriesOf(w) : e \in Possible(w)
          BY <3>1, EntriesFacts
        <5>3. \A i \in 1 .. Len(buffer[w]) : buffer[w][i] \in EntriesOf(w)
          BY <5>1, ElementOfSeq
        <5>4. QED
          BY <5>2, <5>3
      <4>3. QED
        BY <4>1, <4>2
    <3>6. Len(q[w]) <= NTop /\ \A i \in 1 .. Len(q[w]) : q[w][i] \in Possible(w)
      <4>1. CASE w \in done
        <5>1. q[w] \in Seq(Possible(w)) /\ Popped(w) \in 0 .. Len(out)
          BY <3>1, <4>1 DEF QueueInv
        <5>2. Len(q[w]) \in Nat /\ Len(out) \in Nat
          BY <3>1, <5>1, LenProperties
        <5>3. Len(q[w]) <= NTop
          BY <3>2, <5>1, <5>2 DEF Popped
        <5>4. QED
          BY <5>1, <5>3, ElementOfSeq
      <4>2. CASE w \notin done
        <5>1. q[w] = <<>>
          BY <3>1, <4>2 DEF QueueInv
        <5>2. QED
          BY <3>2, <5>1
      <4>3. QED
        BY <4>1, <4>2
    <3>7. QED
      BY <3>3, <3>4, <3>5, <3>6
  <2>2. QED
    BY <1>1, <2>1 DEF TypeOK, TopInv, Possible
<1>2. QED
  BY <1>1, TopInductive, PTL

\* ceMaster.cpp looks at front() of all queues in every turn of its printing loop, without a
\* test for emptiness: until ntop entries are printed none of them is empty.
THEOREM FrontsThereHolds == Spec => []FrontsThere
<1>1. ASSUME TopInv PROVE FrontsThere
  <2> SUFFICES ASSUME done = Worker, Len(out) < NTop, NEW w \in Worker PROVE q[w] # <<>>
    BY DEF FrontsThere, MoreToPrint
  <2>1. Popped(w) \in 0 .. Len(out) /\ out \in Seq(AnyEntry) /\ NTop \in Nat
    BY <1>1, Sizes DEF TopInv, QueueInv
  <2>2. Len(out) \in Nat
    BY <2>1, LenProperties
  <2>3. Len(q[w]) # 0
    BY <2>1, <2>2 DEF Popped
  <2>4. QED
    BY <2>3
<1>2. QED
  BY <1>1, TopInductive, PTL

\* After every window get_top_vertices holds the greatest values of what it has scanned, each
\* with a vertex of its own, whatever the window left out, the merge and the old buffer do.
THEOREM TopSoFarHolds == Spec => []TopSoFar
<1>1. ASSUME TopInv PROVE TopSoFar
  <2> SUFFICES ASSUME NEW w \in Worker, st[w] > 0
               PROVE  /\ IsTop(topbuf[w], {<<w, v>> : v \in 0 .. Least(st[w], Size[w]) - 1}, NTop)
                      /\ \A i \in 1 .. Len(topbuf[w]) :
                           /\ value[<<w, topbuf[w][i].vid>>] = topbuf[w][i].value
                           /\ \A k \in 1 .. i - 1 : topbuf[w][k].vid # topbuf[w][i].vid
    BY DEF TopSoFar
  <2> DEFINE A == {<<w, v>> : v \in 0 .. Least(st[w], Size[w]) - 1}
             W == Wanted(w)
             s == [i \in 1 .. W |-> topbuf[w][i].value]
             g == [i \in 1 .. W |-> <<w, topbuf[w][i].vid>>]
             val == [a \in A |-> value[a]]
             c == Least(st[w], Size[w])
  <2>1. /\ value \in [Vertex -> Values] /\ st[w] \in Nat /\ st[w] # 0 /\ NTop \in Nat
        /\ Size[w] \in Nat
    BY <1>1, Sizes DEF TopInv
  <2>2. /\ Len(topbuf[w]) = W /\ W \in Nat /\ W = Least(NTop, c) /\ c \in Nat
        /\ \A i \in 1 .. W :
             /\ topbuf[w][i].vid \in Scanned(w) /\ topbuf[w][i].value \in Int
             /\ topbuf[w][i].value = value[<<w, topbuf[w][i].vid>>]
        /\ \A i \in 1 .. W : \A k \in 1 .. W :
             /\ i # k => topbuf[w][i].vid # topbuf[w][k].vid
             /\ i < k => topbuf[w][i].value >= topbuf[w][k].value
        /\ \A v \in Scanned(w) :
             \/ \E i \in 1 .. W : topbuf[w][i].vid = v
             \/ \A i \in 1 .. W : value[<<w, v>>] <= topbuf[w][i].value
    BY <1>1, <2>1, ListFacts
  <2>3. Scanned(w) = 0 .. c - 1 /\ \A v \in 0 .. c - 1 : v \in Local(w)
    BY <2>1 DEF Scanned, Local, Least
  <2>4. \A a \in A : \E v \in Scanned(w) : a = <<w, v>>
    BY <2>3
  <2>5. A \in SUBSET Vertex
    BY <2>3 DEF Vertex
  <2> HIDE DEF W, c
  <2>6. IsFiniteSet(A) /\ Cardinality(A) = c
    <3> DEFINE f == [v \in 0 .. c - 1 |-> <<w, v>>]
    <3>1. f \in Bijection(0 .. c - 1, A)
      BY DEF Bijection, Injection, Surjection, IsInjective, c
    <3> HIDE DEF f, A
    <3>0. c - 1 \in Int /\ 0 \in Int
      BY <2>2
    <3>2. IsFiniteSet(0 .. c - 1) /\ Cardinality(0 .. c - 1) = IF 0 > c - 1 THEN 0 ELSE c - 1 - 0 + 1
      BY <3>0, FS_Interval
    <3>3. IsFiniteSet(A) /\ Cardinality(A) = Cardinality(0 .. c - 1)
      BY <3>1, <3>2, FS_Bijection DEF ExistsBijection
    <3>4. QED
      BY <2>2, <3>2, <3>3
  <2>7. /\ s \in [1 .. W -> Int] /\ val \in [A -> Int]
        /\ \A i \in 1 .. W : s[i] = topbuf[w][i].value /\ g[i] = <<w, topbuf[w][i].vid>>
    <3>1. \A a \in A : value[a] \in Int
      BY <2>1, <2>5, TopListAssumption
    <3>2. QED
      BY <2>2, <3>1
  <2>8. g \in Injection(1 .. W, A) /\ \A i \in 1 .. W : val[g[i]] = s[i]
    <3>1. \A i \in 1 .. W : g[i] \in A
      BY <2>2, <2>3 DEF c
    <3>2. g \in [1 .. W -> A]
      BY <3>1
    <3>3. \A i, k \in 1 .. W : g[i] = g[k] => i = k
      BY <2>2
    <3>4. \A i \in 1 .. W : val[g[i]] = s[i]
      BY <2>2, <3>1
    <3> HIDE DEF g, A
    <3>5. QED
      BY <3>2, <3>3, <3>4 DEF Injection, IsInjective
  <2>9. \A a \in A : (\E i \in 1 .. W : g[i] = a) \/ \A i \in 1 .. W : val[a] <= s[i]
    <3> TAKE a \in A
    <3>1. PICK v \in Scanned(w) : a = <<w, v>>
      BY <2>4
    <3>2. QED
      BY <2>2, <3>1
  <2> DEFINE Above1(x) == {i \in 1 .. W : topbuf[w][i].value >= x}
             Above2(x) == {v \in A : value[v] >= x}
  <2>10. ASSUME NEW x \in Values \cup Garbage
         PROVE  Cardinality(Above1(x)) = Least(NTop, Cardinality(Above2(x)))
    <3>1. x \in Int
      BY TopListAssumption
    <3>2. {i \in 1 .. W : s[i] >= x} = Above1(x) /\ {a \in A : val[a] >= x} = Above2(x)
      OBVIOUS
    <3> HIDE DEF s, g, val, A, Above1, Above2
    <3>a. StandFor(A, val, W, NTop, s, g)
      BY <2>1, <2>2, <2>6, <2>7, <2>8, <2>9 DEF StandFor
    <3>b. AsManyReach(A, val, W, NTop, s, x)
      BY <3>a, <3>1, TopCounts
    <3>3. Cardinality({i \in 1 .. W : s[i] >= x}) = Least(NTop, Cardinality({a \in A : val[a] >= x}))
      BY <3>b DEF AsManyReach
    <3>4. QED
      BY <3>2, <3>3
  <2>11. \A i \in 2 .. W : topbuf[w][i].value <= topbuf[w][i - 1].value
    <3> TAKE i \in 2 .. W
    <3>1. i \in 1 .. W /\ i - 1 \in 1 .. W /\ i - 1 < i
      BY <2>2
    <3>2. topbuf[w][i - 1].value >= topbuf[w][i].value
      BY <2>2, <3>1
    <3>3. QED
      BY <2>2, <3>1, <3>2
  <2>12. IsTop(topbuf[w], A, NTop)
    <3> HIDE DEF A, s, g, val
    <3>1. QED
      BY <2>2, <2>6, <2>10, <2>11 DEF IsTop
  <2>13. \A i \in 1 .. W : \A k \in 1 .. i - 1 : topbuf[w][k].vid # topbuf[w][i].vid
    <3> TAKE i \in 1 .. W
    <3> TAKE k \in 1 .. i - 1
    <3>1. k \in 1 .. W /\ k # i
      BY <2>2
    <3>2. QED
      BY <2>2, <3>1
  <2>14. QED
    BY <2>2, <2>12, <2>13
<1>2. QED
  BY <1>1, TopInductive, PTL
-----------------------------------------------------------------------------
(* What is printed *)

\* Of finitely many numbers, one is the greatest.
LEMMA GreatestOf ==
  ASSUME NEW n \in Nat \ {0}, NEW F \in [0 .. n - 1 -> Int]
  PROVE  \E w \in 0 .. n - 1 : \A x \in 0 .. n - 1 : F[x] <= F[w]
<1> DEFINE Has(k) == \E w \in 0 .. k - 1 : \A x \in 0 .. k - 1 : F[x] <= F[w]
           S == {k \in 1 .. n : ~ Has(k)}
<1>1. SUFFICES ASSUME ~ Has(n) PROVE FALSE
  OBVIOUS
<1>2. n \in S /\ S \in SUBSET Nat
  BY <1>1
<1> HIDE DEF S
<1>3. PICK k \in S : \A j \in S : k <= j
  BY <1>2, LeastNumber
<1>4. k \in 1 .. n /\ ~ Has(k)
  BY DEF S
<1>5. k # 1
  <2>1. Has(1)
    <3>1. 0 \in 0 .. 1 - 1 /\ \A x \in 0 .. 1 - 1 : F[x] <= F[0]
      OBVIOUS
    <3>2. QED
      BY <3>1
  <2>2. QED
    BY <1>4, <2>1
<1>6. Has(k - 1)
  <2>1. k - 1 \in 1 .. n /\ ~ (k <= k - 1)
    BY <1>4, <1>5
  <2>2. k - 1 \notin S
    BY <1>3, <2>1
  <2> HIDE DEF Has
  <2>3. QED
    BY <2>1, <2>2 DEF S
<1>7. PICK w \in 0 .. k - 2 : \A x \in 0 .. k - 2 : F[x] <= F[w]
  <2>1. k - 1 - 1 = k - 2
    BY <1>4
  <2>2. QED
    BY <1>6, <2>1
<1>8. k - 1 \in 0 .. k - 1 /\ w \in 0 .. k - 1 /\ F[w] \in Int /\ F[k - 1] \in Int
      /\ \A x \in 0 .. k - 1 : F[x] \in Int /\ (x \in 0 .. k - 2 \/ x = k - 1)
  BY <1>4, <1>5
<1>9. CASE F[k - 1] <= F[w]
  <2>1. \A x \in 0 .. k - 1 : F[x] <= F[w]
    BY <1>7, <1>8, <1>9
  <2>2. QED
    BY <1>4, <1>8, <2>1
<1>10. CASE ~ (F[k - 1] <= F[w])
  <2>1. \A x \in 0 .. k - 1 : F[x] <= F[k - 1]
    BY <1>7, <1>8, <1>10
  <2>2. QED
    BY <1>4, <1>8, <2>1
<1>11. QED
  BY <1>9, <1>10

\* The lists of an ordinary graph when all have been received.
LEMMA FullLists ==
  ASSUME Ordinary, TopInv, done = Worker, NEW w \in Worker
  PROVE  /\ st[w] # 0 /\ Wanted(w) = NTop /\ Scanned(w) = Local(w)
         /\ Popped(w) \in 0 .. Len(out) /\ Len(out) \in Nat /\ NTop \in Nat /\ NTop > 0
         /\ \A i \in 1 .. NTop : VertexAt(w, i) \in Vertex /\ value[VertexAt(w, i)] = topbuf[w][i].value
         /\ \A i \in 1 .. NTop : topbuf[w][i].value \in Int /\ topbuf[w][i].value >= 0
<1>1. /\ st[w] \in Nat /\ QueueInv(w) /\ out \in Seq(AnyEntry) /\ value \in [Vertex -> Values]
  BY DEF TopInv
<1>2. /\ Size[w] \in Nat /\ Size[w] > 0 /\ NTop \in Nat /\ NTop > 0 /\ Size[w] >= NTop
      /\ Wanted(w) = NTop
  BY Sizes DEF Ordinary, Wanted, Least
<1>3. st[w] >= Size[w] /\ Popped(w) \in 0 .. Len(out) /\ Len(out) \in Nat
  BY <1>1, LenProperties DEF QueueInv
<1>4. st[w] # 0 /\ Scanned(w) = Local(w)
  BY <1>1, <1>2, <1>3 DEF Scanned, Local, Least
<1>5. \A i \in 1 .. NTop :
        /\ topbuf[w][i].vid \in Local(w) /\ topbuf[w][i].value \in Int
        /\ topbuf[w][i].value = value[<<w, topbuf[w][i].vid>>]
  BY <1>2, <1>4, ListFacts
<1>6. \A v \in Local(w) : <<w, v>> \in Vertex
  BY DEF Vertex
<1>7. \A x \in Vertex : value[x] >= 0
  BY <1>1 DEF Ordinary
<1>8. QED
  BY <1>2, <1>3, <1>4, <1>5, <1>6, <1>7 DEF VertexAt

\* What a turn of the printing loop takes is the greatest of what is left.
LEMMA ChosenIsTop ==
  ASSUME Ordinary, TopInv, done = Worker, Len(out) < NTop
  PROVE  /\ \A w \in Worker : Popped(w) + 1 \in 1 .. NTop /\ Head(q[w]) = topbuf[w][Popped(w) + 1]
         /\ \A w \in Worker : topbuf[w][Popped(w) + 1].value <= topbuf[Chosen][Popped(Chosen) + 1].value
<1>1. ASSUME NEW w \in Worker
      PROVE  Popped(w) + 1 \in 1 .. NTop /\ Head(q[w]) = topbuf[w][Popped(w) + 1]
  <2>1. /\ Popped(w) \in 0 .. Len(out) /\ Len(out) \in Nat /\ NTop \in Nat /\ Wanted(w) = NTop
    BY FullLists
  <2>2. /\ q[w] \in Seq(Possible(w))
        /\ \A i \in 1 .. Len(q[w]) : Popped(w) + i <= Wanted(w) => q[w][i] = topbuf[w][Popped(w) + i]
    BY DEF TopInv, QueueInv
  <2>3. Popped(w) + 1 \in 1 .. NTop
    BY <2>1
  <2>4. Len(q[w]) \in Nat /\ Len(q[w]) > 0
    <3> DEFINE l == Len(q[w])
    <3>1. l \in Nat /\ NTop - l \in 0 .. Len(out)
      BY <2>1, <2>2, LenProperties DEF Popped
    <3> HIDE DEF l
    <3>2. l > 0
      BY <2>1, <3>1
    <3>3. QED
      BY <3>1, <3>2 DEF l
  <2>5. 1 \in 1 .. Len(q[w]) /\ Head(q[w]) = q[w][1]
    BY <2>2, <2>4
  <2>6. QED
    BY <2>1, <2>2, <2>3, <2>5
<1>2. \A w \in Worker :
        /\ FrontValue(w) = topbuf[w][Popped(w) + 1].value
        /\ FrontValue(w) \in Int /\ FrontValue(w) >= 0
  BY <1>1, FullLists DEF FrontValue
<1>3. \A x \in Worker : FrontValue(x) <= FrontValue(Chosen)
  <2> DEFINE F == [w \in 0 .. M - 1 |-> FrontValue(w)]
  <2>1. M \in Nat \ {0} /\ F \in [0 .. M - 1 -> Int]
    BY <1>2, TopListAssumption DEF Worker
  <2>2. \A w \in Worker : F[w] = FrontValue(w)
    BY DEF Worker
  <2> HIDE DEF F
  <2>3. PICK w \in Worker : \A x \in Worker : F[x] <= F[w]
    BY <2>1, GreatestOf DEF Worker
  <2>4. CASE FrontValue(w) > 0
    BY <2>2, <2>3, <2>4, ChosenIs
  <2>5. CASE ~ (FrontValue(w) > 0)
    <3>1. \A x \in Worker : FrontValue(x) <= 0
      BY <1>2, <2>2, <2>3, <2>5
    <3>2. Chosen \in Worker
      BY ChosenIs
    <3>3. QED
      BY <1>2, <3>1, <3>2
  <2>6. QED
    BY <2>4, <2>5
<1>4. Chosen \in Worker
  BY ChosenIs
<1>5. QED
  BY <1>1, <1>2, <1>3, <1>4

\* PrintInv, when the last list comes in.
LEMMA SendPrint ==
  ASSUME Ordinary, TopInv, TopInv', out' = out, value' = value, done # Worker
  PROVE  PrintInv'
<1> SUFFICES ASSUME done' = Worker PROVE PrintInv'
  BY DEF PrintInv
<1>1. out' = <<>> /\ Len(out') = 0
  BY DEF TopInv
<1>2. \A w \in Worker : QueueInv(w)'
  BY DEF TopInv
<1>3. \A w \in Worker : Popped(w)' = 0
  <2> TAKE w \in Worker
  <2>1. Popped(w)' \in 0 .. 0
    BY <1>1, <1>2 DEF QueueInv
  <2>2. QED
    BY <2>1
<1> DEFINE g == <<>>
<1>4. g \in Injection(1 .. Len(out'), Vertex)
  <2>1. g \in [1 .. Len(out') -> Vertex] /\ \A i, j \in 1 .. Len(out') : g[i] = g[j] => i = j
    BY <1>1
  <2>2. QED
    BY <2>1 DEF Injection, IsInjective
<1> HIDE DEF g
<1>5. TakenFrom(g)'
  BY <1>1, <1>3 DEF TakenFrom
<1>6. Descending(out')
  BY <1>1 DEF Descending
<1>7. \A k \in 1 .. Len(out') : FALSE
  BY <1>1
<1>8. QED
  BY <1>4, <1>5, <1>6, <1>7 DEF PrintInv

\* PrintInv, when an entry is printed.
LEMMA PrintPrint ==
  ASSUME Ordinary, TopInv, PrintInv, PrintNext
  PROVE  PrintInv'
<1>1. PICK c \in Worker : c = Chosen
  BY ChosenIs
<1>2. /\ done = Worker /\ Len(out) < NTop /\ out' = Append(out, Head(q[c]))
      /\ q' = [q EXCEPT ![c] = Tail(@)]
      /\ value' = value /\ topbuf' = topbuf /\ done' = done
  BY <1>1 DEF PrintNext, MoreToPrint
<1>3. /\ \A w \in Worker : Popped(w) + 1 \in 1 .. NTop /\ Head(q[w]) = topbuf[w][Popped(w) + 1]
      /\ \A w \in Worker : topbuf[w][Popped(w) + 1].value <= topbuf[c][Popped(c) + 1].value
  BY <1>1, <1>2, ChosenIsTop
<1>4. \A w \in Worker :
        /\ st[w] # 0 /\ Wanted(w) = NTop
        /\ Popped(w) \in 0 .. Len(out) /\ Len(out) \in Nat /\ NTop \in Nat /\ NTop > 0
        /\ \A i \in 1 .. NTop : VertexAt(w, i) \in Vertex /\ value[VertexAt(w, i)] = topbuf[w][i].value
        /\ \A i \in 1 .. NTop : topbuf[w][i].value \in Int
  BY <1>2, FullLists
<1> DEFINE p == Popped(c) + 1
           e == topbuf[c][p]
           l == Len(out)
<1>5. p \in 1 .. NTop /\ l \in Nat /\ NTop \in Nat /\ l < NTop /\ e.value \in Int
  BY <1>2, <1>3, <1>4
<1>6. Len(out') = l + 1 /\ out'[l + 1] = e /\ \A k \in 1 .. l : out'[k] = out[k]
  <2>1. out \in Seq(AnyEntry) /\ q[c] \in Seq(AnyEntry) /\ q[c] # <<>>
    <3>1. out \in Seq(AnyEntry) /\ q[c] \in Seq(AnyEntry)
      BY DEF TopInv
    <3>2. Len(q[c]) # 0
      BY <1>3, <1>4 DEF Popped
    <3>3. QED
      BY <3>1, <3>2
  <2>2. e \in AnyEntry /\ out' = Append(out, e)
    BY <1>2, <1>3, <2>1, HeadTailProperties
  <2> HIDE DEF e
  <2>3. /\ Len(Append(out, e)) = Len(out) + 1
        /\ \A i \in 1 .. Len(out) : Append(out, e)[i] = out[i]
        /\ Append(out, e)[Len(out) + 1] = e
    BY <2>1, <2>2, AppendProperties
  <2>4. QED
    BY <2>2, <2>3
<1>7. \A w \in Worker : Popped(w)' = IF w = c THEN p ELSE Popped(w)
  <2> TAKE w \in Worker
  <2>1. CASE w = c
    <3>1. q \in [Worker -> Seq(AnyEntry)] /\ Len(q[c]) # 0
      <4>1. Len(q[c]) # 0
        BY <1>3, <1>4 DEF Popped
      <4>2. QED
        BY <4>1 DEF TopInv
    <3>2. q[c] \in Seq(AnyEntry) /\ q[c] # <<>> /\ q'[c] = Tail(q[c])
      BY <1>2, <3>1
    <3> DEFINE m == Len(q[c])
    <3>3. Len(q'[c]) = m - 1 /\ m \in Nat
      BY <3>2, HeadTailProperties, LenProperties
    <3>4. Popped(c)' = NTop - (m - 1) /\ Popped(c) = NTop - m
      BY <3>3 DEF Popped
    <3> HIDE DEF m
    <3>5. NTop - (m - 1) = NTop - m + 1
      BY <1>5, <3>3
    <3>6. QED
      BY <2>1, <3>4, <3>5
  <2>2. CASE w # c
    <3>1. q'[w] = q[w]
      BY <1>2, <2>2 DEF TopInv
    <3>2. QED
      BY <2>2, <3>1 DEF Popped
  <2>3. QED
    BY <2>1, <2>2
<1>8. PICK g \in Injection(1 .. Len(out), Vertex) : TakenFrom(g)
  BY <1>2 DEF PrintInv
<1>9. /\ Descending(out)
      /\ \A k \in 1 .. Len(out) : \A w \in Worker : \A i \in 1 .. NTop :
           i > Popped(w) \/ i = NTop => topbuf[w][i].value <= out[k].value
  BY <1>2 DEF PrintInv
<1>10. /\ \A k \in 1 .. l : /\ g[k] \in Vertex /\ value[g[k]] = out[k].value
                            /\ \E w \in Worker : \E i \in 1 .. Popped(w) : g[k] = VertexAt(w, i)
       /\ \A w \in Worker : \A i \in 1 .. Popped(w) : \E k \in 1 .. l : g[k] = VertexAt(w, i)
       /\ \A k \in 1 .. l : \A j \in 1 .. l : g[k] = g[j] => k = j
  BY <1>8 DEF TakenFrom, Injection, IsInjective
<1>11. ASSUME NEW w \in Worker, NEW i \in 1 .. Popped(w) PROVE VertexAt(w, i) # VertexAt(c, p)
  <2>1. CASE w # c
    BY <2>1 DEF VertexAt
  <2>2. CASE w = c
    <3>1. i \in 1 .. NTop /\ i # p
      BY <1>4, <1>5, <2>2
    <3>2. topbuf[c][i].vid # topbuf[c][p].vid
      BY <1>4, <1>5, <3>1, ListFacts
    <3>3. QED
      BY <2>2, <3>2 DEF VertexAt
  <2>3. QED
    BY <2>1, <2>2
<1> DEFINE g1 == [k \in 1 .. l + 1 |-> IF k = l + 1 THEN VertexAt(c, p) ELSE g[k]]
<1>12. PICK h : h = g1
  OBVIOUS
<1> HIDE DEF l, p, e
<1>13. /\ \A k \in 1 .. l : h[k] = g[k] /\ h[k] # VertexAt(c, p)
       /\ h[l + 1] = VertexAt(c, p) /\ h \in [1 .. l + 1 -> Vertex]
       /\ \A k \in 1 .. l + 1 : k \in 1 .. l \/ k = l + 1
  <2>1. \A k \in 1 .. l : k \in 1 .. l + 1 /\ k # l + 1
    BY <1>5
  <2>2. \A k \in 1 .. l + 1 : k \in 1 .. l \/ k = l + 1
    BY <1>5
  <2>3. VertexAt(c, p) \in Vertex
    BY <1>4, <1>5
  <2>4. l + 1 \in 1 .. l + 1
    BY <1>5
  <2>5. \A k \in 1 .. l : g[k] # VertexAt(c, p)
    BY <1>10, <1>11
  <2>6. QED
    BY <1>10, <1>12, <2>1, <2>2, <2>3, <2>4, <2>5
<1> HIDE DEF g1
<1>14. h \in Injection(1 .. l + 1, Vertex)
  <2>1. \A i, j \in 1 .. l + 1 : h[i] = h[j] => i = j
    BY <1>10, <1>13
  <2>2. QED
    BY <1>13, <2>1 DEF Injection, IsInjective
<1>15. TakenFrom(h)'
  <2>1. ASSUME NEW k \in 1 .. l + 1
        PROVE  /\ value[h[k]] = out'[k].value
               /\ \E w \in Worker : \E i \in 1 .. Popped(w)' : h[k] = VertexAt(w, i)
    <3>1. CASE k \in 1 .. l
      <4>0. PICK w \in Worker : \E i \in 1 .. Popped(w) : g[k] = VertexAt(w, i)
        BY <1>10, <3>1
      <4>1. PICK i \in 1 .. Popped(w) : g[k] = VertexAt(w, i)
        BY <4>0
      <4>2. i \in 1 .. Popped(w)'
        BY <1>4, <1>5, <1>7 DEF p
      <4>3. QED
        BY <1>6, <1>10, <1>13, <3>1, <4>1, <4>2
    <3>2. CASE k = l + 1
      <4>1. p \in 1 .. Popped(c)'
        BY <1>5, <1>7
      <4>2. value[VertexAt(c, p)] = e.value
        BY <1>4, <1>5 DEF e
      <4>3. QED
        BY <1>6, <1>13, <3>2, <4>1, <4>2
    <3>3. QED
      BY <1>13, <3>1, <3>2
  <2>2. ASSUME NEW w \in Worker, NEW i \in 1 .. Popped(w)'
        PROVE  \E k \in 1 .. l + 1 : h[k] = VertexAt(w, i)
    <3>1. CASE i \in 1 .. Popped(w)
      <4>1. PICK k \in 1 .. l : g[k] = VertexAt(w, i)
        BY <1>10, <3>1
      <4>2. k \in 1 .. l + 1
        BY <1>5
      <4>3. QED
        BY <1>13, <4>1, <4>2
    <3>2. CASE i \notin 1 .. Popped(w)
      <4>1. w = c /\ i = p
        BY <1>4, <1>5, <1>7, <3>2 DEF p
      <4>2. l + 1 \in 1 .. l + 1
        BY <1>5
      <4>3. QED
        BY <1>13, <4>1, <4>2
    <3>3. QED
      BY <3>1, <3>2
  <2>3. /\ \A k \in 1 .. Len(out') :
             /\ value'[h[k]] = out'[k].value
             /\ \E w \in Worker : \E i \in 1 .. Popped(w)' : h[k] = VertexAt(w, i)
        /\ \A w \in Worker : \A i \in 1 .. Popped(w)' : \E k \in 1 .. Len(out') : h[k] = VertexAt(w, i)
    BY <1>2, <1>6, <2>1, <2>2
  <2>4. QED
    BY <1>2, <2>3 DEF TakenFrom, VertexAt
<1>16. \A k \in 1 .. l : e.value <= out[k].value /\ out[k].value \in Int
  <2> TAKE k \in 1 .. l
  <2>1. p > Popped(c)
    BY <1>4 DEF p
  <2>2. e.value <= out[k].value
    BY <1>5, <1>9, <2>1 DEF e, l
  <2>a. PICK w \in Worker : \E i \in 1 .. Popped(w) : g[k] = VertexAt(w, i)
    BY <1>10
  <2>3. PICK i \in 1 .. Popped(w) : g[k] = VertexAt(w, i)
    BY <2>a
  <2>4. i \in 1 .. NTop
    BY <1>3, <1>4
  <2>5. out[k].value \in Int
    <3>1. value[g[k]] = topbuf[w][i].value /\ topbuf[w][i].value \in Int
      BY <1>4, <2>3, <2>4
    <3>2. out[k].value = value[g[k]]
      BY <1>10
    <3>3. QED
      BY <3>1, <3>2
  <2>6. QED
    BY <2>2, <2>5
<1>17. Descending(out')
  <2> SUFFICES ASSUME NEW i \in 1 .. l + 1, NEW k \in 1 .. l + 1, i < k
               PROVE  out'[i].value >= out'[k].value
    BY <1>6 DEF Descending
  <2>1. i \in 1 .. l /\ (k \in 1 .. l \/ k = l + 1)
    BY <1>5
  <2>2. CASE k \in 1 .. l
    BY <1>6, <1>9, <2>1, <2>2 DEF Descending, l
  <2>3. CASE k = l + 1
    BY <1>5, <1>6, <1>16, <2>1, <2>3
  <2>4. QED
    BY <2>1, <2>2, <2>3
<1>18. ASSUME NEW k \in 1 .. l + 1, NEW w \in Worker, NEW i \in 1 .. NTop, i > Popped(w)' \/ i = NTop
       PROVE  topbuf[w][i].value <= out'[k].value
  <2>1. i > Popped(w) \/ i = NTop
    BY <1>4, <1>5, <1>7, <1>18 DEF p
  <2>2. CASE k \in 1 .. l
    BY <1>6, <1>9, <2>1, <2>2 DEF l
  <2>3. CASE k = l + 1
    <3> DEFINE f == Popped(w) + 1
    <3>1. f \in 1 .. NTop /\ topbuf[w][f].value <= e.value
      BY <1>3 DEF e, p
    <3>2. i = f \/ f < i
      BY <1>3, <1>4, <2>1
    <3> HIDE DEF f
    <3>3. topbuf[w][f].value \in Int /\ topbuf[w][i].value \in Int
      BY <1>4, <3>1
    <3>4. topbuf[w][f].value >= topbuf[w][i].value
      <4>1. CASE i = f
        BY <3>3, <4>1
      <4>2. CASE f < i
        BY <1>4, <3>1, <4>2, ListFacts
      <4>3. QED
        BY <3>2, <4>1, <4>2
    <3>5. QED
      BY <1>5, <1>6, <2>3, <3>1, <3>3, <3>4
  <2>4. QED
    BY <1>13, <2>2, <2>3
<1>19. QED
  BY <1>2, <1>6, <1>14, <1>15, <1>17, <1>18 DEF PrintInv

\* Not all lists are received at first.
LEMMA InitPrint == Init => PrintInv
<1> SUFFICES ASSUME Init PROVE PrintInv
  OBVIOUS
<1>1. 0 \in Worker /\ done = {}
  BY TopListAssumption DEF Worker, Init
<1>2. done # Worker
  BY <1>1
<1>3. QED
  BY <1>2 DEF PrintInv

\* Every step preserves PrintInv, beside TopInv.
LEMMA NextPrint ==
  ASSUME Ordinary
  PROVE  TopInv /\ PrintInv /\ [Next]_vars => PrintInv'
<1> SUFFICES ASSUME TopInv, PrintInv, [Next]_vars PROVE PrintInv'
  OBVIOUS
<1>1. CASE PrintNext
  BY <1>1, PrintPrint
<1>2. ASSUME NEW w \in Worker, Scan(w) PROVE PrintInv'
  <2>1. st[w] < Size[w] /\ done' = done /\ QueueInv(w) /\ st[w] \in Nat
    BY <1>2 DEF Scan, TopInv
  <2>2. w \notin done
    BY <2>1, Sizes DEF QueueInv
  <2>3. done' # Worker
    BY <2>1, <2>2
  <2>4. QED
    BY <2>3 DEF PrintInv
<1>3. ASSUME NEW w \in Worker, Send(w) PROVE PrintInv'
  <2>1. TopInv'
    BY <1>3, SendStep
  <2>2. w \notin done /\ out' = out /\ value' = value
    BY <1>3 DEF Send
  <2>3. done # Worker
    BY <2>2
  <2>4. QED
    BY <2>1, <2>2, <2>3, SendPrint
<1>4. CASE UNCHANGED vars
  <2>1. value' = value /\ st' = st /\ topbuf' = topbuf /\ done' = done /\ q' = q /\ out' = out
    BY <1>4 DEF vars
  <2>2. \A w \in Worker : Popped(w)' = Popped(w)
    BY <2>1 DEF Popped
  <2>3. \A g : TakenFrom(g) => TakenFrom(g)'
    BY <2>1, <2>2 DEF TakenFrom, VertexAt
  <2>4. QED
    BY <2>1, <2>2, <2>3 DEF PrintInv
<1>5. QED
  BY <1>1, <1>2, <1>3, <1>4 DEF Next

\* The vertices are finitely many.
LEMMA Vertices == IsFiniteSet(Vertex)
<1>1. IsFiniteSet(Worker)
  <2>1. 0 \in Int /\ M - 1 \in Int
    BY TopListAssumption
  <2>2. QED
    BY <2>1, FS_Interval DEF Worker
<1>2. ASSUME NEW w \in Worker PROVE IsFiniteSet({w} \X Local(w))
  <2>1. 0 \in Int /\ Size[w] - 1 \in Int
    BY Sizes
  <2>2. IsFiniteSet(Local(w))
    BY <2>1, FS_Interval DEF Local
  <2>3. IsFiniteSet({w})
    BY FS_Singleton
  <2>4. QED
    BY <2>2, <2>3, FS_Product
<1> DEFINE All == {{w} \X Local(w) : w \in Worker}
           f == [w \in Worker |-> {w} \X Local(w)]
<1>3. f \in Surjection(Worker, All)
  BY DEF Surjection
<1>4. IsFiniteSet(All)
  <2> HIDE DEF f, All
  <2>1. QED
    BY <1>1, <1>3, FS_Surjection
<1>5. \A S \in All : IsFiniteSet(S)
  BY <1>2
<1> HIDE DEF All, f
<1>6. IsFiniteSet(UNION All)
  BY <1>4, <1>5, FS_UNION
<1>7. QED
  BY <1>6 DEF Vertex, All

\* The entries printed stand for vertices, and no other vertex has a greater value.
LEMMA PrintedStand ==
  ASSUME Ordinary, TopInv, PrintInv
  PROVE  /\ Len(out) \in Nat /\ Descending(out)
         /\ \A i \in 1 .. Len(out) : out[i].value \in Int
         /\ \E g : StandFor(Vertex, value, Len(out), Len(out), [i \in 1 .. Len(out) |-> out[i].value], g)
<1>1. /\ value \in [Vertex -> Values] /\ Values \subseteq Int /\ out \in Seq(AnyEntry)
      /\ done = Worker \/ out = <<>>
  BY TopListAssumption DEF TopInv
<1> DEFINE l == Len(out)
           s == [i \in 1 .. l |-> out[i].value]
<1>2. l \in Nat /\ value \in [Vertex -> Int]
  BY <1>1, LenProperties
<1>3. \E g \in Injection(1 .. l, Vertex) :
        /\ \A i \in 1 .. l : value[g[i]] = out[i].value
        /\ \A a \in Vertex : (\E i \in 1 .. l : g[i] = a) \/ \A i \in 1 .. l : value[a] <= out[i].value
  <2>1. CASE out = <<>>
    <3>1. l = 0
      BY <2>1
    <3> DEFINE g == <<>>
    <3>2. g \in [1 .. l -> Vertex] /\ \A i, j \in 1 .. l : g[i] = g[j] => i = j
      BY <3>1
    <3> HIDE DEF g
    <3>3. g \in Injection(1 .. l, Vertex)
      BY <3>2 DEF Injection, IsInjective
    <3>4. \A i \in 1 .. l : FALSE
      BY <3>1
    <3>5. QED
      BY <3>3, <3>4
  <2>2. CASE out # <<>>
    <3>1. done = Worker
      BY <1>1, <2>2
    <3>2. PICK g \in Injection(1 .. l, Vertex) : TakenFrom(g)
      BY <3>1 DEF PrintInv
    <3>3. \A k \in 1 .. l : \A w \in Worker : \A i \in 1 .. NTop :
            i > Popped(w) \/ i = NTop => topbuf[w][i].value <= out[k].value
      BY <3>1 DEF PrintInv
    <3>4. ASSUME NEW a \in Vertex
          PROVE  (\E i \in 1 .. l : g[i] = a) \/ \A i \in 1 .. l : value[a] <= out[i].value
      <4>1. PICK w \in Worker : \E v \in Local(w) : a = <<w, v>>
        BY DEF Vertex
      <4>2. PICK v \in Local(w) : a = <<w, v>>
        BY <4>1
      <4>3. /\ st[w] # 0 /\ Wanted(w) = NTop /\ Scanned(w) = Local(w)
            /\ NTop \in Nat /\ NTop > 0 /\ Popped(w) \in Nat
            /\ \A i \in 1 .. NTop : value[VertexAt(w, i)] = topbuf[w][i].value
            /\ \A i \in 1 .. NTop : topbuf[w][i].value \in Int
        BY <3>1, FullLists
      <4>4. \/ \E i \in 1 .. NTop : topbuf[w][i].vid = v
            \/ \A i \in 1 .. NTop : value[<<w, v>>] <= topbuf[w][i].value
        BY <4>3, ListFacts
      <4>5. CASE \E i \in 1 .. NTop : topbuf[w][i].vid = v
        <5>1. PICK i \in 1 .. NTop : a = VertexAt(w, i)
          BY <4>2, <4>5 DEF VertexAt
        <5>2. CASE i <= Popped(w)
          <6>1. i \in 1 .. Popped(w)
            BY <4>3, <5>2
          <6>2. QED
            BY <3>2, <5>1, <6>1 DEF TakenFrom
        <5>3. CASE ~ (i <= Popped(w))
          <6>1. i > Popped(w) /\ value[a] = topbuf[w][i].value
            BY <4>3, <5>1, <5>3
          <6>2. QED
            BY <3>3, <6>1
        <5>4. QED
          BY <5>2, <5>3
      <4>6. CASE \A i \in 1 .. NTop : value[<<w, v>>] <= topbuf[w][i].value
        <5>1. NTop \in 1 .. NTop
          BY <4>3
        <5>2. value[a] <= topbuf[w][NTop].value /\ value[a] \in Int /\ topbuf[w][NTop].value \in Int
          BY <1>2, <4>2, <4>3, <4>6, <5>1
        <5>3. ASSUME NEW k \in 1 .. l PROVE value[a] <= out[k].value
          <6>1. topbuf[w][NTop].value <= out[k].value
            BY <3>3, <5>1
          <6>2. out[k].value = value[g[k]] /\ g[k] \in Vertex
            BY <3>2 DEF TakenFrom, Injection
          <6>3. out[k].value \in Int
            BY <1>2, <6>2
          <6>4. QED
            BY <5>2, <6>1, <6>3
        <5>4. QED
          BY <5>3
      <4>7. QED
        BY <4>4, <4>5, <4>6
    <3>5. \A i \in 1 .. l : value[g[i]] = out[i].value
      BY <3>2 DEF TakenFrom
    <3>6. QED
      BY <3>2, <3>4, <3>5
  <2>3. QED
    BY <2>1, <2>2
<1>4. PICK g \in Injection(1 .. l, Vertex) :
        /\ \A i \in 1 .. l : value[g[i]] = out[i].value
        /\ \A a \in Vertex : (\E i \in 1 .. l : g[i] = a) \/ \A i \in 1 .. l : value[a] <= out[i].value
  BY <1>3
<1>5. \A i \in 1 .. l : out[i].value \in Int /\ s[i] = out[i].value
  <2>1. \A i \in 1 .. l : g[i] \in Vertex
    BY DEF Injection
  <2>2. QED
    BY <1>2, <1>4, <2>1
<1>6. IsFiniteSet(Vertex) /\ l = Least(l, Cardinality(Vertex))
  <2>1. IsFiniteSet(Vertex) /\ IsFiniteSet(1 .. l)
    BY <1>2, Vertices, FS_Interval
  <2>2. Cardinality(1 .. l) <= Cardinality(Vertex)
    BY <2>1, FS_Injection
  <2>3. Cardinality(1 .. l) = l
    <3>1. 1 \in Int /\ l \in Int
      BY <1>2
    <3> HIDE DEF l
    <3>2. Cardinality(1 .. l) = IF 1 > l THEN 0 ELSE l - 1 + 1
      BY <3>1, FS_Interval
    <3>3. QED
      BY <1>2, <3>2
  <2>4. Cardinality(Vertex) \in Nat
    BY <2>1, FS_CardinalityType
  <2> HIDE DEF l
  <2>5. QED
    BY <1>2, <2>1, <2>2, <2>3, <2>4 DEF Least
<1>7. s \in [1 .. l -> Int]
  BY <1>5
<1>8. Descending(out)
  <2>1. CASE done = Worker
    BY <2>1 DEF PrintInv
  <2>2. CASE out = <<>>
    BY <2>2 DEF Descending
  <2>3. QED
    BY <1>1, <2>1, <2>2
<1>9. StandFor(Vertex, value, l, l, s, g)
  <2> HIDE DEF s, l
  <2>1. QED
    BY <1>2, <1>4, <1>5, <1>6, <1>7 DEF StandFor
<1>10. QED
  BY <1>2, <1>5, <1>8, <1>9

\* The loop at the end of ceMaster.cpp prints the greatest values of all workers in order, if
\* no value is below zero and every interval has ntop vertices; it starts its search from 0
\* and prints what a shorter list did not fill in, so it needs both.
THEOREM PrintedTopHolds ==
  ASSUME Ordinary
  PROVE  Spec => []PrintedTop
<1>1. ASSUME TopInv, PrintInv PROVE PrintedTop
  <2>1. /\ Len(out) \in Nat /\ Descending(out)
        /\ \A i \in 1 .. Len(out) : out[i].value \in Int
        /\ \E g : StandFor(Vertex, value, Len(out), Len(out), [i \in 1 .. Len(out) |-> out[i].value], g)
    BY <1>1, PrintedStand
  <2> DEFINE s == [i \in 1 .. Len(out) |-> out[i].value]
             l == Len(out)
  <2>2. PICK g : StandFor(Vertex, value, l, l, s, g)
    BY <2>1
  <2>3. l = Least(l, Cardinality(Vertex))
    BY <2>2 DEF StandFor
  <2>4. ASSUME NEW x \in Values \cup Garbage
        PROVE  Cardinality({i \in 1 .. l : out[i].value >= x})
                 = Least(l, Cardinality({v \in Vertex : value[v] >= x}))
    <3>1. x \in Int
      BY TopListAssumption
    <3>2. {i \in 1 .. l : s[i] >= x} = {i \in 1 .. l : out[i].value >= x}
      OBVIOUS
    <3> HIDE DEF s, l
    <3>3. AsManyReach(Vertex, value, l, l, s, x)
      BY <2>2, <3>1, TopCounts
    <3>4. QED
      BY <3>2, <3>3 DEF AsManyReach
  <2>5. \A i \in 2 .. l : out[i].value <= out[i - 1].value
    <3> TAKE i \in 2 .. l
    <3>1. i \in 1 .. l /\ i - 1 \in 1 .. l /\ i - 1 < i
      BY <2>1
    <3>2. out[i - 1].value >= out[i].value /\ out[i].value \in Int /\ out[i - 1].value \in Int
      BY <2>1, <3>1 DEF Descending
    <3>3. QED
      BY <3>2
  <2>6. QED
    BY <2>3, <2>4, <2>5 DEF PrintedTop, IsTop
<1>2. Init => TopInv /\ PrintInv
  BY InitTop, InitPrint
<1>3. TopInv /\ PrintInv /\ [Next]_vars => TopInv' /\ PrintInv'
  BY NextTop, NextPrint
<1>4. QED
  BY <1>1, <1>2, <1>3, PTL DEF Spec

=============================================================================
