--------------------------- MODULE SubgraphProofs ---------------------------
(***************************************************************************)
(* Theorems about the files that module Reshard writes, for any graph and   *)
(* any intervals.  The workers that load them only read, so the invariants  *)
(* are about reshard.  ReshardInv says where the values of the edges are    *)
(* and what the pending edges of a row have in common; FilesInv, in the     *)
(* second part, that the adjacencies of a subgraph that can be loaded are   *)
(* the rows of its edges.                                                   *)
(***************************************************************************)
EXTENDS Subgraph, FiniteSetTheorems, SequenceTheorems, TLAPS

-----------------------------------------------------------------------------
(* The inductive invariant *)

\* s is the list of the members of U, ascending.
Ascending(s, U) ==
  /\ s \in Seq(U)
  /\ \A x \in 1 .. Len(s) : \A y \in 1 .. Len(s) : x < y => Less(s[x], s[y])
  /\ \A u \in U : \E x \in 1 .. Len(s) : s[x] = u

\* The edges of the pass whose values are written.
Kept == IF pc = "value" THEN i ELSE i + 1
SeenBy(k) ==
  IF k < shard THEN graph.edges
  ELSE IF k = shard THEN {shovelbuf[x] : x \in 1 .. Kept} ELSE {}

IsFile(w) ==
  w = [adj |-> w.adj, ins |-> w.ins, outs |-> w.outs, vid_written |-> w.vid_written,
       curvid |-> w.curvid]

\* The blocks hold what is written, in order.
BlocksInv ==
  /\ wsl = [k \in Shard |-> [p \in Shard |-> wsl[k][p]]]
  /\ \A k \in Shard : \A p \in Shard :
       /\ IsFile(wsl[k][p])
       /\ Ascending(wsl[k][p].outs, Block(k, p) \cap SeenBy(k))
       /\ p # k => Ascending(wsl[k][p].ins, Block(p, k) \cap SeenBy(k))

\* What reshard knows of the edge it is at.
EdgeInv ==
  /\ pc = "turn" => css = shard /\ Owner(Src) = shard /\ index = Owner(Edge[2])
  /\ pc = "source" =>
       /\ css = Owner(Src)
       /\ Owner(Src) = shard => curvid = Src /\ cms = Owner(Edge[2])

\* The pending edges are into the interval of the file that their row is for ...
PendingIn == \A x \in istart + 1 .. i : shovelbuf[x][2] \in Interval(cms)
OnlyZeros == \A x \in 1 .. i : shovelbuf[x][1] = 0

\* ... but for the edges of vertex 0, if no other source came before the own ones.
ZeroFirst ==
  /\ shard # 0 /\ \E x \in 1 .. i : shovelbuf[x][1] = 0
  /\ \A x \in 1 .. i : shovelbuf[x][1] < graph.first[shard] => shovelbuf[x][1] = 0

RowInv ==
  /\ PendingIn \/ ZeroFirst
  /\ pc \in {"value", "source"} /\ curvid \notin Interval(shard) =>
       (cms = shard /\ PendingIn) \/ (curvid = 0 /\ OnlyZeros)

\* The pass and its place in it.
PassAt ==
  /\ shard \in Shard /\ shovelbuf = Sorted(Shovel(shard, graph.edges))
  /\ i \in 0 .. Len(shovelbuf) /\ istart \in 0 .. i /\ (pc # "value" => i < Len(shovelbuf))

Passing ==
  /\ pc \in {"value", "turn", "source", "failed"}
  /\ PassAt
  /\ EdgeInv
  /\ pc # "failed" => RowInv
  /\ pc = "failed" => OnlyZeroBefore(shard)

Typed ==
  /\ graph \in Inputs
  /\ css \in Shard \cup {-1} /\ cms \in Shard /\ index \in Shard
  /\ curvid \in Nat /\ willout \in BOOLEAN

ReshardInv ==
  /\ Typed
  /\ Passing \/ (pc = "done" /\ shard = P)
  /\ BlocksInv

-----------------------------------------------------------------------------
(* The order of the edges *)

\* edge_t_src_less is a total order.
LEMMA LessOrder ==
  /\ \A e \in Nat \X Nat : ~ Less(e, e)
  /\ \A e \in Nat \X Nat : \A f \in Nat \X Nat : e = f \/ Less(e, f) \/ Less(f, e)
  /\ \A e \in Nat \X Nat : \A f \in Nat \X Nat : Less(e, f) => ~ Less(f, e) /\ e # f
  /\ \A e \in Nat \X Nat : \A f \in Nat \X Nat : \A g \in Nat \X Nat :
       Less(e, f) /\ Less(f, g) => Less(e, g)
BY DEF Less

\* The edges of E before e.
Before(e, E) == {f \in E : Less(f, e)}

\* A rank is a place among the edges, and a greater edge has a greater one.
LEMMA RankFacts ==
  ASSUME NEW E \in SUBSET (Nat \X Nat), IsFiniteSet(E)
  PROVE  /\ Cardinality(E) \in Nat
         /\ \A e \in E : Rank(e, E) \in 0 .. Cardinality(E) - 1
         /\ \A e \in E : \A f \in E : Less(e, f) => Rank(e, E) < Rank(f, E)
<1> DEFINE Card == Cardinality(E)
<1>1. Card \in Nat
  BY FS_CardinalityType
<1>2. ASSUME NEW e \in E PROVE IsFiniteSet(Before(e, E)) /\ Cardinality(Before(e, E)) \in Nat
  <2>1. Before(e, E) \subseteq E
    BY DEF Before
  <2>2. QED
    BY <2>1, FS_Subset, FS_CardinalityType
<1>3. ASSUME NEW e \in E PROVE Cardinality(Before(e, E)) < Card
  <2>1. Before(e, E) \subseteq E \ {e}
    BY LessOrder DEF Before
  <2>2. IsFiniteSet(E \ {e}) /\ Cardinality(E \ {e}) = Card - 1
    BY FS_RemoveElement
  <2>3. Cardinality(Before(e, E)) <= Cardinality(E \ {e})
    BY <2>1, <2>2, FS_Subset
  <2> HIDE DEF Card
  <2>4. QED
    BY <1>1, <1>2, <2>2, <2>3
<1>4. ASSUME NEW e \in E, NEW f \in E, Less(e, f)
      PROVE  Cardinality(Before(e, E)) < Cardinality(Before(f, E))
  <2>1. Before(e, E) \subseteq Before(f, E) \ {e} /\ e \in Before(f, E)
    BY <1>4, LessOrder DEF Before
  <2>2. /\ IsFiniteSet(Before(f, E) \ {e})
        /\ Cardinality(Before(f, E) \ {e}) = Cardinality(Before(f, E)) - 1
    BY <1>2, <2>1, FS_RemoveElement
  <2>3. Cardinality(Before(e, E)) <= Cardinality(Before(f, E) \ {e})
    BY <2>1, <2>2, FS_Subset
  <2>4. QED
    BY <1>2, <2>2, <2>3
<1>5. \A e \in E : Rank(e, E) = Cardinality(Before(e, E))
  BY DEF Rank, Before
<1> HIDE DEF Card
<1>6. QED
  BY <1>1, <1>2, <1>3, <1>4, <1>5 DEF Card

\* In an ascending list, every edge is at its rank.
LEMMA AscendingRank ==
  ASSUME NEW U \in SUBSET (Nat \X Nat), IsFiniteSet(U), NEW s, Ascending(s, U)
  PROVE  /\ Len(s) \in Nat /\ Len(s) = Cardinality(U)
         /\ \A x \in 1 .. Len(s) : s[x] \in U /\ Rank(s[x], U) = x - 1
<1> DEFINE l == Len(s)
<1>1. l \in Nat /\ \A x \in 1 .. l : s[x] \in U
  BY LenProperties, ElementOfSeq DEF Ascending
<1>2. /\ \A x \in 1 .. l : \A y \in 1 .. l : x < y => Less(s[x], s[y])
      /\ \A u \in U : \E x \in 1 .. l : s[x] = u
  BY DEF Ascending
<1> HIDE DEF l
<1>3. ASSUME NEW x \in 1 .. l, NEW y \in 1 .. l
      PROVE  /\ Less(s[x], s[y]) <=> x < y
             /\ s[x] = s[y] => x = y
  <2>1. s[x] \in Nat \X Nat /\ s[y] \in Nat \X Nat
    BY <1>1
  <2>2. x < y \/ x = y \/ y < x
    BY <1>1
  <2>3. CASE x < y
    BY <1>1, <1>2, <2>1, <2>3, LessOrder
  <2>4. CASE x = y
    BY <1>1, <2>1, <2>4, LessOrder
  <2>5. CASE y < x
    BY <1>1, <1>2, <2>1, <2>5, LessOrder
  <2>6. QED
    BY <2>2, <2>3, <2>4, <2>5
<1>4. ASSUME NEW m \in 0 .. l, NEW V, V = {s[y] : y \in 1 .. m}
      PROVE  Cardinality(V) = m
  <2> DEFINE f == [y \in 1 .. m |-> s[y]]
  <2>1. \A y \in 1 .. m : y \in 1 .. l
    BY <1>1
  <2>2. f \in Bijection(1 .. m, V)
    <3>1. f \in [1 .. m -> V]
      BY <1>4
    <3>2. \A y, z \in 1 .. m : f[y] = f[z] => y = z
      BY <1>3, <2>1
    <3>3. \A v \in V : \E y \in 1 .. m : f[y] = v
      BY <1>4
    <3> HIDE DEF f
    <3>4. QED
      BY <3>1, <3>2, <3>3 DEF Bijection, Injection, Surjection, IsInjective
  <2>3. m \in Nat /\ 1 \in Int /\ m \in Int
    BY <1>1
  <2>4. IsFiniteSet(1 .. m) /\ Cardinality(1 .. m) = IF 1 > m THEN 0 ELSE m - 1 + 1
    BY <2>3, FS_Interval
  <2> HIDE DEF f
  <2>5. Cardinality(V) = Cardinality(1 .. m)
    BY <2>2, <2>4, FS_Bijection DEF ExistsBijection
  <2>6. QED
    BY <2>3, <2>4, <2>5
<1>5. l = Cardinality(U)
  <2>1. U = {s[y] : y \in 1 .. l}
    BY <1>1, <1>2
  <2>2. l \in 0 .. l
    BY <1>1
  <2>3. QED
    BY <1>4, <2>1, <2>2
<1>6. ASSUME NEW x \in 1 .. l PROVE Rank(s[x], U) = x - 1
  <2>1. x - 1 \in 0 .. l /\ \A y \in 1 .. l : y < x <=> y \in 1 .. x - 1
    BY <1>1
  <2>2. \A y \in 1 .. x - 1 : y \in 1 .. l
    BY <1>1
  <2>3. {f \in U : Less(f, s[x])} = {s[y] : y \in 1 .. x - 1}
    BY <1>1, <1>2, <1>3, <2>1, <2>2
  <2>4. Cardinality({f \in U : Less(f, s[x])}) = x - 1
    BY <1>4, <2>1, <2>3
  <2>5. QED
    BY <2>4 DEF Rank
<1>7. QED
  BY <1>1, <1>5, <1>6 DEF l

\* Ranks tell edges apart.
LEMMA RankInjective ==
  ASSUME NEW E \in SUBSET (Nat \X Nat), IsFiniteSet(E), NEW e \in E, NEW f \in E,
         Rank(e, E) = Rank(f, E)
  PROVE  e = f
<1>1. e = f \/ Less(e, f) \/ Less(f, e)
  BY LessOrder
<1>2. Rank(e, E) \in Int /\ (Less(e, f) => Rank(e, E) < Rank(f, E))
      /\ (Less(f, e) => Rank(f, E) < Rank(e, E))
  BY RankFacts
<1>3. QED
  BY <1>1, <1>2

\* So there is no other ascending list of a set than Sorted.
LEMMA AscendingSorted ==
  ASSUME NEW U \in SUBSET (Nat \X Nat), IsFiniteSet(U), NEW s, Ascending(s, U)
  PROVE  s = Sorted(U)
<1>1. /\ Len(s) \in Nat /\ Len(s) = Cardinality(U)
      /\ \A x \in 1 .. Len(s) : s[x] \in U /\ Rank(s[x], U) = x - 1
  BY AscendingRank
<1>2. ASSUME NEW x \in 1 .. Cardinality(U)
      PROVE  s[x] = CHOOSE e \in U : Rank(e, U) = x - 1
  <2>1. s[x] \in U /\ Rank(s[x], U) = x - 1
    BY <1>1
  <2>2. \A e \in U : Rank(e, U) = x - 1 => e = s[x]
    BY <2>1, RankInjective
  <2>3. QED
    BY <2>1, <2>2
<1>3. s \in Seq(U)
  BY DEF Ascending
<1>4. s = [x \in 1 .. Len(s) |-> s[x]]
  BY <1>3
<1>5. s = [x \in 1 .. Cardinality(U) |-> s[x]]
  BY <1>1, <1>4
<1>6. QED
  BY <1>2, <1>5 DEF Sorted

\* And Sorted is one.
LEMMA SortedAscending ==
  ASSUME NEW E \in SUBSET (Nat \X Nat), IsFiniteSet(E)
  PROVE  Ascending(Sorted(E), E)
<1> DEFINE Card == Cardinality(E)
           r == [e \in E |-> Rank(e, E)]
<1>1. Card \in Nat /\ \A e \in E : Rank(e, E) \in 0 .. Card - 1
  BY RankFacts
<1>2. r \in Injection(E, 0 .. Card - 1)
  <2>1. r \in [E -> 0 .. Card - 1]
    BY <1>1
  <2>2. \A e, f \in E : r[e] = r[f] => e = f
    BY RankInjective
  <2> HIDE DEF r, Card
  <2>3. QED
    BY <2>1, <2>2 DEF Injection, IsInjective
<1>3. IsFiniteSet(0 .. Card - 1) /\ Cardinality(0 .. Card - 1) = Card
  <2> HIDE DEF Card
  <2>1. 0 \in Int /\ Card - 1 \in Int
    BY <1>1
  <2>2. IsFiniteSet(0 .. Card - 1) /\ Cardinality(0 .. Card - 1) = IF 0 > Card - 1 THEN 0 ELSE Card - 1 - 0 + 1
    BY <2>1, FS_Interval
  <2>3. QED
    BY <1>1, <2>2
<1>4. r \in Surjection(E, 0 .. Card - 1)
  <2> HIDE DEF r
  <2>1. QED
    BY <1>2, <1>3, FS_Injection
<1>5. \A x \in 0 .. Card - 1 : \E e \in E : Rank(e, E) = x
  BY <1>4 DEF Surjection
<1> DEFINE s == Sorted(E)
<1>6. ASSUME NEW x \in 1 .. Card PROVE s[x] \in E /\ Rank(s[x], E) = x - 1
  <2>1. x - 1 \in 0 .. Card - 1
    BY <1>1
  <2>2. s[x] = CHOOSE e \in E : Rank(e, E) = x - 1
    BY DEF Sorted
  <2>3. QED
    BY <1>5, <2>1, <2>2
<1>7. s \in Seq(E) /\ Len(s) = Card
  <2>1. s \in [1 .. Card -> E]
    BY <1>6 DEF Sorted
  <2> HIDE DEF Card, s
  <2>2. QED
    BY <1>1, <2>1
<1> HIDE DEF s, r, Card
<1>8. ASSUME NEW x \in 1 .. Card, NEW y \in 1 .. Card, x < y PROVE Less(s[x], s[y])
  <2>1. /\ s[x] \in E /\ s[y] \in E /\ Rank(s[x], E) = x - 1 /\ Rank(s[y], E) = y - 1
    BY <1>6
  <2>2. s[x] # s[y] /\ ~ Less(s[y], s[x])
    <3>1. Less(s[y], s[x]) => Rank(s[y], E) < Rank(s[x], E)
      BY <2>1, RankFacts
    <3>2. QED
      BY <1>1, <1>8, <2>1, <3>1
  <2>3. QED
    BY <2>1, <2>2, LessOrder
<1>9. ASSUME NEW u \in E PROVE \E x \in 1 .. Card : s[x] = u
  <2> DEFINE x == Rank(u, E) + 1
  <2>1. x \in 1 .. Card /\ x - 1 = Rank(u, E)
    BY <1>1
  <2> HIDE DEF x
  <2>2. s[x] \in E /\ Rank(s[x], E) = Rank(u, E)
    BY <1>6, <2>1
  <2>3. QED
    BY <2>1, <2>2, RankInjective
<1>10. QED
  BY <1>7, <1>8, <1>9 DEF Ascending, s

\* A greater edge goes to the end.
LEMMA AscendingAppend ==
  ASSUME NEW U, NEW s, Ascending(s, U), NEW e, \A u \in U : Less(u, e)
  PROVE  Ascending(Append(s, e), U \cup {e})
<1>1. s \in Seq(U) /\ Len(s) \in Nat /\ \A x \in 1 .. Len(s) : s[x] \in U
  BY LenProperties, ElementOfSeq DEF Ascending
<1>2. s \in Seq(U \cup {e})
  BY <1>1, SeqMonotonic
<1> DEFINE t == Append(s, e)
           l == Len(s)
<1>3. /\ t \in Seq(U \cup {e}) /\ Len(t) = l + 1
      /\ \A x \in 1 .. l : t[x] = s[x]
      /\ t[l + 1] = e
  BY <1>2, AppendProperties
<1>4. /\ \A x \in 1 .. l : \A y \in 1 .. l : x < y => Less(s[x], s[y])
      /\ \A u \in U : \E x \in 1 .. l : s[x] = u
  BY DEF Ascending
<1>5. l \in Nat /\ \A x \in 1 .. l : s[x] \in U
  BY <1>1
<1> HIDE DEF t, l
<1>6. \A x \in 1 .. l + 1 : x \in 1 .. l \/ x = l + 1
  BY <1>5
<1>7. \A x \in 1 .. l : x \in 1 .. l + 1
  BY <1>5
<1>8. ASSUME NEW x \in 1 .. l + 1, NEW y \in 1 .. l + 1, x < y PROVE Less(t[x], t[y])
  <2>1. x \in 1 .. l
    BY <1>5, <1>8
  <2>2. CASE y \in 1 .. l
    BY <1>3, <1>4, <1>8, <2>1, <2>2
  <2>3. CASE y = l + 1
    BY <1>3, <1>5, <2>1, <2>3
  <2>4. QED
    BY <1>6, <2>2, <2>3
<1>9. ASSUME NEW u \in U \cup {e} PROVE \E x \in 1 .. l + 1 : t[x] = u
  <2>1. CASE u = e
    <3>1. l + 1 \in 1 .. l + 1
      BY <1>5
    <3>2. QED
      BY <1>3, <2>1, <3>1
  <2>2. CASE u \in U
    BY <1>3, <1>4, <1>7, <2>2
  <2>3. QED
    BY <2>1, <2>2
<1>10. QED
  BY <1>3, <1>8, <1>9 DEF Ascending, t
-----------------------------------------------------------------------------
(* Graphs and their intervals *)

\* What ReshardAssumption says of a graph and its intervals.
LEMMA GraphFacts ==
  ASSUME graph \in Inputs
  PROVE  /\ P \in Nat /\ P > 0 /\ Shard = 0 .. P - 1 /\ graph.first[0] = 0
         /\ \A k \in Shard : graph.first[k] \in Nat /\ graph.last[k] \in Nat /\ graph.first[k] <= graph.last[k]
         /\ \A k \in Shard : \A j \in Shard : j < k => graph.last[j] < graph.first[k]
         /\ IsFiniteSet(graph.edges) /\ graph.edges \in SUBSET (Nat \X Nat)
         /\ \A e \in graph.edges : /\ e[1] \in Nat /\ e[2] \in Nat
                                   /\ \E k \in Shard : e[1] \in Interval(k)
                                   /\ \E k \in Shard : e[2] \in Interval(k)
<1>1. IsGraph(graph)
  BY ReshardAssumption
<1> DEFINE size == Cardinality(DOMAIN graph.first)
<1>2. /\ size \in Nat \ {0} /\ graph.first \in [0 .. size - 1 -> Nat] /\ graph.last \in [0 .. size - 1 -> Nat]
      /\ graph.first[0] = 0
      /\ \A k \in 0 .. size - 1 :
           graph.first[k] <= graph.last[k] /\ \A j \in 0 .. k - 1 : graph.last[j] < graph.first[k]
      /\ IsFiniteSet(graph.edges) /\ graph.edges \subseteq Nat \X Nat
      /\ \A e \in graph.edges : \A v \in {e[1], e[2]} :
           \E k \in 0 .. size - 1 : v \in graph.first[k] .. graph.last[k]
  BY <1>1 DEF IsGraph
<1>3. P = size /\ Shard = DOMAIN graph.first
  BY DEF P, Shard
<1> HIDE DEF size
<1>4. Shard = 0 .. P - 1
  BY <1>2, <1>3
<1>5. \A k \in 0 .. P - 1 : \A j \in 0 .. P - 1 : j < k => graph.last[j] < graph.first[k]
  BY <1>2, <1>3
<1>6. \A e \in graph.edges : e[1] \in Nat /\ e[2] \in Nat
  BY <1>2
<1>7. P \in Nat /\ P > 0
  BY <1>2, <1>3
<1>8. \A k \in Shard : graph.first[k] \in Nat /\ graph.last[k] \in Nat /\ graph.first[k] <= graph.last[k]
  BY <1>2, <1>3, <1>4
<1>9. \A e \in graph.edges : /\ \E k \in Shard : e[1] \in Interval(k)
                            /\ \E k \in Shard : e[2] \in Interval(k)
  BY <1>2, <1>3, <1>4 DEF Interval
<1>10. QED
  BY <1>2, <1>4, <1>5, <1>6, <1>7, <1>8, <1>9

\* Intervals are disjoint: the owner of a vertex is the one interval that has it.
LEMMA OwnerFacts ==
  ASSUME graph \in Inputs
  PROVE  /\ \A k \in Shard : \A v \in Interval(k) : Owner(v) = k
         /\ \A k \in Shard : \A j \in Shard : \A v \in Interval(k) : v \in Interval(j) => j = k
<1>1. \A k \in Shard : \A j \in Shard : \A v \in Interval(k) : v \in Interval(j) => j = k
  <2> SUFFICES ASSUME NEW k \in Shard, NEW j \in Shard, NEW v \in Interval(k), v \in Interval(j), j # k
               PROVE  FALSE
    OBVIOUS
  <2>1. /\ j \in Int /\ k \in Int
        /\ graph.first[k] \in Nat /\ graph.last[k] \in Nat /\ graph.first[j] \in Nat /\ graph.last[j] \in Nat
        /\ j < k => graph.last[j] < graph.first[k]
        /\ k < j => graph.last[k] < graph.first[j]
    BY GraphFacts
  <2>2. v \in graph.first[k] .. graph.last[k] /\ v \in graph.first[j] .. graph.last[j]
    BY DEF Interval
  <2>3. QED
    BY <2>1, <2>2
<1>2. QED
  BY <1>1 DEF Owner

\* The sources and targets of edges and the blocks they are in.
LEMMA EdgeFacts ==
  ASSUME graph \in Inputs, NEW e \in graph.edges
  PROVE  /\ e[1] \in Nat /\ e[2] \in Nat
         /\ Owner(e[1]) \in Shard /\ e[1] \in Interval(Owner(e[1]))
         /\ Owner(e[2]) \in Shard /\ e[2] \in Interval(Owner(e[2]))
         /\ \A k \in Shard : \A p \in Shard : e \in Block(k, p) <=> Owner(e[1]) = k /\ Owner(e[2]) = p
<1>1. e[1] \in Nat /\ e[2] \in Nat
  BY GraphFacts
<1>2. PICK k1 \in Shard : e[1] \in Interval(k1)
  BY GraphFacts
<1>3. PICK k2 \in Shard : e[2] \in Interval(k2)
  BY GraphFacts
<1>4. Owner(e[1]) = k1 /\ Owner(e[2]) = k2
  BY <1>2, <1>3, OwnerFacts
<1>5. \A k \in Shard : (e[1] \in Interval(k) <=> k = k1) /\ (e[2] \in Interval(k) <=> k = k2)
  BY <1>2, <1>3, OwnerFacts
<1>6. QED
  BY <1>1, <1>2, <1>3, <1>4, <1>5 DEF Block

\* A pass sees the edges of its shovel, from the least to the greatest.
LEMMA PassFacts ==
  ASSUME graph \in Inputs, NEW k \in Shard, shovelbuf = Sorted(Shovel(k, graph.edges))
  PROVE  /\ Shovel(k, graph.edges) \in SUBSET graph.edges
         /\ Ascending(shovelbuf, Shovel(k, graph.edges))
         /\ Len(shovelbuf) \in Nat
         /\ \A x \in 1 .. Len(shovelbuf) :
              shovelbuf[x] \in Shovel(k, graph.edges) /\ shovelbuf[x] \in graph.edges
<1>1. Shovel(k, graph.edges) \in SUBSET graph.edges
  BY DEF Shovel
<1>2. IsFiniteSet(Shovel(k, graph.edges)) /\ Shovel(k, graph.edges) \in SUBSET (Nat \X Nat)
  BY <1>1, GraphFacts, FS_Subset
<1>3. Ascending(shovelbuf, Shovel(k, graph.edges))
  BY <1>2, SortedAscending
<1>4. /\ Len(shovelbuf) \in Nat
      /\ \A x \in 1 .. Len(shovelbuf) : shovelbuf[x] \in Shovel(k, graph.edges)
  BY <1>3, LenProperties, ElementOfSeq DEF Ascending
<1>5. QED
  BY <1>1, <1>3, <1>4

\* The edge that a pass is at.
LEMMA AtEdge ==
  ASSUME graph \in Inputs, Passing, i < Len(shovelbuf)
  PROVE  /\ shard \in Shard /\ i \in Nat /\ i + 1 \in 1 .. Len(shovelbuf) /\ Edge = shovelbuf[i + 1]
         /\ Edge \in graph.edges /\ Src = Edge[1] /\ Src \in Nat
         /\ Owner(Src) \in Shard /\ Src \in Interval(Owner(Src))
         /\ Owner(Edge[2]) \in Shard /\ Edge[2] \in Interval(Owner(Edge[2]))
         /\ Owner(Src) = shard \/ Owner(Edge[2]) = shard
         /\ \A x \in 1 .. i : Less(shovelbuf[x], Edge)
         /\ \A k \in Shard : \A p \in Shard : Edge \in Block(k, p) <=> Owner(Src) = k /\ Owner(Edge[2]) = p
<1>1. shard \in Shard /\ i \in Nat /\ shovelbuf = Sorted(Shovel(shard, graph.edges))
  BY DEF Passing, PassAt
<1>2. i + 1 \in 1 .. Len(shovelbuf) /\ Edge = shovelbuf[i + 1] /\ Src = Edge[1]
  <2>1. Len(shovelbuf) \in Nat
    BY <1>1, PassFacts
  <2>2. QED
    BY <1>1, <2>1 DEF Edge, Src
<1>3. Edge \in graph.edges /\ Edge \in Shovel(shard, graph.edges)
  BY <1>1, <1>2, PassFacts
<1>4. Src \in Interval(shard) \/ Edge[2] \in Interval(shard)
  BY <1>2, <1>3 DEF Shovel
<1>5. \A x \in 1 .. i : Less(shovelbuf[x], Edge)
  <2>1. Ascending(shovelbuf, Shovel(shard, graph.edges)) /\ Len(shovelbuf) \in Nat
    BY <1>1, PassFacts
  <2>2. \A x \in 1 .. i : x \in 1 .. Len(shovelbuf) /\ x < i + 1
    BY <1>1, <1>2, <2>1
  <2>3. QED
    BY <1>2, <2>1, <2>2 DEF Ascending
<1>6. /\ Src \in Nat /\ Owner(Src) \in Shard /\ Src \in Interval(Owner(Src))
      /\ Owner(Edge[2]) \in Shard /\ Edge[2] \in Interval(Owner(Edge[2]))
      /\ \A k \in Shard : \A p \in Shard : Edge \in Block(k, p) <=> Owner(Src) = k /\ Owner(Edge[2]) = p
  BY <1>2, <1>3, EdgeFacts
<1>7. Owner(Src) = shard \/ Owner(Edge[2]) = shard
  BY <1>1, <1>4, OwnerFacts
<1>8. QED
  BY <1>1, <1>2, <1>3, <1>5, <1>6, <1>7

-----------------------------------------------------------------------------
(* The files *)

\* Rows and runs of zeros go to the adjacency only.
LEMMA RowsAndZeros ==
  ASSUME NEW w, IsFile(w), NEW src, NEW b
  PROVE  LET v == [WithZeros(WithRow(w), src) EXCEPT !.vid_written = b, !.curvid = src]
             u == WithRow(w)
         IN /\ IsFile(v) /\ v.ins = w.ins /\ v.outs = w.outs
            /\ IsFile(u) /\ u.ins = w.ins /\ u.outs = w.outs
<1> DEFINE u == WithRow(w)
           z == WithZeros(u, src)
           v == [z EXCEPT !.vid_written = b, !.curvid = src]
<1>1. IsFile(u) /\ u.ins = w.ins /\ u.outs = w.outs
  <2>1. CASE i = istart
    BY <2>1 DEF WithRow
  <2>2. CASE i # istart
    <3> DEFINE a == w.adj \o Row(PendingTargets)
    <3>1. u = [w EXCEPT !.adj = a, !.vid_written = TRUE]
      BY <2>2 DEF WithRow
    <3> HIDE DEF a, u
    <3>2. QED
      BY <3>1 DEF IsFile
  <2>3. QED
    BY <2>1, <2>2
<1> HIDE DEF u
<1>2. IsFile(z) /\ z.ins = u.ins /\ z.outs = u.outs
  <2>1. CASE Gap(u, src) > 0
    <3> DEFINE a == u.adj \o ZeroRuns(Gap(u, src))
    <3>1. z = [u EXCEPT !.adj = a]
      BY <2>1 DEF WithZeros
    <3> HIDE DEF a, z
    <3>2. QED
      BY <1>1, <3>1 DEF IsFile
  <2>2. CASE ~ (Gap(u, src) > 0)
    BY <1>1, <2>2 DEF WithZeros
  <2>3. QED
    BY <2>1, <2>2
<1> HIDE DEF z
<1>3. IsFile(v) /\ v.ins = z.ins /\ v.outs = z.outs
  <2> DEFINE y == [z EXCEPT !.vid_written = b]
  <2>1. IsFile(y) /\ y.ins = z.ins /\ y.outs = z.outs
    BY <1>2 DEF IsFile
  <2>2. v = [y EXCEPT !.curvid = src]
    OBVIOUS
  <2> HIDE DEF y, v
  <2>3. QED
    BY <2>1, <2>2 DEF IsFile
<1> HIDE DEF v
<1>4. QED
  BY <1>1, <1>2, <1>3 DEF u, z, v

\* A file for each two intervals, and one of them replaced.
IsTable(f, S) == f = [k \in S |-> [p \in S |-> f[k][p]]]
Replaced(g, f, j, q, w) == g = [f EXCEPT ![j][q] = w]
Differs(g, f, S, j, q, w) ==
  \A k \in S : \A p \in S : g[k][p] = IF k = j /\ p = q THEN w ELSE f[k][p]

\* A table of files in which one file is replaced.
LEMMA OneFile ==
  ASSUME NEW S, NEW f, IsTable(f, S), NEW j \in S, NEW q \in S, NEW w, NEW g, Replaced(g, f, j, q, w)
  PROVE  IsTable(g, S) /\ Differs(g, f, S, j, q, w)
<1>1. f = [k \in S |-> [p \in S |-> f[k][p]]] /\ g = [f EXCEPT ![j] = [f[j] EXCEPT ![q] = w]]
  BY DEF IsTable, Replaced
<1>2. /\ \A k \in S : g[k] = IF k = j THEN [f[j] EXCEPT ![q] = w] ELSE f[k]
      /\ \A k \in S : f[k] = [p \in S |-> f[k][p]]
      /\ DOMAIN g = S
  BY <1>1
<1>3. \A p \in S : [f[j] EXCEPT ![q] = w][p] = IF p = q THEN w ELSE f[j][p]
  BY <1>2
<1>4. [f[j] EXCEPT ![q] = w] = [p \in S |-> [f[j] EXCEPT ![q] = w][p]]
  BY <1>2
<1>5. ASSUME NEW k \in S PROVE g[k] = [p \in S |-> g[k][p]]
  <2>1. CASE k = j
    <3>1. g[j] = [f[j] EXCEPT ![q] = w]
      BY <1>2
    <3>2. g[j] = [p \in S |-> g[j][p]]
      BY <1>4, <3>1
    <3>3. QED
      BY <2>1, <3>2
  <2>2. CASE k # j
    BY <1>2, <2>2
  <2>3. QED
    BY <2>1, <2>2
<1>6. g = [k \in S |-> [p \in S |-> g[k][p]]]
  BY <1>1, <1>5
<1>7. ASSUME NEW k \in S, NEW p \in S
      PROVE  g[k][p] = IF k = j /\ p = q THEN w ELSE f[k][p]
  <2>1. CASE k = j
    BY <1>2, <1>3, <2>1
  <2>2. CASE k # j
    BY <1>2, <2>2
  <2>3. QED
    BY <2>1, <2>2
<1>8. QED
  BY <1>6, <1>7 DEF IsTable, Differs

-----------------------------------------------------------------------------
(* The steps of reshard: what stays *)

\* What depends on the graph only stays.
LEMMA SameGraph ==
  ASSUME graph' = graph
  PROVE  /\ Shard' = Shard /\ P' = P
         /\ \A k : Interval(k)' = Interval(k)
         /\ \A v : Owner(v)' = Owner(v)
         /\ \A k, p : Block(k, p)' = Block(k, p)
         /\ \A k : OnlyZeroBefore(k)' = OnlyZeroBefore(k)
<1>1. Shard' = Shard
  BY DEF Shard
<1>2. P' = P
  BY <1>1 DEF P
<1>3. \A k : Interval(k)' = Interval(k)
  BY DEF Interval
<1>4. \A v : Owner(v)' = Owner(v)
  BY <1>1, <1>3 DEF Owner
<1>5. \A k, p : Block(k, p)' = Block(k, p)
  BY <1>3 DEF Block
<1>6. \A k : OnlyZeroBefore(k)' = OnlyZeroBefore(k)
  BY <1>3 DEF OnlyZeroBefore, OfTarget
<1>7. QED
  BY <1>1, <1>2, <1>3, <1>4, <1>5, <1>6

\* The edges of block (k, p), from either end, that are written.
WrittenTo(k, p) == Block(k, p) \cap SeenBy(k)
WrittenFrom(k, p) == Block(p, k) \cap SeenBy(k)

SameWritten ==
  \A k \in Shard : \A p \in Shard :
    WrittenTo(k, p)' = WrittenTo(k, p) /\ WrittenFrom(k, p)' = WrittenFrom(k, p)

\* A file that changes in its adjacency only.
LEMMA BlocksKept ==
  ASSUME BlocksInv, graph' = graph, SameWritten, NEW j \in Shard, NEW q \in Shard, NEW w,
         wsl' = [wsl EXCEPT ![j][q] = w],
         IsFile(w), w.ins = wsl[j][q].ins, w.outs = wsl[j][q].outs
  PROVE  BlocksInv'
<1>1. /\ wsl' = [k \in Shard |-> [p \in Shard |-> wsl'[k][p]]]
      /\ \A k \in Shard : \A p \in Shard : wsl'[k][p] = IF k = j /\ p = q THEN w ELSE wsl[k][p]
  <2>1. IsTable(wsl, Shard) /\ Replaced(wsl', wsl, j, q, w)
    BY DEF BlocksInv, IsTable, Replaced
  <2>2. IsTable(wsl', Shard) /\ Differs(wsl', wsl, Shard, j, q, w)
    BY <2>1, OneFile
  <2>3. QED
    BY <2>2 DEF IsTable, Differs
<1>2. Shard' = Shard
  BY SameGraph
<1>3. ASSUME NEW k \in Shard, NEW p \in Shard
      PROVE  /\ IsFile(wsl'[k][p])
             /\ Ascending(wsl'[k][p].outs, WrittenTo(k, p)')
             /\ p # k => Ascending(wsl'[k][p].ins, WrittenFrom(k, p)')
  <2>1. /\ IsFile(wsl[k][p])
        /\ Ascending(wsl[k][p].outs, WrittenTo(k, p))
        /\ p # k => Ascending(wsl[k][p].ins, WrittenFrom(k, p))
    BY DEF BlocksInv, WrittenTo, WrittenFrom
  <2>2. /\ IsFile(wsl'[k][p]) /\ wsl'[k][p].outs = wsl[k][p].outs /\ wsl'[k][p].ins = wsl[k][p].ins
    BY <1>1, <2>1
  <2>3. WrittenTo(k, p)' = WrittenTo(k, p) /\ WrittenFrom(k, p)' = WrittenFrom(k, p)
    BY DEF SameWritten
  <2>4. QED
    BY <2>1, <2>2, <2>3
<1>4. QED
  BY <1>1, <1>2, <1>3 DEF BlocksInv, WrittenTo, WrittenFrom

\* No file changes.
LEMMA BlocksSame ==
  ASSUME BlocksInv, graph' = graph, SameWritten, wsl' = wsl
  PROVE  BlocksInv'
<1>1. Shard' = Shard
  BY SameGraph
<1>2. ASSUME NEW k \in Shard, NEW p \in Shard
      PROVE  /\ IsFile(wsl'[k][p])
             /\ Ascending(wsl'[k][p].outs, WrittenTo(k, p)')
             /\ p # k => Ascending(wsl'[k][p].ins, WrittenFrom(k, p)')
  <2>1. /\ IsFile(wsl[k][p])
        /\ Ascending(wsl[k][p].outs, WrittenTo(k, p))
        /\ p # k => Ascending(wsl[k][p].ins, WrittenFrom(k, p))
    BY DEF BlocksInv, WrittenTo, WrittenFrom
  <2>2. WrittenTo(k, p)' = WrittenTo(k, p) /\ WrittenFrom(k, p)' = WrittenFrom(k, p)
    BY DEF SameWritten
  <2>3. QED
    BY <2>1, <2>2
<1>3. wsl' = [k \in Shard |-> [p \in Shard |-> wsl'[k][p]]]
  BY DEF BlocksInv
<1>4. QED
  BY <1>1, <1>2, <1>3 DEF BlocksInv, WrittenTo, WrittenFrom

\* The pass keeps as many edges.
LEMMA KeptWritten ==
  ASSUME graph' = graph, shard' = shard, shovelbuf' = shovelbuf, Kept' = Kept
  PROVE  SameWritten
<1>1. \A k : SeenBy(k)' = SeenBy(k)
  BY DEF SeenBy
<1>2. QED
  BY <1>1, SameGraph DEF SameWritten, WrittenTo, WrittenFrom

-----------------------------------------------------------------------------
(* The steps of reshard: the values of an edge *)

\* When its value is written, the edge at hand is seen.
LEMMA OneMoreSeen ==
  ASSUME graph \in Inputs, Passing, i < Len(shovelbuf), pc = "value", pc' # "value",
         UNCHANGED <<graph, shard, shovelbuf, i>>
  PROVE  /\ \A k \in Shard : k # shard => SeenBy(k)' = SeenBy(k)
         /\ SeenBy(shard)' = SeenBy(shard) \cup {Edge}
         /\ \A e \in SeenBy(shard) : Less(e, Edge)
<1>1. Kept = i /\ Kept' = i + 1 /\ i \in Nat /\ shard \in Int
  BY AtEdge, GraphFacts DEF Kept
<1>2. \A k \in Shard : k # shard => SeenBy(k)' = SeenBy(k)
  BY DEF SeenBy
<1>3. SeenBy(shard) = {shovelbuf[x] : x \in 1 .. i}
  BY <1>1 DEF SeenBy
<1>4. SeenBy(shard)' = {shovelbuf[x] : x \in 1 .. i + 1}
  BY <1>1 DEF SeenBy
<1>5. 1 .. i + 1 = (1 .. i) \cup {i + 1}
  BY <1>1
<1>6. Edge = shovelbuf[i + 1] /\ \A x \in 1 .. i : Less(shovelbuf[x], Edge)
  BY AtEdge
<1>7. QED
  BY <1>2, <1>3, <1>4, <1>5, <1>6

\* What is appended to one file.
LEMMA AppendedFile ==
  ASSUME NEW w, IsFile(w), NEW l
  PROVE  /\ LET v == [w EXCEPT !.outs = l] IN IsFile(v) /\ v.outs = l /\ v.ins = w.ins
         /\ LET v == [w EXCEPT !.ins = l] IN IsFile(v) /\ v.ins = l /\ v.outs = w.outs
BY DEF IsFile

\* What else than the edge is in a block was seen before.
LEMMA OneMore ==
  ASSUME NEW B, NEW S, NEW e
  PROVE  /\ e \in B => B \cap (S \cup {e}) = (B \cap S) \cup {e}
         /\ e \notin B => B \cap (S \cup {e}) = B \cap S
OBVIOUS

\* The value of an in-edge goes to the end of its block.
LEMMA EdgeInBlocks ==
  ASSUME graph \in Inputs, Passing, BlocksInv, EdgeIn
  PROVE  BlocksInv'
<1>1. /\ shard \in Shard /\ pc = "value" /\ pc' # "value" /\ i < Len(shovelbuf)
      /\ UNCHANGED <<graph, shard, shovelbuf, i>>
  BY DEF EdgeIn, Passing, PassAt, MoreEdges
<1>2. PICK c : c = css'
  OBVIOUS
<1>3. PICK e : e = Edge
  OBVIOUS
<1>4. PICK v : v = [wsl[shard][c] EXCEPT !.ins = Append(@, e)]
  OBVIOUS
<1>5. /\ c \in Shard /\ c = Owner(Src) /\ c # shard /\ Owner(e[2]) = shard
      /\ \A k \in Shard : \A p \in Shard : e \in Block(k, p) <=> k = c /\ p = shard
  <2>1. c = Owner(Src) /\ Owner(Src) # shard
    BY <1>2 DEF EdgeIn
  <2>2. QED
    BY <1>1, <1>3, <2>1, AtEdge
<1>6. wsl' = [wsl EXCEPT ![shard][c] = v]
  BY <1>2, <1>3, <1>4 DEF EdgeIn, SetFile, File
<1>7. /\ wsl' = [k \in Shard |-> [p \in Shard |-> wsl'[k][p]]]
      /\ \A k \in Shard : \A p \in Shard : wsl'[k][p] = IF k = shard /\ p = c THEN v ELSE wsl[k][p]
  <2>1. IsTable(wsl, Shard) /\ Replaced(wsl', wsl, shard, c, v)
    BY <1>6 DEF BlocksInv, IsTable, Replaced
  <2>2. IsTable(wsl', Shard) /\ Differs(wsl', wsl, Shard, shard, c, v)
    BY <1>1, <1>5, <2>1, OneFile
  <2>3. QED
    BY <2>2 DEF IsTable, Differs
<1>8. IsFile(v) /\ v.ins = Append(wsl[shard][c].ins, e) /\ v.outs = wsl[shard][c].outs
  <2>1. IsFile(wsl[shard][c])
    BY <1>1, <1>5 DEF BlocksInv
  <2>2. QED
    BY <1>4, <2>1, AppendedFile
<1>9. /\ \A k \in Shard : k # shard => SeenBy(k)' = SeenBy(k)
      /\ SeenBy(shard)' = SeenBy(shard) \cup {e}
      /\ \A f \in SeenBy(shard) : Less(f, e)
  BY <1>1, <1>3, OneMoreSeen
<1>10. /\ Shard' = Shard
       /\ \A k, p : Block(k, p)' = Block(k, p)
  BY <1>1, SameGraph
<1>11. ASSUME NEW k \in Shard, NEW p \in Shard
       PROVE  /\ IsFile(wsl'[k][p])
              /\ Ascending(wsl'[k][p].outs, WrittenTo(k, p)')
              /\ p # k => Ascending(wsl'[k][p].ins, WrittenFrom(k, p)')
  <2>1. /\ IsFile(wsl[k][p])
        /\ Ascending(wsl[k][p].outs, WrittenTo(k, p))
        /\ p # k => Ascending(wsl[k][p].ins, WrittenFrom(k, p))
    BY DEF BlocksInv, WrittenTo, WrittenFrom
  <2>2. WrittenTo(k, p)' = WrittenTo(k, p)
    <3>1. e \in Block(k, p) => k # shard
      BY <1>5
    <3>2. Block(k, p)' = Block(k, p) /\ (k # shard => SeenBy(k)' = SeenBy(k))
          /\ (k = shard => SeenBy(k)' = SeenBy(k) \cup {e})
      BY <1>1, <1>9, <1>10
    <3>3. QED
      BY <3>1, <3>2, OneMore DEF WrittenTo
  <2>3. CASE ~ (k = shard /\ p = c)
    <3>1. e \in Block(p, k) => k # shard
      BY <1>5, <2>3
    <3>2. Block(p, k)' = Block(p, k) /\ (k # shard => SeenBy(k)' = SeenBy(k))
          /\ (k = shard => SeenBy(k)' = SeenBy(k) \cup {e})
      BY <1>1, <1>9, <1>10
    <3>3. WrittenFrom(k, p)' = WrittenFrom(k, p)
      BY <3>1, <3>2, OneMore DEF WrittenFrom
    <3>4. QED
      BY <1>7, <2>1, <2>2, <2>3, <3>3
  <2>4. CASE k = shard /\ p = c
    <3>1. WrittenFrom(k, p)' = WrittenFrom(k, p) \cup {e}
      <4>1. e \in Block(p, k) /\ Block(p, k)' = Block(p, k) /\ SeenBy(k)' = SeenBy(k) \cup {e}
        BY <1>1, <1>5, <1>9, <1>10, <2>4
      <4>2. QED
        BY <4>1, OneMore DEF WrittenFrom
    <3>2. \A f \in WrittenFrom(k, p) : Less(f, e)
      BY <1>9, <2>4 DEF WrittenFrom
    <3>3. Ascending(wsl[k][p].ins, WrittenFrom(k, p))
      BY <1>5, <2>1, <2>4
    <3>4. Ascending(Append(wsl[k][p].ins, e), WrittenFrom(k, p)')
      BY <3>1, <3>2, <3>3, AscendingAppend
    <3>5. wsl'[k][p] = v
      BY <1>7, <2>4
    <3>6. QED
      BY <1>8, <2>1, <2>2, <2>4, <3>4, <3>5
  <2>5. QED
    BY <2>3, <2>4
<1>12. QED
  BY <1>7, <1>10, <1>11 DEF BlocksInv, WrittenTo, WrittenFrom

\* The value of an out-edge goes to the end of its block.
LEMMA EdgeOutBlocks ==
  ASSUME graph \in Inputs, Passing, BlocksInv, EdgeOut
  PROVE  BlocksInv'
<1>1. /\ shard \in Shard /\ pc = "value" /\ pc' # "value" /\ i < Len(shovelbuf)
      /\ UNCHANGED <<graph, shard, shovelbuf, i>>
  BY DEF EdgeOut, Passing, PassAt, MoreEdges
<1>2. PICK c : c = index'
  OBVIOUS
<1>3. PICK e : e = Edge
  OBVIOUS
<1>4. PICK v : v = [wsl[shard][c] EXCEPT !.outs = Append(@, e)]
  OBVIOUS
<1>5. /\ c \in Shard
      /\ \A k \in Shard : \A p \in Shard : e \in Block(k, p) <=> k = shard /\ p = c
  <2>1. c = Owner(Edge[2]) /\ Owner(Src) = shard
    BY <1>2 DEF EdgeOut
  <2>2. QED
    BY <1>1, <1>3, <2>1, AtEdge
<1>6. wsl' = [wsl EXCEPT ![shard][c] = v]
  BY <1>2, <1>3, <1>4 DEF EdgeOut, SetFile, File
<1>7. /\ wsl' = [k \in Shard |-> [p \in Shard |-> wsl'[k][p]]]
      /\ \A k \in Shard : \A p \in Shard : wsl'[k][p] = IF k = shard /\ p = c THEN v ELSE wsl[k][p]
  <2>1. IsTable(wsl, Shard) /\ Replaced(wsl', wsl, shard, c, v)
    BY <1>6 DEF BlocksInv, IsTable, Replaced
  <2>2. IsTable(wsl', Shard) /\ Differs(wsl', wsl, Shard, shard, c, v)
    BY <1>1, <1>5, <2>1, OneFile
  <2>3. QED
    BY <2>2 DEF IsTable, Differs
<1>8. IsFile(v) /\ v.outs = Append(wsl[shard][c].outs, e) /\ v.ins = wsl[shard][c].ins
  <2>1. IsFile(wsl[shard][c])
    BY <1>1, <1>5 DEF BlocksInv
  <2>2. QED
    BY <1>4, <2>1, AppendedFile
<1>9. /\ \A k \in Shard : k # shard => SeenBy(k)' = SeenBy(k)
      /\ SeenBy(shard)' = SeenBy(shard) \cup {e}
      /\ \A f \in SeenBy(shard) : Less(f, e)
  BY <1>1, <1>3, OneMoreSeen
<1>10. /\ Shard' = Shard
       /\ \A k, p : Block(k, p)' = Block(k, p)
  BY <1>1, SameGraph
<1>11. ASSUME NEW k \in Shard, NEW p \in Shard
       PROVE  /\ IsFile(wsl'[k][p])
              /\ Ascending(wsl'[k][p].outs, WrittenTo(k, p)')
              /\ p # k => Ascending(wsl'[k][p].ins, WrittenFrom(k, p)')
  <2>1. /\ IsFile(wsl[k][p])
        /\ Ascending(wsl[k][p].outs, WrittenTo(k, p))
        /\ p # k => Ascending(wsl[k][p].ins, WrittenFrom(k, p))
    BY DEF BlocksInv, WrittenTo, WrittenFrom
  <2>2. p # k => WrittenFrom(k, p)' = WrittenFrom(k, p)
    <3>1. e \in Block(p, k) /\ p # k => k # shard
      BY <1>5
    <3>2. Block(p, k)' = Block(p, k) /\ (k # shard => SeenBy(k)' = SeenBy(k))
          /\ (k = shard => SeenBy(k)' = SeenBy(k) \cup {e})
      BY <1>1, <1>9, <1>10
    <3>3. QED
      BY <3>1, <3>2, OneMore DEF WrittenFrom
  <2>3. CASE ~ (k = shard /\ p = c)
    <3>1. e \in Block(k, p) => k # shard
      BY <1>5, <2>3
    <3>2. Block(k, p)' = Block(k, p) /\ (k # shard => SeenBy(k)' = SeenBy(k))
          /\ (k = shard => SeenBy(k)' = SeenBy(k) \cup {e})
      BY <1>1, <1>9, <1>10
    <3>3. WrittenTo(k, p)' = WrittenTo(k, p)
      BY <3>1, <3>2, OneMore DEF WrittenTo
    <3>4. QED
      BY <1>7, <2>1, <2>2, <2>3, <3>3
  <2>4. CASE k = shard /\ p = c
    <3>1. WrittenTo(k, p)' = WrittenTo(k, p) \cup {e}
      <4>1. e \in Block(k, p) /\ Block(k, p)' = Block(k, p) /\ SeenBy(k)' = SeenBy(k) \cup {e}
        BY <1>1, <1>5, <1>9, <1>10, <2>4
      <4>2. QED
        BY <4>1, OneMore DEF WrittenTo
    <3>2. \A f \in WrittenTo(k, p) : Less(f, e)
      BY <1>9, <2>4 DEF WrittenTo
    <3>3. Ascending(Append(wsl[k][p].outs, e), WrittenTo(k, p)')
      BY <2>1, <3>1, <3>2, AscendingAppend
    <3>4. wsl'[k][p] = v
      BY <1>7, <2>4
    <3>5. QED
      BY <1>8, <2>1, <2>2, <2>4, <3>3, <3>4
  <2>5. QED
    BY <2>3, <2>4
<1>12. QED
  BY <1>7, <1>10, <1>11 DEF BlocksInv, WrittenTo, WrittenFrom

-----------------------------------------------------------------------------
(* The steps of reshard: the loop *)

\* The steps within a pass leave the pass's input.
Within == UNCHANGED <<graph, shard, shovelbuf>>

\* Within a pass the edge at hand changes with the place only.
LEMMA WithinFacts ==
  ASSUME Within
  PROVE  /\ Shard' = Shard
         /\ \A v : Owner(v)' = Owner(v)
         /\ i' = i => Edge' = Edge /\ Src' = Src
         /\ \A k : Interval(k)' = Interval(k)
         /\ OnlyZeroBefore(shard)' = OnlyZeroBefore(shard)
<1>1. graph' = graph /\ shard' = shard /\ shovelbuf' = shovelbuf
  BY DEF Within
<1>2. i' = i => Edge' = Edge
  BY <1>1 DEF Edge
<1>3. i' = i => Src' = Src
  BY <1>2 DEF Src
<1>4. OnlyZeroBefore(shard)' = OnlyZeroBefore(shard)
  BY <1>1 DEF OnlyZeroBefore, OfTarget, Interval
<1>5. QED
  BY <1>1, <1>2, <1>3, <1>4, SameGraph

\* The shovel of the pass stays.
LEMMA SameShovel ==
  ASSUME graph' = graph, shard' = shard
  PROVE  Shovel(shard, graph.edges)' = Shovel(shard, graph.edges)
BY SameGraph DEF Shovel, Interval

\* A step within a pass is still at a place of it.
LEMMA StillAt ==
  ASSUME Within, PassAt, i \in 0 .. Len(shovelbuf), i' \in 0 .. Len(shovelbuf), istart' \in 0 .. i',
         pc' # "value" => i' < Len(shovelbuf)
  PROVE  PassAt'
<1>1. graph' = graph /\ shard' = shard /\ shovelbuf' = shovelbuf
  BY DEF Within
<1>2. Shard' = Shard
  BY WithinFacts
<1>3. Sorted(Shovel(shard, graph.edges))' = Sorted(Shovel(shard, graph.edges))
  BY <1>1, SameShovel
<1>4. QED
  BY <1>1, <1>2, <1>3 DEF PassAt

\* An edge from another interval is into the pass's own.
LEMMA EdgeInLoop ==
  ASSUME Typed, Passing, EdgeIn
  PROVE  Typed' /\ Passing'
<1>1. /\ Within /\ pc = "value" /\ pc' = "source" /\ i < Len(shovelbuf) /\ Owner(Src) # shard
      /\ css' = Owner(Src) /\ UNCHANGED <<i, istart, cms, curvid, willout, index>>
  BY DEF EdgeIn, MoreEdges, Within
<1>2. PassAt /\ RowInv
  BY <1>1 DEF Passing
<1>3. /\ Owner(Src) \in Shard /\ Shard' = Shard /\ Owner(Src)' = Owner(Src)
      /\ \A k : Interval(k)' = Interval(k)
  BY <1>1, AtEdge, WithinFacts DEF Typed
<1>4. Typed'
  BY <1>1, <1>3 DEF Typed, Within
<1>5. PassAt'
  BY <1>1, <1>2, StillAt DEF PassAt
<1>6. EdgeInv'
  BY <1>1, <1>3 DEF EdgeInv, Within
<1>7. PendingIn' = PendingIn /\ ZeroFirst' = ZeroFirst /\ OnlyZeros' = OnlyZeros
  BY <1>1, <1>3 DEF PendingIn, ZeroFirst, OnlyZeros, Within
<1>8. RowInv'
  BY <1>1, <1>2, <1>3, <1>7 DEF RowInv, Within
<1>9. QED
  BY <1>1, <1>4, <1>5, <1>6, <1>8 DEF Passing, PassAt

\* The value of an out-edge is written and the inner while begins.
LEMMA EdgeOutLoop ==
  ASSUME Typed, Passing, EdgeOut
  PROVE  Typed' /\ Passing'
<1>1. /\ Within /\ pc = "value" /\ pc' = "turn" /\ i < Len(shovelbuf) /\ Owner(Src) = shard
      /\ css' = shard /\ willout' = TRUE /\ index' = Owner(Edge[2])
      /\ UNCHANGED <<i, istart, cms, curvid>>
  BY DEF EdgeOut, MoreEdges, Within
<1>2. PassAt /\ RowInv
  BY <1>1 DEF Passing
<1>3. /\ Owner(Edge[2]) \in Shard /\ Shard' = Shard /\ Owner(Src)' = Owner(Src)
      /\ Owner(Edge[2])' = Owner(Edge[2]) /\ \A k : Interval(k)' = Interval(k)
  <2>1. Edge' = Edge
    BY <1>1, WithinFacts
  <2>2. QED
    BY <1>1, <2>1, AtEdge, WithinFacts DEF Typed
<1>4. Typed'
  BY <1>1, <1>2, <1>3 DEF Typed, Within, PassAt
<1>5. PassAt'
  BY <1>1, <1>2, StillAt DEF PassAt
<1>6. EdgeInv'
  BY <1>1, <1>3 DEF EdgeInv, Within
<1>7. PendingIn' = PendingIn /\ ZeroFirst' = ZeroFirst
  BY <1>1, <1>3 DEF PendingIn, ZeroFirst, Within
<1>8. RowInv'
  BY <1>1, <1>2, <1>7 DEF RowInv
<1>9. QED
  BY <1>1, <1>4, <1>5, <1>6, <1>8 DEF Passing, PassAt

\* When a row of an own vertex has an edge that is not into its interval, all other edges
\* before the own ones are seen.
LEMMA TurnFails ==
  ASSUME Typed, Passing, i < Len(shovelbuf), Owner(Src) = shard, ZeroFirst
  PROVE  OnlyZeroBefore(shard)
<1>1. /\ shard \in Shard /\ i < Len(shovelbuf) /\ i \in Nat /\ i + 1 \in 1 .. Len(shovelbuf)
      /\ Edge = shovelbuf[i + 1] /\ Src = Edge[1] /\ Src \in Nat /\ Src \in Interval(shard)
      /\ Edge \in graph.edges
  BY AtEdge DEF Typed
<1>2. /\ graph \in Inputs
      /\ shovelbuf = Sorted(Shovel(shard, graph.edges))
  BY DEF Typed, Passing, PassAt
<1>3. /\ Ascending(shovelbuf, Shovel(shard, graph.edges)) /\ Len(shovelbuf) \in Nat
      /\ \A x \in 1 .. Len(shovelbuf) :
           shovelbuf[x] \in Shovel(shard, graph.edges) /\ shovelbuf[x] \in graph.edges
  BY <1>1, <1>2, PassFacts
<1>4. /\ graph.first[shard] \in Nat /\ graph.last[shard] \in Nat
      /\ shard # 0 /\ 0 < graph.first[shard]
  <2>1. shard # 0
    BY DEF ZeroFirst
  <2>2. 0 \in Shard /\ shard \in Nat
    BY <1>1, <1>2, GraphFacts
  <2>3. graph.last[0] < graph.first[shard] /\ graph.last[0] \in Nat /\ graph.first[shard] \in Nat
        /\ graph.last[shard] \in Nat
    BY <1>1, <1>2, <2>1, <2>2, GraphFacts
  <2>4. QED
    BY <2>1, <2>3
<1>5. 0 \in {e[1] : e \in OfTarget(shard, graph.edges)}
  <2>1. PICK x \in 1 .. i : shovelbuf[x][1] = 0
    BY DEF ZeroFirst
  <2>2. x \in 1 .. Len(shovelbuf)
    BY <1>1, <1>3, <2>1
  <2>3. shovelbuf[x] \in graph.edges /\ shovelbuf[x] \in Shovel(shard, graph.edges)
    BY <1>3, <2>2
  <2>4. 0 \notin Interval(shard)
    BY <1>4 DEF Interval
  <2>5. shovelbuf[x][2] \in Interval(shard)
    BY <2>1, <2>3, <2>4 DEF Shovel
  <2>6. shovelbuf[x] \in OfTarget(shard, graph.edges)
    BY <2>3, <2>5 DEF OfTarget
  <2>7. QED
    BY <2>1, <2>6
<1>6. ASSUME NEW e \in OfTarget(shard, graph.edges), e[1] \in 0 .. graph.first[shard] - 1
      PROVE  e[1] = 0
  <2>1. e \in graph.edges /\ e \in Shovel(shard, graph.edges)
    BY <1>6 DEF OfTarget, Shovel
  <2>2. PICK y \in 1 .. Len(shovelbuf) : shovelbuf[y] = e
    BY <1>3, <2>1 DEF Ascending
  <2>3. e[1] < graph.first[shard] /\ graph.first[shard] <= Src /\ e[1] \in Nat
    BY <1>1, <1>4, <1>6 DEF Interval
  <2>4. y \in 1 .. i
    <3>1. SUFFICES ASSUME i + 1 <= y
                   PROVE  FALSE
      BY <1>1, <1>3, <2>2
    <3>2. CASE y = i + 1
      BY <1>1, <1>4, <2>2, <2>3, <3>2
    <3>3. CASE i + 1 < y
      <4>1. Less(Edge, e)
        BY <1>1, <1>3, <2>2, <3>3 DEF Ascending
      <4>2. Src <= e[1]
        BY <1>1, <2>3, <4>1 DEF Less
      <4>3. QED
        BY <1>1, <1>4, <2>3, <4>2
    <3>4. y \in Int /\ i + 1 \in Int
      BY <1>1, <1>3, <2>2
    <3>5. QED
      BY <3>1, <3>2, <3>3, <3>4
  <2>5. shovelbuf[y][1] < graph.first[shard]
    BY <2>2, <2>3
  <2>6. QED
    BY <2>2, <2>4, <2>5 DEF ZeroFirst
<1>7. 0 \in 0 .. graph.first[shard] - 1
  BY <1>4
<1>8. QED
  BY <1>4, <1>5, <1>6, <1>7 DEF OnlyZeroBefore

\* A round of the inner while: a row of pending edges, or the assertion.
LEMMA TurnLoop ==
  ASSUME Typed, Passing, Turn
  PROVE  Typed' /\ Passing'
<1>1. /\ Within /\ pc = "turn" /\ UNCHANGED <<i, css, curvid, willout, index>>
      /\ \/ pc' = "turn" /\ istart' = i /\ cms' = index
         \/ /\ \E x \in DOMAIN PendingTargets : PendingTargets[x] \notin Interval(cms)
            /\ pc' = "failed" /\ UNCHANGED <<istart, cms>>
  BY DEF Turn, Within
<1>2. PassAt /\ RowInv /\ EdgeInv /\ i < Len(shovelbuf) /\ i \in 0 .. Len(shovelbuf)
  BY <1>1 DEF Passing, PassAt
<1>3. /\ Shard' = Shard /\ Owner(Src)' = Owner(Src) /\ Owner(Edge[2])' = Owner(Edge[2])
      /\ OnlyZeroBefore(shard)' = OnlyZeroBefore(shard) /\ Len(shovelbuf) \in Nat
  <2>1. Edge' = Edge
    BY <1>1, WithinFacts
  <2>2. QED
    BY <1>1, <1>2, <2>1, WithinFacts, PassFacts DEF Typed, PassAt
<1>4. Typed'
  BY <1>1, <1>3 DEF Typed, Within
<1>5. PassAt'
  <2>1. istart' \in 0 .. i' /\ i' \in 0 .. Len(shovelbuf) /\ i' < Len(shovelbuf)
    BY <1>1, <1>2, <1>3 DEF PassAt
  <2>2. QED
    BY <1>1, <1>2, <2>1, StillAt
<1>6. EdgeInv'
  BY <1>1, <1>2, <1>3 DEF EdgeInv, Within
<1>7. CASE pc' = "turn"
  <2>1. istart' = i /\ i' = i /\ i \in Nat
    BY <1>1, <1>2, <1>3, <1>7
  <2>2. PendingIn'
    <3>1. ASSUME NEW x \in i + 1 .. i PROVE shovelbuf'[x][2] \in Interval(cms)'
      BY <2>1
    <3>2. QED
      BY <2>1, <3>1 DEF PendingIn
  <2>3. RowInv'
    BY <1>7, <2>2 DEF RowInv
  <2>4. QED
    BY <1>4, <1>5, <1>6, <1>7, <2>3 DEF Passing, PassAt
<1>8. CASE pc' = "failed"
  <2>1. PICK x \in DOMAIN PendingTargets : PendingTargets[x] \notin Interval(cms)
    BY <1>1, <1>8
  <2>2. istart \in Nat /\ i \in Nat
    BY <1>2, <1>3 DEF PassAt
  <2>3. x \in 1 .. i - istart /\ PendingTargets[x] = shovelbuf[istart + x][2]
    BY <2>1 DEF PendingTargets
  <2>4. istart + x \in istart + 1 .. i
    BY <2>2, <2>3
  <2>5. ~ PendingIn
    BY <2>1, <2>3, <2>4 DEF PendingIn
  <2>6. OnlyZeroBefore(shard)
    BY <1>1, <1>2, <2>5, TurnFails DEF RowInv, EdgeInv
  <2>7. QED
    BY <1>3, <1>4, <1>5, <1>6, <1>8, <2>6 DEF Passing, PassAt
<1>9. QED
  BY <1>1, <1>7, <1>8

\* The inner while ends with the file of the edge.
LEMMA EndTurnLoop ==
  ASSUME Typed, Passing, EndTurn
  PROVE  Typed' /\ Passing'
<1>1. /\ Within /\ pc = "turn" /\ pc' = "source" /\ cms = index /\ curvid' = Src
      /\ UNCHANGED <<i, istart, css, cms, willout, index>>
  BY DEF EndTurn, Turned, Within
<1>2. PassAt /\ RowInv /\ EdgeInv /\ i < Len(shovelbuf)
  BY <1>1 DEF Passing, PassAt
<1>3. css = shard /\ Owner(Src) = shard /\ cms = Owner(Edge[2])
  BY <1>1, <1>2 DEF EdgeInv
<1>4. /\ Shard' = Shard /\ Owner(Src)' = Owner(Src) /\ Owner(Edge[2])' = Owner(Edge[2])
      /\ Src' = Src /\ Src \in Nat /\ Src \in Interval(shard) /\ \A k : Interval(k)' = Interval(k)
  <2>1. Edge' = Edge
    BY <1>1, WithinFacts
  <2>2. QED
    BY <1>1, <1>2, <1>3, <2>1, AtEdge, WithinFacts DEF Typed
<1>5. Typed'
  BY <1>1, <1>4 DEF Typed, Within
<1>6. PassAt'
  BY <1>1, <1>2, StillAt DEF PassAt
<1>7. EdgeInv'
  BY <1>1, <1>3, <1>4 DEF EdgeInv, Within
<1>8. PendingIn' = PendingIn /\ ZeroFirst' = ZeroFirst
  BY <1>1, <1>4 DEF PendingIn, ZeroFirst, Within
<1>9. RowInv'
  BY <1>1, <1>2, <1>4, <1>8 DEF RowInv, Within
<1>10. QED
  BY <1>1, <1>5, <1>6, <1>7, <1>9 DEF Passing, PassAt

\* The row of an own vertex ends at the first edge of another interval.
LEMMA LeaveLoop ==
  ASSUME Typed, Passing, LeaveInterval
  PROVE  Typed' /\ Passing'
<1>1. /\ Within /\ pc = "source" /\ pc' = "source" /\ css = shard + 1 /\ willout' = FALSE
      /\ istart' = i /\ cms' = shard
      /\ UNCHANGED <<i, css, curvid, index>>
  BY DEF LeaveInterval, Leaving, Within
<1>2. PassAt /\ RowInv /\ EdgeInv /\ i < Len(shovelbuf) /\ i \in 0 .. Len(shovelbuf)
  BY <1>1 DEF Passing, PassAt
<1>3. css = Owner(Src) /\ Owner(Src) # shard
  <2>1. css = Owner(Src) /\ shard \in Int
    BY <1>1, <1>2, GraphFacts DEF EdgeInv, Typed, PassAt
  <2>2. QED
    BY <1>1, <2>1
<1>4. /\ Shard' = Shard /\ Owner(Src)' = Owner(Src) /\ Len(shovelbuf) \in Nat
      /\ \A k : Interval(k)' = Interval(k)
  BY <1>1, <1>2, WithinFacts, PassFacts DEF Typed, PassAt
<1>5. Typed'
  BY <1>1, <1>2, <1>4 DEF Typed, Within, PassAt
<1>6. PassAt'
  <2>1. istart' \in 0 .. i' /\ i' \in 0 .. Len(shovelbuf) /\ i' < Len(shovelbuf)
    BY <1>1, <1>2, <1>4
  <2>2. QED
    BY <1>1, <1>2, <2>1, StillAt
<1>7. EdgeInv'
  BY <1>1, <1>3, <1>4 DEF EdgeInv, Within
<1>8. PendingIn'
  <2>1. istart' = i /\ i' = i /\ i \in Nat
    BY <1>1, <1>2, <1>4
  <2>2. ASSUME NEW x \in i + 1 .. i PROVE shovelbuf'[x][2] \in Interval(cms)'
    BY <2>1
  <2>3. QED
    BY <2>1, <2>2 DEF PendingIn
<1>9. RowInv'
  BY <1>1, <1>8 DEF RowInv, Within
<1>10. QED
  BY <1>1, <1>5, <1>6, <1>7, <1>9 DEF Passing, PassAt

\* The row of the source before is written; the next source begins.
LEMMA NextSourceLoop ==
  ASSUME Typed, Passing, NextSource
  PROVE  Typed' /\ Passing'
<1>1. /\ Within /\ pc = "source" /\ pc' = "value" /\ Src # curvid /\ curvid' = Src
      /\ istart' = i /\ cms' = shard /\ i' = i + 1
      /\ UNCHANGED <<css, willout, index>>
  BY DEF NextSource, Within
<1>2. PassAt /\ EdgeInv /\ i < Len(shovelbuf) /\ i \in 0 .. Len(shovelbuf)
  BY <1>1 DEF Passing, PassAt
<1>3. /\ i \in Nat /\ Src \in Nat /\ Edge = shovelbuf[i + 1] /\ Edge[2] \in Interval(shard)
      /\ Len(shovelbuf) \in Nat
  <2>1. Owner(Src) # shard
    BY <1>1, <1>2 DEF EdgeInv
  <2>2. QED
    BY <1>2, <2>1, AtEdge, PassFacts DEF Typed, PassAt
<1>4. Shard' = Shard /\ \A k : Interval(k)' = Interval(k)
  BY <1>1, WithinFacts
<1>5. Typed'
  BY <1>1, <1>2, <1>3, <1>4 DEF Typed, Within, PassAt
<1>6. PassAt'
  <2>1. istart' \in 0 .. i' /\ i' \in 0 .. Len(shovelbuf)
    BY <1>1, <1>2, <1>3
  <2>2. QED
    BY <1>1, <1>2, <2>1, StillAt
<1>7. EdgeInv'
  BY <1>1 DEF EdgeInv
<1>8. PendingIn'
  <2>1. ASSUME NEW x \in istart' + 1 .. i'
        PROVE  shovelbuf'[x][2] \in Interval(cms)'
    <3>1. x = i + 1
      BY <1>1, <1>3
    <3>2. Interval(cms)' = Interval(shard)
      BY <1>1, <1>4 DEF Interval, Within
    <3>3. QED
      BY <1>1, <1>3, <3>1, <3>2 DEF Within
  <2>2. QED
    BY <2>1 DEF PendingIn
<1>9. RowInv'
  BY <1>1, <1>8 DEF RowInv, Within
<1>10. QED
  BY <1>1, <1>5, <1>6, <1>7, <1>9 DEF Passing, PassAt

\* The edge has the source of the one before.
LEMMA SameSourceLoop ==
  ASSUME Typed, Passing, SameSource
  PROVE  Typed' /\ Passing'
<1>1. /\ Within /\ pc = "source" /\ pc' = "value" /\ Src = curvid /\ i' = i + 1
      /\ UNCHANGED <<istart, css, cms, curvid, willout, index>>
  BY DEF SameSource, Within
<1>2. PassAt /\ RowInv /\ EdgeInv /\ i < Len(shovelbuf) /\ i \in 0 .. Len(shovelbuf)
  BY <1>1 DEF Passing, PassAt
<1>3. /\ i \in Nat /\ istart \in 0 .. i /\ Len(shovelbuf) \in Nat /\ shard \in Shard
      /\ Src \in Nat /\ Src = Edge[1] /\ Edge = shovelbuf[i + 1] /\ Src \in Interval(Owner(Src))
      /\ Edge[2] \in Interval(Owner(Edge[2]))
      /\ Owner(Src) = shard \/ Owner(Edge[2]) = shard
      /\ Owner(Src) \in Shard
  BY <1>2, AtEdge, PassFacts DEF Typed, PassAt
<1>4. Shard' = Shard /\ \A k : Interval(k)' = Interval(k)
  BY <1>1, WithinFacts
<1>5. Typed'
  BY <1>1, <1>4 DEF Typed, Within
<1>6. PassAt'
  <2>1. istart' \in 0 .. i' /\ i' \in 0 .. Len(shovelbuf)
    BY <1>1, <1>2, <1>3
  <2>2. QED
    BY <1>1, <1>2, <2>1, StillAt
<1>7. EdgeInv'
  BY <1>1 DEF EdgeInv
<1>8. ASSUME PendingIn, Edge[2] \in Interval(cms)
      PROVE  PendingIn'
  <2>1. ASSUME NEW x \in istart' + 1 .. i'
        PROVE  shovelbuf'[x][2] \in Interval(cms)'
    <3>1. x = i + 1 \/ x \in istart + 1 .. i
      BY <1>1, <1>3
    <3>2. shovelbuf'[x] = shovelbuf[x] /\ Interval(cms)' = Interval(cms)
      BY <1>1, <1>4 DEF Within
    <3>3. QED
      BY <1>3, <1>8, <3>1, <3>2 DEF PendingIn
  <2>2. QED
    BY <2>1 DEF PendingIn
<1>9. CASE Owner(Src) = shard
  <2>1. cms = Owner(Edge[2]) /\ curvid \in Interval(shard)
    BY <1>1, <1>2, <1>3, <1>9 DEF EdgeInv
  <2>2. PendingIn => PendingIn'
    BY <1>3, <1>8, <2>1
  <2>3. ZeroFirst => ZeroFirst'
    <3>1. SUFFICES ASSUME ZeroFirst PROVE ZeroFirst'
      OBVIOUS
    <3>2. PICK x \in 1 .. i : shovelbuf[x][1] = 0
      BY <3>1 DEF ZeroFirst
    <3>3. x \in 1 .. i'
      BY <1>1, <1>3, <3>2
    <3>4. ASSUME NEW y \in 1 .. i', shovelbuf[y][1] < graph.first[shard]
          PROVE  shovelbuf[y][1] = 0
      <4>1. y \in 1 .. i \/ y = i + 1
        BY <1>1, <1>3
      <4>2. ~ (Src < graph.first[shard])
        <5>1. Src \in Interval(shard) /\ graph.first[shard] \in Nat /\ graph.last[shard] \in Nat
          BY <1>3, <1>9, GraphFacts DEF Typed
        <5>2. QED
          BY <1>3, <5>1 DEF Interval
      <4>3. QED
        BY <1>3, <3>1, <3>4, <4>1, <4>2 DEF ZeroFirst
    <3>5. shovelbuf' = shovelbuf /\ shard' = shard /\ graph' = graph /\ shard # 0
      BY <1>1, <3>1 DEF Within, ZeroFirst
    <3>6. QED
      BY <3>2, <3>3, <3>4, <3>5 DEF ZeroFirst
  <2>4. curvid' \in Interval(shard)'
    BY <1>1, <1>4, <2>1 DEF Interval, Within
  <2>5. RowInv'
    BY <1>2, <2>2, <2>3, <2>4 DEF RowInv
  <2>6. QED
    BY <1>1, <1>5, <1>6, <1>7, <2>5 DEF Passing, PassAt
<1>10. CASE Owner(Src) # shard
  <2>1. Owner(Edge[2]) = shard /\ Edge[2] \in Interval(shard) /\ curvid \notin Interval(shard)
    <3>1. Owner(Edge[2]) = shard /\ Edge[2] \in Interval(shard)
      BY <1>3, <1>10
    <3>2. Src \notin Interval(shard)
      BY <1>3, <1>10, OwnerFacts DEF Typed
    <3>3. QED
      BY <1>1, <3>1, <3>2
  <2>2. (cms = shard /\ PendingIn) \/ (curvid = 0 /\ OnlyZeros)
    BY <1>1, <1>2, <2>1 DEF RowInv
  <2>3. CASE cms = shard /\ PendingIn
    <3>1. PendingIn'
      BY <1>8, <2>1, <2>3
    <3>2. RowInv'
      BY <1>1, <2>3, <3>1 DEF RowInv, Within
    <3>3. QED
      BY <1>1, <1>5, <1>6, <1>7, <3>2 DEF Passing, PassAt
  <2>4. CASE curvid = 0 /\ OnlyZeros
    <3>1. Src = 0 /\ shovelbuf' = shovelbuf /\ shard' = shard
      BY <1>1, <2>4 DEF Within
    <3>2. OnlyZeros'
      <4>1. ASSUME NEW y \in 1 .. i' PROVE shovelbuf[y][1] = 0
        <5>1. y \in 1 .. i \/ y = i + 1
          BY <1>1, <1>3
        <5>2. QED
          BY <1>3, <2>4, <3>1, <5>1 DEF OnlyZeros
      <4>2. QED
        BY <3>1, <4>1 DEF OnlyZeros
    <3>3. shard # 0
      <4>1. /\ 0 \in Shard /\ graph.first[0] = 0 /\ graph.last[0] \in Nat
        BY GraphFacts DEF Typed
      <4>2. 0 \in Interval(0)
        BY <4>1 DEF Interval
      <4>3. QED
        BY <2>1, <2>4, <4>2
    <3>4. i + 1 \in 1 .. i' /\ shovelbuf'[i + 1][1] = 0
      BY <1>1, <1>3, <3>1
    <3>5. ZeroFirst'
      BY <3>1, <3>2, <3>3, <3>4 DEF ZeroFirst, OnlyZeros
    <3>6. RowInv'
      BY <1>1, <2>4, <3>2, <3>5 DEF RowInv
    <3>7. QED
      BY <1>1, <1>5, <1>6, <1>7, <3>6 DEF Passing, PassAt
  <2>5. QED
    BY <2>2, <2>3, <2>4
<1>11. QED
  BY <1>9, <1>10

-----------------------------------------------------------------------------
(* The steps of reshard: rows leave the values alone *)

\* A row, with or without zeros after it, in a file of the subgraph.
RowStep(q) ==
  \/ wsl' = wsl
  \/ wsl' = [wsl EXCEPT ![shard][q] = WithRow(wsl[shard][q])]
  \/ \E b : wsl' = [wsl EXCEPT ![shard][q] = [WithZeros(WithRow(wsl[shard][q]), Src)
                                                EXCEPT !.vid_written = b, !.curvid = Src]]

\* A row changes an adjacency and no block.
LEMMA RowStepBlocks ==
  ASSUME BlocksInv, graph' = graph, SameWritten, shard \in Shard, NEW q \in Shard, RowStep(q)
  PROVE  BlocksInv'
<1>1. PICK w : w = wsl[shard][q]
  OBVIOUS
<1>2. IsFile(w)
  BY <1>1 DEF BlocksInv
<1>3. CASE wsl' = wsl
  BY <1>3, BlocksSame
<1>4. CASE wsl' = [wsl EXCEPT ![shard][q] = WithRow(wsl[shard][q])]
  <2>1. PICK u : u = WithRow(w)
    OBVIOUS
  <2>2. IsFile(u) /\ u.ins = w.ins /\ u.outs = w.outs
    BY <1>2, <2>1, RowsAndZeros
  <2>3. wsl' = [wsl EXCEPT ![shard][q] = u]
    BY <1>1, <1>4, <2>1
  <2>4. QED
    BY <1>1, <2>2, <2>3, BlocksKept
<1>5. CASE \E b : wsl' = [wsl EXCEPT ![shard][q] = [WithZeros(WithRow(wsl[shard][q]), Src)
                                                      EXCEPT !.vid_written = b, !.curvid = Src]]
  <2>1. PICK b : wsl' = [wsl EXCEPT ![shard][q] = [WithZeros(WithRow(wsl[shard][q]), Src)
                                                     EXCEPT !.vid_written = b, !.curvid = Src]]
    BY <1>5
  <2>2. PICK u : u = [WithZeros(WithRow(w), Src) EXCEPT !.vid_written = b, !.curvid = Src]
    OBVIOUS
  <2>3. IsFile(u) /\ u.ins = w.ins /\ u.outs = w.outs
    BY <1>2, <2>2, RowsAndZeros
  <2>4. wsl' = [wsl EXCEPT ![shard][q] = u]
    BY <1>1, <2>1, <2>2
  <2>5. QED
    BY <1>1, <2>3, <2>4, BlocksKept
<1>6. QED
  BY <1>3, <1>4, <1>5 DEF RowStep

\* Of an edge whose value is written, all other steps are these.
LEMMA RowBlocks ==
  ASSUME Typed, Passing, BlocksInv, Turn \/ EndTurn \/ LeaveInterval \/ NextSource \/ SameSource
  PROVE  BlocksInv'
<1>1. shard \in Shard /\ cms \in Shard
  BY DEF Typed, Passing, PassAt
<1>2. /\ Within
      /\ \E q \in Shard : RowStep(q)
      /\ pc # "value" /\ ((pc' # "value" /\ i' = i) \/ (pc' = "value" /\ i' = i + 1))
  <2>1. CASE Turn
    <3>1. RowStep(cms)
      BY <2>1 DEF Turn, RowStep, SetFile, File
    <3>2. QED
      BY <1>1, <2>1, <3>1 DEF Turn, Within
  <2>2. CASE EndTurn
    BY <1>1, <2>2 DEF EndTurn, Within, RowStep
  <2>3. CASE LeaveInterval
    <3>1. RowStep(cms)
      BY <2>3 DEF LeaveInterval, RowStep, SetFile, File
    <3>2. QED
      BY <1>1, <2>3, <3>1 DEF LeaveInterval, Within
  <2>4. CASE NextSource
    <3>1. wsl' = [wsl EXCEPT ![shard][shard] = [WithZeros(WithRow(wsl[shard][shard]), Src)
                                                  EXCEPT !.curvid = Src, !.vid_written = FALSE]]
      BY <2>4 DEF NextSource, SetFile, File
    <3>2. PICK z : z = WithZeros(WithRow(wsl[shard][shard]), Src)
      OBVIOUS
    <3>3. [z EXCEPT !.curvid = Src, !.vid_written = FALSE]
            = [z EXCEPT !.vid_written = FALSE, !.curvid = Src]
      OBVIOUS
    <3>4. RowStep(shard)
      BY <3>1, <3>2, <3>3 DEF RowStep
    <3>5. QED
      BY <1>1, <2>4, <3>4 DEF NextSource, Within
  <2>5. CASE SameSource
    BY <1>1, <2>5 DEF SameSource, Within, RowStep
  <2>6. QED
    BY <2>1, <2>2, <2>3, <2>4, <2>5
<1>3. Kept' = Kept
  BY <1>2 DEF Kept
<1>4. SameWritten
  BY <1>2, <1>3, KeptWritten DEF Within
<1>5. QED
  BY <1>1, <1>2, <1>4, RowStepBlocks DEF Within

-----------------------------------------------------------------------------
(* From a pass to the next *)

\* At the stopper the next pass begins, or all is done.
LEMMA StopperLoop ==
  ASSUME Typed, Passing, Stopper
  PROVE  Typed' /\ (Passing' \/ (pc' = "done" /\ shard' = P'))
<1>1. /\ graph' = graph /\ shard' = shard + 1
      /\ shovelbuf' = IF shard + 1 < P THEN Sorted(Shovel(shard + 1, graph.edges)) ELSE <<>>
      /\ pc' = IF shard + 1 < P THEN "value" ELSE "done"
      /\ i' = 0 /\ istart' = 0 /\ css' = -1 /\ cms' = 0 /\ curvid' = 0 /\ willout' = FALSE /\ index' = 0
  BY DEF Stopper
<1>2. /\ Shard' = Shard /\ P' = P /\ P \in Nat /\ P > 0 /\ Shard = 0 .. P - 1 /\ shard \in Shard
      /\ 0 \in Shard
  <2>1. /\ Shard' = Shard /\ P' = P /\ P \in Nat /\ P > 0 /\ Shard = 0 .. P - 1 /\ shard \in Shard
    BY <1>1, SameGraph, GraphFacts DEF Typed, Passing, PassAt
  <2>2. QED
    BY <2>1
<1>3. Typed'
  BY <1>1, <1>2 DEF Typed
<1>4. CASE shard + 1 < P
  <2>1. shard' \in Shard' /\ pc' = "value" /\ shovelbuf' = Sorted(Shovel(shard', graph.edges))
    BY <1>1, <1>2, <1>4
  <2>2. Shovel(shard, graph.edges)' = Shovel(shard', graph.edges)
    BY <1>1, SameGraph DEF Shovel, Interval
  <2>3. Len(shovelbuf') \in Nat
    <3>1. IsFiniteSet(Shovel(shard', graph.edges)) /\ Shovel(shard', graph.edges) \in SUBSET (Nat \X Nat)
      BY GraphFacts, FS_Subset DEF Typed, Shovel
    <3>2. Ascending(shovelbuf', Shovel(shard', graph.edges))
      BY <2>1, <3>1, SortedAscending
    <3>3. QED
      BY <3>2, LenProperties DEF Ascending
  <2>4. PassAt'
    BY <1>1, <2>1, <2>2, <2>3 DEF PassAt
  <2>5. EdgeInv'
    BY <2>1 DEF EdgeInv
  <2>6. PendingIn' /\ OnlyZeros'
    BY <1>1 DEF PendingIn, OnlyZeros
  <2>7. RowInv'
    BY <1>1, <2>6 DEF RowInv
  <2>8. QED
    BY <1>3, <2>1, <2>4, <2>5, <2>7 DEF Passing, PassAt
<1>5. CASE ~ (shard + 1 < P)
  BY <1>1, <1>2, <1>3, <1>5
<1>6. QED
  BY <1>4, <1>5

\* The pass has seen all of its shovel, so every edge of the blocks it writes.
LEMMA StopperBlocks ==
  ASSUME Typed, Passing, BlocksInv, Stopper
  PROVE  BlocksInv'
<1>1. /\ graph' = graph /\ shard' = shard + 1 /\ pc = "value" /\ ~ (i < Len(shovelbuf))
      /\ i' = 0 /\ pc' \in {"value", "done"} /\ (pc' = "value" \/ shard' = P)
      /\ wsl' = [wsl EXCEPT ![shard][cms] = WithRow(wsl[shard][cms])]
  <2>1. shard + 1 \in Int /\ P \in Int /\ shard \in 0 .. P - 1
    BY GraphFacts DEF Typed, Passing, PassAt
  <2>2. QED
    BY <2>1 DEF Stopper, MoreEdges, LastRow, SetFile, File
<1>2. /\ Shard' = Shard /\ P \in Nat /\ Shard = 0 .. P - 1 /\ shard \in Shard /\ cms \in Shard
      /\ \A k, p : Block(k, p)' = Block(k, p)
  BY <1>1, SameGraph, GraphFacts DEF Typed, Passing, PassAt
<1>3. /\ Ascending(shovelbuf, Shovel(shard, graph.edges)) /\ Len(shovelbuf) \in Nat
      /\ i \in 0 .. Len(shovelbuf)
      /\ \A x \in 1 .. Len(shovelbuf) : shovelbuf[x] \in Shovel(shard, graph.edges)
  BY <1>2, PassFacts DEF Typed, Passing, PassAt
<1>4. SeenBy(shard) = Shovel(shard, graph.edges)
  <2>1. Kept = Len(shovelbuf)
    BY <1>1, <1>3 DEF Kept
  <2>2. SeenBy(shard) = {shovelbuf[x] : x \in 1 .. Len(shovelbuf)}
    BY <1>2, <2>1 DEF SeenBy
  <2>3. QED
    BY <1>3, <2>2 DEF Ascending
<1>5. ASSUME NEW k \in Shard, NEW p \in Shard
      PROVE  WrittenTo(k, p)' = WrittenTo(k, p) /\ WrittenFrom(k, p)' = WrittenFrom(k, p)
  <2>1. k \in Int /\ shard \in Int
    BY <1>2
  <2>2. CASE k < shard
    <3>1. SeenBy(k) = graph.edges
      BY <2>2 DEF SeenBy
    <3>2. SeenBy(k)' = graph.edges
      BY <1>1, <2>1, <2>2 DEF SeenBy
    <3>3. QED
      BY <1>2, <3>1, <3>2 DEF WrittenTo, WrittenFrom
  <2>3. CASE k = shard
    <3>1. SeenBy(k) = Shovel(k, graph.edges)
      BY <1>4, <2>3
    <3>2. SeenBy(k)' = graph.edges
      BY <1>1, <2>1, <2>3 DEF SeenBy
    <3>3. /\ Block(k, p) \cap graph.edges = Block(k, p) \cap Shovel(k, graph.edges)
          /\ Block(p, k) \cap graph.edges = Block(p, k) \cap Shovel(k, graph.edges)
      BY DEF Block, Shovel
    <3>4. QED
      BY <1>2, <3>1, <3>2, <3>3 DEF WrittenTo, WrittenFrom
  <2>4. CASE shard < k
    <3>1. SeenBy(k) = {}
      BY <2>1, <2>4 DEF SeenBy
    <3>2. SeenBy(k)' = {}
      <4>1. CASE k = shard'
        <5>1. pc' = "value"
          BY <1>1, <1>2, <4>1
        <5>2. Kept' = 0
          BY <1>1, <5>1 DEF Kept
        <5>3. SeenBy(k)' = {shovelbuf'[x] : x \in 1 .. 0}
          BY <1>1, <2>1, <4>1, <5>2 DEF SeenBy
        <5>4. QED
          BY <5>3
      <4>2. CASE k # shard'
        BY <1>1, <2>1, <2>4, <4>2 DEF SeenBy
      <4>3. QED
        BY <4>1, <4>2
    <3>3. QED
      BY <1>2, <3>1, <3>2 DEF WrittenTo, WrittenFrom
  <2>5. QED
    BY <2>1, <2>2, <2>3, <2>4
<1>6. SameWritten
  BY <1>5 DEF SameWritten
<1>7. RowStep(cms)
  BY <1>1 DEF RowStep
<1>8. QED
  BY <1>1, <1>2, <1>6, <1>7, RowStepBlocks

-----------------------------------------------------------------------------
(* Theorems *)

\* The first pass begins with ReshardInv.
LEMMA ReshardInit == Init => ReshardInv
<1> SUFFICES ASSUME Init PROVE ReshardInv
  OBVIOUS
<1>1. /\ graph \in Inputs /\ pc = "value" /\ shard = 0 /\ shovelbuf = Sorted(Shovel(0, graph.edges))
      /\ i = 0 /\ istart = 0 /\ css = -1 /\ cms = 0 /\ curvid = 0 /\ willout = FALSE /\ index = 0
      /\ wsl = [k \in Shard |-> [p \in Shard |-> NewFile(graph, k, p)]]
  BY DEF Init, RInit
<1>2. P \in Nat /\ P > 0 /\ Shard = 0 .. P - 1 /\ 0 \in Shard /\ graph.first[0] = 0
  <2>1. P \in Nat /\ P > 0 /\ Shard = 0 .. P - 1 /\ graph.first[0] = 0
    BY <1>1, GraphFacts
  <2>2. QED
    BY <2>1
<1>3. Typed
  BY <1>1, <1>2 DEF Typed
<1>4. Passing
  <2>1. Len(shovelbuf) \in Nat
    BY <1>1, <1>2, PassFacts
  <2>2. PassAt
    BY <1>1, <1>2, <2>1 DEF PassAt
  <2>3. EdgeInv
    BY <1>1 DEF EdgeInv
  <2>4. PendingIn /\ OnlyZeros
    BY <1>1 DEF PendingIn, OnlyZeros
  <2>5. RowInv
    BY <1>1, <2>4 DEF RowInv
  <2>6. QED
    BY <1>1, <2>2, <2>3, <2>5 DEF Passing
<1>5. BlocksInv
  <2>1. ASSUME NEW k \in Shard, NEW p \in Shard
        PROVE  /\ IsFile(wsl[k][p])
               /\ Ascending(wsl[k][p].outs, Block(k, p) \cap SeenBy(k))
               /\ Ascending(wsl[k][p].ins, Block(p, k) \cap SeenBy(k))
    <3>1. wsl[k][p] = NewFile(graph, k, p)
      BY <1>1
    <3>2. IsFile(wsl[k][p]) /\ wsl[k][p].outs = <<>> /\ wsl[k][p].ins = <<>>
      BY <3>1 DEF NewFile, IsFile
    <3>3. SeenBy(k) = {}
      <4>1. Kept = 0 /\ k \in Nat
        BY <1>1, <1>2 DEF Kept
      <4>2. CASE k = shard
        <5>1. SeenBy(k) = {shovelbuf[x] : x \in 1 .. 0}
          BY <1>1, <4>1, <4>2 DEF SeenBy
        <5>2. QED
          BY <5>1
      <4>3. CASE k # shard
        BY <1>1, <4>1, <4>3 DEF SeenBy
      <4>4. QED
        BY <4>2, <4>3
    <3>4. Ascending(<<>>, {})
      BY EmptySeq DEF Ascending
    <3>5. Block(k, p) \cap SeenBy(k) = {} /\ Block(p, k) \cap SeenBy(k) = {}
      BY <3>3
    <3>6. QED
      BY <3>2, <3>4, <3>5
  <2>2. wsl = [k \in Shard |-> [p \in Shard |-> wsl[k][p]]]
    BY <1>1
  <2>3. QED
    BY <2>1, <2>2 DEF BlocksInv
<1>6. QED
  BY <1>3, <1>4, <1>5 DEF ReshardInv

\* ReshardInv is inductive.
LEMMA ReshardStep == ReshardInv /\ [Next]_vars => ReshardInv'
<1> SUFFICES ASSUME ReshardInv, [Next]_vars PROVE ReshardInv'
  OBVIOUS
<1>1. Typed /\ BlocksInv /\ (Passing \/ (pc = "done" /\ shard = P))
  BY DEF ReshardInv
<1>2. CASE reshard
  <2>1. pc # "done"
    BY <1>2 DEF reshard, EdgeIn, EdgeOut, Turn, EndTurn, LeaveInterval, NextSource, SameSource, Stopper
  <2>2. Passing
    BY <1>1, <2>1
  <2>3. CASE EdgeIn
    BY <1>1, <2>2, <2>3, EdgeInLoop, EdgeInBlocks DEF ReshardInv, Typed
  <2>4. CASE EdgeOut
    BY <1>1, <2>2, <2>4, EdgeOutLoop, EdgeOutBlocks DEF ReshardInv, Typed
  <2>5. CASE Turn
    BY <1>1, <2>2, <2>5, TurnLoop, RowBlocks DEF ReshardInv
  <2>6. CASE EndTurn
    BY <1>1, <2>2, <2>6, EndTurnLoop, RowBlocks DEF ReshardInv
  <2>7. CASE LeaveInterval
    BY <1>1, <2>2, <2>7, LeaveLoop, RowBlocks DEF ReshardInv
  <2>8. CASE NextSource
    BY <1>1, <2>2, <2>8, NextSourceLoop, RowBlocks DEF ReshardInv
  <2>9. CASE SameSource
    BY <1>1, <2>2, <2>9, SameSourceLoop, RowBlocks DEF ReshardInv
  <2>10. CASE Stopper
    BY <1>1, <2>2, <2>10, StopperLoop, StopperBlocks DEF ReshardInv
  <2>11. QED
    BY <1>2, <2>3, <2>4, <2>5, <2>6, <2>7, <2>8, <2>9, <2>10 DEF reshard
\* The workers only read the files.
<1>3. CASE UNCHANGED rvars
  <2>1. UNCHANGED <<graph, pc, shard, shovelbuf, i, istart, css, cms, curvid, willout, index, wsl>>
    BY <1>3 DEF rvars, svars
  <2>2. Shard' = Shard /\ P' = P /\ Within /\ Kept' = Kept
    BY <2>1, SameGraph DEF Within, Kept
  <2>3. Typed'
    BY <1>1, <2>1, <2>2 DEF Typed
  <2>4. BlocksInv'
    BY <1>1, <2>1, <2>2, KeptWritten, BlocksSame
  <2>5. Passing => Passing'
    <3>1. SUFFICES ASSUME Passing PROVE Passing'
      OBVIOUS
    <3>2. PassAt'
      BY <2>1, <2>2, <3>1, StillAt DEF PassAt, Passing
    <3>3. /\ Edge' = Edge /\ Src' = Src /\ Owner(Src)' = Owner(Src) /\ Owner(Edge[2])' = Owner(Edge[2])
          /\ OnlyZeroBefore(shard)' = OnlyZeroBefore(shard) /\ \A k : Interval(k)' = Interval(k)
      <4>1. Edge' = Edge /\ Src' = Src
        BY <2>1, <2>2, WithinFacts
      <4>2. QED
        BY <2>2, <4>1, WithinFacts
    <3>4. EdgeInv'
      BY <2>1, <3>1, <3>3 DEF Passing, EdgeInv
    <3>5. PendingIn' = PendingIn /\ ZeroFirst' = ZeroFirst /\ OnlyZeros' = OnlyZeros
      BY <2>1, <3>3 DEF PendingIn, ZeroFirst, OnlyZeros
    <3>6. pc' # "failed" => RowInv'
      BY <2>1, <3>1, <3>3, <3>5 DEF Passing, RowInv
    <3>7. QED
      BY <2>1, <3>1, <3>2, <3>3, <3>4, <3>6 DEF Passing, PassAt
  <2>6. QED
    BY <1>1, <2>1, <2>2, <2>3, <2>4, <2>5 DEF ReshardInv
<1>4. QED
  BY <1>2, <1>3 DEF Next, OpenMain, OpenSliding, ZeroRow, EdgeRow, MainEdge, SlidingEdge, EndPart,
                    Ended, vars

\* ReshardInv is an invariant: whatever the graph, its intervals, the length that needs a
\* field of its own and the longest run of zeros, a pass that is not at its end knows of
\* each edge at hand where its value is, and the blocks hold, in order, the values of the
\* edges that it and the passes before it have seen.
THEOREM ReshardInductive == Spec => []ReshardInv
<1>1. Init => ReshardInv
  BY ReshardInit
<1>2. ReshardInv /\ [Next]_vars => ReshardInv'
  BY ReshardStep
<1>3. QED
  BY <1>1, <1>2, PTL DEF Spec

\* The assertion of reshard that the targets of a row are in the interval of its file
\* (sharder.hpp:3168) fails only for a graph with a subgraph whose in-edges from before its
\* interval all begin at vertex 0: the one source that current_memory_shard and curvid,
\* both 0 at first, hide.
THEOREM FailsOnlyAtZeroHolds == Spec => []FailsOnlyAtZero
<1>1. ReshardInv => FailsOnlyAtZero
  BY DEF ReshardInv, Passing, PassAt, FailsOnlyAtZero
<1>2. QED
  BY <1>1, ReshardInductive, PTL

\* When all subgraphs are written, the block of values that interval k sends to p (the
\* out-edges of the one pass) and the block that p has for the values from k (the in-edges
\* of another) are the edges from k to p, all of them, in the same order: what the workers
\* exchange place by place.
THEOREM BlocksAgreeHolds == Spec => []BlocksAgree
<1>1. ReshardInv => BlocksAgree
  <2> SUFFICES ASSUME ReshardInv, pc = "done", NEW k \in Shard, NEW p \in Shard
               PROVE  /\ wsl[k][p].outs = Sorted(Block(k, p))
                      /\ k # p => wsl[p][k].ins = Sorted(Block(k, p))
    BY DEF BlocksAgree
  <2>1. graph \in Inputs /\ shard = P /\ BlocksInv
    BY DEF ReshardInv, Typed, Passing
  <2>2. k < shard /\ p < shard
    BY <2>1, GraphFacts
  <2>3. SeenBy(k) = graph.edges /\ SeenBy(p) = graph.edges
    BY <2>2 DEF SeenBy
  <2>4. /\ IsFiniteSet(Block(k, p)) /\ Block(k, p) \in SUBSET (Nat \X Nat)
        /\ Block(k, p) \cap graph.edges = Block(k, p)
    <3>1. Block(k, p) \in SUBSET graph.edges
      BY DEF Block
    <3>2. IsFiniteSet(graph.edges) /\ graph.edges \in SUBSET (Nat \X Nat)
      BY <2>1, GraphFacts
    <3>3. IsFiniteSet(Block(k, p))
      BY <3>1, <3>2, FS_Subset
    <3>4. QED
      BY <3>1, <3>2, <3>3
  <2>5. Ascending(wsl[k][p].outs, Block(k, p))
    BY <2>1, <2>3, <2>4 DEF BlocksInv
  <2>6. k # p => Ascending(wsl[p][k].ins, Block(k, p))
    BY <2>1, <2>3, <2>4 DEF BlocksInv
  <2>7. QED
    BY <2>4, <2>5, <2>6, AscendingSorted
<1>2. QED
  BY <1>1, ReshardInductive, PTL

-----------------------------------------------------------------------------
(* What a file holds *)

\* The edges of file (k, p), in the order of the subgraph.
FileEdges(k, p) == {e \in Shovel(k, graph.edges) : e[2] \in Interval(p)}
List(k, p) == Sorted(FileEdges(k, p))

\* The places in an adjacency at which a row begins, each with the vertex it is the row of
\* and the edges before it, are closed under going to the next row: R has, from the row of
\* vertex base on, the places that a reader gets to, and its rows are the edges of list L.
Skips(adj, R, r) ==
  /\ adj[r[1]] = 0 /\ r[1] < Len(adj)
  /\ <<r[1] + 2, r[2] + 1 + adj[r[1] + 1], r[3]>> \in R

HeadOf(adj, x) == IF adj[x] = Esc THEN 2 ELSE 1
LengthOf(adj, x) == IF adj[x] = Esc THEN adj[x + 1] ELSE adj[x]

Lists(adj, L, R, r) ==
  LET h == HeadOf(adj, r[1])
      m == LengthOf(adj, r[1])
  IN  /\ adj[r[1]] # 0 /\ m \in Nat /\ m > 0 /\ r[1] + h + m <= Len(adj) + 1 /\ r[3] + m <= Len(L)
      /\ \A x \in 1 .. m : L[r[3] + x] = <<r[2], adj[r[1] + h + x - 1]>>
      /\ <<r[1] + h + m, r[2] + 1, r[3] + m>> \in R

Rows(adj, base, L, R, v, c) ==
  /\ adj \in Seq(Nat) /\ v \in Nat /\ c \in Nat
  /\ R \in SUBSET (Nat \X Nat \X Nat)
  /\ <<1, base, 0>> \in R /\ <<Len(adj) + 1, v, c>> \in R
  /\ \A r \in R : r[1] > 0 /\ r[1] <= Len(adj) + 1
  /\ \A r \in R : r[1] = Len(adj) + 1 => r[2] = v /\ r[3] = c
  /\ \A r \in R : r[1] <= Len(adj) => r[2] < v /\ (Skips(adj, R, r) \/ Lists(adj, L, R, r))

Base(k, p) == IF p = k THEN 0 ELSE graph.first[k]

\* The first vertex of which file w has no row yet, and that its rows up to there are the
\* first c edges of file (k, p).
NextVertex(w) == IF w.vid_written THEN w.curvid + 1 ELSE w.curvid
Written(k, p, w, c) == \E R : Rows(w.adj, Base(k, p), List(k, p), R, NextVertex(w), c)

-----------------------------------------------------------------------------
(* Rows and runs of zeros *)

\* The fields of two sequences one after the other.
LEMMA Concatenated ==
  ASSUME NEW T, NEW a \in Seq(T), NEW b \in Seq(T), NEW l, l = Len(a), NEW m, m = Len(b)
  PROVE  /\ l \in Nat /\ m \in Nat /\ a \o b \in Seq(T) /\ Len(a \o b) = l + m
         /\ \A x \in 1 .. l : (a \o b)[x] = a[x]
         /\ \A x \in 1 .. m : (a \o b)[l + x] = b[x]
<1>1. l \in Nat /\ m \in Nat
  BY LenProperties
<1>2. a \o b \in Seq(T) /\ Len(a \o b) = l + m
  BY ConcatProperties
<1>3. \A x \in 1 .. l + m : (a \o b)[x] = IF x <= l THEN a[x] ELSE b[x - l]
  BY ConcatProperties
<1>4. ASSUME NEW x \in 1 .. l PROVE (a \o b)[x] = a[x]
  BY <1>1, <1>3
<1>5. ASSUME NEW x \in 1 .. m PROVE (a \o b)[l + x] = b[x]
  <2>1. l + x \in 1 .. l + m /\ ~ (l + x <= l) /\ l + x - l = x
    BY <1>1
  <2>2. QED
    BY <1>3, <2>1
<1>6. QED
  BY <1>1, <1>2, <1>4, <1>5

\* Fields at the end of an adjacency change none of its rows.
LEMMA RowsStay ==
  ASSUME NEW adj, NEW base, NEW L, NEW R, NEW v, NEW c, Rows(adj, base, L, R, v, c),
         NEW l, l = Len(adj), NEW new, Len(new) \in Nat, l <= Len(new),
         \A x \in 1 .. l : new[x] = adj[x], NEW S, R \subseteq S, NEW r \in R, r[1] <= l
  PROVE  Skips(new, S, r) \/ Lists(new, L, S, r)
<1>0. l \in Nat
  BY LenProperties DEF Rows
<1>1. /\ r[1] \in Nat /\ r[1] > 0 /\ r[2] \in Nat /\ r[3] \in Nat /\ r[2] < v
      /\ Skips(adj, R, r) \/ Lists(adj, L, R, r)
  BY <1>0 DEF Rows
<1>r. r[1] \in Nat /\ r[1] > 0
  BY <1>1
<1>2. r[1] \in 1 .. l /\ new[r[1]] = adj[r[1]]
  BY <1>0, <1>1
<1>3. CASE Skips(adj, R, r)
  <2>1. r[1] + 1 \in 1 .. l /\ new[r[1] + 1] = adj[r[1] + 1] /\ r[1] < Len(new)
    <3>1. r[1] < l
      BY <1>3 DEF Skips
    <3>2. r[1] + 1 \in 1 .. l /\ r[1] < Len(new)
      BY <1>0, <1>1, <3>1
    <3>3. QED
      BY <3>2
  <2>2. Skips(new, S, r)
    BY <1>2, <1>3, <2>1 DEF Skips
  <2>3. QED
    BY <1>1, <2>2
<1>4. CASE Lists(adj, L, R, r)
  <2>a. PICK g : g = HeadOf(adj, r[1])
    OBVIOUS
  <2>b. PICK k : k = LengthOf(adj, r[1])
    OBVIOUS
  <2>1. /\ adj[r[1]] # 0 /\ k \in Nat /\ k > 0 /\ r[1] + g + k <= l + 1 /\ r[3] + k <= Len(L)
        /\ \A x \in 1 .. k : L[r[3] + x] = <<r[2], adj[r[1] + g + x - 1]>>
        /\ <<r[1] + g + k, r[2] + 1, r[3] + k>> \in R
    BY <1>4, <2>a, <2>b DEF Lists
  <2>2. /\ g = IF adj[r[1]] = Esc THEN 2 ELSE 1
        /\ k = IF adj[r[1]] = Esc THEN adj[r[1] + 1] ELSE adj[r[1]]
        /\ HeadOf(new, r[1]) = IF new[r[1]] = Esc THEN 2 ELSE 1
        /\ LengthOf(new, r[1]) = IF new[r[1]] = Esc THEN new[r[1] + 1] ELSE new[r[1]]
    BY <2>a, <2>b DEF HeadOf, LengthOf
  <2>3. g \in Nat /\ g > 0 /\ g <= 2 /\ (g = 2 <=> adj[r[1]] = Esc)
    BY <2>2
  <2>g. g \in Nat /\ g > 0
    BY <2>3
  <2>k. k \in Nat /\ k > 0 /\ r[1] + g + k <= l + 1
    BY <2>1
  <2>4. g = 2 => r[1] + 1 \in 1 .. l
    BY <1>0, <1>1, <2>k, <2>3
  <2>5. HeadOf(new, r[1]) = g /\ LengthOf(new, r[1]) = k
    BY <1>2, <2>2, <2>3, <2>4
  <2>6. ASSUME NEW x \in 1 .. k PROVE r[1] + g + x - 1 \in 1 .. l
    <3>1. x \in Nat /\ x > 0 /\ x <= k
      BY <2>k
    <3>2. QED
      BY <1>0, <1>r, <2>k, <2>g, <3>1
  <2>7. \A x \in 1 .. k : L[r[3] + x] = <<r[2], new[r[1] + g + x - 1]>>
    BY <2>1, <2>6
  <2>8. r[1] + g + k <= Len(new) + 1
    BY <1>0, <1>1, <2>k, <2>3
  <2>9. Lists(new, L, S, r)
    BY <1>2, <2>1, <2>5, <2>7, <2>8 DEF Lists
  <2>10. QED
    BY <1>1, <2>9
<1>5. QED
  BY <1>1, <1>3, <1>4

\* Quotient and remainder, for the runs of zeros.
LEMMA DivMod ==
  ASSUME NEW a \in Nat, NEW b \in Nat, b > 0
  PROVE  /\ a \div b \in Nat /\ a % b \in Nat /\ a % b < b
         /\ a = b * (a \div b) + (a % b)
OBVIOUS

\* Multiples, for the vertices that the runs so far skip.
LEMMA Products ==
  ASSUME NEW b \in Nat, NEW d \in Nat, NEW g \in 0 .. d
  PROVE  b * g \in Nat /\ b * (g + 1) = b * g + b /\ b * g <= b * d
<1>1. b * g \in Nat /\ b * (g + 1) = b * g + b
  OBVIOUS
<1>2. PICK f \in Nat : d = g + f
  <2>1. d - g \in Nat /\ d = g + (d - g)
    OBVIOUS
  <2>2. QED
    BY <2>1
<1>3. b * d = b * g + b * f /\ b * f \in Nat
  BY <1>2
<1>4. QED
  BY <1>1, <1>3

\* The fields of a run: the 0 and the length.
LEMMA OddEven ==
  ASSUME NEW g \in Nat
  PROVE  (2 * g + 1) % 2 = 1 /\ (2 * g + 2) % 2 = 0
OBVIOUS

AreRuns(nz, b, d, rest) ==
  /\ b = MaxRun + 1 /\ nz = b * d + rest + 1
  /\ ZeroRuns(nz) \in Seq(Nat) /\ 2 * d + 2 = Len(ZeroRuns(nz))
  /\ \A g \in 0 .. d : /\ ZeroRuns(nz)[2 * g + 1] = 0
                       /\ ZeroRuns(nz)[2 * g + 2] = IF g = d THEN rest ELSE MaxRun

\* A run of zeros goes up to the vertex that it is for.
LEMMA RunFields ==
  ASSUME NEW nz \in Nat, nz > 0
  PROVE  \E b \in Nat, d \in Nat, rest \in Nat : AreRuns(nz, b, d, rest)
<1>b. PICK b : b = MaxRun + 1
  OBVIOUS
<1>c. PICK d : d = (nz - 1) \div b
  OBVIOUS
<1>d. PICK rest : rest = (nz - 1) % b
  OBVIOUS
<1>1. b \in Nat /\ b > 0 /\ MaxRun \in Nat /\ nz - 1 \in Nat
  BY <1>b, ReshardAssumption
<1>2. d \in Nat /\ rest \in Nat /\ nz - 1 = b * d + rest
  BY <1>1, <1>c, <1>d, DivMod
<1>3. nz = b * d + rest + 1
  <2>1. b * d \in Nat
    BY <1>1, <1>2
  <2>2. QED
    BY <1>2, <2>1
<1>4. PICK z : z = ZeroRuns(nz)
  OBVIOUS
<1>5. z = [f \in 1 .. 2 * (d + 1) |-> IF f % 2 = 1 THEN 0
                                     ELSE IF f < 2 * (d + 1) THEN MaxRun ELSE rest]
  BY <1>4, <1>b, <1>c, <1>d DEF ZeroRuns
<1>6. 2 * (d + 1) \in Nat /\ 2 * (d + 1) = 2 * d + 2
  BY <1>2
<1>7. z \in Seq(Nat) /\ Len(z) = 2 * d + 2
  BY <1>1, <1>2, <1>5, <1>6
<1>8. ASSUME NEW g \in 0 .. d
      PROVE  z[2 * g + 1] = 0 /\ z[2 * g + 2] = IF g = d THEN rest ELSE MaxRun
  <2>1. g \in Nat /\ (2 * g + 1) % 2 = 1 /\ (2 * g + 2) % 2 = 0
    BY <1>2, OddEven
  <2>2. /\ 2 * g + 1 \in 1 .. 2 * (d + 1) /\ 2 * g + 2 \in 1 .. 2 * (d + 1)
        /\ 2 * g + 2 < 2 * (d + 1) <=> g # d
    BY <1>2, <2>1
  <2>3. z[2 * g + 1] = 0
    BY <1>5, <2>1, <2>2
  <2>4. z[2 * g + 2] = IF 2 * g + 2 < 2 * (d + 1) THEN MaxRun ELSE rest
    BY <1>5, <2>1, <2>2
  <2>5. QED
    BY <2>2, <2>3, <2>4
<1>9. Len(z) = 2 * d + 2 /\ z \in Seq(Nat) /\ b \in Nat /\ d \in Nat /\ rest \in Nat
  BY <1>1, <1>2, <1>7
<1>10. AreRuns(nz, b, d, rest)
  BY <1>b, <1>3, <1>4, <1>8, <1>9 DEF AreRuns
<1>11. QED
  BY <1>9, <1>10

\* A run of zeros at the end of the rows skips as many vertices as it stands for.
LEMMA AppendZeros ==
  ASSUME NEW adj, NEW base, NEW L, NEW R, NEW v, NEW c, Rows(adj, base, L, R, v, c),
         NEW nz \in Nat, nz > 0
  PROVE  \E S : Rows(adj \o ZeroRuns(nz), base, L, S, v + nz, c)
<1>a. PICK l : l = Len(adj)
  OBVIOUS
<1>e. PICK new : new = adj \o ZeroRuns(nz)
  OBVIOUS
<1>1. /\ adj \in Seq(Nat) /\ l \in Nat /\ v \in Nat /\ c \in Nat /\ R \in SUBSET (Nat \X Nat \X Nat)
      /\ <<1, base, 0>> \in R /\ <<l + 1, v, c>> \in R
      /\ \A r \in R : r[1] > 0 /\ r[1] <= l + 1
      /\ \A r \in R : r[1] = l + 1 => r[2] = v /\ r[3] = c
      /\ \A r \in R : r[1] <= l => r[2] < v
  BY <1>a, LenProperties DEF Rows
<1>c. PICK b \in Nat, d \in Nat, rest \in Nat : AreRuns(nz, b, d, rest)
  BY RunFields
<1>2. /\ b \in Nat /\ d \in Nat /\ rest \in Nat
      /\ b = MaxRun + 1 /\ nz = b * d + rest + 1
      /\ ZeroRuns(nz) \in Seq(Nat) /\ 2 * d + 2 = Len(ZeroRuns(nz))
      /\ \A g \in 0 .. d : /\ ZeroRuns(nz)[2 * g + 1] = 0
                           /\ ZeroRuns(nz)[2 * g + 2] = IF g = d THEN rest ELSE MaxRun
  BY <1>c DEF AreRuns
<1>3. /\ new \in Seq(Nat) /\ Len(new) = l + (2 * d + 2)
      /\ \A x \in 1 .. l : new[x] = adj[x]
      /\ \A x \in 1 .. 2 * d + 2 : new[l + x] = ZeroRuns(nz)[x]
  <2>1. PICK m : m = 2 * d + 2
    OBVIOUS
  <2>2. adj \in Seq(Nat) /\ ZeroRuns(nz) \in Seq(Nat) /\ m = Len(ZeroRuns(nz))
    BY <1>1, <1>2, <2>1
  <2>3. /\ new \in Seq(Nat) /\ Len(new) = l + m
        /\ \A x \in 1 .. l : new[x] = adj[x]
        /\ \A x \in 1 .. m : new[l + x] = ZeroRuns(nz)[x]
    BY <1>a, <1>e, <2>2, Concatenated
  <2>4. QED
    BY <2>1, <2>3
<1>v. v \in Nat /\ l \in Nat /\ c \in Nat /\ d \in Nat /\ rest \in Nat
  BY <1>1, <1>2
<1>4. Len(new) \in Nat /\ l <= Len(new) /\ Len(new) = l + 2 * d + 2
  BY <1>1, <1>2, <1>3
<1> DEFINE at(g) == <<l + 2 * g + 1, v + b * g, c>>
           end == <<l + 2 * d + 3, v + nz, c>>
           S == R \cup {at(g) : g \in 0 .. d} \cup {end}
<1>5. ASSUME NEW g \in 0 .. d
      PROVE  /\ g \in Nat /\ b * g \in Nat /\ v + b * g \in Nat /\ v + b * g < v + nz
             /\ b * (g + 1) = b * g + b
             /\ l + 2 * g + 1 \in Nat /\ l + 2 * g + 1 < Len(new)
             /\ new[l + 2 * g + 1] = 0 /\ new[l + 2 * g + 2] = IF g = d THEN rest ELSE MaxRun
  <2>1. g \in Nat /\ g <= d
    BY <1>2
  <2>2. b * g \in Nat /\ b * (g + 1) = b * g + b /\ b * g <= b * d /\ b * d \in Nat
    BY <1>2, <2>1, Products, SMTT(30)
  <2>3. v + b * g \in Nat /\ v + b * g < v + nz
    <3>1. \A x \in Nat, y \in Nat : x <= y => v + x \in Nat /\ v + x < v + (y + rest + 1)
      BY <1>v
    <3>2. b * g \in Nat /\ b * d \in Nat /\ b * g <= b * d /\ nz = b * d + rest + 1
      BY <1>2, <2>2
    <3>3. QED
      BY <3>1, <3>2
  <2>4. l + 2 * g + 1 \in Nat /\ l + 2 * g + 1 < Len(new)
    BY <1>1, <1>2, <1>4, <2>1
  <2>5. /\ 2 * g + 1 \in 1 .. 2 * d + 2 /\ 2 * g + 2 \in 1 .. 2 * d + 2
        /\ l + (2 * g + 1) = l + 2 * g + 1 /\ l + (2 * g + 2) = l + 2 * g + 2
    BY <1>1, <1>2, <2>1
  <2>6. QED
    BY <1>2, <1>3, <2>1, <2>2, <2>3, <2>4, <2>5
<1>6. ASSUME NEW g \in 0 .. d PROVE Skips(new, S, at(g))
  <2>1. <<l + 2 * g + 1 + 2, v + b * g + 1 + new[l + 2 * g + 2], c>> \in S
    <3>1. CASE g = d
      <4>1. l + 2 * g + 1 + 2 = l + 2 * d + 3 /\ v + b * g + 1 + rest = v + nz
        <5>1. PICK q : q = b * d
          OBVIOUS
        <5>2. q \in Nat /\ nz = q + rest + 1 /\ b * g = q
          BY <1>2, <1>5, <3>1, <5>1
        <5>3. v + q + 1 + rest = v + (q + rest + 1)
          BY <1>v, <5>2
        <5>4. QED
          BY <1>v, <3>1, <5>2, <5>3
      <4>2. QED
        BY <1>5, <3>1, <4>1
    <3>2. CASE g # d
      <4>1. g + 1 \in 0 .. d
        BY <1>2, <1>5, <3>2
      <4>2. l + 2 * g + 1 + 2 = l + 2 * (g + 1) + 1 /\ v + b * g + 1 + MaxRun = v + b * (g + 1)
        BY <1>1, <1>2, <1>5, ReshardAssumption
      <4>3. at(g + 1) \in S
        BY <4>1
      <4>4. QED
        BY <1>5, <3>2, <4>2, <4>3
    <3>3. QED
      BY <3>1, <3>2
  <2>2. l + 2 * g + 1 + 1 = l + 2 * g + 2
    BY <1>1, <1>5
  <2>3. /\ at(g)[1] = l + 2 * g + 1 /\ at(g)[2] = v + b * g /\ at(g)[3] = c
    OBVIOUS
  <2> HIDE DEF at, S
  <2>4. QED
    BY <1>5, <2>1, <2>2, <2>3 DEF Skips
<1>7. ASSUME NEW r \in R, r[1] <= l
      PROVE  r[2] < v + nz /\ (Skips(new, S, r) \/ Lists(new, L, S, r))
  <2>1. R \subseteq S
    OBVIOUS
  <2> HIDE DEF S
  <2>2. Skips(new, S, r) \/ Lists(new, L, S, r)
    BY <1>a, <1>3, <1>4, <1>7, <2>1, RowsStay
  <2>3. r[2] \in Nat /\ r[2] < v /\ v \in Nat
    BY <1>1, <1>7
  <2>4. QED
    BY <2>2, <2>3
<1>8. at(0) = <<l + 1, v, c>> /\ 0 \in 0 .. d
  BY <1>1, <1>2
<1>9. ASSUME NEW r \in R
      PROVE  (r[1] <= l /\ r[1] < Len(new)) \/ r = at(0)
  <2>1. r \in Nat \X Nat \X Nat /\ r[1] > 0 /\ r[1] <= l + 1 /\ (r[1] = l + 1 => r[2] = v /\ r[3] = c)
    BY <1>1
  <2>2. r = <<r[1], r[2], r[3]>> /\ r[1] \in Nat
    BY <2>1
  <2>3. r[1] = l + 1 \/ (r[1] <= l /\ r[1] < Len(new))
    <3>1. r[1] <= l + 1 /\ r[1] \in Nat
      BY <2>1, <2>2
    <3>2. l < Len(new) /\ l \in Nat /\ Len(new) \in Nat
      BY <1>v, <1>4
    <3>3. QED
      BY <3>1, <3>2
  <2> HIDE DEF at
  <2>4. QED
    BY <1>8, <2>1, <2>2, <2>3
<1>10. ASSUME NEW r \in S
       PROVE  \/ r \in R /\ r[1] <= l /\ r[1] < Len(new)
              \/ \E g \in 0 .. d : r = at(g)
              \/ r = end
  <2> HIDE DEF at, end
  <2>1. QED
    BY <1>8, <1>9
<1>11. end[1] = Len(new) + 1 /\ end[2] = v + nz /\ end[3] = c /\ end \in Nat \X Nat \X Nat
  <2>1. l + 2 * d + 3 = Len(new) + 1 /\ l + 2 * d + 3 \in Nat /\ v + nz \in Nat
    BY <1>v, <1>4
  <2>2. QED
    BY <1>v, <2>1
<1>12. ASSUME NEW g \in 0 .. d
       PROVE  at(g) \in Nat \X Nat \X Nat /\ at(g)[1] > 0 /\ at(g)[1] < Len(new) /\ at(g)[2] < v + nz
  BY <1>1, <1>5
<1>13. <<1, base, 0>> \in S /\ <<Len(new) + 1, v + nz, c>> \in S
  <2>1. end = <<Len(new) + 1, v + nz, c>>
    BY <1>1, <1>2, <1>4
  <2> HIDE DEF end, at
  <2>2. QED
    BY <1>1, <2>1
<1>14. R \subseteq S
  OBVIOUS
<1> HIDE DEF at, end
<1>15. S \in SUBSET (Nat \X Nat \X Nat)
  BY <1>1, <1>11, <1>12
<1> HIDE DEF S
<1>16. ASSUME NEW r \in S
       PROVE  /\ r[1] > 0 /\ r[1] <= Len(new) + 1
              /\ r[1] = Len(new) + 1 => r[2] = v + nz /\ r[3] = c
              /\ r[1] <= Len(new) => r[2] < v + nz /\ (Skips(new, S, r) \/ Lists(new, L, S, r))
  <2>1. r[1] \in Nat
    BY <1>15
  <2>2. CASE r \in R /\ r[1] <= l /\ r[1] < Len(new)
    <3>1. r[1] > 0
      BY <1>1, <2>2
    <3>2. QED
      BY <1>4, <1>7, <2>1, <2>2, <3>1
  <2>3. CASE \E g \in 0 .. d : r = at(g)
    <3>1. PICK g \in 0 .. d : r = at(g)
      BY <2>3
    <3>2. r[1] > 0 /\ r[1] < Len(new) /\ r[2] < v + nz /\ Skips(new, S, r)
      BY <1>6, <1>12, <3>1
    <3>3. QED
      BY <1>4, <2>1, <3>2
  <2>4. CASE r = end
    BY <1>4, <1>11, <2>4
  <2>5. QED
    BY <1>10, <2>2, <2>3, <2>4
<1>17. v + nz \in Nat
  BY <1>1
<1>18. Rows(new, base, L, S, v + nz, c)
  BY <1>1, <1>3, <1>13, <1>15, <1>16, <1>17 DEF Rows
<1>19. QED
  BY <1>18, <1>e

\* The next row goes to the end, its targets being the next edges of the list.
LEMMA AppendRow ==
  ASSUME NEW adj, NEW base, NEW L, NEW R, NEW v, NEW c, Rows(adj, base, L, R, v, c),
         NEW t \in Seq(Nat), Len(t) > 0, Len(L) \in Nat, c + Len(t) <= Len(L),
         \A x \in 1 .. Len(t) : L[c + x] = <<v, t[x]>>
  PROVE  \E S : Rows(adj \o Row(t), base, L, S, v + 1, c + Len(t))
<1>a. PICK l : l = Len(adj)
  OBVIOUS
<1>b. PICK m : m = Len(t)
  OBVIOUS
<1>c. PICK h : h = IF m < Esc THEN 1 ELSE 2
  OBVIOUS
<1>d. PICK new : new = adj \o Row(t)
  OBVIOUS
<1> DEFINE end == <<l + h + m + 1, v + 1, c + m>>
           S == R \cup {end}
<1>1. /\ adj \in Seq(Nat) /\ v \in Nat /\ c \in Nat /\ R \in SUBSET (Nat \X Nat \X Nat)
      /\ <<1, base, 0>> \in R /\ <<l + 1, v, c>> \in R
      /\ \A r \in R : r[1] > 0 /\ r[1] <= l + 1
      /\ \A r \in R : r[1] = l + 1 => r[2] = v /\ r[3] = c
      /\ \A r \in R : r[1] <= l => r[2] < v /\ (Skips(adj, R, r) \/ Lists(adj, L, R, r))
  BY <1>a DEF Rows
<1>2. l \in Nat /\ m \in Nat /\ m > 0 /\ Esc \in Nat /\ Esc > 0
  BY <1>1, <1>a, <1>b, LenProperties, ReshardAssumption
<1>3. PICK row : row = Row(t)
  OBVIOUS
<1>4. /\ row \in Seq(Nat) /\ Len(row) = h + m
      /\ m < Esc => row[1] = m
      /\ ~ (m < Esc) => row[1] = Esc /\ row[2] = m
      /\ \A x \in 1 .. m : row[h + x] = t[x]
  <2>1. CASE m < Esc
    <3>1. row = <<m>> \o t /\ h = 1
      BY <1>3, <1>b, <1>c, <2>1 DEF Row
    <3>2. <<m>> \in Seq(Nat) /\ Len(<<m>>) = 1 /\ <<m>>[1] = m
      BY <1>2
    <3>3. /\ row \in Seq(Nat) /\ Len(row) = 1 + Len(t)
          /\ \A x \in 1 .. 1 + Len(t) : row[x] = IF x <= 1 THEN <<m>>[x] ELSE t[x - 1]
      BY <3>1, <3>2, ConcatProperties
    <3>4. /\ row[1] = m
          /\ \A x \in 1 .. m : row[1 + x] = t[x]
      BY <1>2, <1>b, <3>2, <3>3
    <3>5. QED
      BY <1>b, <2>1, <3>1, <3>3, <3>4
  <2>2. CASE ~ (m < Esc)
    <3>1. row = <<Esc, m>> \o t /\ h = 2
      BY <1>3, <1>b, <1>c, <2>2 DEF Row
    <3>2. <<Esc, m>> \in Seq(Nat) /\ Len(<<Esc, m>>) = 2 /\ <<Esc, m>>[1] = Esc /\ <<Esc, m>>[2] = m
      BY <1>2
    <3>3. /\ row \in Seq(Nat) /\ Len(row) = 2 + Len(t)
          /\ \A x \in 1 .. 2 + Len(t) : row[x] = IF x <= 2 THEN <<Esc, m>>[x] ELSE t[x - 2]
      BY <3>1, <3>2, ConcatProperties
    <3>4. /\ row[1] = Esc /\ row[2] = m
          /\ \A x \in 1 .. m : row[2 + x] = t[x]
      BY <1>2, <1>b, <3>2, <3>3
    <3>5. QED
      BY <1>b, <2>2, <3>1, <3>3, <3>4
  <2>3. QED
    BY <2>1, <2>2
<1>5. /\ new \in Seq(Nat) /\ Len(new) = l + h + m
      /\ \A x \in 1 .. l : new[x] = adj[x]
      /\ \A x \in 1 .. h + m : new[l + x] = row[x]
  <2>1. new = adj \o row /\ h + m = Len(row)
    BY <1>3, <1>4, <1>d
  <2>2. /\ adj \o row \in Seq(Nat) /\ Len(adj \o row) = l + (h + m)
        /\ \A x \in 1 .. l : (adj \o row)[x] = adj[x]
        /\ \A x \in 1 .. h + m : (adj \o row)[l + x] = row[x]
    <3>1. adj \in Seq(Nat) /\ row \in Seq(Nat)
      BY <1>1, <1>4
    <3>2. QED
      BY <1>a, <2>1, <3>1, Concatenated
  <2>3. h \in Nat /\ l + (h + m) = l + h + m
    BY <1>2, <1>c
  <2>4. QED
    BY <2>1, <2>2, <2>3
<1>6. h \in Nat /\ h > 0 /\ h <= 2
  BY <1>c
<1>e. Len(new) \in Nat /\ Len(new) = l + h + m
  BY <1>2, <1>5, <1>6
<1>7. /\ Len(new) + 1 = l + h + m + 1 /\ end \in Nat \X Nat \X Nat
      /\ end[1] = l + h + m + 1 /\ end[2] = v + 1 /\ end[3] = c + m
  BY <1>1, <1>2, <1>e, <1>6, SMTT(30)
<1>8. ASSUME NEW r \in R, r[1] <= l
      PROVE  r[2] < v + 1 /\ (Skips(new, S, r) \/ Lists(new, L, S, r))
  <2>1. l <= Len(new)
    BY <1>2, <1>e, <1>6
  <2>2. Skips(new, S, r) \/ Lists(new, L, S, r)
    BY <1>a, <1>5, <1>8, <1>e, <2>1, RowsStay
  <2>3. r[2] \in Nat /\ r[2] < v /\ v \in Nat
    BY <1>1, <1>8
  <2>4. QED
    BY <2>2, <2>3
<1>9. ASSUME NEW r \in R, r[1] = l + 1
      PROVE  r[2] < v + 1 /\ Lists(new, L, S, r)
  <2>1. r[2] = v /\ r[3] = c
    BY <1>1, <1>9
  <2>2. /\ r[1] + h \in Nat /\ new[l + 1] = row[1] /\ new[l + 2] = IF h + m >= 2 THEN row[2] ELSE new[l + 2]
        /\ \A x \in 1 .. m : new[l + h + x] = row[h + x]
    <3>1. 1 \in 1 .. h + m
      BY <1>2, <1>6
    <3>2. h + m >= 2 => 2 \in 1 .. h + m
      BY <1>2, <1>6
    <3>3. \A x \in 1 .. m : h + x \in 1 .. h + m /\ l + (h + x) = l + h + x
      BY <1>2, <1>6
    <3>4. r[1] + h \in Nat
      BY <1>2, <1>6, <1>9
    <3>5. QED
      BY <1>5, <3>1, <3>2, <3>3, <3>4
  <2>3. HeadOf(new, r[1]) = h /\ LengthOf(new, r[1]) = m /\ new[r[1]] # 0
    <3>1. r[1] = l + 1 /\ r[1] + 1 = l + 2
      BY <1>2, <1>9
    <3>2. CASE m < Esc
      <4>1. h = 1 /\ new[r[1]] = m /\ m # Esc /\ m # 0
        BY <1>2, <1>4, <1>c, <2>2, <3>1, <3>2
      <4>2. QED
        BY <4>1 DEF HeadOf, LengthOf
    <3>3. CASE ~ (m < Esc)
      <4>1. h = 2 /\ new[r[1]] = Esc /\ Esc # 0
        BY <1>2, <1>4, <1>c, <2>2, <3>1, <3>3, SMTT(30)
      <4>2. new[r[1] + 1] = m
        BY <1>2, <1>4, <2>2, <3>1, <3>3, <4>1
      <4>3. QED
        BY <4>1, <4>2 DEF HeadOf, LengthOf
    <3>4. QED
      BY <3>2, <3>3
  <2>4. ASSUME NEW x \in 1 .. m PROVE L[r[3] + x] = <<r[2], new[r[1] + h + x - 1]>>
    <3>1. r[1] + h + x - 1 = l + h + x
      BY <1>2, <1>6, <1>9
    <3>2. new[l + h + x] = t[x] /\ L[c + x] = <<v, t[x]>>
      BY <1>4, <1>b, <2>2
    <3>3. QED
      BY <2>1, <3>1, <3>2
  <2>5. r[1] + h + m <= Len(new) + 1 /\ r[3] + m <= Len(L) /\ m \in Nat /\ m > 0
    BY <1>2, <1>e, <1>6, <1>9, <1>b, <2>1
  <2>6. <<r[1] + h + m, r[2] + 1, r[3] + m>> \in S
    <3>1. r[1] + h + m = l + h + m + 1
      BY <1>2, <1>6, <1>9
    <3>2. QED
      BY <2>1, <3>1
  <2>7. v < v + 1
    BY <1>1
  <2> HIDE DEF S
  <2>8. QED
    BY <2>1, <2>3, <2>4, <2>5, <2>6, <2>7 DEF Lists
<1>10. \A r \in S : (r \in R /\ r[1] <= l) \/ (r \in R /\ r[1] = l + 1) \/ r = end
  <2>1. ASSUME NEW r \in R PROVE r[1] <= l \/ r[1] = l + 1
    <3>1. r[1] \in Nat /\ r[1] <= l + 1
      BY <1>1
    <3>2. QED
      BY <1>2, <3>1
  <2>2. QED
    BY <2>1
<1>11. \A r \in S : r[1] > 0 /\ r[1] <= Len(new) + 1
  <2>1. ASSUME NEW r \in R PROVE r[1] > 0 /\ r[1] <= Len(new) + 1
    <3>1. r[1] \in Nat /\ r[1] > 0 /\ r[1] <= l + 1
      BY <1>1
    <3>2. QED
      BY <1>2, <1>e, <1>6, <3>1
  <2>2. end[1] > 0 /\ end[1] <= Len(new) + 1
    <3>1. QED
      BY <1>2, <1>6, <1>7
  <2> HIDE DEF end
  <2>3. QED
    BY <2>1, <2>2
<1>12. \A r \in S : r[1] = Len(new) + 1 => r[2] = v + 1 /\ r[3] = c + m
  <2>1. ASSUME NEW r \in R PROVE r[1] # Len(new) + 1
    <3>1. r[1] \in Nat /\ r[1] <= l + 1
      BY <1>1
    <3>2. QED
      BY <1>2, <1>e, <1>6, <3>1
  <2> HIDE DEF end
  <2>2. QED
    BY <1>7, <2>1
<1>13. \A r \in S : r[1] <= Len(new) => r[2] < v + 1 /\ (Skips(new, S, r) \/ Lists(new, L, S, r))
  <2>1. ~ (end[1] <= Len(new))
    <3>1. QED
      BY <1>2, <1>e, <1>6, <1>7
  <2> HIDE DEF S, end
  <2>2. QED
    BY <1>8, <1>9, <1>10, <2>1
<1>14. S \in SUBSET (Nat \X Nat \X Nat) /\ <<1, base, 0>> \in S /\ <<Len(new) + 1, v + 1, c + m>> \in S
  BY <1>1, <1>7
<1>15. v + 1 \in Nat /\ c + m \in Nat
  <2>1. QED
    BY <1>1, <1>2
<1>16. Rows(new, base, L, S, v + 1, c + m)
  <2> HIDE DEF S
  <2>1. QED
    BY <1>5, <1>11, <1>12, <1>13, <1>14, <1>15 DEF Rows
<1>17. QED
  BY <1>16, <1>b, <1>d

-----------------------------------------------------------------------------
(* Counting edges *)

\* An ascending list puts each edge at its rank.
LEMMA SortedAt ==
  ASSUME NEW E \in SUBSET (Nat \X Nat), IsFiniteSet(E)
  PROVE  /\ Cardinality(E) \in Nat /\ Len(Sorted(E)) = Cardinality(E)
         /\ Sorted(E) \in Seq(E)
         /\ \A e \in E : /\ Rank(e, E) \in Nat /\ Rank(e, E) + 1 \in 1 .. Len(Sorted(E))
                         /\ Sorted(E)[Rank(e, E) + 1] = e
         /\ \A x \in 1 .. Len(Sorted(E)) : Sorted(E)[x] \in E /\ Rank(Sorted(E)[x], E) = x - 1
<1>1. PICK s : s = Sorted(E)
  OBVIOUS
<1>2. Ascending(s, E) /\ s \in Seq(E)
  BY <1>1, SortedAscending DEF Ascending
<1>3. /\ Cardinality(E) \in Nat /\ Len(s) = Cardinality(E)
      /\ \A e \in E : Rank(e, E) \in 0 .. Cardinality(E) - 1
      /\ \A x \in 1 .. Len(s) : s[x] \in E /\ Rank(s[x], E) = x - 1
  BY <1>2, AscendingRank, RankFacts
<1>4. ASSUME NEW e \in E
      PROVE  Rank(e, E) \in Nat /\ Rank(e, E) + 1 \in 1 .. Len(s) /\ s[Rank(e, E) + 1] = e
  <2>1. PICK r : r = Rank(e, E)
    OBVIOUS
  <2>2. r \in 0 .. Cardinality(E) - 1
    BY <1>3, <2>1
  <2>3. r \in Nat /\ r + 1 \in 1 .. Len(s) /\ (r + 1) - 1 = r
    BY <1>3, <2>2
  <2>4. s[r + 1] \in E /\ Rank(s[r + 1], E) = r
    BY <1>3, <2>3
  <2>5. s[r + 1] = e
    BY <2>1, <2>4, RankInjective
  <2>6. QED
    BY <2>1, <2>3, <2>5
<1>5. QED
  BY <1>1, <1>2, <1>3, <1>4

\* The first x members of a list.
Prefix(s, x) == {s[y] : y \in 1 .. x}

\* The members of the first x fields of an ascending list.
LEMMA PrefixFacts ==
  ASSUME NEW U \in SUBSET (Nat \X Nat), IsFiniteSet(U), NEW s, Ascending(s, U)
  PROVE  /\ Len(s) \in Nat /\ Len(s) = Cardinality(U)
         /\ Prefix(s, 0) = {} /\ Prefix(s, Len(s)) = U
         /\ \A x \in 0 .. Len(s) : Prefix(s, x) \subseteq U
         /\ \A x \in 1 .. Len(s) : /\ s[x] \in U
                                   /\ Prefix(s, x) = Prefix(s, x - 1) \cup {s[x]}
                                   /\ s[x] \notin Prefix(s, x - 1)
                                   /\ \A e \in U : e \in Prefix(s, x - 1) <=> Less(e, s[x])
<1>1. /\ Len(s) \in Nat /\ Len(s) = Cardinality(U)
      /\ \A x \in 1 .. Len(s) : s[x] \in U
  BY AscendingRank
<1>2. /\ \A x \in 1 .. Len(s) : \A y \in 1 .. Len(s) : x < y => Less(s[x], s[y])
      /\ \A u \in U : \E x \in 1 .. Len(s) : s[x] = u
  BY DEF Ascending
<1>3. PICK l : l = Len(s)
  OBVIOUS
<1>4. ASSUME NEW x \in 0 .. l PROVE Prefix(s, x) \subseteq U
  <2>1. \A y \in 1 .. x : y \in 1 .. l
    BY <1>1, <1>3
  <2>2. QED
    BY <1>1, <1>3, <2>1 DEF Prefix
<1>5. ASSUME NEW x \in 1 .. l
      PROVE  /\ Prefix(s, x) = Prefix(s, x - 1) \cup {s[x]}
             /\ s[x] \notin Prefix(s, x - 1)
             /\ \A e \in U : e \in Prefix(s, x - 1) <=> Less(e, s[x])
  <2>1. /\ x \in 1 .. x /\ \A y \in 1 .. x - 1 : y \in 1 .. l /\ y \in 1 .. x /\ y < x
        /\ \A y \in 1 .. x : y = x \/ y \in 1 .. x - 1
        /\ \A y \in 1 .. l : y \in 1 .. x - 1 \/ y = x \/ x < y
    BY <1>1, <1>3
  <2>2. Prefix(s, x) = Prefix(s, x - 1) \cup {s[x]}
    BY <2>1 DEF Prefix
  <2>3. s[x] \notin Prefix(s, x - 1)
    <3>1. ASSUME NEW y \in 1 .. x - 1 PROVE s[y] # s[x]
      <4>1. Less(s[y], s[x]) /\ s[y] \in Nat \X Nat /\ s[x] \in Nat \X Nat
        BY <1>1, <1>2, <1>3, <2>1
      <4>2. QED
        BY <4>1, LessOrder
    <3>2. QED
      BY <3>1 DEF Prefix
  <2>4. ASSUME NEW e \in U PROVE e \in Prefix(s, x - 1) <=> Less(e, s[x])
    <3>1. PICK y \in 1 .. l : s[y] = e
      BY <1>2, <1>3
    <3>2. s[x] \in Nat \X Nat /\ e \in Nat \X Nat
      BY <1>1, <1>3
    <3>3. ASSUME e \in Prefix(s, x - 1) PROVE Less(e, s[x])
      BY <1>2, <1>3, <2>1, <3>3 DEF Prefix
    <3>4. ASSUME Less(e, s[x]), e \notin Prefix(s, x - 1) PROVE FALSE
      <4>1. y = x \/ x < y
        BY <2>1, <3>1, <3>4 DEF Prefix
      <4>2. e = s[x] \/ Less(s[x], e)
        BY <1>2, <1>3, <3>1, <4>1
      <4>3. QED
        BY <3>2, <3>4, <4>2, LessOrder
    <3>5. QED
      BY <3>3, <3>4
  <2>5. QED
    BY <2>2, <2>3, <2>4
<1>6. Prefix(s, 0) = {}
  BY DEF Prefix
<1>7. Prefix(s, l) = U
  <2>1. l \in 0 .. l
    BY <1>1, <1>3
  <2>2. QED
    BY <1>2, <1>3, <1>4, <2>1 DEF Prefix
<1>8. QED
  BY <1>1, <1>3, <1>4, <1>5, <1>6, <1>7

\* How many of the first edges are in D: one more for an edge of D, and this is its rank.
HowMany(D, s, x) == Cardinality(D \cap Prefix(s, x))

\* How many of the first x fields of an ascending list are in D, and the rank that gives.
LEMMA PrefixCount ==
  ASSUME NEW U \in SUBSET (Nat \X Nat), IsFiniteSet(U), NEW s, Ascending(s, U), NEW D \in SUBSET U
  PROVE  /\ HowMany(D, s, 0) = 0 /\ HowMany(D, s, Len(s)) = Cardinality(D) /\ Cardinality(D) \in Nat
         /\ \A x \in 0 .. Len(s) : HowMany(D, s, x) \in Nat /\ HowMany(D, s, x) <= Cardinality(D)
         /\ \A x \in 1 .. Len(s) :
              /\ s[x] \in D => /\ HowMany(D, s, x) = HowMany(D, s, x - 1) + 1
                               /\ Rank(s[x], D) = HowMany(D, s, x - 1)
              /\ s[x] \notin D => HowMany(D, s, x) = HowMany(D, s, x - 1)
<1>1. /\ Len(s) \in Nat
      /\ Prefix(s, 0) = {} /\ Prefix(s, Len(s)) = U
      /\ \A x \in 1 .. Len(s) : /\ s[x] \in U
                                /\ Prefix(s, x) = Prefix(s, x - 1) \cup {s[x]}
                                /\ s[x] \notin Prefix(s, x - 1)
                                /\ \A e \in U : e \in Prefix(s, x - 1) <=> Less(e, s[x])
  BY PrefixFacts
<1>2. IsFiniteSet(D) /\ Cardinality(D) \in Nat
  BY FS_Subset, FS_CardinalityType
<1>3. ASSUME NEW x
      PROVE  /\ IsFiniteSet(D \cap Prefix(s, x)) /\ HowMany(D, s, x) \in Nat
             /\ HowMany(D, s, x) <= Cardinality(D)
  <2>1. PICK C : C = D \cap Prefix(s, x)
    OBVIOUS
  <2>2. C \subseteq D
    BY <2>1
  <2>3. IsFiniteSet(C) /\ Cardinality(C) <= Cardinality(D)
    BY <1>2, <2>2, FS_Subset
  <2>4. Cardinality(C) \in Nat
    BY <2>3, FS_CardinalityType
  <2>5. QED
    BY <2>1, <2>3, <2>4 DEF HowMany
<1>4. HowMany(D, s, 0) = 0
  <2>1. D \cap Prefix(s, 0) = {}
    BY <1>1
  <2>2. QED
    BY <2>1, FS_EmptySet DEF HowMany
<1>5. HowMany(D, s, Len(s)) = Cardinality(D)
  <2>1. D \cap Prefix(s, Len(s)) = D
    BY <1>1
  <2>2. QED
    BY <2>1 DEF HowMany
<1>6. ASSUME NEW x \in 1 .. Len(s), s[x] \in D
      PROVE  /\ HowMany(D, s, x) = HowMany(D, s, x - 1) + 1
             /\ Rank(s[x], D) = HowMany(D, s, x - 1)
  <2>1. PICK C : C = D \cap Prefix(s, x - 1)
    OBVIOUS
  <2>2. IsFiniteSet(C) /\ s[x] \notin C
    BY <1>1, <1>3, <2>1
  <2>3. D \cap Prefix(s, x) = C \cup {s[x]}
    BY <1>1, <1>6, <2>1
  <2>4. Cardinality(C \cup {s[x]}) = Cardinality(C) + 1
    BY <2>2, FS_AddElement
  <2>5. {f \in D : Less(f, s[x])} = C
    BY <1>1, <2>1
  <2>6. QED
    BY <2>1, <2>3, <2>4, <2>5 DEF HowMany, Rank
<1>7. ASSUME NEW x \in 1 .. Len(s), s[x] \notin D
      PROVE  HowMany(D, s, x) = HowMany(D, s, x - 1)
  <2>1. D \cap Prefix(s, x) = D \cap Prefix(s, x - 1)
    BY <1>1, <1>7
  <2>2. QED
    BY <2>1 DEF HowMany
<1>8. QED
  BY <1>1, <1>2, <1>3, <1>4, <1>5, <1>6, <1>7

-----------------------------------------------------------------------------
(* The invariant of a pass that a worker can load *)

\* All blocks of the worker have edges, and vertex 0 is not the only source before its own.
Loadable(k) == ~ OnlyZeroBefore(k) /\ \A b \in Shard : Block(b, k) # {}

\* The edges of file (shard, p) among the first x of the pass.
Count(p, x) == HowMany(FileEdges(shard, p), shovelbuf, x)

\* The edges from a + 1 on, up to b, are the next row of file p, that of vertex cur.
Pending(p, cur, written, a, b) ==
  /\ \A x \in a + 1 .. b :
       /\ shovelbuf[x][1] = cur /\ shovelbuf[x][2] \in Interval(p)
       /\ List(shard, p)[Count(p, a) + (x - a)] = shovelbuf[x]
  /\ a # b => ~ written
  /\ \A q \in Shard : Count(q, b) = IF q = p THEN Count(q, a) + (b - a) ELSE Count(q, a)

\* File p is at or before the sources of the edges after the first b that are still to come.
Cursor(p, cur, written, b) ==
  /\ cur \in Nat /\ written \in BOOLEAN
  /\ p # shard => cur \in Interval(shard)
  /\ b = 0 => ~ written
  /\ \A x \in b + 1 .. Len(shovelbuf) :
       /\ p = shard \/ shovelbuf[x][1] \in Interval(shard) => cur <= shovelbuf[x][1]
       /\ written /\ shovelbuf[x][2] \in Interval(p) => cur < shovelbuf[x][1]

\* Between sources outside the interval the pending edges are a row of the in-edges, even
\* when current_memory_shard, at first 0, does not say so.
Outside == pc # "turn" /\ curvid \notin Interval(shard)
RowFile == IF Outside THEN shard ELSE cms

OwnEdge == Owner(Src) = shard
LeftInterval == pc = "source" /\ ~ Outside /\ ~ OwnEdge /\ ~ willout /\ cms = shard

FilesRight ==
  \A p \in Shard : /\ Written(shard, p, File(p), Count(p, istart))
                   /\ Cursor(p, File(p).curvid, File(p).vid_written, i)

RowPending == Pending(RowFile, File(RowFile).curvid, File(RowFile).vid_written, istart, i)

\* Whether edges are pending, and what kind of edge has been seen last.
Control ==
  /\ \/ i = 0
     \/ istart < i
     \/ pc \in {"turn", "source"} /\ OwnEdge /\ cms = index
     \/ LeftInterval
  /\ Outside => File(shard).curvid = curvid /\ ~ File(shard).vid_written /\ ~ willout
  /\ ~ Outside /\ i # 0 /\ istart < i => willout
  /\ pc = "source" /\ OwnEdge => File(cms).curvid = Src /\ ~ File(cms).vid_written /\ willout
  /\ pc = "turn" => willout

WriteInv == FilesRight /\ RowPending /\ Control

\* curvid is the source of the edge before, or of the own one at hand.
CurInv ==
  curvid = IF pc = "source" /\ OwnEdge THEN Src ELSE IF i = 0 THEN 0 ELSE shovelbuf[i][1]

\* A subgraph that reshard takes no notice of a source 0 in: unless no row is written
\* before the assertion fails, it has no edges between own vertices.
DoomInv ==
  OnlyZeroBefore(shard) =>
    \/ Block(shard, shard) = {}
    \/ /\ istart = 0 /\ cms = 0
       /\ \A x \in 1 .. i : shovelbuf[x][1] \in Interval(shard) => shovelbuf[x][2] \in Interval(0)

\* The files of the subgraphs that are done, and of those to come.
FilesAre(k, f) ==
  /\ Loadable(k) => \A p \in Shard :
       /\ Written(k, p, f[p], Cardinality(FileEdges(k, p)))
       /\ p # k => NextVertex(f[p]) <= graph.last[k] + 1
  /\ OnlyZeroBefore(k) => Block(k, k) = {}

FilesInv ==
  /\ pc \notin {"failed", "done"} => CurInv /\ DoomInv /\ (Loadable(shard) => WriteInv)
  /\ pc # "failed" => \A k \in Shard : k < shard => FilesAre(k, wsl[k])
  /\ \A k \in Shard : k > shard => \A p \in Shard : wsl[k][p] = NewFile(graph, k, p)
  /\ pc = "done" => shovelbuf = <<>> /\ i = 0 /\ istart = 0

-----------------------------------------------------------------------------
(* The edges of a file and their order *)

\* The edges of a file; those of a sliding shard are a block.
LEMMA FileFacts ==
  ASSUME graph \in Inputs, NEW k \in Shard, NEW p \in Shard
  PROVE  /\ FileEdges(k, p) \in SUBSET graph.edges /\ FileEdges(k, p) \in SUBSET (Nat \X Nat)
         /\ FileEdges(k, p) \in SUBSET Shovel(k, graph.edges)
         /\ IsFiniteSet(FileEdges(k, p))
         /\ p # k => FileEdges(k, p) = Block(k, p)
         /\ Cardinality(FileEdges(k, p)) \in Nat /\ Len(List(k, p)) = Cardinality(FileEdges(k, p))
         /\ \A e \in FileEdges(k, p) : List(k, p)[Rank(e, FileEdges(k, p)) + 1] = e
<1>1. /\ FileEdges(k, p) \in SUBSET graph.edges
      /\ FileEdges(k, p) \in SUBSET Shovel(k, graph.edges)
  BY DEF FileEdges, Shovel
<1>2. IsFiniteSet(graph.edges) /\ graph.edges \in SUBSET (Nat \X Nat)
  BY GraphFacts
<1>3. FileEdges(k, p) \in SUBSET (Nat \X Nat) /\ IsFiniteSet(FileEdges(k, p))
  BY <1>1, <1>2, FS_Subset
<1>4. ASSUME p # k PROVE FileEdges(k, p) = Block(k, p)
  <2>1. ASSUME NEW e \in graph.edges PROVE e \in FileEdges(k, p) <=> e \in Block(k, p)
    <3>1. e[2] \in Interval(p) => e[2] \notin Interval(k)
      BY <1>4, OwnerFacts
    <3>2. QED
      BY <3>1 DEF FileEdges, Block, Shovel
  <2>2. Block(k, p) \in SUBSET graph.edges
    BY DEF Block
  <2>3. QED
    BY <1>1, <2>1, <2>2
<1>5. /\ Cardinality(FileEdges(k, p)) \in Nat /\ Len(List(k, p)) = Cardinality(FileEdges(k, p))
      /\ \A e \in FileEdges(k, p) : List(k, p)[Rank(e, FileEdges(k, p)) + 1] = e
  BY <1>3, SortedAt DEF List
<1>6. QED
  BY <1>1, <1>3, <1>4, <1>5

\* The intervals are in the order of their vertices.
LEMMA IntervalOrder ==
  ASSUME graph \in Inputs, NEW k \in Shard, NEW j \in Shard, NEW v \in Interval(k), NEW u \in Interval(j)
  PROVE  /\ v \in Nat /\ u \in Nat /\ k \in Nat /\ j \in Nat
         /\ v <= u => k <= j
         /\ k < j => v < u
<1>1. /\ k \in Nat /\ j \in Nat
      /\ graph.first[k] \in Nat /\ graph.last[k] \in Nat /\ graph.first[j] \in Nat /\ graph.last[j] \in Nat
      /\ j < k => graph.last[j] < graph.first[k]
      /\ k < j => graph.last[k] < graph.first[j]
  BY GraphFacts
<1>2. v \in graph.first[k] .. graph.last[k] /\ u \in graph.first[j] .. graph.last[j]
  BY DEF Interval
<1>3. QED
  BY <1>1, <1>2

\* A pass goes through its edges in order of their sources, and of their targets.
LEMMA ShovelOrder ==
  ASSUME Typed, PassAt
  PROVE  /\ Len(shovelbuf) \in Nat /\ i \in Nat /\ istart \in Nat /\ istart <= i /\ i <= Len(shovelbuf)
         /\ shard \in Shard /\ graph \in Inputs
         /\ \A e \in Shovel(shard, graph.edges) : \E x \in 1 .. Len(shovelbuf) : shovelbuf[x] = e
         /\ \A x \in 1 .. Len(shovelbuf) :
              /\ shovelbuf[x] \in Shovel(shard, graph.edges) /\ shovelbuf[x] \in graph.edges
              /\ shovelbuf[x] = <<shovelbuf[x][1], shovelbuf[x][2]>>
              /\ shovelbuf[x][1] \in Nat /\ shovelbuf[x][2] \in Nat
         /\ \A x \in 1 .. Len(shovelbuf) : \A y \in 1 .. Len(shovelbuf) : x < y =>
              /\ shovelbuf[x][1] <= shovelbuf[y][1]
              /\ shovelbuf[x][1] = shovelbuf[y][1] => shovelbuf[x][2] < shovelbuf[y][2]
<1>1. /\ graph \in Inputs /\ shard \in Shard /\ shovelbuf = Sorted(Shovel(shard, graph.edges))
      /\ i \in 0 .. Len(shovelbuf) /\ istart \in 0 .. i
  BY DEF Typed, PassAt
<1>2. /\ Ascending(shovelbuf, Shovel(shard, graph.edges))
      /\ Len(shovelbuf) \in Nat
      /\ \A x \in 1 .. Len(shovelbuf) :
           shovelbuf[x] \in Shovel(shard, graph.edges) /\ shovelbuf[x] \in graph.edges
  BY <1>1, PassFacts
<1>3. ASSUME NEW x \in 1 .. Len(shovelbuf)
      PROVE  /\ shovelbuf[x] = <<shovelbuf[x][1], shovelbuf[x][2]>>
             /\ shovelbuf[x][1] \in Nat /\ shovelbuf[x][2] \in Nat
  <2>1. shovelbuf[x] \in Nat \X Nat
    BY <1>1, <1>2, GraphFacts
  <2>2. QED
    BY <2>1
<1>4. ASSUME NEW x \in 1 .. Len(shovelbuf), NEW y \in 1 .. Len(shovelbuf), x < y
      PROVE  /\ shovelbuf[x][1] <= shovelbuf[y][1]
             /\ shovelbuf[x][1] = shovelbuf[y][1] => shovelbuf[x][2] < shovelbuf[y][2]
  <2>1. Less(shovelbuf[x], shovelbuf[y])
    BY <1>2, <1>4 DEF Ascending
  <2>2. QED
    BY <1>3, <2>1 DEF Less
<1>5. \A e \in Shovel(shard, graph.edges) : \E x \in 1 .. Len(shovelbuf) : shovelbuf[x] = e
  BY <1>2 DEF Ascending
<1>6. i \in Nat /\ istart \in Nat /\ istart <= i /\ i <= Len(shovelbuf)
  BY <1>1, <1>2
<1>7. QED
  BY <1>1, <1>2, <1>3, <1>4, <1>5, <1>6

\* Counting the edges of a file as the pass goes on.
LEMMA CountFacts ==
  ASSUME Typed, PassAt, NEW p \in Shard
  PROVE  /\ Count(p, 0) = 0 /\ Count(p, Len(shovelbuf)) = Cardinality(FileEdges(shard, p))
         /\ \A x \in 0 .. Len(shovelbuf) : Count(p, x) \in Nat /\ Count(p, x) <= Len(List(shard, p))
         /\ Len(List(shard, p)) \in Nat
         /\ \A x \in 1 .. Len(shovelbuf) :
              /\ shovelbuf[x][2] \in Interval(p) =>
                   /\ Count(p, x) = Count(p, x - 1) + 1
                   /\ List(shard, p)[Count(p, x - 1) + 1] = shovelbuf[x]
              /\ shovelbuf[x][2] \notin Interval(p) => Count(p, x) = Count(p, x - 1)
<1>1. PICK U : U = Shovel(shard, graph.edges)
  OBVIOUS
<1>2. PICK D : D = FileEdges(shard, p)
  OBVIOUS
<1>3. graph \in Inputs /\ shard \in Shard /\ Ascending(shovelbuf, U)
  BY <1>1, PassFacts DEF Typed, PassAt
<1>4. U \in SUBSET (Nat \X Nat) /\ IsFiniteSet(U)
  <2>1. U \in SUBSET graph.edges
    BY <1>1 DEF Shovel
  <2>2. QED
    BY <1>3, <2>1, GraphFacts, FS_Subset
<1>5. /\ D \in SUBSET U /\ Cardinality(D) \in Nat /\ Len(List(shard, p)) = Cardinality(D)
      /\ \A e \in D : List(shard, p)[Rank(e, D) + 1] = e
  BY <1>1, <1>2, <1>3, FileFacts
<1>6. /\ HowMany(D, shovelbuf, 0) = 0 /\ HowMany(D, shovelbuf, Len(shovelbuf)) = Cardinality(D)
      /\ \A x \in 0 .. Len(shovelbuf) :
           HowMany(D, shovelbuf, x) \in Nat /\ HowMany(D, shovelbuf, x) <= Cardinality(D)
      /\ \A x \in 1 .. Len(shovelbuf) :
           /\ shovelbuf[x] \in D => /\ HowMany(D, shovelbuf, x) = HowMany(D, shovelbuf, x - 1) + 1
                                    /\ Rank(shovelbuf[x], D) = HowMany(D, shovelbuf, x - 1)
           /\ shovelbuf[x] \notin D => HowMany(D, shovelbuf, x) = HowMany(D, shovelbuf, x - 1)
  BY <1>3, <1>4, <1>5, PrefixCount
<1>7. \A x : Count(p, x) = HowMany(D, shovelbuf, x)
  BY <1>2 DEF Count
<1>8. ASSUME NEW x \in 1 .. Len(shovelbuf)
      PROVE  shovelbuf[x] \in D <=> shovelbuf[x][2] \in Interval(p)
  <2>1. shovelbuf[x] \in Shovel(shard, graph.edges)
    BY ShovelOrder
  <2>2. QED
    BY <1>2, <2>1 DEF FileEdges
<1>9. QED
  BY <1>2, <1>5, <1>6, <1>7, <1>8

-----------------------------------------------------------------------------
(* What a row and a run of zeros do to a file *)

\* The row of the pending edges: what is written is the beginning of the list up to them.
LEMMA RowWritten ==
  ASSUME Typed, PassAt, NEW q \in Shard, NEW w, IsFile(w), w.curvid \in Nat, w.vid_written \in BOOLEAN,
         Written(shard, q, w, Count(q, istart)),
         Pending(q, w.curvid, w.vid_written, istart, i)
  PROVE  LET u == WithRow(w)
         IN  /\ IsFile(u) /\ u.curvid = w.curvid
             /\ i = istart => u.vid_written = w.vid_written
             /\ i # istart => u.vid_written = TRUE
             /\ Written(shard, q, u, Count(q, i))
<1>1. PICK u : u = WithRow(w)
  OBVIOUS
<1>2. CASE i = istart
  <2>1. u = w
    BY <1>1, <1>2 DEF WithRow
  <2>2. QED
    BY <1>1, <1>2, <2>1
<1>3. CASE i # istart
  <2>1. PICK t : t = PendingTargets
    OBVIOUS
  <2>2. PICK m : m = i - istart
    OBVIOUS
  <2>3. /\ i \in Nat /\ istart \in Nat /\ m \in Nat /\ m > 0 /\ i <= Len(shovelbuf) /\ Len(shovelbuf) \in Nat
        /\ i = istart + m /\ i \in 0 .. Len(shovelbuf)
    BY <1>3, <2>2, ShovelOrder
  <2>4. \A x \in 1 .. m : istart + x \in istart + 1 .. i /\ istart + x \in 1 .. Len(shovelbuf)
                          /\ istart + x - istart = x
    BY <2>3
  <2>5. t = [x \in 1 .. m |-> shovelbuf[istart + x][2]]
    BY <2>1, <2>2 DEF PendingTargets
  <2>6. \A x \in 1 .. Len(shovelbuf) : /\ shovelbuf[x] = <<shovelbuf[x][1], shovelbuf[x][2]>>
                                       /\ shovelbuf[x][1] \in Nat /\ shovelbuf[x][2] \in Nat
    BY ShovelOrder
  <2>7. t \in Seq(Nat) /\ Len(t) = m /\ \A x \in 1 .. m : t[x] = shovelbuf[istart + x][2]
    <3>1. \A x \in 1 .. m : shovelbuf[istart + x][2] \in Nat
      BY <2>4, <2>6
    <3>2. m \in Nat
      BY <2>3
    <3>3. t \in Seq(Nat) /\ Len(t) = m
      BY <2>5, <3>1, <3>2
    <3>4. QED
      BY <2>5, <3>3
  <2>8. PICK L : L = List(shard, q)
    OBVIOUS
  <2>9. PICK c : c = Count(q, istart)
    OBVIOUS
  <2>10. /\ Count(q, i) = c + m /\ Len(L) \in Nat /\ c + m <= Len(L) /\ ~ w.vid_written
         /\ \A x \in istart + 1 .. i : shovelbuf[x][1] = w.curvid /\ L[c + (x - istart)] = shovelbuf[x]
    BY <1>3, <2>2, <2>3, <2>8, <2>9, CountFacts DEF Pending
  <2>11. ASSUME NEW x \in 1 .. m PROVE L[c + x] = <<w.curvid, t[x]>>
    <3>1. PICK y : y = istart + x
      OBVIOUS
    <3>2. y \in istart + 1 .. i /\ y \in 1 .. Len(shovelbuf) /\ y - istart = x
      BY <2>3, <3>1
    <3>3. shovelbuf[y][1] = w.curvid /\ L[c + x] = shovelbuf[y]
      BY <2>10, <3>2
    <3>4. shovelbuf[y] = <<shovelbuf[y][1], shovelbuf[y][2]>> /\ t[x] = shovelbuf[y][2]
      BY <2>6, <2>7, <3>1, <3>2
    <3>5. QED
      BY <3>3, <3>4
  <2>12. PICK R : Rows(w.adj, Base(shard, q), L, R, w.curvid, c)
    BY <2>8, <2>9, <2>10 DEF Written, NextVertex
  <2>13. \E S : Rows(w.adj \o Row(t), Base(shard, q), L, S, w.curvid + 1, c + m)
    BY <2>3, <2>7, <2>10, <2>11, <2>12, AppendRow
  <2>14. PICK a : a = w.adj \o Row(t)
    OBVIOUS
  <2>15. u = [w EXCEPT !.adj = a, !.vid_written = TRUE]
    BY <1>1, <1>3, <2>1, <2>14 DEF WithRow
  <2>16. IsFile(u) /\ u.adj = a /\ u.vid_written = TRUE /\ u.curvid = w.curvid
    BY <2>15 DEF IsFile
  <2>17. NextVertex(u) = w.curvid + 1
    BY <2>16 DEF NextVertex
  <2>18. Written(shard, q, u, Count(q, i))
    BY <2>8, <2>10, <2>13, <2>14, <2>16, <2>17 DEF Written
  <2>19. QED
    BY <1>1, <1>3, <2>16, <2>18
<1>4. QED
  BY <1>2, <1>3

\* A file with a run of zeros is a file.
LEMMA ZerosFile ==
  ASSUME NEW w, IsFile(w), NEW src
  PROVE  IsFile(WithZeros(w, src))
<1>1. CASE Gap(w, src) > 0
  <2>1. PICK a : a = w.adj \o ZeroRuns(Gap(w, src))
    OBVIOUS
  <2>2. WithZeros(w, src) = [w EXCEPT !.adj = a]
    BY <1>1, <2>1 DEF WithZeros
  <2>3. QED
    BY <2>2 DEF IsFile
<1>2. CASE ~ (Gap(w, src) > 0)
  BY <1>2 DEF WithZeros
<1>3. QED
  BY <1>1, <1>2

\* A file that has come to the row of vertex src.
GoesTo(w, src, b) == [w EXCEPT !.vid_written = b, !.curvid = src]

\* The cursor of a file at a new source.
LEMMA GoesToFile ==
  ASSUME NEW w, IsFile(w), NEW src, NEW b
  PROVE  LET v == GoesTo(WithZeros(w, src), src, b)
         IN  IsFile(v) /\ v.curvid = src /\ v.vid_written = b
<1>1. PICK z : z = WithZeros(w, src)
  OBVIOUS
<1>2. IsFile(z)
  BY <1>1, ZerosFile
<1>3. PICK y : y = [z EXCEPT !.vid_written = b]
  OBVIOUS
<1>4. IsFile(y) /\ y.vid_written = b
  BY <1>2, <1>3 DEF IsFile
<1>5. PICK v : v = [y EXCEPT !.curvid = src]
  OBVIOUS
<1>6. IsFile(v) /\ v.curvid = src /\ v.vid_written = b
  BY <1>4, <1>5 DEF IsFile
<1>7. GoesTo(z, src, b) = v
  BY <1>3, <1>5 DEF GoesTo
<1>8. QED
  BY <1>1, <1>6, <1>7

\* A run of zeros up to the source keeps what is written the beginning of the list.
LEMMA ZerosWritten ==
  ASSUME NEW k, NEW p, NEW c, NEW w, IsFile(w), w.curvid \in Nat,
         Written(k, p, w, c), NEW src \in Nat, NextVertex(w) <= src
  PROVE  LET v == GoesTo(WithZeros(w, src), src, FALSE)
         IN  IsFile(v) /\ v.curvid = src /\ v.vid_written = FALSE /\ Written(k, p, v, c)
<1>0. PICK v : v = GoesTo(WithZeros(w, src), src, FALSE)
  OBVIOUS
<1>1. v = [WithZeros(w, src) EXCEPT !.vid_written = FALSE, !.curvid = src]
  BY <1>0 DEF GoesTo
<1>2. PICK R : Rows(w.adj, Base(k, p), List(k, p), R, NextVertex(w), c)
  BY DEF Written
<1>3. NextVertex(w) \in Nat /\ Gap(w, src) = src - NextVertex(w)
  BY DEF NextVertex, Gap
<1>4. PICK z : z = WithZeros(w, src)
  OBVIOUS
<1>5. IsFile(z) /\ \E S : Rows(z.adj, Base(k, p), List(k, p), S, src, c)
  <2>1. CASE Gap(w, src) > 0
    <3>1. PICK g : g = Gap(w, src)
      OBVIOUS
    <3>2. g \in Nat /\ g > 0 /\ NextVertex(w) + g = src
      BY <1>3, <2>1, <3>1
    <3>3. PICK a : a = w.adj \o ZeroRuns(g)
      OBVIOUS
    <3>4. z = [w EXCEPT !.adj = a]
      BY <1>4, <2>1, <3>1, <3>3 DEF WithZeros
    <3>5. IsFile(z) /\ z.adj = a
      BY <3>4 DEF IsFile
    <3>6. \E S : Rows(w.adj \o ZeroRuns(g), Base(k, p), List(k, p), S, NextVertex(w) + g, c)
      BY <1>2, <3>2, AppendZeros
    <3>7. QED
      BY <3>2, <3>3, <3>5, <3>6
  <2>2. CASE ~ (Gap(w, src) > 0)
    <3>1. src = NextVertex(w)
      BY <1>3, <2>2
    <3>2. z = w
      BY <1>4, <2>2 DEF WithZeros
    <3>3. QED
      BY <1>2, <3>1, <3>2
  <2>3. QED
    BY <2>1, <2>2
<1>6. IsFile(v) /\ v.adj = z.adj /\ v.curvid = src /\ v.vid_written = FALSE
  <2>1. PICK y : y = [z EXCEPT !.vid_written = FALSE]
    OBVIOUS
  <2>2. IsFile(y) /\ y.adj = z.adj /\ y.vid_written = FALSE
    BY <1>5, <2>1 DEF IsFile
  <2>3. v = [y EXCEPT !.curvid = src]
    BY <1>1, <1>4, <2>1
  <2>4. QED
    BY <2>2, <2>3 DEF IsFile
<1>7. NextVertex(v) = src
  BY <1>6 DEF NextVertex
<1>8. QED
  BY <1>0, <1>5, <1>6, <1>7 DEF Written

\* The row of the vertex itself may be the last one.
LEMMA NoZeros ==
  ASSUME NEW k, NEW p, NEW c, NEW w, IsFile(w), NEW src \in Nat, w.curvid = src, w.vid_written = TRUE,
         Written(k, p, w, c)
  PROVE  LET v == GoesTo(WithZeros(w, src), src, TRUE)
         IN  IsFile(v) /\ v.curvid = src /\ v.vid_written = TRUE /\ Written(k, p, v, c)
<1>1. PICK v : v = GoesTo(WithZeros(w, src), src, TRUE)
  OBVIOUS
<1>2. Gap(w, src) = -1
  BY DEF Gap
<1>3. WithZeros(w, src) = w
  BY <1>2 DEF WithZeros
<1>4. v = w
  BY <1>1, <1>3 DEF IsFile, GoesTo
<1>5. QED
  BY <1>1, <1>4

-----------------------------------------------------------------------------
(* What the steps leave alone *)

\* What depends on the graph only stays.
LEMMA SameFiles ==
  ASSUME graph' = graph
  PROVE  /\ \A k : Shovel(k, graph.edges)' = Shovel(k, graph.edges)
         /\ \A k, p : FileEdges(k, p)' = FileEdges(k, p) /\ List(k, p)' = List(k, p)
         /\ \A k, p, w, c : Written(k, p, w, c)' <=> Written(k, p, w, c)
         /\ \A k : Loadable(k)' <=> Loadable(k)
<1>1. /\ Shard' = Shard /\ \A k : Interval(k)' = Interval(k)
      /\ \A k, p : Block(k, p)' = Block(k, p)
      /\ \A k : OnlyZeroBefore(k)' = OnlyZeroBefore(k)
  BY SameGraph
<1>2. \A k : Shovel(k, graph.edges)' = Shovel(k, graph.edges)
  BY <1>1 DEF Shovel, Interval
<1>3. \A k, p : FileEdges(k, p)' = FileEdges(k, p)
  BY <1>1, <1>2 DEF FileEdges, Shovel, Interval
<1>4. \A k, p : List(k, p)' = List(k, p)
  BY <1>3 DEF List
<1>5. \A k, p : Base(k, p)' = Base(k, p)
  BY DEF Base
<1>6. \A k, p, w, c : Written(k, p, w, c)' <=> Written(k, p, w, c)
  BY <1>4, <1>5 DEF Written
<1>7. \A k : Loadable(k)' <=> Loadable(k)
  BY <1>1 DEF Loadable
<1>8. QED
  BY <1>2, <1>3, <1>4, <1>6, <1>7

\* What depends on the pass only stays.
LEMMA SamePass ==
  ASSUME Within
  PROVE  /\ \A p, x : Count(p, x)' = Count(p, x)
         /\ \A p, cur, written, a, b : Pending(p, cur, written, a, b)' <=> Pending(p, cur, written, a, b)
         /\ \A p, cur, written, b : Cursor(p, cur, written, b)' <=> Cursor(p, cur, written, b)
<1>1. graph' = graph /\ shard' = shard /\ shovelbuf' = shovelbuf
  BY DEF Within
<1>2. Shard' = Shard /\ \A k : Interval(k)' = Interval(k)
  BY <1>1, SameGraph
<1>3. /\ \A k, p : FileEdges(k, p)' = FileEdges(k, p)
      /\ \A k, p : List(k, p)' = List(k, p)
  BY <1>1, SameFiles
<1>4. \A p, x : Count(p, x)' = Count(p, x)
  BY <1>1, <1>3 DEF Count
<1>5. \A p, cur, written, a, b : Pending(p, cur, written, a, b)' <=> Pending(p, cur, written, a, b)
  BY <1>1, <1>2, <1>3, <1>4 DEF Pending
<1>6. \A p, cur, written, b : Cursor(p, cur, written, b)' <=> Cursor(p, cur, written, b)
  BY <1>1, <1>2 DEF Cursor
<1>7. QED
  BY <1>4, <1>5, <1>6

-----------------------------------------------------------------------------
(* The steps of a pass: rows *)

\* The invariant after a step, from the files f that the step leaves.
LEMMA WriteFold ==
  ASSUME Within, NEW f, f = wsl'[shard], NEW r, r = RowFile', NEW a, a = istart', NEW b, b = i',
         \A p \in Shard : /\ Written(shard, p, f[p], Count(p, a))
                          /\ Cursor(p, f[p].curvid, f[p].vid_written, b),
         Pending(r, f[r].curvid, f[r].vid_written, a, b),
         Control'
  PROVE  WriteInv'
<1>1. graph' = graph /\ shard' = shard /\ Shard' = Shard
  BY SameGraph DEF Within
<1>2. /\ \A p, x : Count(p, x)' = Count(p, x)
      /\ \A p, cur, written, c, d : Pending(p, cur, written, c, d)' <=> Pending(p, cur, written, c, d)
      /\ \A p, cur, written, c : Cursor(p, cur, written, c)' <=> Cursor(p, cur, written, c)
      /\ \A k, p, w, c : Written(k, p, w, c)' <=> Written(k, p, w, c)
  BY <1>1, SamePass, SameFiles
<1>3. FilesRight'
  BY <1>1, <1>2 DEF FilesRight, File
<1>4. RowPending'
  BY <1>1, <1>2 DEF RowPending, File
<1>5. QED
  BY <1>3, <1>4 DEF WriteInv

\* Files that keep their rows, whatever values are appended to them.
SameRows ==
  \A p \in Shard : /\ wsl'[shard][p].adj = wsl[shard][p].adj
                   /\ wsl'[shard][p].curvid = wsl[shard][p].curvid
                   /\ wsl'[shard][p].vid_written = wsl[shard][p].vid_written

\* Rows and cursors that stay are of the same edges.
LEMMA KeepRows ==
  ASSUME SameRows, NEW p \in Shard, NEW c, Written(shard, p, File(p), c)
  PROVE  Written(shard, p, wsl'[shard][p], c)
<1>1. /\ wsl'[shard][p].adj = File(p).adj
      /\ wsl'[shard][p].curvid = File(p).curvid
      /\ wsl'[shard][p].vid_written = File(p).vid_written
  BY DEF SameRows, File
<1>2. NextVertex(wsl'[shard][p]) = NextVertex(File(p))
  BY <1>1 DEF NextVertex
<1>3. QED
  BY <1>1, <1>2 DEF Written

\* A value goes to a block and leaves the rows of the files alone.
LEMMA ValueRows ==
  ASSUME graph \in Inputs, Passing, BlocksInv, EdgeIn \/ EdgeOut
  PROVE  SameRows
<1>1. shard \in Shard /\ i < Len(shovelbuf) /\ Passing
  BY DEF EdgeIn, EdgeOut, Passing, PassAt, MoreEdges
<1>2. PICK e : e = Edge
  OBVIOUS
<1>3. \E c \in Shard : \E v :
        /\ wsl' = [wsl EXCEPT ![shard][c] = v]
        /\ v.adj = wsl[shard][c].adj /\ v.curvid = wsl[shard][c].curvid
        /\ v.vid_written = wsl[shard][c].vid_written
  <2>1. CASE EdgeIn
    <3>1. PICK c : c = css'
      OBVIOUS
    <3>2. c \in Shard
      BY <1>1, <2>1, <3>1, AtEdge DEF EdgeIn
    <3>3. PICK w : w = wsl[shard][c]
      OBVIOUS
    <3>4. PICK v : v = [w EXCEPT !.ins = Append(w.ins, e)]
      OBVIOUS
    <3>5. wsl' = [wsl EXCEPT ![shard][c] = v]
      BY <1>2, <2>1, <3>1, <3>3, <3>4 DEF EdgeIn, SetFile, File
    <3>6. IsFile(w)
      BY <1>1, <3>2, <3>3 DEF BlocksInv
    <3>7. v.adj = w.adj /\ v.curvid = w.curvid /\ v.vid_written = w.vid_written
      BY <3>4, <3>6 DEF IsFile
    <3>8. QED
      BY <3>2, <3>3, <3>5, <3>7
  <2>2. CASE EdgeOut
    <3>1. PICK c : c = index'
      OBVIOUS
    <3>2. c \in Shard
      BY <1>1, <2>2, <3>1, AtEdge DEF EdgeOut
    <3>3. PICK w : w = wsl[shard][c]
      OBVIOUS
    <3>4. PICK v : v = [w EXCEPT !.outs = Append(w.outs, e)]
      OBVIOUS
    <3>5. wsl' = [wsl EXCEPT ![shard][c] = v]
      BY <1>2, <2>2, <3>1, <3>3, <3>4 DEF EdgeOut, SetFile, File
    <3>6. IsFile(w)
      BY <1>1, <3>2, <3>3 DEF BlocksInv
    <3>7. v.adj = w.adj /\ v.curvid = w.curvid /\ v.vid_written = w.vid_written
      BY <3>4, <3>6 DEF IsFile
    <3>8. QED
      BY <3>2, <3>3, <3>5, <3>7
  <2>3. QED
    BY <2>1, <2>2
<1>4. PICK c, v :
        /\ c \in Shard
        /\ wsl' = [wsl EXCEPT ![shard][c] = v]
        /\ v.adj = wsl[shard][c].adj /\ v.curvid = wsl[shard][c].curvid
        /\ v.vid_written = wsl[shard][c].vid_written
  BY <1>3
<1>5. Differs(wsl', wsl, Shard, shard, c, v)
  <2>1. IsTable(wsl, Shard) /\ Replaced(wsl', wsl, shard, c, v)
    BY <1>4 DEF BlocksInv, IsTable, Replaced
  <2>2. QED
    BY <1>1, <1>4, <2>1, OneFile
<1>6. QED
  BY <1>1, <1>4, <1>5 DEF SameRows, Differs

\* No edge pending, and one more.
LEMMA PendingNone ==
  ASSUME Typed, PassAt, NEW p, NEW cur, NEW written
  PROVE  Pending(p, cur, written, i, i)
<1>1. i \in Nat /\ i \in 0 .. Len(shovelbuf)
  BY ShovelOrder
<1>2. \A q \in Shard : Count(q, i) \in Nat
  BY <1>1, CountFacts
<1>3. i + 1 .. i = {} /\ i - i = 0
  BY <1>1
<1>4. QED
  BY <1>2, <1>3 DEF Pending

\* The edge at hand joins the pending ones.
LEMMA PendingOn ==
  ASSUME Typed, PassAt, i < Len(shovelbuf), NEW a \in 0 .. i, NEW p \in Shard, NEW cur,
         Pending(p, cur, FALSE, a, i), Src = cur, Edge[2] \in Interval(p)
  PROVE  Pending(p, cur, FALSE, a, i + 1)
<1>1. i \in Nat /\ a \in Nat /\ a <= i /\ i + 1 \in 1 .. Len(shovelbuf) /\ i + 1 - 1 = i
      /\ a \in 0 .. Len(shovelbuf)
  BY ShovelOrder
<1>2. Edge = shovelbuf[i + 1] /\ Src = shovelbuf[i + 1][1]
  BY DEF Edge, Src
<1>3. PICK L : L = List(shard, p)
  OBVIOUS
<1>4. /\ \A x \in a + 1 .. i :
           shovelbuf[x][1] = cur /\ shovelbuf[x][2] \in Interval(p) /\ L[Count(p, a) + (x - a)] = shovelbuf[x]
      /\ \A q \in Shard : Count(q, i) = IF q = p THEN Count(q, a) + (i - a) ELSE Count(q, a)
  BY <1>3 DEF Pending
<1>5. /\ Count(p, i + 1) = Count(p, i) + 1 /\ L[Count(p, i) + 1] = shovelbuf[i + 1]
      /\ \A q \in Shard : q # p => Count(q, i + 1) = Count(q, i)
  <2>1. Count(p, i + 1) = Count(p, i) + 1 /\ L[Count(p, i) + 1] = shovelbuf[i + 1]
    BY <1>1, <1>2, <1>3, CountFacts
  <2>2. ASSUME NEW q \in Shard, q # p PROVE Count(q, i + 1) = Count(q, i)
    <3>1. shovelbuf[i + 1][2] \notin Interval(q)
      BY <1>2, <2>2, OwnerFacts DEF Typed
    <3>2. QED
      BY <1>1, <3>1, CountFacts
  <2>3. QED
    BY <2>1, <2>2
<1>6. Count(p, a) \in Nat /\ Count(p, i) = Count(p, a) + (i - a)
  BY <1>1, <1>4, CountFacts
<1>7. Count(p, i) + 1 = Count(p, a) + (i + 1 - a)
  BY <1>1, <1>6
<1>8. ASSUME NEW x \in a + 1 .. i + 1
      PROVE  shovelbuf[x][1] = cur /\ shovelbuf[x][2] \in Interval(p) /\ L[Count(p, a) + (x - a)] = shovelbuf[x]
  <2>1. x \in a + 1 .. i \/ x = i + 1
    BY <1>1
  <2>2. CASE x = i + 1
    <3>1. Count(p, a) + (x - a) = Count(p, i) + 1
      BY <1>1, <1>6, <2>2
    <3>2. L[Count(p, a) + (x - a)] = shovelbuf[x]
      BY <1>5, <2>2, <3>1
    <3>3. shovelbuf[x][1] = cur /\ shovelbuf[x][2] \in Interval(p)
      BY <1>2, <2>2
    <3>4. QED
      BY <3>2, <3>3
  <2>3. QED
    BY <1>4, <2>1, <2>2
<1>9. ASSUME NEW q \in Shard
      PROVE  Count(q, i + 1) = IF q = p THEN Count(q, a) + (i + 1 - a) ELSE Count(q, a)
  <2>1. CASE q = p
    BY <1>5, <1>7, <2>1
  <2>2. CASE q # p
    BY <1>4, <1>5, <2>2
  <2>3. QED
    BY <2>1, <2>2
<1>10. PICK b : b = i + 1
  OBVIOUS
<1>11. \A x \in a + 1 .. b :
         shovelbuf[x][1] = cur /\ shovelbuf[x][2] \in Interval(p)
         /\ List(shard, p)[Count(p, a) + (x - a)] = shovelbuf[x]
  BY <1>3, <1>8, <1>10
<1>12. \A q \in Shard : Count(q, b) = IF q = p THEN Count(q, a) + (b - a) ELSE Count(q, a)
  <2>1. b - a = i + 1 - a
    BY <1>1, <1>10
  <2>2. QED
    BY <1>9, <1>10, <2>1
<1>13. Pending(p, cur, FALSE, a, b)
  BY <1>11, <1>12 DEF Pending
<1>14. QED
  BY <1>10, <1>13

\* A cursor that is not behind the edges to come is not when there is one fewer.
LEMMA CursorOn ==
  ASSUME NEW p, NEW cur, NEW written, NEW b \in Nat, Cursor(p, cur, written, b)
  PROVE  Cursor(p, cur, written, b + 1)
<1>1. PICK l : l = Len(shovelbuf)
  OBVIOUS
<1>2. b + 1 # 0 /\ b + 1 \in Nat
  OBVIOUS
<1>3. ASSUME NEW x \in b + 1 + 1 .. l PROVE x \in b + 1 .. l
  BY <1>2
<1>4. QED
  BY <1>1, <1>2, <1>3 DEF Cursor

-----------------------------------------------------------------------------
(* The edge at hand among the edges of the pass *)

\* The sources before and after the edge at hand.
LEMMA Around ==
  ASSUME Typed, Passing, i < Len(shovelbuf)
  PROVE  /\ i \in Nat /\ istart \in Nat /\ istart <= i /\ Len(shovelbuf) \in Nat
         /\ i + 1 \in 1 .. Len(shovelbuf) /\ shovelbuf[i + 1] = Edge
         /\ \A x \in i + 1 .. Len(shovelbuf) :
              /\ x \in 1 .. Len(shovelbuf) /\ Src <= shovelbuf[x][1]
              /\ shovelbuf[x][1] = Src => Edge[2] <= shovelbuf[x][2]
         /\ i # 0 => /\ i \in 1 .. Len(shovelbuf) /\ shovelbuf[i][1] <= Src
                     /\ shovelbuf[i][1] = Src => shovelbuf[i][2] < Edge[2]
         /\ \A x \in 1 .. Len(shovelbuf) :
              shovelbuf[x][1] < Src => x \in 1 .. i /\ i # 0 /\ shovelbuf[x][1] <= shovelbuf[i][1]
<1>1. /\ i \in Nat /\ istart \in Nat /\ istart <= i /\ Len(shovelbuf) \in Nat
      /\ \A x \in 1 .. Len(shovelbuf) : shovelbuf[x][1] \in Nat /\ shovelbuf[x][2] \in Nat
      /\ \A x \in 1 .. Len(shovelbuf) : \A y \in 1 .. Len(shovelbuf) : x < y =>
           /\ shovelbuf[x][1] <= shovelbuf[y][1]
           /\ shovelbuf[x][1] = shovelbuf[y][1] => shovelbuf[x][2] < shovelbuf[y][2]
  BY ShovelOrder DEF Passing
<1>2. i + 1 \in 1 .. Len(shovelbuf) /\ shovelbuf[i + 1] = Edge /\ Edge[1] = Src
  BY AtEdge DEF Typed
<1>3. PICK l : l = Len(shovelbuf)
  OBVIOUS
<1>4. PICK b : b = i + 1
  OBVIOUS
<1>5. l \in Nat /\ b \in 1 .. l /\ shovelbuf[b] = Edge /\ shovelbuf[b][1] = Src /\ i < b /\ i \in Nat
      /\ b = i + 1
  BY <1>1, <1>2, <1>3, <1>4
<1>6. ASSUME NEW x \in b .. l
      PROVE  /\ x \in 1 .. l /\ Src <= shovelbuf[x][1]
             /\ shovelbuf[x][1] = Src => Edge[2] <= shovelbuf[x][2]
  <2>1. x \in 1 .. l /\ (x = b \/ b < x)
    BY <1>5
  <2>2. CASE x = b
    <3>1. shovelbuf[b][1] \in Nat /\ shovelbuf[b][2] \in Nat
      BY <1>1, <1>3, <1>5
    <3>2. QED
      BY <1>5, <2>1, <2>2, <3>1
  <2>3. CASE b < x
    <3>1. /\ shovelbuf[b][1] <= shovelbuf[x][1]
          /\ shovelbuf[b][1] = shovelbuf[x][1] => shovelbuf[b][2] < shovelbuf[x][2]
          /\ shovelbuf[b][2] \in Nat /\ shovelbuf[x][2] \in Nat
      BY <1>1, <1>3, <1>5, <2>1, <2>3
    <3>2. QED
      BY <1>5, <2>1, <3>1
  <2>4. QED
    BY <2>1, <2>2, <2>3
<1>7. i # 0 => /\ i \in 1 .. l /\ shovelbuf[i][1] <= Src
               /\ shovelbuf[i][1] = Src => shovelbuf[i][2] < Edge[2]
  <2>1. i # 0 => i \in 1 .. l
    BY <1>5
  <2>2. QED
    BY <1>1, <1>3, <1>5, <2>1
<1>8. ASSUME NEW x \in 1 .. l, shovelbuf[x][1] < Src
      PROVE  x \in 1 .. i /\ i # 0 /\ shovelbuf[x][1] <= shovelbuf[i][1]
  <2>1. shovelbuf[x][1] \in Nat /\ Src \in Nat
    BY <1>1, <1>3, <1>5
  <2>2. x \notin b .. l
    BY <1>6, <1>8, <2>1
  <2>3. x \in 1 .. i /\ i # 0 /\ (x = i \/ x < i)
    BY <1>5, <2>2
  <2>4. i \in 1 .. l
    BY <1>7, <2>3
  <2>5. QED
    BY <1>1, <1>3, <2>1, <2>3, <2>4
<1>9. QED
  BY <1>1, <1>3, <1>4, <1>5, <1>6, <1>7, <1>8

\* What a step writes in one file.
LEMMA FileSet ==
  ASSUME BlocksInv, shard \in Shard, NEW q \in Shard, NEW v, SetFile(q, v)
  PROVE  \A p \in Shard : wsl'[shard][p] = IF p = q THEN v ELSE File(p)
<1>1. IsTable(wsl, Shard) /\ Replaced(wsl', wsl, shard, q, v)
  BY DEF BlocksInv, IsTable, Replaced, SetFile
<1>2. Differs(wsl', wsl, Shard, shard, q, v)
  BY <1>1, OneFile
<1>3. QED
  BY <1>2 DEF Differs, File

\* The invariant before a step, file by file.
LEMMA FileNow ==
  ASSUME Typed, Passing, BlocksInv, WriteInv, NEW p \in Shard
  PROVE  /\ IsFile(File(p)) /\ File(p).curvid \in Nat /\ File(p).vid_written \in BOOLEAN
         /\ Written(shard, p, File(p), Count(p, istart))
         /\ Cursor(p, File(p).curvid, File(p).vid_written, i)
         /\ RowFile \in Shard
         /\ p # RowFile => Count(p, i) = Count(p, istart)
         /\ p = RowFile => Pending(p, File(p).curvid, File(p).vid_written, istart, i)
<1>1. shard \in Shard /\ cms \in Shard
  BY DEF Typed, Passing, PassAt
<1>2. IsFile(File(p))
  BY <1>1 DEF BlocksInv, File
<1>3. /\ Written(shard, p, File(p), Count(p, istart))
      /\ Cursor(p, File(p).curvid, File(p).vid_written, i)
  BY DEF WriteInv, FilesRight
<1>4. RowFile \in Shard
  BY <1>1 DEF RowFile
<1>5. /\ p # RowFile => Count(p, i) = Count(p, istart)
      /\ p = RowFile => Pending(p, File(p).curvid, File(p).vid_written, istart, i)
  BY DEF WriteInv, RowPending, Pending
<1>6. QED
  BY <1>2, <1>3, <1>4, <1>5 DEF Cursor

\* Outside the interval, the rows of a pass with an own edge to come or seen are in-edges,
\* unless the subgraph is one that reshard takes no notice of source 0 in.
LEMMA RowFileIs ==
  ASSUME Typed, Passing, pc # "failed", Loadable(shard),
         (i < Len(shovelbuf) /\ OwnEdge) \/ (pc = "value" /\ i = Len(shovelbuf)),
         pc \in {"value", "source"}, istart < i, Outside
  PROVE  cms = shard
<1>1. PassAt /\ RowInv /\ shard \in Shard /\ graph \in Inputs /\ curvid \notin Interval(shard)
  BY DEF Typed, Passing, PassAt, Outside
<1>2. SUFFICES ASSUME curvid = 0, OnlyZeros PROVE FALSE
  BY <1>1 DEF RowInv
<1>3. i \in Nat /\ istart \in Nat /\ i \in 1 .. i /\ 1 \in 1 .. i /\ Len(shovelbuf) \in Nat
  <2>1. i \in Nat /\ istart \in Nat /\ Len(shovelbuf) \in Nat
    BY <1>1, ShovelOrder
  <2>2. QED
    BY <2>1
<1>4. CASE i < Len(shovelbuf) /\ OwnEdge
  <2>1. shard # 0
    <3>1. /\ 0 \in Shard /\ graph.first[0] = 0 /\ graph.last[0] \in Nat
      BY <1>1, GraphFacts
    <3>2. 0 \in Interval(0)
      BY <3>1 DEF Interval
    <3>3. QED
      BY <1>1, <1>2, <3>2
  <2>2. ZeroFirst
    BY <1>2, <1>3, <2>1 DEF ZeroFirst, OnlyZeros
  <2>3. OnlyZeroBefore(shard)
    BY <1>4, <2>2, TurnFails DEF OwnEdge
  <2>4. QED
    BY <2>3 DEF Loadable
<1>5. CASE pc = "value" /\ i = Len(shovelbuf)
  <2>1. PICK e : e \in Block(shard, shard)
    BY <1>1 DEF Loadable
  <2>2. e \in Shovel(shard, graph.edges) /\ e[1] \in Interval(shard)
    BY <2>1 DEF Block, Shovel
  <2>3. PICK x \in 1 .. i : shovelbuf[x] = e
    BY <1>1, <1>5, <2>2, ShovelOrder
  <2>4. e[1] = 0
    BY <1>2, <2>3 DEF OnlyZeros
  <2>5. QED
    BY <1>1, <1>2, <2>2, <2>4
<1>6. QED
  BY <1>4, <1>5

-----------------------------------------------------------------------------
(* The steps of a pass that a worker can load *)

\* The files after a step that leaves all the rows.
LEMMA SameRowsFold ==
  ASSUME Typed, Passing, BlocksInv, WriteInv, Within, SameRows, UNCHANGED <<i, istart>>,
         NEW r \in Shard, r = RowFile', r = RowFile \/ istart = i, Control'
  PROVE  WriteInv'
<1>1. PICK f : f = wsl'[shard]
  OBVIOUS
<1>2. PICK a : a = istart'
  OBVIOUS
<1>3. PICK b : b = i'
  OBVIOUS
<1>4. a = istart /\ b = i
  BY <1>2, <1>3
<1>5. \A p \in Shard : f[p].curvid = File(p).curvid /\ f[p].vid_written = File(p).vid_written
  BY <1>1 DEF SameRows, File
<1>6. ASSUME NEW p \in Shard
      PROVE  /\ Written(shard, p, f[p], Count(p, a))
             /\ Cursor(p, f[p].curvid, f[p].vid_written, b)
  <2>1. /\ Written(shard, p, File(p), Count(p, istart))
        /\ Cursor(p, File(p).curvid, File(p).vid_written, i)
    BY FileNow
  <2>2. Written(shard, p, f[p], Count(p, istart))
    BY <1>1, <2>1, KeepRows
  <2>3. QED
    BY <1>4, <1>5, <2>1, <2>2
<1>7. Pending(r, f[r].curvid, f[r].vid_written, a, b)
  <2>1. CASE istart = i
    BY <1>4, <2>1, PendingNone DEF Passing
  <2>2. CASE r = RowFile
    <3>1. Pending(r, File(r).curvid, File(r).vid_written, istart, i)
      BY <2>2, FileNow
    <3>2. QED
      BY <1>4, <1>5, <3>1
  <2>3. QED
    BY <2>1, <2>2
<1>8. QED
  BY <1>1, <1>2, <1>3, <1>6, <1>7, WriteFold

\* WriteInv after the value of an in-edge.
LEMMA EdgeInWrite ==
  ASSUME Typed, Passing, BlocksInv, WriteInv, EdgeIn
  PROVE  WriteInv'
<1>1. /\ Within /\ pc = "value" /\ pc' = "source" /\ Owner(Src) # shard
      /\ UNCHANGED <<i, istart, cms, curvid, willout, index>>
  BY DEF EdgeIn, Within
<1>2. SameRows
  BY ValueRows DEF Typed
<1>3. /\ \A k : Interval(k)' = Interval(k)
      /\ shard' = shard /\ ~ OwnEdge' /\ Shard' = Shard
  BY <1>1, WithinFacts DEF OwnEdge, Within
<1>4. Outside' = Outside
  BY <1>1, <1>3 DEF Outside, Interval, Within
<1>5. RowFile' = RowFile
  BY <1>1, <1>3, <1>4 DEF RowFile
<1>6. Control'
  <2>1. Control /\ shard \in Shard
    BY DEF WriteInv, Passing, PassAt
  <2>2. i = 0 \/ istart < i
    BY <1>1, <2>1 DEF Control, LeftInterval
  <2>3. File(shard)'.curvid = File(shard).curvid /\ File(shard)'.vid_written = File(shard).vid_written
    BY <1>2, <1>3, <2>1 DEF SameRows, File
  <2>4. QED
    BY <1>1, <1>3, <1>4, <2>1, <2>2, <2>3 DEF Control
<1>7. PICK r : r = RowFile
  OBVIOUS
<1>8. r \in Shard /\ r = RowFile'
  BY <1>5, <1>7 DEF RowFile, Typed, Passing, PassAt
<1>9. QED
  BY <1>1, <1>2, <1>6, <1>7, <1>8, SameRowsFold

\* WriteInv after the value of an out-edge.
LEMMA EdgeOutWrite ==
  ASSUME Typed, Passing, BlocksInv, WriteInv, Loadable(shard), EdgeOut
  PROVE  WriteInv'
<1>1. /\ Within /\ pc = "value" /\ pc' = "turn" /\ Owner(Src) = shard /\ willout' = TRUE
      /\ i < Len(shovelbuf)
      /\ UNCHANGED <<i, istart, cms, curvid>>
  BY DEF EdgeOut, Within, MoreEdges
<1>2. SameRows
  BY ValueRows DEF Typed
<1>3. ~ Outside' /\ RowFile' = cms
  BY <1>1 DEF Outside, RowFile
<1>4. Control'
  <2>1. i = 0 \/ istart < i
    BY <1>1 DEF WriteInv, Control, LeftInterval
  <2>2. QED
    BY <1>1, <1>3, <2>1 DEF Control
<1>5. PICK r : r = cms
  OBVIOUS
<1>6. r = RowFile \/ istart = i
  <2>1. SUFFICES ASSUME istart # i PROVE r = RowFile
    OBVIOUS
  <2>2. istart < i
    BY <2>1, ShovelOrder DEF Passing
  <2>3. Outside => cms = shard
    BY <1>1, <2>2, RowFileIs DEF OwnEdge
  <2>4. QED
    BY <1>5, <2>3 DEF RowFile
<1>7. r \in Shard /\ r = RowFile'
  BY <1>3, <1>5 DEF Typed
<1>8. QED
  BY <1>1, <1>2, <1>4, <1>6, <1>7, SameRowsFold

\* The row at hand is the one of the edge.
LEMMA EndTurnWrite ==
  ASSUME Typed, Passing, BlocksInv, WriteInv, EndTurn
  PROVE  WriteInv'
<1>1. /\ Within /\ pc = "turn" /\ pc' = "source" /\ cms = index /\ Src = File(cms).curvid
      /\ curvid' = Src /\ UNCHANGED <<i, istart, cms, willout, index, wsl>>
  BY DEF EndTurn, Turned, Within
<1>2. SameRows
  BY <1>1 DEF SameRows
<1>3. /\ i < Len(shovelbuf) /\ Owner(Src) = shard /\ index = Owner(Edge[2]) /\ cms \in Shard
      /\ shard \in Shard
  BY <1>1 DEF Passing, PassAt, EdgeInv, Typed
<1>4. /\ Src \in Interval(shard) /\ Src \in Nat /\ Edge[2] \in Interval(cms)
  BY <1>1, <1>3, AtEdge DEF Typed
<1>5. shard' = shard /\ Interval(shard)' = Interval(shard) /\ OwnEdge' /\ Src' = Src
  BY <1>1, <1>3, WithinFacts DEF OwnEdge, Within
<1>6. ~ Outside' /\ ~ Outside
  BY <1>1, <1>4, <1>5 DEF Outside, Interval
<1>7. RowFile' = cms /\ RowFile = cms
  BY <1>1, <1>6 DEF RowFile
<1>8. ~ File(cms).vid_written
  <2>1. Cursor(cms, File(cms).curvid, File(cms).vid_written, i)
    BY <1>3, FileNow
  <2>2. i + 1 \in i + 1 .. Len(shovelbuf) /\ shovelbuf[i + 1] = Edge /\ Edge[1] = Src
    <3>1. i \in Nat /\ i + 1 \in 1 .. Len(shovelbuf) /\ shovelbuf[i + 1] = Edge /\ Edge[1] = Src
      BY <1>3, AtEdge DEF Typed
    <3>2. QED
      BY <3>1
  <2>3. File(cms).vid_written => File(cms).curvid < Src
    BY <1>4, <2>1, <2>2 DEF Cursor
  <2>4. QED
    BY <1>1, <1>4, <2>3
<1>9. File(cms)' = File(cms)
  BY <1>1, <1>5 DEF File
<1>10. Control'
  BY <1>1, <1>5, <1>6, <1>8, <1>9 DEF WriteInv, Control
<1>11. PICK r : r = cms
  OBVIOUS
<1>12. QED
  BY <1>1, <1>2, <1>3, <1>7, <1>10, <1>11, SameRowsFold

\* The last pending edge is in the row's file.
LEMMA LastPending ==
  ASSUME Typed, Passing, istart < i, NEW q \in Shard, NEW cur, NEW written,
         Pending(q, cur, written, istart, i)
  PROVE  i \in 1 .. Len(shovelbuf) /\ shovelbuf[i][1] = cur /\ shovelbuf[i][2] \in Interval(q)
<1>1. i \in Nat /\ istart \in Nat /\ i <= Len(shovelbuf) /\ Len(shovelbuf) \in Nat
  BY ShovelOrder DEF Passing
<1>2. i \in istart + 1 .. i /\ i \in 1 .. Len(shovelbuf)
  BY <1>1
<1>3. QED
  BY <1>2 DEF Pending

\* The row of another vertex or file: the one before is written.
LEMMA TurnWrite ==
  ASSUME Typed, Passing, BlocksInv, WriteInv, Turn, pc' # "failed"
  PROVE  WriteInv'
<1>1. /\ Within /\ pc = "turn" /\ pc' = "turn" /\ ~ Turned
      /\ SetFile(cms, [WithZeros(WithRow(File(cms)), Src)
                         EXCEPT !.vid_written = FirstNotWritten(File(cms)), !.curvid = Src])
      /\ istart' = i /\ cms' = index /\ UNCHANGED <<i, curvid, willout, index>>
  BY DEF Turn, Within
<1>2. /\ i < Len(shovelbuf) /\ Owner(Src) = shard /\ index = Owner(Edge[2]) /\ cms \in Shard
      /\ shard \in Shard /\ index \in Shard /\ PassAt /\ graph \in Inputs
  BY <1>1 DEF Passing, PassAt, EdgeInv, Typed
<1>3. Src \in Interval(shard) /\ Src \in Nat /\ Edge[2] \in Interval(index)
  BY <1>2, AtEdge
<1>4. RowFile = cms
  BY <1>1 DEF RowFile, Outside
<1>5. PICK q : q = cms
  OBVIOUS
<1>6. PICK w : w = File(q)
  OBVIOUS
<1>7. /\ IsFile(w) /\ w.curvid \in Nat /\ w.vid_written \in BOOLEAN /\ q \in Shard
      /\ Written(shard, q, w, Count(q, istart))
      /\ Cursor(q, w.curvid, w.vid_written, i)
      /\ Pending(q, w.curvid, w.vid_written, istart, i)
  BY <1>2, <1>4, <1>5, <1>6, FileNow
<1>8. PICK u : u = WithRow(w)
  OBVIOUS
<1>9. /\ IsFile(u) /\ u.curvid = w.curvid
      /\ i = istart => u.vid_written = w.vid_written
      /\ i # istart => u.vid_written = TRUE
      /\ Written(shard, q, u, Count(q, i))
  BY <1>2, <1>7, <1>8, RowWritten
<1>10. PICK b : b = FirstNotWritten(w)
  OBVIOUS
<1>11. PICK v : v = GoesTo(WithZeros(u, Src), Src, b)
  OBVIOUS
<1>12. b = (w.curvid = Src /\ i # 0)
  BY <1>10 DEF FirstNotWritten
<1>13. /\ i \in Nat /\ istart \in Nat /\ istart <= i /\ i + 1 \in i + 1 .. Len(shovelbuf)
       /\ shovelbuf[i + 1][1] = Src
       /\ \A x \in i + 1 .. Len(shovelbuf) :
            /\ x \in 1 .. Len(shovelbuf) /\ Src <= shovelbuf[x][1]
            /\ shovelbuf[x][1] = Src => Edge[2] <= shovelbuf[x][2]
       /\ i # 0 /\ shovelbuf[i][1] = Src => shovelbuf[i][2] < Edge[2]
  <2>1. Edge[1] = Src
    BY DEF Src
  <2>2. i \in Nat /\ i + 1 \in 1 .. Len(shovelbuf) /\ shovelbuf[i + 1] = Edge /\ Len(shovelbuf) \in Nat
    BY <1>2, Around
  <2>3. i + 1 \in i + 1 .. Len(shovelbuf)
    BY <2>2
  <2>4. QED
    BY <1>2, <2>1, <2>2, <2>3, Around
<1>14. b => istart < i /\ cms # index
  <2>1. b => cms # index
    BY <1>1, <1>5, <1>6, <1>12 DEF Turned
  <2>2. i = 0 \/ istart < i \/ cms = index
    BY <1>1 DEF WriteInv, Control, LeftInterval
  <2>3. QED
    BY <1>12, <2>1, <2>2
<1>15. IsFile(v) /\ v.curvid = Src /\ v.vid_written = b /\ Written(shard, q, v, Count(q, i))
  <2>0. IsFile(v) /\ v.curvid = Src /\ v.vid_written = b
    BY <1>9, <1>11, GoesToFile
  <2>1. CASE b
    <3>1. u.curvid = Src /\ u.vid_written = TRUE
      <4>1. istart < i /\ i # istart
        BY <1>13, <1>14, <2>1
      <4>2. QED
        BY <1>9, <1>12, <2>1, <4>1
    <3>2. b = TRUE /\ v = GoesTo(WithZeros(u, Src), Src, TRUE)
      <4>1. b = TRUE
        BY <1>12, <2>1
      <4>2. QED
        BY <1>11, <4>1
    <3>3. QED
      BY <1>3, <1>9, <3>1, <3>2, NoZeros, ZenonT(30)
  <2>2. CASE ~ b
    <3>1. w.curvid <= Src
      BY <1>3, <1>7, <1>13 DEF Cursor
    <3>2. u.vid_written => w.curvid < Src
      <4>1. SUFFICES ASSUME u.vid_written PROVE w.curvid # Src
        BY <1>3, <1>7, <3>1
      <4>2. i # 0
        <5>1. i = 0 => i = istart /\ ~ w.vid_written
          BY <1>7, <1>13 DEF Cursor
        <5>2. i = 0 => u.vid_written = w.vid_written
          BY <1>9, <5>1
        <5>3. QED
          BY <4>1, <5>1, <5>2
      <4>3. QED
        BY <1>12, <2>2, <4>2
    <3>3. NextVertex(u) <= Src /\ u.curvid \in Nat /\ u.vid_written \in BOOLEAN
      <4>1. u.curvid \in Nat /\ u.vid_written \in BOOLEAN
        BY <1>7, <1>9
      <4>2. CASE u.vid_written
        <5>1. u.curvid < Src /\ NextVertex(u) = u.curvid + 1
          BY <1>9, <3>2, <4>2 DEF NextVertex
        <5>2. QED
          BY <1>3, <4>1, <5>1
      <4>3. CASE ~ u.vid_written
        BY <1>9, <3>1, <4>1, <4>3 DEF NextVertex
      <4>4. QED
        BY <4>1, <4>2, <4>3
    <3>4. b = FALSE /\ v = GoesTo(WithZeros(u, Src), Src, FALSE)
      <4>1. b = FALSE
        BY <1>12, <2>2
      <4>2. QED
        BY <1>11, <4>1
    <3>5. Written(shard, q, v, Count(q, i))
      BY <1>3, <1>9, <3>3, <3>4, ZerosWritten
    <3>6. QED
      BY <2>0, <3>5
  <2>3. QED
    BY <2>1, <2>2
<1>16. Cursor(q, Src, b, i)
  <2>1. b \in BOOLEAN /\ (i = 0 => ~ b)
    BY <1>12
  <2>2. ASSUME NEW x \in i + 1 .. Len(shovelbuf), b, shovelbuf[x][2] \in Interval(q)
        PROVE  Src < shovelbuf[x][1]
    <3>1. x \in 1 .. Len(shovelbuf) /\ Src <= shovelbuf[x][1] /\ shovelbuf[x][1] \in Nat
          /\ shovelbuf[x][2] \in Nat /\ (shovelbuf[x][1] = Src => Edge[2] <= shovelbuf[x][2])
      BY <1>2, <1>13, ShovelOrder
    <3>2. SUFFICES ASSUME shovelbuf[x][1] = Src PROVE FALSE
      BY <1>3, <3>1
    <3>3. istart < i /\ q # index /\ i # 0 /\ w.curvid = Src
      BY <1>5, <1>12, <1>14, <2>2
    <3>4. shovelbuf[i][1] = w.curvid /\ shovelbuf[i][2] \in Interval(q)
      BY <1>7, <3>3, LastPending
    <3>5. shovelbuf[i][2] < Edge[2] /\ Edge[2] <= shovelbuf[x][2]
      BY <1>13, <3>1, <3>2, <3>3, <3>4
    <3>6. /\ Edge[2] \in Nat /\ shovelbuf[i][2] \in Nat /\ q \in Nat /\ index \in Nat
          /\ shovelbuf[i][2] <= Edge[2] => q <= index
          /\ Edge[2] <= shovelbuf[x][2] => index <= q
      <4>1. graph \in Inputs /\ q \in Shard /\ index \in Shard
        BY <1>2, <1>7
      <4>2. shovelbuf[i][2] \in Interval(q) /\ Edge[2] \in Interval(index) /\ shovelbuf[x][2] \in Interval(q)
        BY <1>3, <2>2, <3>4
      <4>3. /\ Edge[2] \in Nat /\ shovelbuf[i][2] \in Nat /\ q \in Nat /\ index \in Nat
            /\ shovelbuf[i][2] <= Edge[2] => q <= index
        BY <4>1, <4>2, IntervalOrder
      <4>4. Edge[2] <= shovelbuf[x][2] => index <= q
        BY <4>1, <4>2, IntervalOrder
      <4>5. QED
        BY <4>3, <4>4
    <3>7. QED
      BY <3>3, <3>5, <3>6
  <2>3. QED
    BY <1>3, <1>13, <2>1, <2>2 DEF Cursor
<1>17. PICK f : f = wsl'[shard]
  OBVIOUS
<1>18. \A p \in Shard : f[p] = IF p = q THEN v ELSE File(p)
  BY <1>1, <1>2, <1>5, <1>6, <1>8, <1>10, <1>11, <1>17, FileSet DEF GoesTo
<1>19. ASSUME NEW p \in Shard
       PROVE  Written(shard, p, f[p], Count(p, i)) /\ Cursor(p, f[p].curvid, f[p].vid_written, i)
  <2>1. CASE p = q
    BY <1>15, <1>16, <1>18, <2>1
  <2>2. CASE p # q
    <3>1. /\ Written(shard, p, File(p), Count(p, i))
          /\ Cursor(p, File(p).curvid, File(p).vid_written, i)
      <4>1. Count(p, i) = Count(p, istart)
        BY <1>4, <1>5, <2>2, FileNow
      <4>2. QED
        BY <4>1, FileNow
    <3>2. f[p] = File(p)
      BY <1>18, <2>2
    <3>3. QED
      BY <3>1, <3>2
  <2>3. QED
    BY <2>1, <2>2
<1>20. PICK r : r = index
  OBVIOUS
<1>21. r = RowFile' /\ ~ Outside'
  BY <1>1, <1>20 DEF RowFile, Outside
<1>22. Pending(r, f[r].curvid, f[r].vid_written, i, i)
  BY <1>2, PendingNone
<1>23. Control'
  <2>1. willout
    BY <1>1 DEF WriteInv, Control
  <2>2. OwnEdge'
    BY <1>1, <1>2, WithinFacts DEF OwnEdge, Within
  <2>3. QED
    BY <1>1, <1>21, <2>1, <2>2 DEF Control
<1>24. PICK a : a = i
  OBVIOUS
<1>25. a = istart' /\ a = i'
  BY <1>1, <1>24
<1>26. QED
  BY <1>1, <1>17, <1>19, <1>21, <1>22, <1>23, <1>24, <1>25, WriteFold

\* The edges of the interval end.
LEMMA LeaveWrite ==
  ASSUME Typed, Passing, BlocksInv, CurInv, WriteInv, LeaveInterval
  PROVE  WriteInv'
<1>1. /\ Within /\ pc = "source" /\ pc' = "source" /\ css = shard + 1 /\ willout /\ willout' = FALSE
      /\ SetFile(cms, WithRow(File(cms)))
      /\ istart' = i /\ cms' = shard /\ UNCHANGED <<i, css, curvid, index>>
  BY DEF LeaveInterval, Leaving, Within
<1>2. /\ i < Len(shovelbuf) /\ css = Owner(Src) /\ cms \in Shard /\ shard \in Shard /\ PassAt
      /\ graph \in Inputs
  BY <1>1 DEF Passing, PassAt, EdgeInv, Typed
<1>3. shard \in Nat /\ Owner(Src) # shard /\ Src \in Interval(Owner(Src)) /\ Owner(Src) \in Shard
      /\ Src \in Nat
  <2>1. shard \in Nat
    BY <1>2, GraphFacts
  <2>2. QED
    BY <1>1, <1>2, <2>1, AtEdge
<1>4. ~ Outside
  BY <1>1 DEF WriteInv, Control
<1>5. RowFile = cms /\ curvid \in Interval(shard) /\ curvid < Src
  <2>1. RowFile = cms /\ curvid \in Interval(shard)
    BY <1>1, <1>4 DEF RowFile, Outside
  <2>2. curvid \in Nat /\ (shard < Owner(Src) => curvid < Src)
    BY <1>2, <1>3, <2>1, IntervalOrder
  <2>3. shard < Owner(Src)
    BY <1>1, <1>2, <1>3
  <2>4. QED
    BY <2>1, <2>2, <2>3
<1>6. PICK q : q = cms
  OBVIOUS
<1>7. PICK w : w = File(q)
  OBVIOUS
<1>8. /\ IsFile(w) /\ w.curvid \in Nat /\ w.vid_written \in BOOLEAN /\ q \in Shard
      /\ Written(shard, q, w, Count(q, istart))
      /\ Cursor(q, w.curvid, w.vid_written, i)
      /\ Pending(q, w.curvid, w.vid_written, istart, i)
  BY <1>2, <1>5, <1>6, <1>7, FileNow
<1>9. PICK u : u = WithRow(w)
  OBVIOUS
<1>10. /\ IsFile(u) /\ u.curvid = w.curvid
       /\ i = istart => u.vid_written = w.vid_written
       /\ i # istart => u.vid_written = TRUE
       /\ Written(shard, q, u, Count(q, i))
  BY <1>2, <1>8, <1>9, RowWritten
<1>11. /\ i \in Nat /\ istart \in Nat /\ istart <= i
       /\ \A x \in i + 1 .. Len(shovelbuf) : x \in 1 .. Len(shovelbuf) /\ Src <= shovelbuf[x][1]
  BY <1>2, Around
<1>12. ASSUME i # istart
       PROVE  /\ q = shard => w.curvid = curvid
              /\ i # 0
  <2>1. istart < i /\ i # 0
    BY <1>11, <1>12
  <2>2. shovelbuf[i][1] = w.curvid
    BY <1>8, <2>1, LastPending
  <2>3. curvid = shovelbuf[i][1]
    BY <1>2, <1>3, <2>1 DEF CurInv, OwnEdge
  <2>4. QED
    BY <2>1, <2>2, <2>3
<1>13. Cursor(q, u.curvid, u.vid_written, i)
  <2>1. CASE i = istart
    <3>1. u.curvid = w.curvid /\ u.vid_written = w.vid_written
      BY <1>10, <2>1
    <3>2. QED
      BY <1>8, <3>1
  <2>2. CASE i # istart
    <3>1. ASSUME NEW x \in i + 1 .. Len(shovelbuf), shovelbuf[x][2] \in Interval(q)
          PROVE  w.curvid < shovelbuf[x][1]
      <4>1. /\ x \in 1 .. Len(shovelbuf) /\ Src <= shovelbuf[x][1] /\ shovelbuf[x][1] \in Nat
            /\ shovelbuf[x] \in Shovel(shard, graph.edges) /\ shovelbuf[x] \in graph.edges
        <5>1. x \in 1 .. Len(shovelbuf) /\ Src <= shovelbuf[x][1]
          BY <1>11
        <5>2. QED
          BY <1>2, <5>1, ShovelOrder
      <4>2. q = shard
        <5>1. shovelbuf[x][1] \notin Interval(shard)
          <6>1. SUFFICES ASSUME shovelbuf[x][1] \in Interval(shard) PROVE FALSE
            OBVIOUS
          <6>2. Src <= shovelbuf[x][1] => Owner(Src) <= shard
            BY <1>2, <1>3, <6>1, IntervalOrder
          <6>3. QED
            BY <1>1, <1>2, <1>3, <4>1, <6>2
        <5>2. shovelbuf[x][2] \in Interval(shard)
          BY <4>1, <5>1 DEF Shovel
        <5>3. QED
          BY <1>2, <1>8, <3>1, <5>2, OwnerFacts
      <4>3. w.curvid = curvid
        BY <1>12, <2>2, <4>2
      <4>4. curvid \in Nat
        BY DEF Typed
      <4>5. QED
        BY <1>3, <1>5, <4>1, <4>3, <4>4
    <3>2. i # 0
      BY <1>12, <2>2
    <3>3. u.curvid = w.curvid /\ u.vid_written = TRUE
      BY <1>10, <2>2
    <3>4. Cursor(q, w.curvid, TRUE, i)
      BY <1>8, <3>1, <3>2 DEF Cursor
    <3>5. QED
      BY <3>3, <3>4
  <2>3. QED
    BY <2>1, <2>2
<1>14. PICK f : f = wsl'[shard]
  OBVIOUS
<1>15. \A p \in Shard : f[p] = IF p = q THEN u ELSE File(p)
  BY <1>1, <1>2, <1>6, <1>7, <1>9, <1>14, FileSet
<1>16. ASSUME NEW p \in Shard
       PROVE  Written(shard, p, f[p], Count(p, i)) /\ Cursor(p, f[p].curvid, f[p].vid_written, i)
  <2>1. CASE p = q
    BY <1>10, <1>13, <1>15, <2>1
  <2>2. CASE p # q
    <3>1. Count(p, i) = Count(p, istart)
      BY <1>5, <1>6, <2>2, FileNow
    <3>2. f[p] = File(p)
      BY <1>15, <2>2
    <3>3. /\ Written(shard, p, File(p), Count(p, i))
          /\ Cursor(p, File(p).curvid, File(p).vid_written, i)
      BY <3>1, FileNow
    <3>4. QED
      BY <3>2, <3>3
  <2>3. QED
    BY <2>1, <2>2
<1>17. ~ Outside' /\ ~ OwnEdge'
  <2>1. \A k : Interval(k)' = Interval(k)
    BY <1>1, WithinFacts
  <2>2. Owner(Src)' = Owner(Src) /\ shard' = shard
    BY <1>1, WithinFacts DEF Within
  <2>3. QED
    BY <1>1, <1>3, <1>5, <2>1, <2>2 DEF Outside, OwnEdge, Interval
<1>18. PICK r : r = shard
  OBVIOUS
<1>19. r = RowFile'
  BY <1>1, <1>17, <1>18 DEF RowFile
<1>20. Pending(r, f[r].curvid, f[r].vid_written, i, i)
  BY <1>2, PendingNone
<1>21. Control'
  <2>1. LeftInterval' /\ i' = istart' /\ i' \in Nat
    BY <1>1, <1>11, <1>17 DEF LeftInterval, Within
  <2>2. QED
    BY <1>1, <1>17, <2>1 DEF Control
<1>22. PICK a : a = i
  OBVIOUS
<1>23. a = istart' /\ a = i'
  BY <1>1, <1>22
<1>24. QED
  BY <1>1, <1>14, <1>16, <1>19, <1>20, <1>21, <1>22, <1>23, WriteFold

\* After the interval there is no row of its edges left, when the next source comes.
LEMMA NextIsOutside ==
  ASSUME Typed, Passing, CurInv, WriteInv, Loadable(shard), NextSource, ~ Outside
  PROVE  ~ willout /\ istart = i
<1>1. /\ pc = "source" /\ ~ Leaving /\ Src # curvid /\ i < Len(shovelbuf) /\ css = Owner(Src)
      /\ (Owner(Src) = shard => curvid = Src) /\ PassAt
      /\ shard \in Shard /\ graph \in Inputs
  BY DEF NextSource, Passing, PassAt, EdgeInv, Typed
<1>2. Owner(Src) # shard /\ curvid \in Interval(shard)
  BY <1>1 DEF Outside
<1>3. /\ Owner(Src) \in Shard /\ Src \in Interval(Owner(Src)) /\ Src \in Nat /\ shard \in Nat
      /\ Owner(Src) \in Nat /\ curvid \in Nat
      /\ curvid <= Src => shard <= Owner(Src)
  <2>1. Owner(Src) \in Shard /\ Src \in Interval(Owner(Src))
    BY <1>1, AtEdge
  <2>2. QED
    BY <1>1, <1>2, <2>1, IntervalOrder
<1>4. curvid = IF i = 0 THEN 0 ELSE shovelbuf[i][1]
  BY <1>2 DEF CurInv, OwnEdge
<1>5. curvid <= Src
  <2>1. i # 0 => shovelbuf[i][1] <= Src
    BY <1>1, Around
  <2>2. QED
    BY <1>3, <1>4, <2>1
<1>6. Owner(Src) = shard + 1
  <2>1. SUFFICES ASSUME shard + 1 < Owner(Src) PROVE FALSE
    BY <1>2, <1>3, <1>5
  <2>2. PICK k : k = shard + 1
    OBVIOUS
  <2>3. k \in Shard /\ shard < k /\ k < Owner(Src)
    <3>1. P \in Nat /\ Shard = 0 .. P - 1
      BY <1>1, GraphFacts
    <3>2. QED
      BY <1>3, <2>1, <2>2, <3>1
  <2>4. PICK e : e \in Block(k, shard)
    BY <2>3 DEF Loadable
  <2>5. e \in Shovel(shard, graph.edges) /\ e[1] \in Interval(k)
    BY <2>4 DEF Block, Shovel
  <2>6. PICK x \in 1 .. Len(shovelbuf) : shovelbuf[x] = e
    BY <1>1, <2>5, ShovelOrder
  <2>7. curvid < e[1] /\ e[1] < Src /\ e[1] \in Nat
    <3>1. e[1] \in Nat /\ (shard < k => curvid < e[1])
      BY <1>1, <1>2, <2>3, <2>5, IntervalOrder
    <3>2. k < Owner(Src) => e[1] < Src
      BY <1>1, <1>3, <2>3, <2>5, IntervalOrder
    <3>3. QED
      BY <2>3, <3>1, <3>2
  <2>8. i # 0 /\ e[1] <= shovelbuf[i][1]
    BY <1>1, <2>6, <2>7, Around
  <2>9. QED
    BY <1>3, <1>4, <2>7, <2>8
<1>7. ~ willout
  BY <1>1, <1>6 DEF Leaving
<1>8. istart = i
  <2>1. i \in Nat /\ istart \in Nat /\ istart <= i
    BY <1>1, ShovelOrder
  <2>2. i # 0 /\ istart < i => willout
    BY DEF WriteInv, Control
  <2>3. QED
    BY <1>7, <2>1, <2>2
<1>9. QED
  BY <1>7, <1>8

\* A row of in-edges.
LEMMA NextSourceWrite ==
  ASSUME Typed, Passing, BlocksInv, CurInv, WriteInv, Loadable(shard), NextSource
  PROVE  WriteInv'
<1>1. /\ Within /\ pc = "source" /\ pc' = "value" /\ Src # curvid
      /\ SetFile(shard, [WithZeros(WithRow(File(shard)), Src) EXCEPT !.curvid = Src, !.vid_written = FALSE])
      /\ istart' = i /\ cms' = shard /\ curvid' = Src /\ i' = i + 1
      /\ UNCHANGED <<css, willout, index>>
  BY DEF NextSource, Within
<1>2. /\ i < Len(shovelbuf) /\ Owner(Src) # shard /\ shard \in Shard /\ PassAt /\ graph \in Inputs
  BY <1>1 DEF Passing, PassAt, EdgeInv, Typed
<1>3. Src \notin Interval(shard) /\ Src \in Nat /\ Edge[2] \in Interval(shard) /\ Edge[1] = Src
  BY <1>2, AtEdge, OwnerFacts
<1>4. /\ ~ willout /\ (RowFile = shard \/ istart = i)
  <2>1. CASE Outside
    BY <2>1 DEF WriteInv, Control, RowFile
  <2>2. CASE ~ Outside
    BY <2>2, NextIsOutside
  <2>3. QED
    BY <2>1, <2>2
<1>5. /\ i \in Nat /\ istart \in Nat /\ istart <= i /\ i + 1 \in i + 1 .. Len(shovelbuf)
      /\ shovelbuf[i + 1] = Edge
      /\ \A x \in i + 1 .. Len(shovelbuf) : Src <= shovelbuf[x][1]
  <2>1. i \in Nat /\ i + 1 \in 1 .. Len(shovelbuf) /\ Len(shovelbuf) \in Nat
    BY <1>2, Around
  <2>2. i + 1 \in i + 1 .. Len(shovelbuf)
    BY <2>1
  <2>3. QED
    BY <1>2, <2>2, Around
<1>6. PICK q : q = shard
  OBVIOUS
<1>7. PICK w : w = File(q)
  OBVIOUS
<1>8. /\ IsFile(w) /\ w.curvid \in Nat /\ w.vid_written \in BOOLEAN /\ q \in Shard
      /\ Written(shard, q, w, Count(q, istart))
      /\ Cursor(q, w.curvid, w.vid_written, i)
      /\ Pending(q, w.curvid, w.vid_written, istart, i)
  <2>1. istart = i => Pending(q, w.curvid, w.vid_written, istart, i)
    <3>1. Pending(q, w.curvid, w.vid_written, i, i)
      BY <1>2, PendingNone
    <3>2. QED
      BY <3>1
  <2>2. RowFile = q => Pending(q, w.curvid, w.vid_written, istart, i)
    BY <1>2, <1>6, <1>7, FileNow
  <2>3. Pending(q, w.curvid, w.vid_written, istart, i)
    BY <1>4, <1>6, <2>1, <2>2
  <2>4. QED
    BY <1>2, <1>6, <1>7, <2>3, FileNow
<1>9. PICK u : u = WithRow(w)
  OBVIOUS
<1>10. /\ IsFile(u) /\ u.curvid = w.curvid
       /\ i = istart => u.vid_written = w.vid_written
       /\ i # istart => u.vid_written = TRUE
       /\ Written(shard, q, u, Count(q, i))
  BY <1>2, <1>8, <1>9, RowWritten
<1>11. PICK v : v = GoesTo(WithZeros(u, Src), Src, FALSE)
  OBVIOUS
<1>12. w.curvid <= Src /\ (u.vid_written => w.curvid < Src)
  <2>1. w.curvid <= Src /\ (w.vid_written => w.curvid < Src)
    BY <1>3, <1>5, <1>6, <1>8 DEF Cursor
  <2>2. i # istart => w.curvid # Src
    <3>1. SUFFICES ASSUME i # istart PROVE w.curvid # Src
      OBVIOUS
    <3>2. istart < i /\ i # 0
      BY <1>5, <3>1
    <3>3. shovelbuf[i][1] = w.curvid
      BY <1>8, <3>2, LastPending
    <3>4. curvid = shovelbuf[i][1]
      BY <1>2, <3>2 DEF CurInv, OwnEdge
    <3>5. QED
      BY <1>1, <3>3, <3>4
  <2>3. QED
    BY <1>3, <1>8, <1>10, <2>1, <2>2
<1>13. IsFile(v) /\ v.curvid = Src /\ v.vid_written = FALSE /\ Written(shard, q, v, Count(q, i))
  <2>1. IsFile(v) /\ v.curvid = Src /\ v.vid_written = FALSE
    <3>1. PICK no : no = FALSE
      OBVIOUS
    <3>2. v = GoesTo(WithZeros(u, Src), Src, no)
      BY <1>11, <3>1
    <3>3. IsFile(v) /\ v.curvid = Src /\ v.vid_written = no
      BY <1>10, <3>2, GoesToFile
    <3>4. QED
      BY <3>1, <3>3
  <2>2. NextVertex(u) <= Src /\ u.curvid \in Nat
    <3>1. CASE u.vid_written
      <4>1. NextVertex(u) = w.curvid + 1
        BY <1>10, <3>1 DEF NextVertex
      <4>2. QED
        BY <1>3, <1>8, <1>10, <1>12, <3>1, <4>1
    <3>2. CASE ~ u.vid_written
      <4>1. NextVertex(u) = w.curvid
        BY <1>10, <3>2 DEF NextVertex
      <4>2. QED
        BY <1>8, <1>10, <1>12, <4>1
    <3>3. QED
      BY <3>1, <3>2
  <2>3. Written(shard, q, v, Count(q, i))
    BY <1>3, <1>10, <1>11, <2>2, ZerosWritten
  <2>4. QED
    BY <2>1, <2>3
<1>14. PICK f : f = wsl'[shard]
  OBVIOUS
<1>15. \A p \in Shard : f[p] = IF p = q THEN v ELSE File(p)
  <2>1. PICK z : z = WithZeros(WithRow(File(shard)), Src)
    OBVIOUS
  <2>2. [z EXCEPT !.curvid = Src, !.vid_written = FALSE] = [z EXCEPT !.vid_written = FALSE, !.curvid = Src]
    OBVIOUS
  <2>3. SetFile(shard, v)
    BY <1>1, <1>6, <1>7, <1>9, <1>11, <2>1, <2>2 DEF GoesTo
  <2>4. QED
    BY <1>2, <1>6, <1>14, <2>3, FileSet
<1>16. ASSUME NEW p \in Shard
       PROVE  Written(shard, p, f[p], Count(p, i)) /\ Cursor(p, f[p].curvid, f[p].vid_written, i)
  <2>1. CASE p = q
    <3>1. Cursor(q, Src, FALSE, i)
      BY <1>3, <1>5, <1>6 DEF Cursor
    <3>2. f[p] = v
      BY <1>15, <2>1
    <3>3. Cursor(p, v.curvid, v.vid_written, i)
      BY <1>13, <2>1, <3>1
    <3>4. QED
      BY <1>13, <2>1, <3>2, <3>3
  <2>2. CASE p # q
    <3>1. Count(p, i) = Count(p, istart)
      BY <1>4, <1>6, <2>2, FileNow
    <3>2. f[p] = File(p)
      BY <1>15, <2>2
    <3>3. /\ Written(shard, p, File(p), Count(p, i))
          /\ Cursor(p, File(p).curvid, File(p).vid_written, i)
      BY <3>1, FileNow
    <3>4. QED
      BY <3>2, <3>3
  <2>3. QED
    BY <2>1, <2>2
<1>17. PICK b : b = i + 1
  OBVIOUS
<1>18. \A p \in Shard : /\ Written(shard, p, f[p], Count(p, i))
                        /\ Cursor(p, f[p].curvid, f[p].vid_written, b)
  BY <1>5, <1>16, <1>17, CursorOn
<1>19. Pending(q, Src, FALSE, i, b)
  <2>1. Pending(q, Src, FALSE, i, i)
    BY <1>2, PendingNone
  <2>2. i \in 0 .. i
    BY <1>5
  <2>3. Pending(q, Src, FALSE, i, i + 1)
    BY <1>2, <1>3, <1>6, <2>1, <2>2, PendingOn
  <2>4. QED
    BY <1>17, <2>3
<1>20. f[q] = v
  BY <1>8, <1>15
<1>21. Pending(q, f[q].curvid, f[q].vid_written, i, b)
  BY <1>13, <1>19, <1>20
<1>22. \A k : Interval(k)' = Interval(k)
  BY <1>1, WithinFacts
<1>23. Outside' /\ q = RowFile' /\ shard' = shard
  <2>1. shard' = shard
    BY <1>1 DEF Within
  <2>2. Outside'
    BY <1>1, <1>3, <1>22, <2>1 DEF Outside, Interval
  <2>3. QED
    BY <1>6, <2>1, <2>2 DEF RowFile
<1>24. Control'
  <2>1. istart' < i'
    BY <1>1, <1>5
  <2>2. File(shard)' = v
    BY <1>6, <1>14, <1>20, <1>23 DEF File
  <2>3. QED
    BY <1>1, <1>4, <1>13, <1>23, <2>1, <2>2 DEF Control
<1>25. PICK a : a = i
  OBVIOUS
<1>26. a = istart' /\ b = i'
  BY <1>1, <1>17, <1>25
<1>27. QED
  BY <1>1, <1>8, <1>14, <1>18, <1>21, <1>23, <1>24, <1>25, <1>26, WriteFold

\* One more edge of the row.
LEMMA SameSourceWrite ==
  ASSUME Typed, Passing, BlocksInv, WriteInv, SameSource
  PROVE  WriteInv'
<1>1. /\ Within /\ pc = "source" /\ pc' = "value" /\ Src = curvid /\ i' = i + 1
      /\ UNCHANGED <<istart, css, cms, curvid, willout, index, wsl>>
  BY DEF SameSource, Within
<1>2. /\ i < Len(shovelbuf) /\ shard \in Shard /\ PassAt /\ graph \in Inputs /\ cms \in Shard
      /\ (Owner(Src) = shard => cms = Owner(Edge[2]))
  BY <1>1 DEF Passing, PassAt, EdgeInv, Typed
<1>3. /\ Src \in Interval(Owner(Src)) /\ Owner(Src) \in Shard /\ Edge[2] \in Interval(Owner(Edge[2]))
      /\ Owner(Src) = shard \/ Owner(Edge[2]) = shard
  BY <1>2, AtEdge
<1>4. PICK q : q = RowFile
  OBVIOUS
<1>5. /\ Edge[2] \in Interval(q) /\ File(q).curvid = Src /\ File(q).vid_written = FALSE
      /\ ~ Outside => willout
  <2>1. CASE Owner(Src) = shard
    <3>1. ~ Outside
      BY <1>1, <1>3, <2>1 DEF Outside
    <3>2. q = cms
      BY <1>4, <3>1 DEF RowFile
    <3>3. File(cms).curvid = Src /\ ~ File(cms).vid_written /\ willout
      BY <1>1, <2>1 DEF WriteInv, Control, OwnEdge
    <3>4. QED
      BY <1>2, <1>3, <1>4, <2>1, <3>1, <3>2, <3>3, FileNow
  <2>2. CASE Owner(Src) # shard
    <3>1. Outside
      BY <1>1, <1>2, <1>3, <2>2, OwnerFacts DEF Outside
    <3>2. q = shard
      BY <1>4, <3>1 DEF RowFile
    <3>3. File(shard).curvid = Src /\ ~ File(shard).vid_written
      BY <1>1, <3>1 DEF WriteInv, Control
    <3>4. QED
      BY <1>2, <1>3, <2>2, <3>1, <3>2, <3>3, FileNow
  <2>3. QED
    BY <2>1, <2>2
<1>6. i \in Nat /\ istart \in Nat /\ istart <= i /\ istart \in 0 .. i /\ q \in Shard
  <2>1. i \in Nat /\ istart \in Nat /\ istart <= i
    BY <1>2, ShovelOrder
  <2>2. QED
    BY <1>2, <1>4, <2>1, FileNow
<1>7. PICK f : f = wsl'[shard]
  OBVIOUS
<1>8. \A p : f[p] = File(p)
  BY <1>1, <1>7 DEF File
<1>9. PICK b : b = i + 1
  OBVIOUS
<1>10. ASSUME NEW p \in Shard
       PROVE  /\ Written(shard, p, f[p], Count(p, istart))
              /\ Cursor(p, f[p].curvid, f[p].vid_written, b)
  <2>1. /\ Written(shard, p, File(p), Count(p, istart))
        /\ Cursor(p, File(p).curvid, File(p).vid_written, i)
    BY FileNow
  <2>2. Cursor(p, File(p).curvid, File(p).vid_written, i + 1)
    BY <1>6, <2>1, CursorOn
  <2>3. QED
    BY <1>8, <1>9, <2>1, <2>2
<1>11. Pending(q, f[q].curvid, f[q].vid_written, istart, b)
  <2>1. Pending(q, Src, FALSE, istart, i)
    <3>1. Pending(q, File(q).curvid, File(q).vid_written, istart, i)
      BY <1>4, <1>6, FileNow
    <3>2. QED
      BY <1>5, <3>1
  <2>2. Pending(q, Src, FALSE, istart, i + 1)
    BY <1>2, <1>5, <1>6, <2>1, PendingOn
  <2>3. QED
    BY <1>5, <1>8, <1>9, <2>2
<1>12. Outside' = Outside /\ RowFile' = q
  <2>1. \A k : Interval(k)' = Interval(k)
    BY <1>1, WithinFacts
  <2>2. Outside' = Outside
    BY <1>1, <2>1 DEF Outside, Interval, Within
  <2>3. QED
    BY <1>1, <1>4, <2>2 DEF RowFile, Within
<1>13. Control'
  <2>1. istart' < i'
    BY <1>1, <1>6
  <2>2. File(shard)' = File(shard)
    BY <1>1 DEF File, Within
  <2>3. QED
    BY <1>1, <1>5, <1>12, <2>1, <2>2 DEF WriteInv, Control
<1>14. PICK a : a = istart
  OBVIOUS
<1>15. a = istart' /\ b = i'
  BY <1>1, <1>9, <1>14
<1>16. QED
  BY <1>1, <1>7, <1>10, <1>11, <1>12, <1>13, <1>14, <1>15, WriteFold

-----------------------------------------------------------------------------
(* The other parts of the invariant, and from a pass to the next *)

\* curvid is the source of the edge before.
LEMMA CurStep ==
  ASSUME Typed, Passing, CurInv, pc' # "failed",
         EdgeIn \/ EdgeOut \/ Turn \/ EndTurn \/ LeaveInterval \/ NextSource \/ SameSource
  PROVE  CurInv'
<1>1. Within
  BY DEF EdgeIn, EdgeOut, Turn, EndTurn, LeaveInterval, NextSource, SameSource, Within
<1>2. /\ shovelbuf' = shovelbuf /\ shard' = shard
      /\ i' = i => Src' = Src /\ OwnEdge' = OwnEdge
  BY <1>1, WithinFacts DEF Within, OwnEdge
<1>3. PassAt /\ EdgeInv /\ i \in Nat
  BY ShovelOrder DEF Passing
<1>4. CASE EdgeIn \/ EdgeOut \/ Turn \/ LeaveInterval
  <2>1. i' = i /\ curvid' = curvid
    BY <1>4 DEF EdgeIn, EdgeOut, Turn, LeaveInterval
  <2>2. ~ (pc = "source" /\ OwnEdge) /\ ~ (pc' = "source" /\ OwnEdge)
    <3>1. CASE EdgeIn
      BY <3>1 DEF EdgeIn, OwnEdge
    <3>2. CASE EdgeOut
      BY <3>2 DEF EdgeOut
    <3>3. CASE Turn
      BY <3>3 DEF Turn
    <3>4. CASE LeaveInterval
      <4>1. css = Owner(Src) /\ css = shard + 1 /\ shard \in Nat
        BY <1>3, <3>4, GraphFacts DEF LeaveInterval, Leaving, EdgeInv, Typed, PassAt
      <4>2. QED
        BY <4>1 DEF OwnEdge
    <3>5. QED
      BY <1>4, <3>1, <3>2, <3>3, <3>4
  <2>3. curvid = IF i = 0 THEN 0 ELSE shovelbuf[i][1]
    BY <2>2 DEF CurInv
  <2>4. QED
    BY <1>2, <2>1, <2>2, <2>3 DEF CurInv
<1>5. CASE EndTurn
  <2>1. i' = i /\ pc' = "source" /\ OwnEdge /\ curvid' = Src
    BY <1>3, <1>5 DEF EndTurn, EdgeInv, OwnEdge
  <2>2. QED
    BY <1>2, <2>1 DEF CurInv
<1>6. CASE NextSource \/ SameSource
  <2>1. i' = i + 1 /\ pc' = "value" /\ curvid' = Src
    BY <1>6 DEF NextSource, SameSource
  <2>2. Src = shovelbuf[i + 1][1] /\ i + 1 # 0
    BY <1>3 DEF Src, Edge
  <2>3. QED
    BY <1>2, <2>1, <2>2 DEF CurInv
<1>7. QED
  BY <1>4, <1>5, <1>6

\* No row of a subgraph that reshard takes no notice of source 0 in is written, or it has
\* no own edges.
DoomRow ==
  /\ istart = 0 /\ cms = 0
  /\ \A x \in 1 .. i : shovelbuf[x][1] \in Interval(shard) => shovelbuf[x][2] \in Interval(0)

\* An own edge after vertex 0 alone: its row has a target outside, and the assertion fails.
LEMMA DoomTurn ==
  ASSUME Typed, Passing, OnlyZeroBefore(shard), DoomRow, Turn
  PROVE  pc' = "failed"
<1>1. /\ pc = "turn" /\ i < Len(shovelbuf) /\ Owner(Src) = shard /\ PassAt /\ graph \in Inputs
      /\ shard \in Shard /\ istart = 0 /\ cms = 0
  BY DEF Turn, Passing, PassAt, EdgeInv, Typed, DoomRow
<1>2. shard # 0 /\ 0 \in {e[1] : e \in OfTarget(shard, graph.edges)}
  BY DEF OnlyZeroBefore
<1>3. PICK e \in graph.edges : e[1] = 0 /\ e[2] \in Interval(shard)
  BY <1>2 DEF OfTarget
<1>4. e \in Shovel(shard, graph.edges)
  BY <1>3 DEF Shovel
<1>5. PICK x \in 1 .. Len(shovelbuf) : shovelbuf[x] = e
  BY <1>1, <1>4, ShovelOrder
<1>6. /\ 0 \in Shard /\ 0 \in Interval(0) /\ shard \in Nat
  <2>1. 0 \in Shard /\ graph.first[0] = 0 /\ graph.last[0] \in Nat /\ shard \in Nat
    BY <1>1, GraphFacts
  <2>2. QED
    BY <2>1 DEF Interval
<1>7. Src \in Interval(shard) /\ Src \in Nat
  BY <1>1, AtEdge
<1>8. 0 < Src
  <2>1. 0 < shard => 0 < Src
    BY <1>1, <1>6, <1>7, IntervalOrder
  <2>2. QED
    BY <1>2, <1>6, <2>1
<1>9. i \in Nat /\ i # 0 /\ Len(shovelbuf) \in Nat /\ x \in 1 .. i
  BY <1>1, <1>3, <1>5, <1>8, Around
<1>10. 1 \in 1 .. Len(shovelbuf) /\ 1 \in 1 .. i - istart
  BY <1>1, <1>9
<1>11. shovelbuf[1][1] = 0
  <2>1. shovelbuf[1][1] \in Nat
    BY <1>1, <1>10, ShovelOrder
  <2>2. 1 < x \/ x = 1
    BY <1>5
  <2>3. 1 < x => shovelbuf[1][1] <= shovelbuf[x][1]
    BY <1>1, <1>5, <1>10, ShovelOrder
  <2>4. shovelbuf[x][1] = 0
    BY <1>3, <1>5
  <2>5. QED
    BY <2>1, <2>2, <2>3, <2>4
<1>12. shovelbuf[1][2] \in Interval(shard)
  <2>1. 0 \notin Interval(shard)
    BY <1>1, <1>2, <1>6, OwnerFacts
  <2>2. shovelbuf[1] \in Shovel(shard, graph.edges)
    BY <1>1, <1>10, ShovelOrder
  <2>3. QED
    BY <1>11, <2>1, <2>2 DEF Shovel
<1>13. 1 \in DOMAIN PendingTargets /\ PendingTargets[1] = shovelbuf[1][2]
  BY <1>1, <1>10 DEF PendingTargets
<1>14. shovelbuf[1][2] \notin Interval(cms)
  BY <1>1, <1>2, <1>6, <1>12, OwnerFacts
<1>15. QED
  BY <1>13, <1>14 DEF Turn

\* When the edges go beyond the interval, all own ones have been seen.
LEMMA DoomBeyond ==
  ASSUME Typed, Passing, CurInv, OnlyZeroBefore(shard), DoomRow, NextSource \/ LeaveInterval
  PROVE  Block(shard, shard) = {}
<1>1. /\ pc = "source" /\ i < Len(shovelbuf) /\ css = Owner(Src) /\ PassAt /\ graph \in Inputs
      /\ shard \in Shard /\ (Owner(Src) = shard => curvid = Src)
      /\ (css = shard + 1 \/ Src # curvid)
  BY DEF NextSource, LeaveInterval, Leaving, Passing, PassAt, EdgeInv, Typed
<1>2. shard # 0 /\ {e[1] : e \in OfTarget(shard, graph.edges)} \cap 0 .. graph.first[shard] - 1 = {0}
  BY DEF OnlyZeroBefore
<1>3. /\ 0 \in Shard /\ shard \in Nat /\ graph.first[shard] \in Nat /\ graph.last[shard] \in Nat
  <2>1. 0 \in Shard /\ shard \in Nat
    BY <1>1, GraphFacts
  <2>2. QED
    BY <1>1, <2>1, GraphFacts
<1>4. /\ Owner(Src) \in Shard /\ Src \in Interval(Owner(Src)) /\ Src \in Nat /\ Owner(Src) \in Nat
      /\ Edge \in graph.edges /\ Edge[1] = Src /\ Edge[2] \in Interval(Owner(Edge[2]))
      /\ Owner(Src) = shard \/ Owner(Edge[2]) = shard
  <2>1. Owner(Src) \in Shard
    BY <1>1, AtEdge
  <2>2. Owner(Src) \in Nat
    BY <1>1, <2>1, GraphFacts
  <2>3. QED
    BY <1>1, <2>2, AtEdge
<1>5. Owner(Src) # shard
  <2>1. CASE css = shard + 1
    BY <1>1, <1>3, <2>1
  <2>2. CASE Src # curvid
    BY <1>1, <2>2
  <2>3. QED
    BY <1>1, <2>1, <2>2
<1>6. shard < Owner(Src)
  <2>1. SUFFICES ASSUME Owner(Src) < shard PROVE FALSE
    BY <1>3, <1>4, <1>5
  <2>2. Src # curvid
    BY <1>1, <1>3, <1>4, <2>1
  <2>3. Src \in 0 .. graph.first[shard] - 1
    <3>1. graph.first[shard] \in Interval(shard)
      <4>1. graph.first[shard] <= graph.last[shard]
        BY <1>1, GraphFacts
      <4>2. QED
        BY <1>3, <4>1 DEF Interval
    <3>2. Owner(Src) < shard => Src < graph.first[shard]
      BY <1>1, <1>4, <3>1, IntervalOrder
    <3>3. QED
      BY <1>3, <1>4, <2>1, <3>2
  <2>4. Edge \in OfTarget(shard, graph.edges)
    BY <1>4, <1>5 DEF OfTarget
  <2>5. Src = 0
    BY <1>2, <1>4, <2>3, <2>4
  <2>6. curvid = IF i = 0 THEN 0 ELSE shovelbuf[i][1]
    BY <1>5 DEF CurInv, OwnEdge
  <2>7. i # 0 => shovelbuf[i][1] <= Src /\ shovelbuf[i][1] \in Nat
    <3>1. i # 0 => shovelbuf[i][1] <= Src /\ i \in 1 .. Len(shovelbuf)
      BY <1>1, Around
    <3>2. QED
      BY <1>1, <3>1, ShovelOrder
  <2>8. QED
    BY <2>2, <2>5, <2>6, <2>7
<1>7. SUFFICES ASSUME NEW e \in Block(shard, shard) PROVE FALSE
  OBVIOUS
<1>8. e[1] \in Interval(shard) /\ e[2] \in Interval(shard) /\ e \in Shovel(shard, graph.edges)
  BY DEF Block, Shovel
<1>9. PICK x \in 1 .. Len(shovelbuf) : shovelbuf[x] = e
  BY <1>1, <1>8, ShovelOrder
<1>10. e[1] < Src
  <2>1. shard < Owner(Src) => e[1] < Src
    BY <1>1, <1>4, <1>8, IntervalOrder
  <2>2. QED
    BY <1>6, <2>1
<1>11. x \in 1 .. i
  BY <1>1, <1>9, <1>10, Around
<1>12. e[2] \in Interval(0)
  BY <1>8, <1>9, <1>11 DEF DoomRow
<1>13. QED
  BY <1>1, <1>2, <1>3, <1>8, <1>12, OwnerFacts

\* DoomInv is kept within a pass.
LEMMA DoomStep ==
  ASSUME Typed, Passing, CurInv, DoomInv, pc' # "failed",
         EdgeIn \/ EdgeOut \/ Turn \/ EndTurn \/ LeaveInterval \/ NextSource \/ SameSource
  PROVE  DoomInv'
<1>1. Within
  BY DEF EdgeIn, EdgeOut, Turn, EndTurn, LeaveInterval, NextSource, SameSource, Within
<1>2. /\ shovelbuf' = shovelbuf /\ shard' = shard /\ graph' = graph
      /\ OnlyZeroBefore(shard)' = OnlyZeroBefore(shard)
      /\ \A k : Interval(k)' = Interval(k)
  BY <1>1, WithinFacts DEF Within
<1>3. Block(shard, shard)' = Block(shard, shard)
  BY <1>2, SameGraph DEF Block, Interval
<1>4. SUFFICES ASSUME OnlyZeroBefore(shard), Block(shard, shard) # {} PROVE DoomRow'
  BY <1>2, <1>3 DEF DoomInv, DoomRow
<1>5. DoomRow
  BY <1>4 DEF DoomInv, DoomRow
<1>6. CASE EdgeIn \/ EdgeOut \/ EndTurn
  <2>1. i' = i /\ istart' = istart /\ cms' = cms
    BY <1>6 DEF EdgeIn, EdgeOut, EndTurn
  <2>2. QED
    BY <1>2, <1>5, <2>1 DEF DoomRow, Interval
<1>7. CASE Turn
  BY <1>4, <1>5, <1>7, DoomTurn
<1>8. CASE LeaveInterval \/ NextSource
  BY <1>4, <1>5, <1>8, DoomBeyond
<1>9. CASE SameSource
  <2>1. /\ i' = i + 1 /\ istart' = istart /\ cms' = cms /\ i < Len(shovelbuf) /\ pc = "source"
        /\ PassAt /\ EdgeInv /\ graph \in Inputs /\ shard \in Shard
    BY <1>9 DEF SameSource, Passing, PassAt, Typed
  <2>2. /\ i \in Nat /\ shovelbuf[i + 1] = Edge /\ Src = Edge[1]
        /\ Edge[2] \in Interval(Owner(Edge[2]))
    BY <2>1, AtEdge
  <2>3. Src \in Interval(shard) => Edge[2] \in Interval(0)
    <3>1. Src \in Interval(shard) => Owner(Src) = shard
      BY <2>1, OwnerFacts
    <3>2. Owner(Src) = shard => cms = Owner(Edge[2])
      BY <2>1 DEF EdgeInv
    <3>3. QED
      BY <1>5, <2>2, <3>1, <3>2 DEF DoomRow
  <2>4. ASSUME NEW x \in 1 .. i + 1, shovelbuf[x][1] \in Interval(shard)
        PROVE  shovelbuf[x][2] \in Interval(0)
    <3>1. x \in 1 .. i \/ x = i + 1
      BY <2>2
    <3>2. QED
      BY <1>5, <2>2, <2>3, <2>4, <3>1 DEF DoomRow
  <2>5. QED
    BY <1>2, <1>5, <2>1, <2>4 DEF DoomRow, Interval
<1>10. QED
  BY <1>6, <1>7, <1>8, <1>9

\* The end of a pass: its files are the rows of all their edges.
LEMMA StopperFiles ==
  ASSUME Typed, Passing, BlocksInv, DoomInv, Loadable(shard) => WriteInv, Stopper
  PROVE  /\ Loadable(shard) => \A p \in Shard :
              /\ Written(shard, p, wsl'[shard][p], Cardinality(FileEdges(shard, p)))
              /\ p # shard => NextVertex(wsl'[shard][p]) <= graph.last[shard] + 1
         /\ OnlyZeroBefore(shard) => Block(shard, shard) = {}
<1>1. /\ pc = "value" /\ ~ (i < Len(shovelbuf)) /\ SetFile(cms, WithRow(File(cms)))
      /\ PassAt /\ RowInv /\ graph \in Inputs /\ shard \in Shard /\ cms \in Shard
  BY DEF Stopper, MoreEdges, LastRow, Passing, PassAt, Typed
<1>2. i = Len(shovelbuf) /\ i \in Nat /\ istart \in Nat /\ istart <= i
  <2>1. i \in Nat /\ Len(shovelbuf) \in Nat /\ i <= Len(shovelbuf) /\ istart \in Nat /\ istart <= i
    BY <1>1, ShovelOrder
  <2>2. QED
    BY <1>1, <2>1
<1>3. ASSUME OnlyZeroBefore(shard), NEW e \in Block(shard, shard) PROVE FALSE
  <2>1. e[1] \in Interval(shard) /\ e[2] \in Interval(shard) /\ e \in Shovel(shard, graph.edges)
    BY DEF Block, Shovel
  <2>2. PICK x \in 1 .. i : shovelbuf[x] = e
    BY <1>1, <1>2, <2>1, ShovelOrder
  <2>3. e[2] \in Interval(0) /\ shard # 0
    BY <1>3, <2>1, <2>2 DEF DoomInv, OnlyZeroBefore
  <2>4. 0 \in Shard
    BY <1>1, GraphFacts
  <2>5. QED
    BY <1>1, <2>1, <2>3, <2>4, OwnerFacts
<1>4. ASSUME Loadable(shard), NEW p \in Shard
      PROVE  /\ Written(shard, p, wsl'[shard][p], Cardinality(FileEdges(shard, p)))
             /\ p # shard => NextVertex(wsl'[shard][p]) <= graph.last[shard] + 1
  <2>1. WriteInv
    BY <1>4
  <2>2. RowFile = cms \/ istart = i
    <3>1. SUFFICES ASSUME istart # i PROVE RowFile = cms
      OBVIOUS
    <3>2. istart < i
      BY <1>2, <3>1
    <3>3. Outside => cms = shard
      BY <1>1, <1>2, <1>4, <3>2, RowFileIs
    <3>4. QED
      BY <3>3 DEF RowFile
  <2>3. PICK q : q = cms
    OBVIOUS
  <2>4. PICK w : w = File(q)
    OBVIOUS
  <2>5. /\ IsFile(w) /\ w.curvid \in Nat /\ w.vid_written \in BOOLEAN /\ q \in Shard
        /\ Written(shard, q, w, Count(q, istart))
        /\ Cursor(q, w.curvid, w.vid_written, i)
        /\ Pending(q, w.curvid, w.vid_written, istart, i)
    <3>1. istart = i => Pending(q, w.curvid, w.vid_written, istart, i)
      <4>1. Pending(q, w.curvid, w.vid_written, i, i)
        BY <1>1, PendingNone
      <4>2. QED
        BY <4>1
    <3>2. RowFile = q => Pending(q, w.curvid, w.vid_written, istart, i)
      BY <1>1, <2>1, <2>3, <2>4, FileNow
    <3>3. Pending(q, w.curvid, w.vid_written, istart, i)
      BY <2>2, <2>3, <3>1, <3>2
    <3>4. QED
      BY <1>1, <2>1, <2>3, <2>4, <3>3, FileNow
  <2>6. PICK u : u = WithRow(w)
    OBVIOUS
  <2>7. IsFile(u) /\ u.curvid = w.curvid /\ Written(shard, q, u, Count(q, i))
    BY <1>1, <2>5, <2>6, RowWritten
  <2>8. wsl'[shard][p] = IF p = q THEN u ELSE File(p)
    BY <1>1, <2>3, <2>4, <2>6, FileSet
  <2>9. Count(p, i) = Cardinality(FileEdges(shard, p))
    BY <1>1, <1>2, CountFacts
  <2>10. CASE p = q
    <3>1. Written(shard, p, wsl'[shard][p], Cardinality(FileEdges(shard, p)))
      BY <2>7, <2>8, <2>9, <2>10
    <3>2. p # shard => u.curvid \in Interval(shard)
      BY <2>5, <2>7, <2>10 DEF Cursor
    <3>3. p # shard => NextVertex(u) <= graph.last[shard] + 1
      <4>1. graph.first[shard] \in Nat /\ graph.last[shard] \in Nat
        BY <1>1, GraphFacts
      <4>2. QED
        BY <3>2, <4>1 DEF NextVertex, Interval
    <3>4. QED
      BY <2>8, <2>10, <3>1, <3>3
  <2>11. CASE p # q
    <3>1. Written(shard, p, File(p), Count(p, istart)) /\ Cursor(p, File(p).curvid, File(p).vid_written, i)
      BY <2>1, FileNow
    <3>2. Count(p, istart) = Count(p, i)
      <4>1. CASE istart = i
        BY <4>1
      <4>2. CASE RowFile = cms
        BY <2>1, <2>3, <2>11, <4>2, FileNow
      <4>3. QED
        BY <2>2, <4>1, <4>2
    <3>3. p # shard => File(p).curvid \in Interval(shard)
      BY <3>1 DEF Cursor
    <3>4. p # shard => NextVertex(File(p)) <= graph.last[shard] + 1
      <4>1. graph.first[shard] \in Nat /\ graph.last[shard] \in Nat
        BY <1>1, GraphFacts
      <4>2. QED
        BY <3>3, <4>1 DEF NextVertex, Interval
    <3>5. QED
      BY <2>8, <2>9, <2>11, <3>1, <3>2, <3>4
  <2>12. QED
    BY <2>10, <2>11
<1>5. QED
  BY <1>3, <1>4

\* A pass begins.
AtStart ==
  /\ pc = "value" /\ i = 0 /\ istart = 0 /\ cms = 0 /\ curvid = 0 /\ ~ willout
  /\ \A p \in Shard : wsl[shard][p] = NewFile(graph, shard, p)

\* A file without fields is at its first vertex.
LEMMA EmptyRows ==
  ASSUME NEW base \in Nat, NEW L
  PROVE  \E R : Rows(<<>>, base, L, R, base, 0)
<1>1. PICK R : R = {<<1, base, 0>>}
  OBVIOUS
<1>2. R \in SUBSET (Nat \X Nat \X Nat)
  BY <1>1
<1>3. \A r \in R : r[1] = 1 /\ r[2] = base /\ r[3] = 0
  BY <1>1
<1>4. <<>> \in Seq(Nat) /\ Len(<<>>) = 0
  OBVIOUS
<1>5. <<1, base, 0>> \in R /\ <<Len(<<>>) + 1, base, 0>> \in R
  BY <1>1, <1>4
<1>6. /\ \A r \in R : r[1] > 0 /\ r[1] <= Len(<<>>) + 1
      /\ \A r \in R : ~ (r[1] <= Len(<<>>))
  BY <1>3, <1>4
<1>7. Rows(<<>>, base, L, R, base, 0)
  BY <1>2, <1>3, <1>4, <1>5, <1>6 DEF Rows
<1>8. QED
  BY <1>7

\* The fields of a file that is opened.
LEMMA NewFileFields ==
  ASSUME NEW g, NEW k, NEW p
  PROVE  /\ NewFile(g, k, p).adj = <<>> /\ ~ NewFile(g, k, p).vid_written
         /\ p = k => NewFile(g, k, p).curvid = 0
         /\ p # k => NewFile(g, k, p).curvid = g.first[k]
         /\ NextVertex(NewFile(g, k, p)) = NewFile(g, k, p).curvid
<1>1. NewFile(g, k, p).adj = <<>>
  BY DEF NewFile
<1>2. PICK no : no = FALSE
  OBVIOUS
<1>3. NewFile(g, k, p).vid_written = no
  BY <1>2 DEF NewFile
<1>4. ~ NewFile(g, k, p).vid_written
  BY <1>2, <1>3
<1>5. p = k => NewFile(g, k, p).curvid = 0
  BY DEF NewFile
<1>6. p # k => NewFile(g, k, p).curvid = g.first[k]
  BY DEF NewFile
<1>7. QED
  BY <1>1, <1>4, <1>5, <1>6 DEF NextVertex

\* At the beginning of a pass nothing is pending, and no file has a row.
LEMMA StartWrite ==
  ASSUME Typed, PassAt, AtStart
  PROVE  CurInv /\ DoomInv /\ WriteInv
<1>1. graph \in Inputs /\ shard \in Shard /\ 0 \in Shard /\ Len(shovelbuf) \in Nat
  BY GraphFacts, ShovelOrder DEF Typed, PassAt
<1>2. CurInv
  BY DEF AtStart, CurInv
<1>3. DoomInv
  <2>1. 1 .. i = {}
    BY DEF AtStart
  <2>2. QED
    BY <2>1 DEF AtStart, DoomInv
<1>4. ASSUME NEW p \in Shard
      PROVE  Written(shard, p, File(p), Count(p, 0)) /\ Cursor(p, File(p).curvid, File(p).vid_written, 0)
  <2>1. PICK base : base = IF p = shard THEN 0 ELSE graph.first[shard]
    OBVIOUS
  <2>2. /\ File(p).adj = <<>> /\ File(p).curvid = base /\ ~ File(p).vid_written
        /\ Base(shard, p) = base /\ NextVertex(File(p)) = base
    <3>1. File(p) = NewFile(graph, shard, p)
      BY DEF AtStart, File
    <3>2. Base(shard, p) = base
      BY <2>1 DEF Base
    <3>3. NewFile(graph, shard, p).curvid = base
      BY <2>1, NewFileFields
    <3>4. QED
      BY <3>1, <3>2, <3>3, NewFileFields
  <2>3. /\ base \in Nat /\ graph.first[shard] \in Nat /\ graph.last[shard] \in Nat
        /\ p # shard => base \in Interval(shard)
    <3>1. graph.first[shard] \in Nat /\ graph.last[shard] \in Nat /\ graph.first[shard] <= graph.last[shard]
      BY <1>1, GraphFacts
    <3>2. QED
      BY <2>1, <3>1 DEF Interval
  <2>4. Written(shard, p, File(p), Count(p, 0))
    <3>1. Count(p, 0) = 0
      BY CountFacts
    <3>2. \E R : Rows(<<>>, base, List(shard, p), R, base, 0)
      BY <2>3, EmptyRows
    <3>3. QED
      BY <2>2, <3>1, <3>2 DEF Written
  <2>5. ASSUME NEW x \in 1 .. Len(shovelbuf), p = shard \/ shovelbuf[x][1] \in Interval(shard)
        PROVE  base <= shovelbuf[x][1]
    <3>1. shovelbuf[x][1] \in Nat
      BY ShovelOrder
    <3>2. QED
      BY <2>1, <2>3, <2>5, <3>1 DEF Interval
  <2>6. PICK wr : wr = File(p).vid_written
    OBVIOUS
  <2>7. wr \in BOOLEAN /\ ~ wr
    <3>1. PICK no : no = FALSE
      OBVIOUS
    <3>2. File(p) = NewFile(graph, shard, p)
      BY DEF AtStart, File
    <3>3. NewFile(graph, shard, p).vid_written = no
      BY <3>1 DEF NewFile
    <3>4. wr = FALSE
      BY <2>6, <3>1, <3>2, <3>3
    <3>5. QED
      BY <3>4
  <2>8. Cursor(p, base, wr, 0)
    BY <2>3, <2>5, <2>7 DEF Cursor
  <2>9. QED
    BY <2>2, <2>4, <2>6, <2>8
<1>5. FilesRight
  BY <1>4 DEF FilesRight, AtStart
<1>6. RowPending
  <2>1. Pending(RowFile, File(RowFile).curvid, File(RowFile).vid_written, i, i)
    BY PendingNone
  <2>2. QED
    BY <2>1 DEF RowPending, AtStart
<1>7. Control
  <2>1. curvid \notin Interval(shard) => shard # 0
    <3>1. graph.first[0] = 0 /\ graph.last[0] \in Nat
      BY <1>1, GraphFacts
    <3>2. QED
      BY <3>1 DEF Interval, AtStart
  <2>2. File(shard).curvid = 0 /\ ~ File(shard).vid_written
    BY <1>1, NewFileFields DEF AtStart, File
  <2>3. QED
    BY <2>2 DEF Control, AtStart
<1>8. QED
  BY <1>2, <1>3, <1>5, <1>6, <1>7 DEF WriteInv

\* What a pass begins with.
LEMMA StartFacts == Typed /\ PassAt /\ AtStart => CurInv /\ DoomInv /\ WriteInv
BY StartWrite

\* And what the next one will begin with.
LEMMA StartNext == (Typed /\ PassAt /\ AtStart)' => (CurInv /\ DoomInv /\ WriteInv)'
BY StartFacts, PTL

\* Only files of the subgraph of the pass change.
LEMMA OtherFiles ==
  ASSUME Typed, Passing, BlocksInv, reshard
  PROVE  \A k \in Shard : k # shard => \A p \in Shard : wsl'[k][p] = wsl[k][p]
<1>1. graph \in Inputs /\ shard \in Shard /\ cms \in Shard
  BY DEF Typed, Passing, PassAt
<1>2. wsl' = wsl \/ \E q \in Shard : \E v : SetFile(q, v)
  <2>1. CASE EdgeIn
    <3>1. Owner(Src) \in Shard
      BY <1>1, <2>1, AtEdge DEF EdgeIn, MoreEdges
    <3>2. QED
      BY <2>1, <3>1 DEF EdgeIn
  <2>2. CASE EdgeOut
    <3>1. Owner(Edge[2]) \in Shard
      BY <1>1, <2>2, AtEdge DEF EdgeOut, MoreEdges
    <3>2. QED
      BY <2>2, <3>1 DEF EdgeOut
  <2>3. CASE Turn
    BY <1>1, <2>3 DEF Turn
  <2>4. CASE EndTurn
    BY <2>4 DEF EndTurn
  <2>5. CASE LeaveInterval
    BY <1>1, <2>5 DEF LeaveInterval
  <2>6. CASE NextSource
    BY <1>1, <2>6 DEF NextSource
  <2>7. CASE SameSource
    BY <2>7 DEF SameSource
  <2>8. CASE Stopper
    BY <1>1, <2>8 DEF Stopper, LastRow
  <2>9. QED
    BY <2>1, <2>2, <2>3, <2>4, <2>5, <2>6, <2>7, <2>8 DEF reshard
<1>3. ASSUME NEW q \in Shard, NEW v, SetFile(q, v), NEW k \in Shard, k # shard, NEW p \in Shard
      PROVE  wsl'[k][p] = wsl[k][p]
  <2>1. IsTable(wsl, Shard) /\ Replaced(wsl', wsl, shard, q, v)
    BY <1>3 DEF BlocksInv, IsTable, Replaced, SetFile
  <2>2. Differs(wsl', wsl, Shard, shard, q, v)
    BY <1>1, <2>1, OneFile
  <2>3. QED
    BY <1>3, <2>2 DEF Differs
<1>4. QED
  BY <1>2, <1>3

\* Whether a file is whole depends on the graph only.
LEMMA SameFilesAre ==
  ASSUME graph' = graph
  PROVE  \A k, f : FilesAre(k, f)' <=> FilesAre(k, f)
<1>1. /\ \A k, p : FileEdges(k, p)' = FileEdges(k, p)
      /\ \A k, p, w, c : Written(k, p, w, c)' <=> Written(k, p, w, c)
      /\ \A k : Loadable(k)' <=> Loadable(k)
  BY SameFiles
<1>2. Shard' = Shard /\ \A k, p : Block(k, p)' = Block(k, p)
  BY SameGraph
<1>3. \A k : OnlyZeroBefore(k)' <=> OnlyZeroBefore(k)
  BY SameGraph
<1>4. QED
  BY <1>1, <1>2, <1>3 DEF FilesAre

\* Files with the same rows are as good.
LEMMA FilesAreSame ==
  ASSUME NEW k, NEW f, NEW g, \A p \in Shard : g[p] = f[p], FilesAre(k, f)
  PROVE  FilesAre(k, g)
BY DEF FilesAre

\* The first pass begins with FilesInv.
LEMMA FilesInit == Init => FilesInv
<1> SUFFICES ASSUME Init PROVE FilesInv
  OBVIOUS
<1>1. /\ graph \in Inputs /\ pc = "value" /\ shard = 0 /\ i = 0 /\ istart = 0 /\ cms = 0 /\ curvid = 0
      /\ willout = FALSE /\ wsl = [k \in Shard |-> [p \in Shard |-> NewFile(graph, k, p)]]
  BY DEF Init, RInit
<1>2. Typed /\ PassAt
  BY <1>1, ReshardInit DEF ReshardInv, Passing
<1>3. \A k \in Shard : \A p \in Shard : wsl[k][p] = NewFile(graph, k, p)
  BY <1>1
<1>4. AtStart
  BY <1>1, <1>2, <1>3 DEF AtStart, PassAt
<1>5. CurInv /\ DoomInv /\ WriteInv
  BY <1>2, <1>4, StartFacts
<1>6. \A k \in Shard : ~ (k < shard)
  <2>1. \A k \in Shard : k \in Nat
    BY <1>1, GraphFacts
  <2>2. QED
    BY <1>1, <2>1
<1>7. QED
  BY <1>1, <1>3, <1>5, <1>6 DEF FilesInv

\* The steps within a pass.
LEMMA PassFiles ==
  ASSUME Typed, Passing, BlocksInv, FilesInv,
         EdgeIn \/ EdgeOut \/ Turn \/ EndTurn \/ LeaveInterval \/ NextSource \/ SameSource
  PROVE  FilesInv'
<1>1. /\ Within /\ pc \notin {"failed", "done"} /\ pc' \notin {"done"}
      /\ graph' = graph /\ shard' = shard /\ reshard
  BY DEF EdgeIn, EdgeOut, Turn, EndTurn, LeaveInterval, NextSource, SameSource, Within, reshard
<1>2. CurInv /\ DoomInv /\ (Loadable(shard) => WriteInv)
  BY <1>1 DEF FilesInv
<1>3. /\ Shard' = Shard /\ (Loadable(shard)' <=> Loadable(shard))
      /\ \A k, f : FilesAre(k, f)' <=> FilesAre(k, f)
  BY <1>1, SameGraph, SameFiles, SameFilesAre
<1>4. ASSUME pc' # "failed" PROVE CurInv' /\ DoomInv'
  BY <1>2, <1>4, CurStep, DoomStep
<1>5. ASSUME pc' # "failed", Loadable(shard) PROVE WriteInv'
  <2>1. WriteInv
    BY <1>2, <1>5
  <2>2. CASE EdgeIn
    BY <2>1, <2>2, EdgeInWrite
  <2>3. CASE EdgeOut
    BY <1>5, <2>1, <2>3, EdgeOutWrite
  <2>4. CASE Turn
    BY <1>5, <2>1, <2>4, TurnWrite
  <2>5. CASE EndTurn
    BY <2>1, <2>5, EndTurnWrite
  <2>6. CASE LeaveInterval
    BY <1>2, <2>1, <2>6, LeaveWrite
  <2>7. CASE NextSource
    BY <1>2, <1>5, <2>1, <2>7, NextSourceWrite
  <2>8. CASE SameSource
    BY <2>1, <2>8, SameSourceWrite
  <2>9. QED
    BY <2>2, <2>3, <2>4, <2>5, <2>6, <2>7, <2>8
<1>6. shard \in Nat /\ \A k \in Shard : k \in Nat
  BY GraphFacts DEF Typed, Passing, PassAt
<1>7. \A k \in Shard : k # shard => \A p \in Shard : wsl'[k][p] = wsl[k][p]
  BY <1>1, OtherFiles
<1>8. ASSUME NEW k \in Shard, k < shard PROVE FilesAre(k, wsl'[k])
  <2>1. FilesAre(k, wsl[k]) /\ k # shard
    BY <1>1, <1>6, <1>8 DEF FilesInv
  <2>2. \A p \in Shard : wsl'[k][p] = wsl[k][p]
    BY <1>7, <2>1
  <2>3. QED
    BY <2>1, <2>2, FilesAreSame
<1>9. ASSUME NEW k \in Shard, k > shard, NEW p \in Shard PROVE wsl'[k][p] = NewFile(graph, k, p)
  BY <1>6, <1>7, <1>9 DEF FilesInv
<1>10. QED
  BY <1>1, <1>3, <1>4, <1>5, <1>8, <1>9 DEF FilesInv

\* From a pass to the next.
LEMMA StopperNext ==
  ASSUME Typed, Passing, BlocksInv, FilesInv, Stopper
  PROVE  FilesInv'
<1>1. /\ graph' = graph /\ shard' = shard + 1 /\ pc = "value" /\ reshard
      /\ shovelbuf' = IF shard + 1 < P THEN Sorted(Shovel(shard + 1, graph.edges)) ELSE <<>>
      /\ pc' = IF shard + 1 < P THEN "value" ELSE "done"
      /\ i' = 0 /\ istart' = 0 /\ css' = -1 /\ cms' = 0 /\ curvid' = 0 /\ willout' = FALSE
  BY DEF Stopper, reshard
<1>2. CurInv /\ DoomInv /\ (Loadable(shard) => WriteInv)
  BY <1>1 DEF FilesInv
<1>3. /\ Shard' = Shard /\ P' = P /\ P \in Nat /\ Shard = 0 .. P - 1 /\ shard \in Shard
      /\ \A k, f : FilesAre(k, f)' <=> FilesAre(k, f)
  BY <1>1, SameGraph, SameFilesAre, GraphFacts DEF Typed, Passing, PassAt
<1>4. shard \in Nat /\ \A k \in Shard : k \in Nat
  BY <1>3
<1>5. \A k \in Shard : k # shard => \A p \in Shard : wsl'[k][p] = wsl[k][p]
  BY <1>1, OtherFiles
<1>6. ASSUME NEW k \in Shard, k < shard' PROVE FilesAre(k, wsl'[k])
  <2>1. CASE k = shard
    <3>1. /\ Loadable(k) => \A p \in Shard :
                /\ Written(k, p, wsl'[k][p], Cardinality(FileEdges(k, p)))
                /\ p # k => NextVertex(wsl'[k][p]) <= graph.last[k] + 1
          /\ OnlyZeroBefore(k) => Block(k, k) = {}
      BY <1>2, <2>1, StopperFiles
    <3>2. PICK f : f = wsl'[k]
      OBVIOUS
    <3>3. QED
      BY <3>1, <3>2 DEF FilesAre
  <2>2. CASE k # shard
    <3>1. k < shard
      BY <1>1, <1>4, <1>6, <2>2
    <3>2. FilesAre(k, wsl[k])
      BY <1>1, <3>1 DEF FilesInv
    <3>3. \A p \in Shard : wsl'[k][p] = wsl[k][p]
      BY <1>5, <2>2
    <3>4. QED
      BY <3>2, <3>3, FilesAreSame
  <2>3. QED
    BY <2>1, <2>2
<1>7. ASSUME NEW k \in Shard, k >= shard', NEW p \in Shard PROVE wsl'[k][p] = NewFile(graph, k, p)
  BY <1>1, <1>4, <1>5, <1>7 DEF FilesInv
<1>8. ASSUME shard + 1 < P PROVE CurInv' /\ DoomInv' /\ WriteInv'
  <2>1. shard' \in Shard /\ shard' >= shard' /\ pc' = "value"
    BY <1>1, <1>3, <1>4, <1>8
  <2>2. \A p \in Shard : wsl'[shard'][p] = NewFile(graph, shard', p)
    BY <1>7, <2>1
  <2>3. AtStart'
    BY <1>1, <1>3, <2>1, <2>2 DEF AtStart
  <2>4. Typed' /\ PassAt'
    <3>1. Typed' /\ (Passing' \/ pc' = "done")
      BY StopperLoop
    <3>2. QED
      BY <2>1, <3>1 DEF Passing
  <2>5. QED
    BY <2>3, <2>4, StartNext
<1>9. /\ pc' \notin {"failed", "done"} => shard + 1 < P
      /\ pc' = "done" => shovelbuf' = <<>> /\ i' = 0 /\ istart' = 0
      /\ \A k \in Shard : k > shard' => k >= shard'
  BY <1>1, <1>4
<1>10. QED
  BY <1>1, <1>3, <1>6, <1>7, <1>8, <1>9 DEF FilesInv

\* FilesInv is inductive.
LEMMA FilesStep == ReshardInv /\ FilesInv /\ [Next]_vars => FilesInv'
<1> SUFFICES ASSUME ReshardInv, FilesInv, [Next]_vars PROVE FilesInv'
  OBVIOUS
<1>1. Typed /\ BlocksInv /\ (Passing \/ (pc = "done" /\ shard = P))
  BY DEF ReshardInv
<1>2. CASE reshard
  <2>1. pc # "done"
    BY <1>2 DEF reshard, EdgeIn, EdgeOut, Turn, EndTurn, LeaveInterval, NextSource, SameSource, Stopper
  <2>2. Passing
    BY <1>1, <2>1
  <2>3. CASE Stopper
    BY <1>1, <2>2, <2>3, StopperNext
  <2>4. CASE ~ Stopper
    BY <1>1, <1>2, <2>2, <2>4, PassFiles DEF reshard
  <2>5. QED
    BY <2>3, <2>4
\* The workers only read the files.
<1>3. CASE UNCHANGED rvars
  <2>1. UNCHANGED <<graph, pc, shard, shovelbuf, i, istart, css, cms, curvid, willout, index, wsl>>
    BY <1>3 DEF rvars, svars
  <2>2. Within /\ Edge' = Edge /\ Src' = Src
    BY <2>1, WithinFacts DEF Within
  <2>3. /\ Shard' = Shard /\ (Loadable(shard)' <=> Loadable(shard))
        /\ \A v : Owner(v)' = Owner(v)
        /\ \A k : Interval(k)' = Interval(k)
        /\ \A k, p : Block(k, p)' = Block(k, p)
        /\ OnlyZeroBefore(shard)' = OnlyZeroBefore(shard)
        /\ \A k, f : FilesAre(k, f)' <=> FilesAre(k, f)
    BY <2>1, SameGraph, SameFiles, SameFilesAre
  <2>4. Owner(Src)' = Owner(Src)
    BY <2>2, <2>3
  <2>5. OwnEdge' = OwnEdge
    BY <2>1, <2>4 DEF OwnEdge
  <2>6. CurInv => CurInv'
    BY <2>1, <2>2, <2>5 DEF CurInv
  <2>7. DoomInv => DoomInv'
    <3>1. Block(shard, shard)' = Block(shard, shard)
      BY <2>1, <2>3
    <3>2. QED
      BY <2>1, <2>3, <3>1 DEF DoomInv
  <2>8. WriteInv => WriteInv'
    <3>1. Outside' = Outside /\ LeftInterval' = LeftInterval
      BY <2>1, <2>3, <2>5 DEF Outside, LeftInterval
    <3>2. RowFile' = RowFile /\ \A p : File(p)' = File(p)
      BY <2>1, <3>1 DEF RowFile, File
    <3>3. /\ \A p, x : Count(p, x)' = Count(p, x)
          /\ \A p, cur, written, a, b : Pending(p, cur, written, a, b)' <=> Pending(p, cur, written, a, b)
          /\ \A p, cur, written, b : Cursor(p, cur, written, b)' <=> Cursor(p, cur, written, b)
          /\ \A k, p, w, c : Written(k, p, w, c)' <=> Written(k, p, w, c)
      BY <2>1, <2>2, SamePass, SameFiles
    <3>4. FilesRight => FilesRight'
      BY <2>1, <2>3, <3>2, <3>3 DEF FilesRight, File
    <3>5. RowPending => RowPending'
      BY <2>1, <3>2, <3>3 DEF RowPending
    <3>6. Control => Control'
      BY <2>1, <2>2, <2>5, <3>1, <3>2 DEF Control
    <3>7. QED
      BY <3>4, <3>5, <3>6 DEF WriteInv
  <2>9. QED
    BY <2>1, <2>3, <2>6, <2>7, <2>8 DEF FilesInv
<1>4. reshard \/ UNCHANGED rvars
  BY DEF Next, vars, OpenMain, OpenSliding, ZeroRow, EdgeRow, MainEdge, SlidingEdge, EndPart, Ended
<1>5. QED
  BY <1>2, <1>3, <1>4

-----------------------------------------------------------------------------

\* FilesInv is an invariant: whatever reshard does with the edges of a subgraph that can be
\* loaded, the rows and the runs of zeros that it has appended to a file are those of the
\* file's edges that it has seen, and every file of a subgraph it has done is whole.
THEOREM FilesInductive == Spec => []FilesInv
<1>1. Init => FilesInv
  BY FilesInit
<1>2. ReshardInv /\ FilesInv /\ [Next]_vars => FilesInv'
  BY FilesStep
<1>3. QED
  BY <1>1, <1>2, ReshardInductive, PTL DEF Spec

=============================================================================
