---------------------------- MODULE LoadingProofs ----------------------------
(***************************************************************************)
(* Theorems about the loading of the subgraphs (module Subgraph), for any   *)
(* graph and any intervals.  LoadInv says of a worker within a file that it *)
(* is at a row of it, and that the pointers it has are those of the edges   *)
(* it has read; it rests on the invariants of what reshard writes.          *)
(***************************************************************************)
EXTENDS SubgraphProofs

-----------------------------------------------------------------------------
(* Reading rows *)

\* A reader is at the beginning of a row, or has m edges of a row to go.
AtRow(adj, base, L, v, c, x, y, z) ==
  z <= Len(L) /\ \E R : Rows(adj, base, L, R, v, c) /\ <<x, y, z>> \in R

InRow(adj, base, L, v, c, x, y, z, m) ==
  \E R : \E r \in R :
    /\ Rows(adj, base, L, R, v, c) /\ Lists(adj, L, R, r)
    /\ x \in Int /\ z \in Int /\ m \in Int /\ m > 0 /\ m <= LengthOf(adj, r[1])
    /\ x + m = r[1] + HeadOf(adj, r[1]) + LengthOf(adj, r[1])
    /\ y = r[2] /\ z + m = r[3] + LengthOf(adj, r[1])

\* A reader begins at a row.
LEMMA RowBegins ==
  ASSUME NEW adj, NEW base, NEW L, Len(L) \in Nat, NEW v, NEW c, NEW R, Rows(adj, base, L, R, v, c)
  PROVE  AtRow(adj, base, L, v, c, 1, base, 0)
<1>1. <<1, base, 0>> \in R
  BY DEF Rows
<1>2. 0 <= Len(L)
  OBVIOUS
<1>3. QED
  BY <1>1, <1>2 DEF AtRow

\* Where a reader is: before the end, at the row of a vertex before v; at the end, at v.
LEMMA RowPlace ==
  ASSUME NEW adj, NEW base, NEW L, NEW v, NEW c, NEW x, NEW y, NEW z, AtRow(adj, base, L, v, c, x, y, z)
  PROVE  /\ adj \in Seq(Nat) /\ Len(adj) \in Nat
         /\ x \in Nat /\ y \in Nat /\ z \in Nat /\ v \in Nat /\ x > 0 /\ x <= Len(adj) + 1
         /\ x <= Len(adj) => y < v /\ adj[x] \in Nat
         /\ ~ (x <= Len(adj)) => y = v /\ z = c
         /\ z <= Len(L)
<1>1. PICK R : Rows(adj, base, L, R, v, c) /\ <<x, y, z>> \in R
  BY DEF AtRow
<1>2. PICK r : r = <<x, y, z>>
  OBVIOUS
<1>3. /\ adj \in Seq(Nat) /\ v \in Nat /\ R \in SUBSET (Nat \X Nat \X Nat) /\ r \in R
      /\ r[1] > 0 /\ r[1] <= Len(adj) + 1
      /\ r[1] = Len(adj) + 1 => r[2] = v /\ r[3] = c
      /\ r[1] <= Len(adj) => r[2] < v
  BY <1>1, <1>2 DEF Rows
<1>4. r[1] = x /\ r[2] = y /\ r[3] = z
  BY <1>2
<1>5. x \in Nat /\ y \in Nat /\ z \in Nat
  <2>1. r \in Nat \X Nat \X Nat
    BY <1>3
  <2>2. QED
    BY <1>2, <2>1
<1>6. PICK l : l = Len(adj)
  OBVIOUS
<1>7. l \in Nat
  BY <1>3, <1>6, LenProperties
<1>8. ~ (x <= l) => x = l + 1
  BY <1>3, <1>4, <1>5, <1>6, <1>7
<1>9. x <= l => adj[x] \in Nat
  <2>1. x <= l => x \in 1 .. l
    BY <1>3, <1>4, <1>5, <1>7
  <2>2. QED
    BY <1>3, <1>6, <2>1, ElementOfSeq
<1>10. z <= Len(L)
  BY DEF AtRow
<1>11. QED
  BY <1>3, <1>4, <1>5, <1>6, <1>7, <1>8, <1>9, <1>10

\* A 0 and how many vertices it skips.
LEMMA RowSkips ==
  ASSUME NEW adj, NEW base, NEW L, NEW v, NEW c, NEW x, NEW y, NEW z, AtRow(adj, base, L, v, c, x, y, z),
         x <= Len(adj), adj[x] = 0
  PROVE  adj[x + 1] \in Nat /\ AtRow(adj, base, L, v, c, x + 2, y + 1 + adj[x + 1], z)
<1>1. PICK R : Rows(adj, base, L, R, v, c) /\ <<x, y, z>> \in R
  BY DEF AtRow
<1>2. PICK r : r = <<x, y, z>>
  OBVIOUS
<1>3. r \in R /\ r[1] = x /\ r[2] = y /\ r[3] = z
  BY <1>1, <1>2
<1>4. Skips(adj, R, r)
  <2>1. Skips(adj, R, r) \/ Lists(adj, L, R, r)
    BY <1>1, <1>3 DEF Rows
  <2>2. ~ Lists(adj, L, R, r)
    BY <1>3 DEF Lists
  <2>3. QED
    BY <2>1, <2>2
<1>5. x < Len(adj) /\ <<x + 2, y + 1 + adj[x + 1], z>> \in R
  BY <1>3, <1>4 DEF Skips
<1>6. adj[x + 1] \in Nat
  <2>1. adj \in Seq(Nat) /\ Len(adj) \in Nat /\ x \in Nat
    BY RowPlace
  <2>2. x + 1 \in 1 .. Len(adj)
    BY <1>5, <2>1
  <2>3. QED
    BY <2>1, <2>2, ElementOfSeq
<1>7. AtRow(adj, base, L, v, c, x + 2, y + 1 + adj[x + 1], z)
  BY <1>1, <1>5 DEF AtRow
<1>8. QED
  BY <1>6, <1>7

\* The length of a row, in one field or in two.
LEMMA RowLists ==
  ASSUME NEW adj, NEW base, NEW L, NEW v, NEW c, NEW x, NEW y, NEW z, AtRow(adj, base, L, v, c, x, y, z),
         x <= Len(adj), adj[x] # 0
  PROVE  /\ LengthOf(adj, x) \in Nat
         /\ InRow(adj, base, L, v, c, x + HeadOf(adj, x), y, z, LengthOf(adj, x))
<1>1. PICK R : Rows(adj, base, L, R, v, c) /\ <<x, y, z>> \in R
  BY DEF AtRow
<1>2. PICK r : r = <<x, y, z>>
  OBVIOUS
<1>3. r \in R /\ r[1] = x /\ r[2] = y /\ r[3] = z
  BY <1>1, <1>2
<1>4. Lists(adj, L, R, r)
  <2>1. Skips(adj, R, r) \/ Lists(adj, L, R, r)
    BY <1>1, <1>3 DEF Rows
  <2>2. ~ Skips(adj, R, r)
    BY <1>3 DEF Skips
  <2>3. QED
    BY <2>1, <2>2
<1>5. PICK m : m = LengthOf(adj, x)
  OBVIOUS
<1>6. PICK h : h = HeadOf(adj, x)
  OBVIOUS
<1>7. m \in Nat /\ m > 0
  BY <1>3, <1>4, <1>5 DEF Lists
<1>8. m <= m /\ x \in Nat /\ z \in Nat /\ h \in Nat /\ x + h \in Int
  <2>1. x \in Nat /\ z \in Nat
    BY RowPlace
  <2>2. h \in Nat
    BY <1>6 DEF HeadOf
  <2>3. QED
    BY <1>7, <2>1, <2>2
<1>9. InRow(adj, base, L, v, c, x + h, y, z, m)
  BY <1>1, <1>3, <1>4, <1>5, <1>6, <1>7, <1>8 DEF InRow
<1>10. QED
  BY <1>5, <1>6, <1>7, <1>9

\* An edge of a row, and where the reader is after it.
EdgeHere(adj, base, L, v, c, x, y, z, m) ==
  /\ m > 0 /\ y \in Nat /\ adj[x] \in Nat /\ x \in Nat /\ z \in Nat
  /\ z + 1 \in 1 .. Len(L) /\ L[z + 1] = <<y, adj[x]>>
  /\ m = 1 => AtRow(adj, base, L, v, c, x + 1, y + 1, z + 1)
  /\ m # 1 => InRow(adj, base, L, v, c, x + 1, y, z + 1, m - 1)

\* The field at hand within a row is the target of the next edge of the list.
LEMMA RowEdge ==
  ASSUME NEW adj, NEW base, NEW L, Len(L) \in Nat, NEW v, NEW c, NEW x, NEW y, NEW z, NEW m,
         InRow(adj, base, L, v, c, x, y, z, m)
  PROVE  EdgeHere(adj, base, L, v, c, x, y, z, m)
<1>1. PICK R : \E r \in R :
        /\ Rows(adj, base, L, R, v, c) /\ Lists(adj, L, R, r)
        /\ x \in Int /\ z \in Int /\ m \in Int /\ m > 0 /\ m <= LengthOf(adj, r[1])
        /\ x + m = r[1] + HeadOf(adj, r[1]) + LengthOf(adj, r[1])
        /\ y = r[2] /\ z + m = r[3] + LengthOf(adj, r[1])
  BY DEF InRow
<1>2. PICK r \in R :
        /\ Rows(adj, base, L, R, v, c) /\ Lists(adj, L, R, r)
        /\ x \in Int /\ z \in Int /\ m \in Int /\ m > 0 /\ m <= LengthOf(adj, r[1])
        /\ x + m = r[1] + HeadOf(adj, r[1]) + LengthOf(adj, r[1])
        /\ y = r[2] /\ z + m = r[3] + LengthOf(adj, r[1])
  BY <1>1
<1>3. PICK h : h = HeadOf(adj, r[1])
  OBVIOUS
<1>4. PICK k : k = LengthOf(adj, r[1])
  OBVIOUS
<1>5. PICK a : a = r[1]
  OBVIOUS
<1>6. PICK d : d = r[3]
  OBVIOUS
<1>7. PICK l : l = Len(adj)
  OBVIOUS
<1>8. a \in Nat /\ d \in Nat /\ y \in Nat /\ a > 0 /\ l \in Nat /\ adj \in Seq(Nat)
  <2>1. r \in Nat \X Nat \X Nat /\ r[1] > 0 /\ adj \in Seq(Nat)
    BY <1>2 DEF Rows
  <2>2. Len(adj) \in Nat
    BY <2>1, LenProperties
  <2>3. QED
    BY <1>2, <1>5, <1>6, <1>7, <2>1, <2>2
<1>9. h \in Nat /\ h > 0
  BY <1>3 DEF HeadOf
<1>10. /\ k \in Nat /\ k > 0 /\ a + h + k <= l + 1 /\ d + k <= Len(L)
       /\ \A f \in 1 .. k : L[d + f] = <<y, adj[a + h + f - 1]>>
       /\ <<a + h + k, y + 1, d + k>> \in R
  BY <1>2, <1>3, <1>4, <1>5, <1>6, <1>7 DEF Lists
<1>11. x \in Int /\ z \in Int /\ m \in Int /\ m > 0 /\ m <= k /\ x + m = a + h + k /\ z + m = d + k
  BY <1>2, <1>3, <1>4, <1>5, <1>6
<1>12. PICK f : f = k - m + 1
  OBVIOUS
<1>13. f \in 1 .. k /\ z + 1 = d + f /\ a + h + f - 1 = x
  <2>1. /\ f \in Int /\ f = k - m + 1 /\ k \in Int /\ a \in Int /\ h \in Int /\ d \in Int
        /\ m \in Int /\ x \in Int /\ z \in Int
    BY <1>8, <1>9, <1>10, <1>11, <1>12
  <2>2. f \in 1 .. k
    BY <1>11, <2>1
  <2>3. z = d + k - m /\ x = a + h + k - m
    BY <1>11, <2>1
  <2>4. z + 1 = d + f
    BY <2>1, <2>3
  <2>5. a + h + f - 1 = x
    BY <2>1, <2>3
  <2>6. QED
    BY <2>2, <2>4, <2>5
<1>14. L[z + 1] = <<y, adj[x]>>
  BY <1>10, <1>13
<1>15. x \in 1 .. l /\ z \in Nat /\ z + 1 \in 1 .. Len(L)
  BY <1>8, <1>9, <1>10, <1>11
<1>16. adj[x] \in Nat
  BY <1>7, <1>8, <1>15, ElementOfSeq
<1>17. ASSUME m = 1 PROVE AtRow(adj, base, L, v, c, x + 1, y + 1, z + 1)
  <2>1. x + 1 = a + h + k /\ z + 1 = d + k /\ z + 1 <= Len(L)
    BY <1>11, <1>15, <1>17
  <2>2. <<x + 1, y + 1, z + 1>> \in R
    BY <1>10, <2>1
  <2>3. QED
    BY <1>2, <2>1, <2>2 DEF AtRow
<1>18. ASSUME m # 1 PROVE InRow(adj, base, L, v, c, x + 1, y, z + 1, m - 1)
  <2>1. PICK n1 : n1 = m - 1
    OBVIOUS
  <2>2. /\ x + 1 \in Int /\ z + 1 \in Int /\ n1 \in Int /\ n1 > 0 /\ n1 <= k
        /\ x + 1 + n1 = a + h + k /\ z + 1 + n1 = d + k
    BY <1>10, <1>11, <1>18, <2>1
  <2>3. InRow(adj, base, L, v, c, x + 1, y, z + 1, n1)
    BY <1>2, <1>3, <1>4, <1>5, <1>6, <2>2 DEF InRow
  <2>4. QED
    BY <2>1, <2>3
<1>19. QED
  BY <1>11, <1>8, <1>14, <1>15, <1>16, <1>17, <1>18 DEF EdgeHere

-----------------------------------------------------------------------------
(* The edges of a worker and the blocks that they are in *)

\* The in-edges of the worker's own interval, from sources before interval b.
Below(w, b) == {e \in FileEdges(w, w) : Owner(e[1]) < b}

\* A block is a finite part of the edges, and has as many values as edges.
LEMMA BlockFacts ==
  ASSUME graph \in Inputs, NEW k, NEW p
  PROVE  /\ Block(k, p) \in SUBSET graph.edges /\ Block(k, p) \in SUBSET (Nat \X Nat)
         /\ IsFiniteSet(Block(k, p)) /\ Cardinality(Block(k, p)) \in Nat
         /\ Len(Sorted(Block(k, p))) = Cardinality(Block(k, p))
         /\ Cardinality(Block(k, p)) <= Cardinality(graph.edges) /\ Cardinality(graph.edges) \in Nat
<1>1. Block(k, p) \in SUBSET graph.edges
  BY DEF Block
<1>2. IsFiniteSet(graph.edges) /\ graph.edges \in SUBSET (Nat \X Nat)
  BY GraphFacts
<1>3. IsFiniteSet(Block(k, p)) /\ Cardinality(Block(k, p)) <= Cardinality(graph.edges)
  BY <1>1, <1>2, FS_Subset
<1>4. Cardinality(Block(k, p)) \in Nat /\ Cardinality(graph.edges) \in Nat
  BY <1>2, <1>3, FS_CardinalityType
<1>5. Block(k, p) \in SUBSET (Nat \X Nat)
  BY <1>1, <1>2
<1>6. Len(Sorted(Block(k, p))) = Cardinality(Block(k, p))
  BY <1>3, <1>5, SortedAt
<1>7. QED
  BY <1>1, <1>3, <1>4, <1>5, <1>6

\* The edges into an interval are its blocks.
LEMMA OwnFile ==
  ASSUME graph \in Inputs, NEW w \in Shard
  PROVE  /\ FileEdges(w, w) = {e \in graph.edges : e[2] \in Interval(w)}
         /\ \A e \in FileEdges(w, w) : Owner(e[1]) \in Shard /\ e \in Block(Owner(e[1]), w)
         /\ \A b \in Shard : \A e \in Block(b, w) : e \in FileEdges(w, w) /\ Owner(e[1]) = b
<1>1. FileEdges(w, w) = {e \in graph.edges : e[2] \in Interval(w)}
  BY DEF FileEdges, Shovel
<1>2. ASSUME NEW e \in FileEdges(w, w) PROVE Owner(e[1]) \in Shard /\ e \in Block(Owner(e[1]), w)
  <2>1. e \in graph.edges /\ e[2] \in Interval(w)
    BY <1>1
  <2>2. Owner(e[1]) \in Shard /\ e[1] \in Interval(Owner(e[1]))
    BY <2>1, EdgeFacts
  <2>3. QED
    BY <2>1, <2>2 DEF Block
<1>3. ASSUME NEW b \in Shard, NEW e \in Block(b, w) PROVE e \in FileEdges(w, w) /\ Owner(e[1]) = b
  <2>1. e \in graph.edges /\ e[2] \in Interval(w) /\ e[1] \in Interval(b)
    BY DEF Block
  <2>2. QED
    BY <1>1, <2>1, OwnerFacts
<1>4. QED
  BY <1>1, <1>2, <1>3

\* A place in the adjacency is a place in the block after all the blocks before.
LEMMA BelowFacts ==
  ASSUME graph \in Inputs, NEW w \in Shard
  PROVE  /\ Cardinality(Below(w, 0)) = 0
         /\ \A b \in 0 .. P + 1 : /\ IsFiniteSet(Below(w, b)) /\ Cardinality(Below(w, b)) \in Nat
                                  /\ Cardinality(Below(w, b)) <= Cardinality(FileEdges(w, w))
         /\ \A b \in Shard : Cardinality(Below(w, b + 1)) = Cardinality(Below(w, b)) + Cardinality(Block(b, w))
         /\ Cardinality(Below(w, P + 1)) = Cardinality(Below(w, P))
         /\ \A b \in Shard : \A e \in Block(b, w) :
              Rank(e, FileEdges(w, w)) = Cardinality(Below(w, b)) + Rank(e, Block(b, w))
<1>1. PICK FE : FE = FileEdges(w, w)
  OBVIOUS
<1>2. /\ IsFiniteSet(FE) /\ FE \in SUBSET (Nat \X Nat) /\ Cardinality(FE) \in Nat
      /\ P \in Nat /\ P > 0 /\ Shard = 0 .. P - 1
  BY <1>1, FileFacts, GraphFacts
<1>3. /\ \A e \in FE : Owner(e[1]) \in Shard /\ e \in Block(Owner(e[1]), w)
      /\ \A b \in Shard : \A e \in Block(b, w) : e \in FE /\ Owner(e[1]) = b
      /\ FE \in SUBSET graph.edges
  BY <1>1, OwnFile, FileFacts
<1>4. \A b : Below(w, b) = {e \in FE : Owner(e[1]) < b}
  BY <1>1 DEF Below
<1>5. ASSUME NEW b
      PROVE  /\ IsFiniteSet(Below(w, b)) /\ Cardinality(Below(w, b)) \in Nat
             /\ Cardinality(Below(w, b)) <= Cardinality(FE)
  <2>1. Below(w, b) \in SUBSET FE
    BY <1>4
  <2>2. QED
    BY <1>2, <2>1, FS_Subset, FS_CardinalityType
<1>6. Below(w, 0) = {}
  <2>1. \A e \in FE : ~ (Owner(e[1]) < 0)
    BY <1>2, <1>3
  <2>2. QED
    BY <1>4, <2>1
<1>7. Below(w, P + 1) = Below(w, P)
  <2>1. \A e \in FE : Owner(e[1]) < P + 1 /\ Owner(e[1]) < P
    BY <1>2, <1>3
  <2>2. QED
    BY <1>4, <2>1
<1>8. ASSUME NEW b \in Shard
      PROVE  Cardinality(Below(w, b + 1)) = Cardinality(Below(w, b)) + Cardinality(Block(b, w))
  <2>1. ASSUME NEW e \in FE PROVE Owner(e[1]) < b + 1 <=> Owner(e[1]) < b \/ e \in Block(b, w)
    <3>1. Owner(e[1]) \in Nat /\ b \in Nat
      BY <1>2, <1>3
    <3>2. Owner(e[1]) = b <=> e \in Block(b, w)
      BY <1>3
    <3>3. QED
      BY <3>1, <3>2
  <2>2. Below(w, b + 1) = Below(w, b) \cup Block(b, w)
    <3>1. \A e \in Block(b, w) : e \in FE
      BY <1>3
    <3>2. QED
      BY <1>4, <2>1, <3>1
  <2>3. Below(w, b) \cap Block(b, w) = {}
    <3>1. b \in Nat
      BY <1>2
    <3>2. \A e \in Block(b, w) : ~ (Owner(e[1]) < b)
      BY <1>3, <3>1
    <3>3. QED
      BY <1>4, <3>2
  <2>4. IsFiniteSet(Block(b, w)) /\ Cardinality(Block(b, w)) \in Nat
    BY BlockFacts
  <2>5. Cardinality(Below(w, b) \cap Block(b, w)) = 0
    BY <2>3, FS_EmptySet
  <2>6. Cardinality(Below(w, b + 1))
          = Cardinality(Below(w, b)) + Cardinality(Block(b, w)) - Cardinality(Below(w, b) \cap Block(b, w))
    BY <1>5, <2>2, <2>4, FS_Union
  <2>7. QED
    BY <1>5, <2>4, <2>5, <2>6
<1>9. ASSUME NEW b \in Shard, NEW e \in Block(b, w)
      PROVE  Rank(e, FE) = Cardinality(Below(w, b)) + Rank(e, Block(b, w))
  <2>1. PICK A : A = {f \in FE : Less(f, e)}
    OBVIOUS
  <2>2. PICK B : B = {f \in Block(b, w) : Less(f, e)}
    OBVIOUS
  <2>3. e \in FE /\ e \in graph.edges /\ e[1] \in Interval(b)
    BY <1>3 DEF Block
  <2>4. ASSUME NEW f \in FE PROVE Less(f, e) <=> Owner(f[1]) < b \/ f \in B
    <3>1. f \in graph.edges /\ Owner(f[1]) \in Shard /\ f[1] \in Interval(Owner(f[1]))
      BY <1>3, EdgeFacts
    <3>2. /\ f[1] \in Nat /\ e[1] \in Nat /\ Owner(f[1]) \in Nat /\ b \in Nat
          /\ f[1] <= e[1] => Owner(f[1]) <= b
          /\ Owner(f[1]) < b => f[1] < e[1]
      BY <2>3, <3>1, IntervalOrder
    <3>3. Owner(f[1]) = b <=> f \in Block(b, w)
      BY <1>3
    <3>4. f \in B <=> Owner(f[1]) = b /\ Less(f, e)
      BY <2>2, <3>3
    <3>5. Less(f, e) => f[1] <= e[1]
      BY <3>2 DEF Less
    <3>6. Owner(f[1]) < b => Less(f, e)
      BY <3>2 DEF Less
    <3>7. Less(f, e) => Owner(f[1]) < b \/ Owner(f[1]) = b
      BY <3>2, <3>5
    <3>8. QED
      BY <3>4, <3>6, <3>7
  <2>5. A = Below(w, b) \cup B
    <3>1. \A f \in B : f \in FE
      BY <1>3, <2>2
    <3>2. QED
      BY <1>4, <2>1, <2>4, <3>1
  <2>6. Below(w, b) \cap B = {}
    <3>1. b \in Nat
      BY <1>2
    <3>2. \A f \in B : ~ (Owner(f[1]) < b)
      BY <1>3, <2>2, <3>1
    <3>3. QED
      BY <1>4, <3>2
  <2>7. IsFiniteSet(B) /\ Cardinality(B) \in Nat
    <3>1. IsFiniteSet(Block(b, w)) /\ B \in SUBSET Block(b, w)
      BY <2>2, BlockFacts
    <3>2. QED
      BY <3>1, FS_Subset, FS_CardinalityType
  <2>8. Cardinality(Below(w, b) \cap B) = 0
    BY <2>6, FS_EmptySet
  <2>9. Cardinality(A) = Cardinality(Below(w, b)) + Cardinality(B) - Cardinality(Below(w, b) \cap B)
    BY <1>5, <2>5, <2>7, FS_Union
  <2>10. Cardinality(A) = Cardinality(Below(w, b)) + Cardinality(B)
    BY <1>5, <2>7, <2>8, <2>9
  <2>11. QED
    BY <2>1, <2>2, <2>10 DEF Rank
<1>10. QED
  BY <1>1, <1>5, <1>6, <1>7, <1>8, <1>9, FS_EmptySet

\* The edges of later blocks come later.
LEMMA OwnersAscend ==
  ASSUME graph \in Inputs, NEW w \in Shard, NEW e \in FileEdges(w, w), NEW f \in FileEdges(w, w)
  PROVE  /\ Owner(e[1]) \in Nat /\ Owner(f[1]) \in Nat
         /\ Owner(e[1]) < Owner(f[1]) => Rank(e, FileEdges(w, w)) < Rank(f, FileEdges(w, w))
<1>1. e \in graph.edges /\ f \in graph.edges
  BY FileFacts
<1>2. /\ Owner(e[1]) \in Shard /\ e[1] \in Interval(Owner(e[1]))
      /\ Owner(f[1]) \in Shard /\ f[1] \in Interval(Owner(f[1]))
  BY <1>1, EdgeFacts
<1>3. Owner(e[1]) \in Nat /\ Owner(f[1]) \in Nat /\ (Owner(e[1]) < Owner(f[1]) => e[1] < f[1])
  BY <1>2, IntervalOrder
<1>4. e[1] < f[1] => Less(e, f)
  BY DEF Less
<1>5. IsFiniteSet(FileEdges(w, w)) /\ FileEdges(w, w) \in SUBSET (Nat \X Nat)
  BY FileFacts
<1>6. Less(e, f) => Rank(e, FileEdges(w, w)) < Rank(f, FileEdges(w, w))
  BY <1>5, RankFacts
<1>7. QED
  BY <1>3, <1>4, <1>6

\* The first edge is in the block of interval 0, and the edge after the x-th one is in the
\* same block, or in the next one if the block ends at x.
LEMMA NextBlock ==
  ASSUME graph \in Inputs, NEW w \in Shard, Loadable(w), NEW l, l = Len(List(w, w)),
         NEW x \in 1 .. l, NEW e, e = List(w, w)[x], NEW b, b = Owner(e[1])
  PROVE  /\ b \in Shard /\ e \in Block(b, w)
         /\ x = Cardinality(Below(w, b)) + Rank(e, Block(b, w)) + 1
         /\ ~ (x < Cardinality(Below(w, b + 1))) => /\ x < l => Owner(List(w, w)[x + 1][1]) = b + 1
                                                    /\ x = l => b + 1 = P
         /\ x < Cardinality(Below(w, b + 1)) => x < l /\ Owner(List(w, w)[x + 1][1]) = b
<1>1. PICK FE : FE = FileEdges(w, w)
  OBVIOUS
<1>2. PICK L : L = List(w, w)
  OBVIOUS
<1>3. /\ IsFiniteSet(FE) /\ FE \in SUBSET (Nat \X Nat) /\ Cardinality(FE) \in Nat
      /\ P \in Nat /\ P > 0 /\ Shard = 0 .. P - 1
  BY <1>1, FileFacts, GraphFacts
<1>4. /\ l = Cardinality(FE) /\ l \in Nat
      /\ \A y \in 1 .. l : L[y] \in FE /\ Rank(L[y], FE) = y - 1
  BY <1>1, <1>2, <1>3, SortedAt DEF List
<1>5. e \in FE /\ Rank(e, FE) = x - 1
  BY <1>2, <1>4
<1>6. b \in Shard /\ e \in Block(b, w) /\ b \in Nat
  <2>1. b \in Shard /\ e \in Block(b, w)
    BY <1>1, <1>5, OwnFile
  <2>2. QED
    BY <1>3, <2>1
<1>7. Rank(e, FE) = Cardinality(Below(w, b)) + Rank(e, Block(b, w))
  BY <1>1, <1>6, BelowFacts
<1>8. x = Cardinality(Below(w, b)) + Rank(e, Block(b, w)) + 1
  <2>1. Cardinality(Below(w, b)) + Rank(e, Block(b, w)) \in Int
    BY <1>5, <1>7
  <2>2. Cardinality(Below(w, b)) + Rank(e, Block(b, w)) = x - 1
    BY <1>5, <1>7
  <2>3. QED
    BY <2>2
<1>9. \A g \in FE : \A f \in FE : /\ Owner(g[1]) \in Nat /\ Owner(f[1]) \in Nat
                                  /\ Owner(g[1]) < Owner(f[1]) => Rank(g, FE) < Rank(f, FE)
  BY <1>1, OwnersAscend
<1>10. \A g \in FE : Rank(g, FE) \in Nat /\ Rank(g, FE) < l
  <2>1. \A g \in FE : Rank(g, FE) \in 0 .. Cardinality(FE) - 1
    BY <1>3, RankFacts
  <2>2. QED
    BY <1>4, <2>1
<1>11. \A k \in Shard : \E g \in FE : Owner(g[1]) = k
  <2>1. ASSUME NEW k \in Shard PROVE \E g \in FE : Owner(g[1]) = k
    <3>1. PICK g : g \in Block(k, w)
      BY DEF Loadable
    <3>2. QED
      BY <1>1, <3>1, OwnFile
  <2>2. QED
    BY <2>1
<1>12. PICK u : u = Cardinality(Below(w, b + 1))
  OBVIOUS
<1>13. u \in Nat /\ u <= l /\ u = Cardinality(Below(w, b)) + Cardinality(Block(b, w)) /\ Cardinality(Below(w, b)) \in Nat
  <2>1. b + 1 \in 0 .. P + 1 /\ b \in 0 .. P + 1
    BY <1>3, <1>6
  <2>2. QED
    BY <1>1, <1>4, <1>6, <1>12, <2>1, BelowFacts
\* The edge after e is in its block or beyond.
<1>14. ASSUME x < l, NEW f, f = L[x + 1]
       PROVE  /\ f \in FE /\ Rank(f, FE) = x /\ Owner(f[1]) \in Nat /\ Owner(f[1]) >= b
              /\ Owner(f[1]) = b => x < u
              /\ \A g \in FE : ~ (Owner(g[1]) > b /\ Owner(g[1]) < Owner(f[1]))
  <2>1. x + 1 \in 1 .. l /\ x + 1 - 1 = x
    BY <1>4, <1>14
  <2>2. f \in FE /\ Rank(f, FE) = x
    BY <1>4, <1>14, <2>1
  <2>3. Owner(f[1]) \in Nat
    BY <1>9, <2>2
  <2>4. ~ (Owner(f[1]) < b)
    <3>1. Owner(f[1]) < b => Rank(f, FE) < Rank(e, FE)
      BY <1>5, <1>9, <2>2
    <3>2. QED
      BY <1>5, <2>2, <3>1
  <2>5. ASSUME Owner(f[1]) = b PROVE x < u
    <3>1. f \in Block(b, w)
      BY <1>1, <2>2, <2>5, OwnFile
    <3>2. Rank(f, FE) = Cardinality(Below(w, b)) + Rank(f, Block(b, w))
      BY <1>1, <1>6, <3>1, BelowFacts
    <3>3. Rank(f, Block(b, w)) \in 0 .. Cardinality(Block(b, w)) - 1 /\ Cardinality(Block(b, w)) \in Nat
      BY <3>1, BlockFacts, RankFacts
    <3>4. PICK r : r = Rank(f, Block(b, w))
      OBVIOUS
    <3>5. PICK lo : lo = Cardinality(Below(w, b))
      OBVIOUS
    <3>6. PICK m : m = Cardinality(Block(b, w))
      OBVIOUS
    <3>7. lo \in Nat /\ m \in Nat /\ u = lo + m
      BY <1>13, <3>3, <3>5, <3>6
    <3>8. r \in Nat /\ r < m /\ x = lo + r
      <4>1. r \in 0 .. m - 1
        BY <3>3, <3>4, <3>6
      <4>2. x = lo + r
        BY <2>2, <3>2, <3>4, <3>5
      <4>3. QED
        BY <3>7, <4>1, <4>2
    <3>9. QED
      BY <3>7, <3>8
  <2>6. ASSUME NEW g \in FE, Owner(g[1]) > b, Owner(g[1]) < Owner(f[1]) PROVE FALSE
    <3>1. Rank(g, FE) < x
      BY <1>9, <2>2, <2>6
    <3>2. Rank(e, FE) < Rank(g, FE)
      <4>1. Owner(e[1]) < Owner(g[1])
        BY <1>6, <1>9, <2>6
      <4>2. QED
        BY <1>5, <1>9, <4>1
    <3>3. Rank(g, FE) \in Nat
      BY <1>10
    <3>4. QED
      BY <1>5, <3>1, <3>2, <3>3
  <2>7. QED
    BY <1>6, <2>2, <2>3, <2>4, <2>5, <2>6
<1>15. ASSUME ~ (x < u), x < l PROVE Owner(L[x + 1][1]) = b + 1
  <2>1. PICK f : f = L[x + 1]
    OBVIOUS
  <2>2. f \in FE /\ Owner(f[1]) \in Nat /\ Owner(f[1]) > b
    <3>1. f \in FE /\ Owner(f[1]) \in Nat /\ Owner(f[1]) >= b /\ Owner(f[1]) # b
      BY <1>14, <1>15, <2>1
    <3>2. QED
      BY <1>6, <3>1
  <2>3. Owner(f[1]) \in Shard
    BY <1>1, <2>2, OwnFile
  <2>4. CASE Owner(f[1]) > b + 1
    <3>1. b + 1 \in Shard
      BY <1>3, <1>6, <2>3, <2>4
    <3>2. PICK g \in FE : Owner(g[1]) = b + 1
      BY <1>11, <3>1
    <3>3. b + 1 > b
      BY <1>6
    <3>4. QED
      BY <1>14, <1>15, <2>1, <2>4, <3>2, <3>3
  <2>5. QED
    BY <1>6, <2>1, <2>2, <2>4
<1>16. ASSUME x = l PROVE b + 1 = P
  <2>1. SUFFICES ASSUME b + 1 # P PROVE FALSE
    OBVIOUS
  <2>2. b + 1 \in Shard
    BY <1>3, <1>6, <2>1
  <2>3. PICK g \in FE : Owner(g[1]) = b + 1
    BY <1>11, <2>2
  <2>4. Owner(e[1]) < Owner(g[1])
    BY <1>6, <2>3
  <2>5. Rank(e, FE) < Rank(g, FE) /\ Rank(g, FE) \in Nat /\ Rank(g, FE) < l
    BY <1>5, <1>9, <1>10, <2>4
  <2>6. QED
    BY <1>4, <1>5, <1>16, <2>5
<1>17. ASSUME x < u PROVE x < l /\ Owner(L[x + 1][1]) = b
  <2>1. x < l
    BY <1>4, <1>13, <1>17
  <2>2. PICK f : f = L[x + 1]
    OBVIOUS
  <2>3. f \in FE /\ Rank(f, FE) = x /\ Owner(f[1]) \in Nat /\ Owner(f[1]) >= b
    BY <1>14, <2>1, <2>2
  <2>4. SUFFICES ASSUME Owner(f[1]) > b PROVE FALSE
    BY <1>6, <2>1, <2>2, <2>3
  <2>5. ASSUME NEW g \in Below(w, b + 1) PROVE g \in {h \in FE : Less(h, f)}
    <3>1. g \in FE /\ Owner(g[1]) < b + 1
      BY <1>1 DEF Below
    <3>2. Owner(g[1]) \in Nat
      BY <1>9, <3>1
    <3>3. Owner(g[1]) < Owner(f[1])
      BY <1>6, <2>3, <2>4, <3>1, <3>2
    <3>4. Rank(g, FE) < Rank(f, FE)
      BY <1>9, <2>3, <3>1, <3>3
    <3>5. g \in Nat \X Nat /\ f \in Nat \X Nat
      BY <1>3, <2>3, <3>1
    <3>6. g = f \/ Less(g, f) \/ Less(f, g)
      BY <3>5, LessOrder
    <3>7. Rank(g, FE) \in Nat /\ Rank(f, FE) \in Nat
      BY <1>10, <2>3, <3>1
    <3>8. ~ Less(f, g)
      <4>1. Less(f, g) => Rank(f, FE) < Rank(g, FE)
        BY <1>3, <2>3, <3>1, RankFacts
      <4>2. QED
        BY <3>4, <3>7, <4>1
    <3>9. g # f
      BY <3>4, <3>7
    <3>10. QED
      BY <3>1, <3>6, <3>8, <3>9
  <2>6. PICK A : A = {h \in FE : Less(h, f)}
    OBVIOUS
  <2>7. Below(w, b + 1) \in SUBSET A
    BY <2>5, <2>6
  <2>8. IsFiniteSet(A)
    <3>1. A \in SUBSET FE
      BY <2>6
    <3>2. QED
      BY <1>3, <3>1, FS_Subset
  <2>9. u <= Cardinality(A)
    BY <1>12, <2>7, <2>8, FS_Subset
  <2>10. Cardinality(A) = x
    BY <2>3, <2>6 DEF Rank
  <2>11. QED
    BY <1>13, <1>17, <2>9, <2>10
<1>18. QED
  BY <1>2, <1>6, <1>8, <1>12, <1>15, <1>16, <1>17

\* The first in-edge of a worker that can be loaded is in block 0.
LEMMA FirstBlock ==
  ASSUME graph \in Inputs, NEW w \in Shard, Loadable(w)
  PROVE  0 < Len(List(w, w)) /\ Owner(List(w, w)[1][1]) = 0
<1>1. PICK FE : FE = FileEdges(w, w)
  OBVIOUS
<1>2. PICK L : L = List(w, w)
  OBVIOUS
<1>3. /\ IsFiniteSet(FE) /\ FE \in SUBSET (Nat \X Nat) /\ Cardinality(FE) \in Nat
      /\ P \in Nat /\ P > 0 /\ Shard = 0 .. P - 1
  BY <1>1, FileFacts, GraphFacts
<1>4. /\ Len(L) = Cardinality(FE)
      /\ \A y \in 1 .. Len(L) : L[y] \in FE /\ Rank(L[y], FE) = y - 1
      /\ \A e \in FE : Rank(e, FE) \in Nat /\ Rank(e, FE) + 1 \in 1 .. Len(L)
  BY <1>1, <1>2, <1>3, SortedAt DEF List
<1>5. 0 \in Shard
  BY <1>3
<1>6. PICK g \in Block(0, w) : TRUE
  BY <1>5 DEF Loadable
<1>7. g \in FE /\ Owner(g[1]) = 0
  BY <1>1, <1>5, <1>6, OwnFile
<1>8. Len(L) \in Nat /\ 0 < Len(L) /\ 1 \in 1 .. Len(L)
  BY <1>3, <1>4, <1>7
<1>9. L[1] \in FE /\ Rank(L[1], FE) = 0
  BY <1>4, <1>8
<1>10. PICK f : f = L[1]
  OBVIOUS
<1>11. Owner(f[1]) \in Nat /\ (Owner(g[1]) < Owner(f[1]) => Rank(g, FE) < Rank(f, FE))
  BY <1>1, <1>7, <1>9, <1>10, OwnersAscend
<1>12. Owner(f[1]) = 0
  BY <1>4, <1>7, <1>9, <1>10, <1>11
<1>13. QED
  BY <1>2, <1>8, <1>10, <1>12

-----------------------------------------------------------------------------
(* The pointers of a worker *)

InPtr(e) == Pointer("in", e, "inbuf", Owner(e[1]), Place(e), PlaceInShadow(e))
OutPtr(e) ==
  Pointer("out", e, IF Inside(e) THEN "inbuf" ELSE "obuf", Owner(e[2]), Place(e), PlaceInShadow(e))

\* The edges whose two ends worker w has, when it has loaded x edges of part p.
InLoaded(w, p, x) == IF p = Main THEN Prefix(List(w, w), x) ELSE FileEdges(w, w)
OutLoaded(w, p, x) ==
  IF p = Main THEN {e \in Prefix(List(w, w), x) : e[1] \in Interval(w)}
  ELSE {e \in graph.edges : e[1] \in Interval(w) /\ (Owner(e[2]) = w \/ Owner(e[2]) < p)}
         \cup Prefix(List(w, p), x)

PointersOf(w, p, x) ==
  {InPtr(e) : e \in InLoaded(w, p, x)} \cup {OutPtr(e) : e \in OutLoaded(w, p, x)}

\* What depends on the graph only stays.
LEMMA SamePointers ==
  ASSUME graph' = graph
  PROVE  /\ \A e : InPtr(e)' = InPtr(e) /\ OutPtr(e)' = OutPtr(e)
         /\ \A w, p, x : PointersOf(w, p, x)' = PointersOf(w, p, x)
         /\ \A w : EdgesOf(w)' = EdgesOf(w)
         /\ \A w, b : Below(w, b)' = Below(w, b)
<1>1. /\ Shard' = Shard /\ \A k : Interval(k)' = Interval(k)
      /\ \A v : Owner(v)' = Owner(v)
      /\ \A k, p : Block(k, p)' = Block(k, p)
      /\ \A k, p : FileEdges(k, p)' = FileEdges(k, p)
      /\ \A k, p : List(k, p)' = List(k, p)
  BY SameGraph, SameFiles
<1>2. \A e : Place(e)' = Place(e) /\ Inside(e)' = Inside(e)
  BY <1>1 DEF Place, Inside
<1>3. \A e : PlaceInShadow(e)' = PlaceInShadow(e)
  BY <1>2 DEF PlaceInShadow
<1>4. \A e : InPtr(e)' = InPtr(e)
  BY <1>1, <1>2, <1>3 DEF InPtr
<1>5. \A e : OutPtr(e)' = OutPtr(e)
  BY <1>1, <1>2, <1>3 DEF OutPtr
<1>6. \A w, p, x : InLoaded(w, p, x)' = InLoaded(w, p, x)
  BY <1>1 DEF InLoaded
<1>7. \A w, p, x : OutLoaded(w, p, x)' = OutLoaded(w, p, x)
  <2>1. \A w : {e \in graph.edges : e[1] \in Interval(w)}' = {e \in graph.edges : e[1] \in Interval(w)}
    BY DEF Interval
  <2>2. ASSUME NEW w, NEW p
        PROVE  {e \in graph.edges : e[1] \in Interval(w) /\ (Owner(e[2]) = w \/ Owner(e[2]) < p)}'
                 = {e \in graph.edges : e[1] \in Interval(w) /\ (Owner(e[2]) = w \/ Owner(e[2]) < p)}
    BY <1>1 DEF Interval
  <2>3. \A w, x : Prefix(List(w, w), x)' = Prefix(List(w, w), x)
    BY <1>1 DEF Prefix
  <2>4. \A w, p, x : Prefix(List(w, p), x)' = Prefix(List(w, p), x)
    BY <1>1 DEF Prefix
  <2>5. ASSUME NEW w, NEW x
        PROVE  {e \in Prefix(List(w, w), x) : e[1] \in Interval(w)}'
                 = {e \in Prefix(List(w, w), x) : e[1] \in Interval(w)}
    BY <2>3 DEF Interval
  <2>6. ASSUME NEW w, NEW p, NEW x PROVE OutLoaded(w, p, x)' = OutLoaded(w, p, x)
    <3>1. CASE p = Main
      BY <2>5, <3>1 DEF OutLoaded
    <3>2. CASE p # Main
      BY <2>2, <2>4, <3>2 DEF OutLoaded
    <3>3. QED
      BY <3>1, <3>2
  <2>7. QED
    BY <2>6
<1>8. \A w, p, x : PointersOf(w, p, x)' = PointersOf(w, p, x)
  BY <1>4, <1>5, <1>6, <1>7 DEF PointersOf
<1>9. \A w : EdgesOf(w)' = EdgesOf(w)
  BY <1>1, <1>2, <1>3 DEF EdgesOf, Interval
<1>10. \A w, b : Below(w, b)' = Below(w, b)
  BY <1>1 DEF Below
<1>11. QED
  BY <1>4, <1>5, <1>8, <1>9, <1>10

\* The list of a file is ascending, and all of it is the edges of the file.
LEMMA FilePrefix ==
  ASSUME graph \in Inputs, NEW k \in Shard, NEW p \in Shard
  PROVE  /\ Prefix(List(k, p), 0) = {} /\ Prefix(List(k, p), Len(List(k, p))) = FileEdges(k, p)
         /\ Ascending(List(k, p), FileEdges(k, p))
         /\ \A x \in 1 .. Len(List(k, p)) :
              /\ List(k, p)[x] \in FileEdges(k, p) /\ Rank(List(k, p)[x], FileEdges(k, p)) = x - 1
              /\ Prefix(List(k, p), x) = Prefix(List(k, p), x - 1) \cup {List(k, p)[x]}
<1>1. PICK D : D = FileEdges(k, p)
  OBVIOUS
<1>2. D \in SUBSET (Nat \X Nat) /\ IsFiniteSet(D) /\ List(k, p) = Sorted(D)
  BY <1>1, FileFacts DEF List
<1>3. PICK s : s = Sorted(D)
  OBVIOUS
<1>4. Ascending(s, D)
  BY <1>2, <1>3, SortedAscending
<1>5. /\ Prefix(s, 0) = {} /\ Prefix(s, Len(s)) = D
      /\ \A x \in 1 .. Len(s) : s[x] \in D /\ Prefix(s, x) = Prefix(s, x - 1) \cup {s[x]}
  BY <1>2, <1>4, PrefixFacts
<1>6. \A x \in 1 .. Len(s) : Rank(s[x], D) = x - 1
  BY <1>2, <1>4, AscendingRank
<1>7. QED
  BY <1>1, <1>2, <1>3, <1>4, <1>5, <1>6

\* One more edge of the main part: both its ends, if its source is in the interval.
LEMMA PointersMain ==
  ASSUME graph \in Inputs, NEW w \in Shard, NEW x \in 1 .. Len(List(w, w)), NEW e, e = List(w, w)[x]
  PROVE  PointersOf(w, Main, x)
           = PointersOf(w, Main, x - 1) \cup {InPtr(e)} \cup (IF e[1] \in Interval(w) THEN {OutPtr(e)} ELSE {})
<1>1. Prefix(List(w, w), x) = Prefix(List(w, w), x - 1) \cup {e}
  BY FilePrefix
<1>2. InLoaded(w, Main, x) = InLoaded(w, Main, x - 1) \cup {e}
  BY <1>1 DEF InLoaded
<1>3. OutLoaded(w, Main, x) = OutLoaded(w, Main, x - 1) \cup (IF e[1] \in Interval(w) THEN {e} ELSE {})
  BY <1>1 DEF OutLoaded
<1>4. {InPtr(f) : f \in InLoaded(w, Main, x)} = {InPtr(f) : f \in InLoaded(w, Main, x - 1)} \cup {InPtr(e)}
  BY <1>2
<1>5. {OutPtr(f) : f \in OutLoaded(w, Main, x)}
        = {OutPtr(f) : f \in OutLoaded(w, Main, x - 1)} \cup (IF e[1] \in Interval(w) THEN {OutPtr(e)} ELSE {})
  BY <1>3
<1>6. QED
  BY <1>4, <1>5 DEF PointersOf

\* One more edge to another interval.
LEMMA PointersSliding ==
  ASSUME graph \in Inputs, NEW w \in Shard, NEW p \in Shard, NEW x \in 1 .. Len(List(w, p)),
         NEW e, e = List(w, p)[x]
  PROVE  PointersOf(w, p, x) = PointersOf(w, p, x - 1) \cup {OutPtr(e)}
<1>1. Prefix(List(w, p), x) = Prefix(List(w, p), x - 1) \cup {e}
  BY FilePrefix
<1>2. p # Main
  BY GraphFacts DEF Main
<1>3. InLoaded(w, p, x) = InLoaded(w, p, x - 1)
  BY <1>2 DEF InLoaded
<1>4. OutLoaded(w, p, x) = OutLoaded(w, p, x - 1) \cup {e}
  BY <1>1, <1>2 DEF OutLoaded
<1>5. {OutPtr(f) : f \in OutLoaded(w, p, x)} = {OutPtr(f) : f \in OutLoaded(w, p, x - 1)} \cup {OutPtr(e)}
  BY <1>4
<1>6. QED
  BY <1>3, <1>5 DEF PointersOf

\* Before its first edge a worker has no pointer.
LEMMA PointersNone ==
  ASSUME graph \in Inputs, NEW w \in Shard
  PROVE  PointersOf(w, Main, 0) = {}
<1>1. Prefix(List(w, w), 0) = {}
  BY FilePrefix
<1>2. InLoaded(w, Main, 0) = {} /\ OutLoaded(w, Main, 0) = {}
  BY <1>1 DEF InLoaded, OutLoaded
<1>3. QED
  BY <1>2 DEF PointersOf

\* The part after part p.
PartAfter(w, p) == IF p + 1 = w THEN p + 2 ELSE p + 1
LoadedAll(w, p) == PointersOf(w, p, Len(List(w, IF p = Main THEN w ELSE p)))

\* The out-edges of a worker after all of a part.
LEMMA OutAll ==
  ASSUME graph \in Inputs, NEW w \in Shard, NEW p \in Shard \cup {Main}, p # w, NEW q, q = PartAfter(w, p)
  PROVE  OutLoaded(w, p, Len(List(w, IF p = Main THEN w ELSE p)))
           = {e \in graph.edges : e[1] \in Interval(w) /\ (Owner(e[2]) = w \/ Owner(e[2]) < q)}
<1>1. P \in Nat /\ P > 0 /\ Shard = 0 .. P - 1 /\ Main = -1
  BY GraphFacts DEF Main
<1>2. \A e \in graph.edges : Owner(e[2]) \in Shard /\ Owner(e[1]) \in Shard /\ e[2] \in Interval(Owner(e[2]))
  BY EdgeFacts
<1>3. CASE p = Main
  <2>1. ASSUME NEW e \in graph.edges PROVE Owner(e[2]) < q => Owner(e[2]) = w
    <3>1. q = IF w = 0 THEN 1 ELSE 0
      BY <1>1, <1>3 DEF PartAfter
    <3>2. Owner(e[2]) \in Nat
      BY <1>1, <1>2
    <3>3. QED
      BY <3>1, <3>2
  <2>2. \A e \in graph.edges : e[2] \in Interval(w) <=> Owner(e[2]) = w
    BY <1>2, OwnerFacts
  <2>3. Prefix(List(w, w), Len(List(w, w))) = {e \in graph.edges : e[2] \in Interval(w)}
    BY FilePrefix, OwnFile
  <2>4. OutLoaded(w, p, Len(List(w, w))) = {e \in graph.edges : e[2] \in Interval(w) /\ e[1] \in Interval(w)}
    BY <1>3, <2>3 DEF OutLoaded
  <2>5. QED
    BY <1>3, <2>1, <2>2, <2>4
<1>4. CASE p # Main
  <2>1. p \in Shard
    BY <1>4
  <2>2. ASSUME NEW e \in graph.edges
        PROVE  Owner(e[2]) = w \/ Owner(e[2]) < q <=> Owner(e[2]) = w \/ Owner(e[2]) < p \/ Owner(e[2]) = p
    <3>1. p \in Nat /\ w \in Nat /\ Owner(e[2]) \in Nat
      BY <1>1, <1>2, <2>1
    <3>2. q = IF p + 1 = w THEN p + 2 ELSE p + 1
      BY DEF PartAfter
    <3>3. QED
      BY <3>1, <3>2
  <2>3. Prefix(List(w, p), Len(List(w, p))) = Block(w, p)
    BY <2>1, FilePrefix, FileFacts
  <2>4. ASSUME NEW e \in graph.edges PROVE e \in Block(w, p) <=> e[1] \in Interval(w) /\ Owner(e[2]) = p
    <3>1. e[2] \in Interval(p) <=> Owner(e[2]) = p
      BY <1>2, <2>1, OwnerFacts
    <3>2. QED
      BY <3>1 DEF Block
  <2>5. Block(w, p) \in SUBSET graph.edges
    BY DEF Block
  <2>6. OutLoaded(w, p, Len(List(w, p)))
          = {e \in graph.edges : e[1] \in Interval(w) /\ (Owner(e[2]) = w \/ Owner(e[2]) < p)} \cup Block(w, p)
    BY <1>4, <2>3 DEF OutLoaded
  <2>7. QED
    BY <1>4, <2>2, <2>4, <2>5, <2>6
<1>5. QED
  BY <1>3, <1>4

\* The end of a part is the beginning of the next.
LEMMA PointersNext ==
  ASSUME graph \in Inputs, NEW w \in Shard, NEW p \in Shard \cup {Main}, p # w,
         NEW q \in Shard, q = PartAfter(w, p)
  PROVE  LoadedAll(w, p) = PointersOf(w, q, 0) /\ q # w /\ q # Main
<1>1. P \in Nat /\ Shard = 0 .. P - 1 /\ Main = -1
  BY GraphFacts DEF Main
<1>2. q # w /\ q # Main
  BY <1>1 DEF PartAfter
<1>3. PICK l : l = Len(List(w, IF p = Main THEN w ELSE p))
  OBVIOUS
<1>4. OutLoaded(w, p, l) = {e \in graph.edges : e[1] \in Interval(w) /\ (Owner(e[2]) = w \/ Owner(e[2]) < q)}
  BY <1>3, OutAll
<1>5. OutLoaded(w, q, 0) = {e \in graph.edges : e[1] \in Interval(w) /\ (Owner(e[2]) = w \/ Owner(e[2]) < q)}
  <2>1. Prefix(List(w, q), 0) = {}
    BY FilePrefix
  <2>2. QED
    BY <1>2, <2>1 DEF OutLoaded
<1>6. InLoaded(w, p, l) = FileEdges(w, w) /\ InLoaded(w, q, 0) = FileEdges(w, w)
  <2>1. p = Main => Prefix(List(w, w), l) = FileEdges(w, w)
    BY <1>3, FilePrefix
  <2>2. QED
    BY <1>2, <2>1 DEF InLoaded
<1>7. QED
  BY <1>2, <1>3, <1>4, <1>5, <1>6 DEF PointersOf, LoadedAll

\* The end of the last part is all.
LEMMA PointersAll ==
  ASSUME graph \in Inputs, NEW w \in Shard, NEW p \in Shard \cup {Main}, p # w, ~ (PartAfter(w, p) < P)
  PROVE  LoadedAll(w, p) = EdgesOf(w)
<1>1. PICK q : q = PartAfter(w, p)
  OBVIOUS
<1>2. PICK l : l = Len(List(w, IF p = Main THEN w ELSE p))
  OBVIOUS
<1>3. \A e \in graph.edges : Owner(e[2]) < q
  <2>1. P \in Nat /\ Shard = 0 .. P - 1 /\ p \in Int
    BY GraphFacts DEF Main
  <2>2. q \in Int /\ ~ (q < P)
    BY <1>1, <2>1 DEF PartAfter
  <2>3. \A e \in graph.edges : Owner(e[2]) \in 0 .. P - 1
    BY <2>1, EdgeFacts
  <2>4. QED
    BY <2>1, <2>2, <2>3
<1>4. OutLoaded(w, p, l) = {e \in graph.edges : e[1] \in Interval(w)}
  BY <1>1, <1>2, <1>3, OutAll
<1>5. InLoaded(w, p, l) = {e \in graph.edges : e[2] \in Interval(w)}
  <2>1. p = Main => Prefix(List(w, w), l) = FileEdges(w, w)
    BY <1>2, FilePrefix
  <2>2. InLoaded(w, p, l) = FileEdges(w, w)
    BY <2>1 DEF InLoaded
  <2>3. QED
    BY <2>2, OwnFile
<1>6. EdgesOf(w) = {InPtr(e) : e \in {f \in graph.edges : f[2] \in Interval(w)}}
                     \cup {OutPtr(e) : e \in {f \in graph.edges : f[1] \in Interval(w)}}
  BY DEF EdgesOf, InPtr, OutPtr
<1>7. QED
  BY <1>2, <1>4, <1>5, <1>6 DEF PointersOf, LoadedAll

-----------------------------------------------------------------------------
(* The values *)

AllWritten == Typed /\ BlocksInv /\ pc = "done" /\ shard = P

\* When all is written, every block is the sorted list of its edges.
LEMMA WrittenBlocks ==
  ASSUME AllWritten, NEW w \in Shard, NEW b \in Shard
  PROVE  InBlock(w, b) = Sorted(Block(b, w)) /\ OutBlock(w, b) = Sorted(Block(w, b))
<1>1. graph \in Inputs /\ BlocksInv /\ shard = P
  BY DEF AllWritten, Typed
<1>2. SeenBy(w) = graph.edges
  <2>1. P \in Nat /\ Shard = 0 .. P - 1
    BY <1>1, GraphFacts
  <2>2. w < shard
    BY <1>1, <2>1
  <2>3. QED
    BY <2>2 DEF SeenBy
<1>3. ASSUME NEW k \in Shard, NEW p \in Shard, NEW s, Ascending(s, Block(k, p) \cap SeenBy(w))
      PROVE  s = Sorted(Block(k, p))
  <2>1. Block(k, p) \cap SeenBy(w) = Block(k, p)
    BY <1>2 DEF Block
  <2>2. Block(k, p) \in SUBSET (Nat \X Nat) /\ IsFiniteSet(Block(k, p))
    BY <1>1, BlockFacts
  <2>3. QED
    BY <1>3, <2>1, <2>2, AscendingSorted
<1>4. \A p \in Shard : wsl[w][p].outs = Sorted(Block(w, p))
  BY <1>1, <1>3 DEF BlocksInv
<1>5. \A p \in Shard : p # w => wsl[w][p].ins = Sorted(Block(p, w))
  BY <1>1, <1>3 DEF BlocksInv
<1>6. QED
  BY <1>4, <1>5 DEF InBlock, OutBlock

\* The fields of the pointer at the end of an edge.
LEMMA InPtrFields ==
  ASSUME NEW e
  PROVE  /\ InPtr(e).edge = e /\ InPtr(e).buf = "inbuf" /\ InPtr(e).block = Owner(e[1])
         /\ InPtr(e).at = Place(e)
BY DEF InPtr, Pointer

\* The fields of the pointer at its beginning.
LEMMA OutPtrFields ==
  ASSUME NEW e
  PROVE  /\ OutPtr(e).edge = e /\ OutPtr(e).block = Owner(e[2]) /\ OutPtr(e).at = Place(e)
         /\ Inside(e) => OutPtr(e).buf = "inbuf"
         /\ ~ Inside(e) => OutPtr(e).buf = "obuf"
BY DEF OutPtr, Pointer

\* Every pointer is to the value of its edge.
LEMMA ValuesRight ==
  ASSUME AllWritten, NEW w \in Shard, NEW q \in EdgesOf(w)
  PROVE  ValueAt(w, q) = q.edge
<1>1. graph \in Inputs
  BY DEF AllWritten, Typed
<1>2. ASSUME NEW e \in graph.edges, NEW k, k = Owner(e[1]), NEW p, p = Owner(e[2])
      PROVE  k \in Shard /\ p \in Shard /\ Sorted(Block(k, p))[Place(e) + 1] = e
  <2>1. k \in Shard /\ p \in Shard /\ e \in Block(k, p)
    BY <1>1, <1>2, EdgeFacts
  <2>2. Block(k, p) \in SUBSET (Nat \X Nat) /\ IsFiniteSet(Block(k, p))
    BY <1>1, BlockFacts
  <2>3. Sorted(Block(k, p))[Rank(e, Block(k, p)) + 1] = e
    BY <2>1, <2>2, SortedAt
  <2>4. QED
    BY <1>2, <2>1, <2>3 DEF Place
<1>3. ASSUME NEW e \in graph.edges, e[2] \in Interval(w), q = InPtr(e)
      PROVE  ValueAt(w, q) = q.edge
  <2>1. PICK k : k = Owner(e[1])
    OBVIOUS
  <2>2. Owner(e[2]) = w
    BY <1>1, <1>3, OwnerFacts
  <2>3. q.edge = e /\ q.buf = "inbuf" /\ q.block = k /\ q.at = Place(e)
    BY <1>3, <2>1, InPtrFields
  <2>4. InBlock(w, k) = Sorted(Block(k, w)) /\ Sorted(Block(k, w))[Place(e) + 1] = e
    BY <1>2, <2>1, <2>2, WrittenBlocks
  <2>5. QED
    BY <2>3, <2>4 DEF ValueAt
<1>4. ASSUME NEW e \in graph.edges, e[1] \in Interval(w), q = OutPtr(e)
      PROVE  ValueAt(w, q) = q.edge
  <2>1. PICK p : p = Owner(e[2])
    OBVIOUS
  <2>2. Owner(e[1]) = w
    BY <1>1, <1>4, OwnerFacts
  <2>3. q.edge = e /\ q.block = p /\ q.at = Place(e)
    BY <1>4, <2>1, OutPtrFields
  <2>4. p \in Shard /\ Sorted(Block(w, p))[Place(e) + 1] = e
    BY <1>2, <2>1, <2>2
  <2>5. CASE Inside(e)
    <3>1. p = w /\ q.buf = "inbuf"
      BY <1>4, <2>1, <2>2, <2>5, OutPtrFields DEF Inside
    <3>2. InBlock(w, p) = Sorted(Block(w, p))
      BY <3>1, WrittenBlocks
    <3>3. QED
      BY <2>3, <2>4, <3>1, <3>2 DEF ValueAt
  <2>6. CASE ~ Inside(e)
    <3>1. q.buf = "obuf"
      BY <1>4, <2>6, OutPtrFields
    <3>2. OutBlock(w, p) = Sorted(Block(w, p))
      BY <2>4, WrittenBlocks
    <3>3. QED
      BY <2>3, <2>4, <3>1, <3>2 DEF ValueAt
  <2>7. QED
    BY <2>5, <2>6
<1>5. \/ \E e \in graph.edges : e[2] \in Interval(w) /\ q = InPtr(e)
      \/ \E e \in graph.edges : e[1] \in Interval(w) /\ q = OutPtr(e)
  BY DEF EdgesOf, InPtr, OutPtr
<1>6. QED
  BY <1>3, <1>4, <1>5

-----------------------------------------------------------------------------
(* The invariant of the loading *)

\* The reader of file (w, p) is at a row, or in one.
RowOf(w, p, x, y, z) ==
  AtRow(wsl[w][p].adj, Base(w, p), List(w, p), NextVertex(wsl[w][p]), Cardinality(FileEdges(w, p)), x, y, z)
InRowOf(w, p, x, y, z, m) ==
  InRow(wsl[w][p].adj, Base(w, p), List(w, p), NextVertex(wsl[w][p]), Cardinality(FileEdges(w, p)),
        x, y, z, m)

\* After c edges of the main part: block b has the next one, r is where it ends, and s the
\* number of edges inside the interval.
MainAt(w, c, b, r, s) ==
  /\ c < Len(List(w, w)) => b = Owner(List(w, w)[c + 1][1])
  /\ c = Len(List(w, w)) => b = P
  /\ r = Cardinality(Below(w, b + 1))
  /\ s = HowMany(Block(w, w), List(w, w), c)

Reading == IF part = Main THEN worker ELSE part

LoadControl ==
  /\ worker \in 0 .. P /\ part \in Shard \cup {Main} /\ part # worker
  /\ lpc \in {"open", "row", "edge", "done", "failed"}
  /\ pc # "done" => lpc = "open" /\ worker = 0 /\ part = Main
  /\ lpc # "done" => worker \in Shard
  /\ lpc = "done" => worker = P
  /\ \A k \in Shard : k < worker => Loadable(k)
  /\ lpc = "failed" => EmptyBlock
  /\ lpc \in {"row", "edge"} \/ (lpc = "open" /\ part # Main) => Loadable(worker)

LoadEdges ==
  /\ edges = [k \in Shard |-> edges[k]]
  /\ \A k \in Shard : k > worker => edges[k] = {}
  /\ lpc \in {"open", "row", "edge"} =>
       edges[worker] = PointersOf(worker, part, IF lpc = "open" THEN 0 ELSE edgeptr)

LoadRows ==
  /\ lpc = "row" => RowOf(worker, Reading, ptr, vid, edgeptr)
  /\ lpc = "edge" => InRowOf(worker, Reading, ptr, vid, edgeptr, n)
  /\ lpc \in {"row", "edge"} /\ part = Main => MainAt(worker, edgeptr, bid, brange, edgeptr_syn)

Most == Cardinality(graph.edges)
LoadBounds ==
  /\ ptr \in Nat /\ vid \in Nat /\ n \in Nat
  /\ bid \in 0 .. P /\ edgeptr \in 0 .. Most /\ edgeptr_syn \in 0 .. Most /\ brange \in 0 .. Most

LoadInv == LoadControl /\ LoadEdges /\ LoadRows /\ LoadBounds

-----------------------------------------------------------------------------
(* The steps of the loading *)

\* The loading begins with LoadInv.
LEMMA LoadInit == Init => LoadInv
<1> SUFFICES ASSUME Init PROVE LoadInv
  OBVIOUS
<1>1. /\ graph \in Inputs /\ pc = "value" /\ worker = 0 /\ part = Main /\ lpc = "open"
      /\ ptr = 1 /\ vid = 0 /\ n = 0 /\ edgeptr = 0 /\ edgeptr_syn = 0 /\ bid = 0 /\ brange = 0
      /\ edges = [w \in DOMAIN graph.first |-> {}]
  BY DEF Init, RInit
<1>2. P \in Nat /\ P > 0 /\ Shard = 0 .. P - 1
  BY <1>1, GraphFacts
<1>3. 0 \in Shard /\ 0 \in 0 .. P /\ \A k \in Shard : ~ (k < 0)
  BY <1>2
<1>4. Main # 0
  BY DEF Main
<1>5. LoadControl
  BY <1>1, <1>3, <1>4 DEF LoadControl
<1>6. LoadEdges
  <2>1. \A k \in Shard : edges[k] = {}
    BY <1>1 DEF Shard
  <2>2. edges = [k \in Shard |-> edges[k]]
    BY <1>1 DEF Shard
  <2>3. PointersOf(0, Main, 0) = {}
    BY <1>1, <1>3, PointersNone
  <2>4. QED
    BY <1>1, <1>3, <2>1, <2>2, <2>3 DEF LoadEdges
<1>7. LoadRows
  BY <1>1 DEF LoadRows
<1>8. LoadBounds
  <2>1. Most \in Nat
    BY <1>1, GraphFacts, FS_CardinalityType DEF Most
  <2>2. 0 \in 0 .. Most
    BY <2>1
  <2>3. QED
    BY <1>1, <1>3, <2>2 DEF LoadBounds
<1>9. QED
  BY <1>5, <1>6, <1>7, <1>8 DEF LoadInv

\* The files, and what is to be loaded, stay.
LEMMA LoadStatic ==
  ASSUME graph' = graph, wsl' = wsl
  PROVE  /\ Shard' = Shard /\ P' = P /\ Most' = Most /\ EmptyBlock' = EmptyBlock
         /\ \A k : Loadable(k)' <=> Loadable(k)
         /\ \A w, p, x : PointersOf(w, p, x)' = PointersOf(w, p, x)
         /\ \A w, p, x, y, z : RowOf(w, p, x, y, z)' <=> RowOf(w, p, x, y, z)
         /\ \A w, p, x, y, z, m : InRowOf(w, p, x, y, z, m)' <=> InRowOf(w, p, x, y, z, m)
         /\ \A w, c, b, r, s : MainAt(w, c, b, r, s)' <=> MainAt(w, c, b, r, s)
<1>1. /\ Shard' = Shard /\ P' = P
      /\ \A v : Owner(v)' = Owner(v)
      /\ \A k, p : Block(k, p)' = Block(k, p)
      /\ \A k, p : FileEdges(k, p)' = FileEdges(k, p) /\ List(k, p)' = List(k, p)
      /\ \A k : Loadable(k)' <=> Loadable(k)
      /\ \A w, p, x : PointersOf(w, p, x)' = PointersOf(w, p, x)
      /\ \A w, b : Below(w, b)' = Below(w, b)
  BY SameGraph, SameFiles, SamePointers
<1>2. \A k, p : Base(k, p)' = Base(k, p)
  BY DEF Base
<1>3. Most' = Most /\ EmptyBlock' = EmptyBlock
  BY <1>1 DEF Most, EmptyBlock
<1>4. \A w, p, x, y, z : RowOf(w, p, x, y, z)' <=> RowOf(w, p, x, y, z)
  BY <1>1, <1>2 DEF RowOf
<1>5. \A w, p, x, y, z, m : InRowOf(w, p, x, y, z, m)' <=> InRowOf(w, p, x, y, z, m)
  BY <1>1, <1>2 DEF InRowOf
<1>6. \A w, c, b, r, s : MainAt(w, c, b, r, s)' <=> MainAt(w, c, b, r, s)
  BY <1>1 DEF MainAt
<1>7. QED
  BY <1>1, <1>3, <1>4, <1>5, <1>6

\* While reshard writes, the loading has not begun.
LEMMA LoadReshard ==
  ASSUME ReshardInv, LoadInv, reshard, UNCHANGED lvars
  PROVE  LoadInv'
<1>1. /\ graph' = graph /\ pc # "done"
  BY DEF reshard, EdgeIn, EdgeOut, Turn, EndTurn, LeaveInterval, NextSource, SameSource, Stopper
<1>2. UNCHANGED <<worker, part, lpc, ptr, vid, n, edgeptr, edgeptr_syn, bid, brange, edges>>
  BY DEF lvars
<1>3. /\ Shard' = Shard /\ P' = P
      /\ \A k : Loadable(k)' <=> Loadable(k)
      /\ \A w, p, x : PointersOf(w, p, x)' = PointersOf(w, p, x)
  BY <1>1, SameGraph, SameFiles, SamePointers
<1>4. lpc = "open" /\ worker = 0 /\ part = Main
  BY <1>1 DEF LoadInv, LoadControl
<1>5. LoadControl'
  BY <1>2, <1>3, <1>4 DEF LoadInv, LoadControl
<1>6. LoadEdges'
  BY <1>2, <1>3, <1>4 DEF LoadInv, LoadEdges
<1>7. LoadRows'
  BY <1>2, <1>4 DEF LoadRows
<1>8. LoadBounds'
  <2>1. Most' = Most
    BY <1>1 DEF Most
  <2>2. QED
    BY <1>2, <1>3, <2>1 DEF LoadInv, LoadBounds
<1>9. QED
  BY <1>5, <1>6, <1>7, <1>8 DEF LoadInv

\* What a worker has to read: its files, from their first rows.
LEMMA ToRead ==
  ASSUME AllWritten, FilesInv, NEW w \in Shard
  PROVE  /\ FilesAre(w, wsl[w])
         /\ Loadable(w) => \A p \in Shard : RowOf(w, p, 1, Base(w, p), 0)
<1>1. graph \in Inputs /\ pc = "done" /\ shard = P
  BY DEF AllWritten, Typed
<1>2. w < shard
  BY <1>1, GraphFacts
<1>3. FilesAre(w, wsl[w])
  BY <1>1, <1>2 DEF FilesInv
<1>4. ASSUME Loadable(w), NEW p \in Shard PROVE RowOf(w, p, 1, Base(w, p), 0)
  <2>1. Written(w, p, wsl[w][p], Cardinality(FileEdges(w, p)))
    BY <1>3, <1>4 DEF FilesAre
  <2>2. PICK R : Rows(wsl[w][p].adj, Base(w, p), List(w, p), R, NextVertex(wsl[w][p]),
                      Cardinality(FileEdges(w, p)))
    BY <2>1 DEF Written
  <2>3. Len(List(w, p)) \in Nat
    BY <1>1, FileFacts
  <2>4. QED
    BY <2>2, <2>3, RowBegins DEF RowOf
<1>5. QED
  BY <1>3, <1>4

\* The blocks that the main part opens, and that none is empty if it can.
LEMMA OpenableIs ==
  ASSUME AllWritten, worker \in Shard
  PROVE  /\ Openable <=> \A b \in Shard : Block(b, worker) # {}
         /\ \A b \in Shard : Len(InBlock(worker, b)) = Cardinality(Block(b, worker))
<1>1. graph \in Inputs
  BY DEF AllWritten, Typed
<1>2. ASSUME NEW b \in Shard
      PROVE  /\ Len(InBlock(worker, b)) = Cardinality(Block(b, worker))
             /\ InBlock(worker, b) = <<>> <=> Block(b, worker) = {}
  <2>1. InBlock(worker, b) = Sorted(Block(b, worker))
    BY WrittenBlocks
  <2>2. /\ IsFiniteSet(Block(b, worker)) /\ Block(b, worker) \in SUBSET (Nat \X Nat)
        /\ Len(Sorted(Block(b, worker))) = Cardinality(Block(b, worker))
    BY <1>1, BlockFacts
  <2>3. Sorted(Block(b, worker)) \in Seq(Block(b, worker))
    BY <2>2, SortedAt
  <2>4. PICK s : s = Sorted(Block(b, worker))
    OBVIOUS
  <2>5. s = <<>> <=> Len(s) = 0
    BY <2>3, <2>4, EmptySeq
  <2>6. Cardinality(Block(b, worker)) = 0 <=> Block(b, worker) = {}
    BY <2>2, FS_EmptySet
  <2>7. QED
    BY <2>1, <2>2, <2>4, <2>5, <2>6
<1>3. QED
  BY <1>2 DEF Openable

\* LoadInv is kept when the main part begins.
LEMMA OpenMainStep ==
  ASSUME AllWritten, FilesInv, LoadInv, OpenMain
  PROVE  LoadInv'
<1>1. /\ graph' = graph /\ wsl' = wsl /\ pc' = pc /\ pc = "done" /\ lpc = "open" /\ part = Main
      /\ worker' = worker /\ part' = part /\ n' = n /\ edges' = edges
      /\ lpc' = IF Openable THEN "row" ELSE "failed"
      /\ ptr' = 1 /\ vid' = 0 /\ edgeptr' = 0 /\ edgeptr_syn' = 0
      /\ bid' = 0 /\ brange' = Len(InBlock(worker, 0))
  BY DEF OpenMain, rvars, svars
<1>2. /\ Shard' = Shard /\ P' = P /\ Most' = Most /\ EmptyBlock' = EmptyBlock
      /\ \A k : Loadable(k)' <=> Loadable(k)
      /\ \A w, p, x : PointersOf(w, p, x)' = PointersOf(w, p, x)
      /\ \A w, p, x, y, z : RowOf(w, p, x, y, z)' <=> RowOf(w, p, x, y, z)
      /\ \A w, c, b, r, s : MainAt(w, c, b, r, s)' <=> MainAt(w, c, b, r, s)
  BY <1>1, LoadStatic
<1>3. LoadControl /\ LoadEdges /\ LoadBounds
  BY DEF LoadInv
<1>4. /\ graph \in Inputs /\ worker \in Shard /\ worker # Main /\ 0 \in Shard /\ 0 \in 0 .. P
      /\ Shard \in SUBSET Nat
  <2>1. graph \in Inputs /\ worker \in Shard
    BY <1>1, <1>3 DEF LoadControl, AllWritten, Typed
  <2>2. P \in Nat /\ P > 0 /\ Shard = 0 .. P - 1
    BY <2>1, GraphFacts
  <2>3. QED
    BY <2>1, <2>2 DEF Main
<1>5. /\ Openable <=> \A b \in Shard : Block(b, worker) # {}
      /\ Len(InBlock(worker, 0)) = Cardinality(Block(0, worker))
  BY <1>4, OpenableIs
<1>6. Openable => Loadable(worker)
  <2>1. FilesAre(worker, wsl[worker])
    BY <1>4, ToRead
  <2>2. Block(worker, worker) # {} => ~ OnlyZeroBefore(worker)
    BY <2>1 DEF FilesAre
  <2>3. QED
    BY <1>4, <1>5, <2>2 DEF Loadable
<1>7. ~ Openable => EmptyBlock
  BY <1>4, <1>5 DEF EmptyBlock
<1>8. LoadControl'
  BY <1>1, <1>2, <1>3, <1>6, <1>7 DEF LoadControl
<1>9. LoadEdges'
  <2>1. lpc' = "row" => edges[worker] = PointersOf(worker, Main, 0)
    BY <1>1, <1>3 DEF LoadEdges
  <2>2. lpc' \in {"open", "row", "edge"} => lpc' = "row"
    BY <1>1
  <2>3. QED
    BY <1>1, <1>2, <1>3, <2>1, <2>2 DEF LoadEdges
<1>10. LoadRows'
  <2>1. SUFFICES ASSUME Openable PROVE LoadRows'
    BY <1>1 DEF LoadRows
  <2>2. Loadable(worker)
    BY <1>6, <2>1
  <2>3. RowOf(worker, worker, 1, 0, 0)
    <3>1. RowOf(worker, worker, 1, Base(worker, worker), 0)
      BY <1>4, <2>2, ToRead
    <3>2. QED
      BY <3>1 DEF Base
  <2>4. MainAt(worker, 0, 0, brange', 0)
    <3>1. 0 < Len(List(worker, worker)) /\ Owner(List(worker, worker)[1][1]) = 0
      BY <1>4, <2>2, FirstBlock
    <3>2. /\ Cardinality(Below(worker, 0)) = 0
          /\ Cardinality(Below(worker, 0 + 1)) = Cardinality(Below(worker, 0)) + Cardinality(Block(0, worker))
      BY <1>4, BelowFacts
    <3>3. HowMany(Block(worker, worker), List(worker, worker), 0) = 0
      <4>1. Prefix(List(worker, worker), 0) = {}
        BY <1>4, FilePrefix
      <4>2. QED
        BY <4>1, FS_EmptySet DEF HowMany
    <3>4. Cardinality(Block(0, worker)) \in Nat
      BY <1>4, BlockFacts
    <3>5. brange' = Cardinality(Below(worker, 0 + 1))
      BY <1>1, <1>5, <3>2, <3>4
    <3>6. Len(List(worker, worker)) # 0
      BY <1>4, <3>1
    <3>7. QED
      BY <3>1, <3>3, <3>5, <3>6 DEF MainAt
  <2>5. lpc' = "row" /\ Reading' = worker
    BY <1>1, <2>1 DEF Reading
  <2>6. QED
    BY <1>1, <1>2, <2>3, <2>4, <2>5 DEF LoadRows
<1>11. LoadBounds'
  <2>1. Cardinality(Block(0, worker)) \in Nat /\ Most \in Nat /\ Cardinality(Block(0, worker)) <= Most
    BY <1>4, BlockFacts DEF Most
  <2>2. brange' \in 0 .. Most /\ 0 \in 0 .. Most
    BY <1>1, <1>5, <2>1
  <2>3. QED
    BY <1>1, <1>2, <1>3, <1>4, <2>2 DEF LoadBounds
<1>12. QED
  BY <1>8, <1>9, <1>10, <1>11 DEF LoadInv

\* LoadInv is kept when a sliding part begins.
LEMMA OpenSlidingStep ==
  ASSUME AllWritten, FilesInv, LoadInv, OpenSliding
  PROVE  LoadInv'
<1>1. /\ graph' = graph /\ wsl' = wsl /\ pc' = pc /\ lpc = "open" /\ part # Main
      /\ worker' = worker /\ part' = part /\ n' = n /\ edges' = edges
      /\ edgeptr_syn' = edgeptr_syn /\ bid' = bid /\ brange' = brange
      /\ lpc' = "row" /\ ptr' = 1 /\ vid' = graph.first[worker] /\ edgeptr' = 0
  BY DEF OpenSliding, rvars, svars
<1>2. /\ Shard' = Shard /\ P' = P /\ Most' = Most /\ EmptyBlock' = EmptyBlock
      /\ \A k : Loadable(k)' <=> Loadable(k)
      /\ \A w, p, x : PointersOf(w, p, x)' = PointersOf(w, p, x)
      /\ \A w, p, x, y, z : RowOf(w, p, x, y, z)' <=> RowOf(w, p, x, y, z)
  BY <1>1, LoadStatic
<1>3. LoadControl /\ LoadEdges /\ LoadBounds
  BY DEF LoadInv
<1>4. /\ graph \in Inputs /\ worker \in Shard /\ part \in Shard /\ part # worker /\ Loadable(worker)
      /\ pc = "done"
  BY <1>1, <1>3 DEF LoadControl, AllWritten, Typed
<1>5. LoadControl'
  BY <1>1, <1>2, <1>3, <1>4 DEF LoadControl
<1>6. LoadEdges'
  BY <1>1, <1>2, <1>3 DEF LoadEdges
<1>7. RowOf(worker, part, 1, graph.first[worker], 0)
  <2>1. RowOf(worker, part, 1, Base(worker, part), 0)
    BY <1>4, ToRead
  <2>2. QED
    BY <1>4, <2>1 DEF Base
<1>8. LoadRows'
  <2>1. Reading' = part
    BY <1>1 DEF Reading
  <2>2. QED
    BY <1>1, <1>2, <1>7, <2>1 DEF LoadRows
<1>9. LoadBounds'
  <2>1. graph.first[worker] \in Nat
    BY <1>4, GraphFacts
  <2>2. Most \in Nat
    BY <1>4, GraphFacts, FS_CardinalityType DEF Most
  <2>3. 0 \in 0 .. Most
    BY <2>2
  <2>4. QED
    BY <1>1, <1>2, <1>3, <2>1, <2>3 DEF LoadBounds
<1>10. QED
  BY <1>5, <1>6, <1>8, <1>9 DEF LoadInv

\* Rows that are read one after the other.
LEMMA ZeroRowStep ==
  ASSUME AllWritten, LoadInv, ZeroRow
  PROVE  LoadInv'
<1>1. /\ graph' = graph /\ wsl' = wsl /\ pc' = pc /\ lpc = "row" /\ lpc' = lpc
      /\ worker' = worker /\ part' = part /\ n' = n /\ edges' = edges
      /\ edgeptr' = edgeptr /\ edgeptr_syn' = edgeptr_syn /\ bid' = bid /\ brange' = brange
      /\ ptr <= Len(Adj) /\ Adj[ptr] = 0
      /\ vid' = vid + 1 + Adj[ptr + 1] /\ ptr' = ptr + 2
  BY DEF ZeroRow, rvars, svars, MoreRows
<1>2. /\ Shard' = Shard /\ P' = P /\ Most' = Most /\ EmptyBlock' = EmptyBlock
      /\ \A k : Loadable(k)' <=> Loadable(k)
      /\ \A w, p, x : PointersOf(w, p, x)' = PointersOf(w, p, x)
      /\ \A w, p, x, y, z : RowOf(w, p, x, y, z)' <=> RowOf(w, p, x, y, z)
      /\ \A w, c, b, r, s : MainAt(w, c, b, r, s)' <=> MainAt(w, c, b, r, s)
  BY <1>1, LoadStatic
<1>3. LoadControl /\ LoadEdges /\ LoadRows /\ LoadBounds
  BY DEF LoadInv
<1>4. Adj = wsl[worker][Reading].adj /\ Reading' = Reading
  BY <1>1 DEF Adj, Reading
<1>5. RowOf(worker, Reading, ptr, vid, edgeptr)
  BY <1>1, <1>3 DEF LoadRows
<1>6. Adj[ptr + 1] \in Nat /\ RowOf(worker, Reading, ptr + 2, vid + 1 + Adj[ptr + 1], edgeptr)
  BY <1>1, <1>4, <1>5, RowSkips DEF RowOf
<1>7. LoadControl'
  BY <1>1, <1>2, <1>3 DEF LoadControl
<1>8. LoadEdges'
  BY <1>1, <1>2, <1>3 DEF LoadEdges
<1>9. LoadRows'
  BY <1>1, <1>2, <1>3, <1>4, <1>6 DEF LoadRows
<1>10. LoadBounds'
  <2>1. vid' \in Nat /\ ptr' \in Nat
    BY <1>1, <1>3, <1>6 DEF LoadBounds
  <2>2. QED
    BY <1>1, <1>2, <1>3, <2>1 DEF LoadBounds
<1>11. QED
  BY <1>7, <1>8, <1>9, <1>10 DEF LoadInv

\* LoadInv is kept when a row of edges begins.
LEMMA EdgeRowStep ==
  ASSUME AllWritten, LoadInv, EdgeRow
  PROVE  LoadInv'
<1>1. /\ graph' = graph /\ wsl' = wsl /\ pc' = pc /\ lpc = "row" /\ lpc' = "edge"
      /\ worker' = worker /\ part' = part /\ vid' = vid /\ edges' = edges
      /\ edgeptr' = edgeptr /\ edgeptr_syn' = edgeptr_syn /\ bid' = bid /\ brange' = brange
      /\ ptr <= Len(Adj) /\ Adj[ptr] # 0
      /\ n' = LengthOf(Adj, ptr) /\ ptr' = ptr + HeadOf(Adj, ptr)
  BY DEF EdgeRow, rvars, svars, MoreRows, LengthOfRow, LengthOf, HeadOf
<1>2. /\ Shard' = Shard /\ P' = P /\ Most' = Most /\ EmptyBlock' = EmptyBlock
      /\ \A k : Loadable(k)' <=> Loadable(k)
      /\ \A w, p, x : PointersOf(w, p, x)' = PointersOf(w, p, x)
      /\ \A w, p, x, y, z, m : InRowOf(w, p, x, y, z, m)' <=> InRowOf(w, p, x, y, z, m)
      /\ \A w, c, b, r, s : MainAt(w, c, b, r, s)' <=> MainAt(w, c, b, r, s)
  BY <1>1, LoadStatic
<1>3. LoadControl /\ LoadEdges /\ LoadRows /\ LoadBounds
  BY DEF LoadInv
<1>4. Adj = wsl[worker][Reading].adj /\ Reading' = Reading
  BY <1>1 DEF Adj, Reading
<1>5. RowOf(worker, Reading, ptr, vid, edgeptr)
  BY <1>1, <1>3 DEF LoadRows
<1>6. n' \in Nat /\ InRowOf(worker, Reading, ptr', vid, edgeptr, n')
  BY <1>1, <1>4, <1>5, RowLists DEF RowOf, InRowOf
<1>7. LoadControl'
  BY <1>1, <1>2, <1>3 DEF LoadControl
<1>8. LoadEdges'
  BY <1>1, <1>2, <1>3 DEF LoadEdges
<1>9. LoadRows'
  BY <1>1, <1>2, <1>3, <1>4, <1>6 DEF LoadRows
<1>10. LoadBounds'
  <2>1. ptr' \in Nat
    BY <1>1, <1>3 DEF LoadBounds, HeadOf
  <2>2. QED
    BY <1>1, <1>2, <1>3, <1>6, <2>1 DEF LoadBounds
<1>11. QED
  BY <1>7, <1>8, <1>9, <1>10 DEF LoadInv

\* The edges inside the interval, as the main part goes on.
LEMMA CountOwn ==
  ASSUME graph \in Inputs, NEW w \in Shard, NEW x \in 1 .. Len(List(w, w)), NEW e, e = List(w, w)[x]
  PROVE  /\ e \in Block(w, w) =>
              /\ HowMany(Block(w, w), List(w, w), x) = HowMany(Block(w, w), List(w, w), x - 1) + 1
              /\ Rank(e, Block(w, w)) = HowMany(Block(w, w), List(w, w), x - 1)
         /\ e \notin Block(w, w) =>
              HowMany(Block(w, w), List(w, w), x) = HowMany(Block(w, w), List(w, w), x - 1)
<1>1. PICK U : U = FileEdges(w, w)
  OBVIOUS
<1>2. PICK D : D = Block(w, w)
  OBVIOUS
<1>3. PICK L : L = List(w, w)
  OBVIOUS
<1>4. U \in SUBSET (Nat \X Nat) /\ IsFiniteSet(U) /\ Ascending(L, U)
  BY <1>1, <1>3, FileFacts, FilePrefix
<1>5. D \in SUBSET U
  BY <1>1, <1>2, OwnFile
<1>6. \A y \in 1 .. Len(L) :
        /\ L[y] \in D => HowMany(D, L, y) = HowMany(D, L, y - 1) + 1 /\ Rank(L[y], D) = HowMany(D, L, y - 1)
        /\ L[y] \notin D => HowMany(D, L, y) = HowMany(D, L, y - 1)
  BY <1>4, <1>5, PrefixCount
<1>7. x \in 1 .. Len(L) /\ L[x] = e
  BY <1>3
<1>8. QED
  BY <1>2, <1>3, <1>6, <1>7

\* The x-th edge of the main part comes after c ones.
EdgeAt(w, c, x, e) ==
  x \in 1 .. Len(List(w, w)) /\ e = List(w, w)[x] /\ c = x - 1

\* The block of the next edge, and the edges up to its end.
BlockAfter(w, b, r, s, x, e, bn, rn, sn) ==
  /\ x < r => bn = b /\ rn = r
  /\ ~ (x < r) => bn = b + 1 /\ rn = r + (IF b + 1 < P THEN Len(InBlock(w, b + 1)) ELSE 0)
  /\ Inside(e) => sn = s + 1
  /\ ~ Inside(e) => sn = s

\* An edge of the main part: its place in its block and, inside the interval, its place in
\* the shadow; and the block of the next one.
LEMMA PlaceOfEdge ==
  ASSUME AllWritten, NEW w \in Shard, Loadable(w), NEW c, NEW x, NEW e, EdgeAt(w, c, x, e),
         NEW b, NEW r, NEW s, MainAt(w, c, b, r, s)
  PROVE  /\ b = Owner(e[1]) /\ b \in Shard /\ Owner(e[2]) = w /\ r \in Nat /\ s \in Nat
         /\ c - (r - Len(InBlock(w, b))) = Place(e)
         /\ e[1] \in Interval(w) <=> Inside(e)
         /\ Inside(e) => s = Place(e) /\ b = w
<1>1. graph \in Inputs /\ x \in 1 .. Len(List(w, w)) /\ e = List(w, w)[x] /\ c = x - 1
  BY DEF AllWritten, Typed, EdgeAt
<1>2. PICK l : l = Len(List(w, w))
  OBVIOUS
<1>3. l \in Nat /\ c < l /\ c + 1 = x /\ x \in 1 .. l
  BY <1>1, <1>2, FileFacts
<1>4. b = Owner(e[1]) /\ r = Cardinality(Below(w, b + 1)) /\ s = HowMany(Block(w, w), List(w, w), c)
  <2>1. List(w, w)[c + 1] = e
    BY <1>1, <1>3
  <2>2. QED
    BY <1>2, <1>3, <2>1 DEF MainAt
<1>5. b \in Shard /\ e \in Block(b, w) /\ x = Cardinality(Below(w, b)) + Rank(e, Block(b, w)) + 1
  BY <1>1, <1>2, <1>3, <1>4, NextBlock
<1>6. e \in FileEdges(w, w) /\ e \in graph.edges /\ e[2] \in Interval(w) /\ e[1] \in Interval(b)
  BY <1>1, <1>5, OwnFile DEF Block
<1>7. Owner(e[2]) = w
  BY <1>1, <1>6, OwnerFacts
<1>8. Place(e) = Rank(e, Block(b, w))
  BY <1>4, <1>7 DEF Place
<1>9. /\ r = Cardinality(Below(w, b)) + Cardinality(Block(b, w))
      /\ Cardinality(Below(w, b)) \in Nat /\ Cardinality(Block(b, w)) \in Nat
      /\ Len(InBlock(w, b)) = Cardinality(Block(b, w))
  <2>1. b \in 0 .. P + 1
    BY <1>1, <1>5, GraphFacts
  <2>2. InBlock(w, b) = Sorted(Block(b, w))
    BY <1>5, WrittenBlocks
  <2>3. Cardinality(Below(w, b)) \in Nat
    BY <1>1, <2>1, BelowFacts
  <2>4. Cardinality(Below(w, b + 1)) = Cardinality(Below(w, b)) + Cardinality(Block(b, w))
    BY <1>1, <1>5, BelowFacts
  <2>5. Cardinality(Block(b, w)) \in Nat /\ Len(Sorted(Block(b, w))) = Cardinality(Block(b, w))
    BY <1>1, BlockFacts
  <2>6. QED
    BY <1>4, <2>2, <2>3, <2>4, <2>5
<1>10. Rank(e, Block(b, w)) \in Nat
  BY <1>1, <1>5, BlockFacts, SortedAt
<1>11. c - (r - Len(InBlock(w, b))) = Place(e)
  <2>1. PICK k : k = Rank(e, Block(b, w))
    OBVIOUS
  <2>2. PICK lo : lo = Cardinality(Below(w, b))
    OBVIOUS
  <2>3. PICK m : m = Len(InBlock(w, b))
    OBVIOUS
  <2>4. k \in Nat /\ lo \in Nat /\ m \in Nat /\ r = lo + m /\ x = lo + k + 1 /\ c = x - 1
    BY <1>1, <1>5, <1>9, <1>10, <2>1, <2>2, <2>3
  <2>5. c - (r - m) = k
    BY <2>4
  <2>6. QED
    BY <1>8, <2>1, <2>3, <2>5
<1>12. e[1] \in Interval(w) <=> Inside(e)
  <2>1. e[1] \in Interval(w) <=> Owner(e[1]) = w
    BY <1>1, <1>4, <1>5, <1>6, OwnerFacts
  <2>2. QED
    BY <1>7, <2>1 DEF Inside
<1>13. ASSUME Inside(e) PROVE s = Place(e) /\ b = w
  <2>1. b = w
    BY <1>4, <1>7, <1>13 DEF Inside
  <2>2. Block(w, w) \in SUBSET FileEdges(w, w) /\ e \in Block(w, w)
    BY <1>1, <1>5, <2>1, OwnFile
  <2>3. /\ FileEdges(w, w) \in SUBSET (Nat \X Nat) /\ IsFiniteSet(FileEdges(w, w))
        /\ Ascending(List(w, w), FileEdges(w, w))
    BY <1>1, FileFacts, FilePrefix
  <2>4. Rank(e, Block(w, w)) = HowMany(Block(w, w), List(w, w), c)
    BY <1>1, <2>2, CountOwn
  <2>5. QED
    BY <1>4, <1>8, <2>1, <2>4
<1>14. r \in Nat /\ s \in Nat
  <2>1. r \in Nat
    BY <1>9
  <2>2. IsFiniteSet(Block(w, w) \cap Prefix(List(w, w), c))
    BY <1>1, BlockFacts, FS_Subset
  <2>3. QED
    BY <1>4, <2>1, <2>2, FS_CardinalityType DEF HowMany
<1>15. QED
  BY <1>4, <1>5, <1>7, <1>11, <1>12, <1>13, <1>14

\* After an edge of the main part the counters are those of the next one.
LEMMA MainAtNext ==
  ASSUME AllWritten, NEW w \in Shard, Loadable(w), NEW c, NEW x, NEW e, EdgeAt(w, c, x, e),
         NEW b, NEW r, NEW s, MainAt(w, c, b, r, s),
         NEW bn, NEW rn, NEW sn, BlockAfter(w, b, r, s, x, e, bn, rn, sn)
  PROVE  /\ MainAt(w, x, bn, rn, sn)
         /\ bn \in 0 .. P /\ rn \in 0 .. Most /\ sn \in 0 .. Most /\ x \in 0 .. Most
<1>1. graph \in Inputs /\ x \in 1 .. Len(List(w, w)) /\ e = List(w, w)[x] /\ c = x - 1
  BY DEF AllWritten, Typed, EdgeAt
<1>2. PICK l : l = Len(List(w, w))
  OBVIOUS
<1>3. /\ l \in Nat /\ c < l /\ c + 1 = x /\ x \in 1 .. l
      /\ P \in Nat /\ P > 0 /\ Shard = 0 .. P - 1
  BY <1>1, <1>2, FileFacts, GraphFacts
<1>4. /\ b = Owner(e[1]) /\ b \in Shard /\ Owner(e[2]) = w /\ r \in Nat /\ s \in Nat
      /\ e[1] \in Interval(w) <=> Inside(e)
  BY PlaceOfEdge
<1>n. /\ x < r => bn = b /\ rn = r
      /\ ~ (x < r) => bn = b + 1 /\ rn = r + (IF b + 1 < P THEN Len(InBlock(w, b + 1)) ELSE 0)
      /\ Inside(e) => sn = s + 1
      /\ ~ Inside(e) => sn = s
  BY DEF BlockAfter
<1>5. r = Cardinality(Below(w, b + 1)) /\ s = HowMany(Block(w, w), List(w, w), c)
  BY DEF MainAt
<1>6. /\ ~ (x < r) => /\ x < l => Owner(List(w, w)[x + 1][1]) = b + 1
                      /\ x = l => b + 1 = P
      /\ x < r => x < l /\ Owner(List(w, w)[x + 1][1]) = b
      /\ e \in Block(b, w)
  <2>1. b = Owner(e[1])
    BY <1>4
  <2>2. e \in Block(b, w)
    BY <1>1, <1>2, <2>1, NextBlock
  <2>3. ~ (x < Cardinality(Below(w, b + 1))) => /\ x < l => Owner(List(w, w)[x + 1][1]) = b + 1
                                                /\ x = l => b + 1 = P
    BY <1>1, <1>2, <2>1, NextBlock
  <2>4. x < Cardinality(Below(w, b + 1)) => x < l /\ Owner(List(w, w)[x + 1][1]) = b
    BY <1>1, <1>2, <2>1, NextBlock
  <2>5. QED
    BY <1>5, <2>2, <2>3, <2>4
<1>7. rn = Cardinality(Below(w, bn + 1)) /\ bn \in 0 .. P
  <2>1. CASE x < r
    BY <1>n, <1>3, <1>4, <1>5, <2>1
  <2>2. CASE ~ (x < r) /\ b + 1 < P
    <3>1. b + 1 \in Shard
      BY <1>3, <1>4, <2>2
    <3>2. Len(InBlock(w, b + 1)) = Cardinality(Block(b + 1, w))
      <4>1. InBlock(w, b + 1) = Sorted(Block(b + 1, w))
        BY <3>1, WrittenBlocks
      <4>2. QED
        BY <1>1, <4>1, BlockFacts
    <3>3. Cardinality(Below(w, b + 1 + 1)) = Cardinality(Below(w, b + 1)) + Cardinality(Block(b + 1, w))
      BY <1>1, <3>1, BelowFacts
    <3>4. bn = b + 1 /\ rn = r + Len(InBlock(w, b + 1))
      BY <1>n, <2>2
    <3>5. b + 1 \in 0 .. P
      BY <1>3, <1>4
    <3>6. QED
      BY <1>5, <3>2, <3>3, <3>4, <3>5
  <2>3. CASE ~ (x < r) /\ ~ (b + 1 < P)
    <3>1. b + 1 = P
      BY <1>3, <1>4, <2>3
    <3>2. bn = P /\ rn = r + 0
      BY <1>n, <2>3, <3>1
    <3>3. Cardinality(Below(w, P + 1)) = Cardinality(Below(w, P))
      BY <1>1, BelowFacts
    <3>4. r + 0 = r /\ P \in 0 .. P
      BY <1>3, <1>4
    <3>5. QED
      BY <1>5, <3>1, <3>2, <3>3, <3>4
  <2>4. QED
    BY <2>1, <2>2, <2>3
<1>8. /\ FileEdges(w, w) \in SUBSET (Nat \X Nat) /\ IsFiniteSet(FileEdges(w, w))
      /\ Ascending(List(w, w), FileEdges(w, w)) /\ Block(w, w) \in SUBSET FileEdges(w, w)
  BY <1>1, FileFacts, FilePrefix, OwnFile
<1>9. Inside(e) <=> e \in Block(w, w)
  <2>1. e \in Block(w, w) <=> b = w
    BY <1>1, <1>4, <1>6, OwnFile
  <2>2. QED
    BY <1>4, <2>1 DEF Inside
<1>10. sn = HowMany(Block(w, w), List(w, w), x)
  <2>1. /\ e \in Block(w, w) => HowMany(Block(w, w), List(w, w), x) = HowMany(Block(w, w), List(w, w), c) + 1
        /\ e \notin Block(w, w) => HowMany(Block(w, w), List(w, w), x) = HowMany(Block(w, w), List(w, w), c)
    BY <1>1, CountOwn
  <2>2. QED
    BY <1>n, <1>5, <1>9, <2>1
<1>11. MainAt(w, x, bn, rn, sn)
  <2>1. x < l => bn = Owner(List(w, w)[x + 1][1])
    BY <1>n, <1>6
  <2>2. x = l => bn = P
    <3>1. x = l => ~ (x < r)
      BY <1>3, <1>6
    <3>2. QED
      BY <1>n, <1>6, <3>1
  <2>3. QED
    BY <1>2, <1>7, <1>10, <2>1, <2>2 DEF MainAt
<1>12. rn \in 0 .. Most /\ sn \in 0 .. Most /\ x \in 0 .. Most
  <2>1. PICK m : m = Cardinality(FileEdges(w, w))
    OBVIOUS
  <2>2. m \in Nat /\ Most \in Nat /\ m <= Most /\ l = m
    <3>1. IsFiniteSet(graph.edges) /\ FileEdges(w, w) \in SUBSET graph.edges
      BY <1>1, GraphFacts, FileFacts
    <3>2. QED
      BY <1>1, <1>2, <2>1, <3>1, FS_Subset, FS_CardinalityType, FileFacts DEF Most
  <2>3. rn \in Nat /\ rn <= m
    <3>1. bn + 1 \in 0 .. P + 1
      BY <1>3, <1>7
    <3>2. QED
      BY <1>1, <1>7, <2>1, <3>1, BelowFacts
  <2>4. sn \in Nat /\ sn <= m
    <3>1. Block(w, w) \cap Prefix(List(w, w), x) \in SUBSET FileEdges(w, w)
      BY <1>8
    <3>2. QED
      BY <1>8, <1>10, <2>1, <3>1, FS_Subset, FS_CardinalityType DEF HowMany
  <2>5. QED
    BY <1>3, <2>2, <2>3, <2>4
<1>13. QED
  BY <1>7, <1>11, <1>12

\* The edge that the loader is at.
LEMMA AtHand ==
  ASSUME AllWritten, LoadInv, lpc = "edge"
  PROVE  /\ graph \in Inputs /\ worker \in Shard /\ Reading \in Shard /\ Loadable(worker)
         /\ Adj = wsl[worker][Reading].adj /\ n > 0 /\ n \in Nat /\ edgeptr \in Nat /\ vid \in Nat /\ ptr \in Nat
         /\ edgeptr + 1 \in 1 .. Len(List(worker, Reading))
         /\ List(worker, Reading)[edgeptr + 1] = <<vid, Adj[ptr]>>
         /\ n = 1 => RowOf(worker, Reading, ptr + 1, vid + 1, edgeptr + 1)
         /\ n # 1 => InRowOf(worker, Reading, ptr + 1, vid, edgeptr + 1, n - 1)
<1>1. graph \in Inputs /\ LoadControl /\ LoadRows /\ LoadBounds
  BY DEF AllWritten, Typed, LoadInv
<1>2. worker \in Shard /\ Reading \in Shard /\ Loadable(worker)
  BY <1>1 DEF LoadControl, Reading
<1>3. Adj = wsl[worker][Reading].adj
  BY DEF Adj, Reading
<1>4. n \in Nat /\ edgeptr \in Nat /\ vid \in Nat /\ ptr \in Nat
  <2>1. Most \in Nat
    BY <1>1, GraphFacts, FS_CardinalityType DEF Most
  <2>2. QED
    BY <1>1, <2>1 DEF LoadBounds
<1>5. Len(List(worker, Reading)) \in Nat
  BY <1>1, <1>2, FileFacts
<1>6. InRowOf(worker, Reading, ptr, vid, edgeptr, n)
  BY <1>1 DEF LoadRows
<1>7. PICK x : x = ptr
  OBVIOUS
<1>8. PICK z : z = edgeptr
  OBVIOUS
<1>9. PICK m : m = n
  OBVIOUS
<1>10. x \in Int /\ z \in Int /\ m \in Int /\ InRowOf(worker, Reading, x, vid, z, m)
  BY <1>4, <1>6, <1>7, <1>8, <1>9
<1>11. /\ m > 0 /\ z + 1 \in 1 .. Len(List(worker, Reading))
       /\ List(worker, Reading)[z + 1] = <<vid, wsl[worker][Reading].adj[x]>>
       /\ m = 1 => RowOf(worker, Reading, x + 1, vid + 1, z + 1)
       /\ m # 1 => InRowOf(worker, Reading, x + 1, vid, z + 1, m - 1)
  <2>1. PICK adj : adj = wsl[worker][Reading].adj
    OBVIOUS
  <2>2. PICK base : base = Base(worker, Reading)
    OBVIOUS
  <2>3. PICK L : L = List(worker, Reading)
    OBVIOUS
  <2>4. PICK v : v = NextVertex(wsl[worker][Reading])
    OBVIOUS
  <2>5. PICK c : c = Cardinality(FileEdges(worker, Reading))
    OBVIOUS
  <2>6. PICK y : y = vid
    OBVIOUS
  <2>7. InRow(adj, base, L, v, c, x, y, z, m)
    BY <1>10, <2>1, <2>2, <2>3, <2>4, <2>5, <2>6 DEF InRowOf
  <2>8. Len(L) \in Nat
    BY <1>5, <2>3
  <2>9. /\ m > 0 /\ z + 1 \in 1 .. Len(L) /\ L[z + 1] = <<y, adj[x]>>
        /\ m = 1 => AtRow(adj, base, L, v, c, x + 1, y + 1, z + 1)
        /\ m # 1 => InRow(adj, base, L, v, c, x + 1, y, z + 1, m - 1)
    <3>1. EdgeHere(adj, base, L, v, c, x, y, z, m)
      BY <2>7, <2>8, RowEdge
    <3>2. QED
      BY <3>1 DEF EdgeHere
  <2>10. /\ m = 1 => RowOf(worker, Reading, x + 1, vid + 1, z + 1)
         /\ m # 1 => InRowOf(worker, Reading, x + 1, vid, z + 1, m - 1)
    BY <2>1, <2>2, <2>3, <2>4, <2>5, <2>6, <2>9 DEF InRowOf, RowOf
  <2>11. QED
    BY <2>1, <2>3, <2>6, <2>9, <2>10
<1>12. QED
  BY <1>1, <1>2, <1>3, <1>4, <1>7, <1>8, <1>9, <1>11

\* What the end of an edge does to the place of the reader.
LEMMA EndOfRowIs ==
  ASSUME n \in Nat, n > 0, ptr \in Nat, vid \in Nat, lpc = "edge", EndOfRow
  PROVE  /\ n' = n - 1 /\ ptr' = ptr + 1 /\ n' \in Nat /\ ptr' \in Nat /\ vid' \in Nat
         /\ n = 1 => lpc' = "row" /\ vid' = vid + 1
         /\ n # 1 => lpc' = "edge" /\ vid' = vid
BY DEF EndOfRow

\* LoadInv is kept by an edge of the main part.
LEMMA MainEdgeStep ==
  ASSUME AllWritten, LoadInv, MainEdge
  PROVE  LoadInv'
<1>1. /\ graph' = graph /\ wsl' = wsl /\ pc' = pc /\ lpc = "edge" /\ part = Main
      /\ worker' = worker /\ part' = part /\ edgeptr' = edgeptr + 1
      /\ edgeptr_syn' = IF Own(vid) THEN edgeptr_syn + 1 ELSE edgeptr_syn
      /\ OneBlockOn /\ EndOfRow
  BY DEF MainEdge, rvars, svars
<1>2. /\ Shard' = Shard /\ P' = P /\ Most' = Most /\ EmptyBlock' = EmptyBlock
      /\ \A k : Loadable(k)' <=> Loadable(k)
      /\ \A w, p, x : PointersOf(w, p, x)' = PointersOf(w, p, x)
      /\ \A w, p, x, y, z : RowOf(w, p, x, y, z)' <=> RowOf(w, p, x, y, z)
      /\ \A w, p, x, y, z, m : InRowOf(w, p, x, y, z, m)' <=> InRowOf(w, p, x, y, z, m)
      /\ \A w, c, b, r, s : MainAt(w, c, b, r, s)' <=> MainAt(w, c, b, r, s)
  BY <1>1, LoadStatic
<1>3. LoadControl /\ LoadEdges /\ LoadRows /\ LoadBounds
  BY DEF LoadInv
<1>4. Reading = worker /\ Reading' = Reading
  BY <1>1 DEF Reading
<1>5. /\ graph \in Inputs /\ worker \in Shard /\ Loadable(worker)
      /\ n > 0 /\ n \in Nat /\ edgeptr \in Nat /\ vid \in Nat /\ ptr \in Nat
      /\ edgeptr + 1 \in 1 .. Len(List(worker, worker))
      /\ List(worker, worker)[edgeptr + 1] = <<vid, Adj[ptr]>>
      /\ n = 1 => RowOf(worker, worker, ptr + 1, vid + 1, edgeptr + 1)
      /\ n # 1 => InRowOf(worker, worker, ptr + 1, vid, edgeptr + 1, n - 1)
  BY <1>1, <1>4, AtHand
<1>6. /\ n' = n - 1 /\ ptr' = ptr + 1 /\ n' \in Nat /\ ptr' \in Nat /\ vid' \in Nat
      /\ n = 1 => lpc' = "row" /\ vid' = vid + 1
      /\ n # 1 => lpc' = "edge" /\ vid' = vid
  BY <1>1, <1>5, EndOfRowIs
<1>7. PICK x : x = edgeptr + 1
  OBVIOUS
<1>8. PICK e : e = <<vid, Adj[ptr]>>
  OBVIOUS
<1>9. e[1] = vid /\ x \in 1 .. Len(List(worker, worker)) /\ e = List(worker, worker)[x] /\ edgeptr = x - 1
  BY <1>5, <1>7, <1>8
<1>10. MainAt(worker, edgeptr, bid, brange, edgeptr_syn)
  BY <1>1, <1>3 DEF LoadRows
<1>11. /\ bid = Owner(e[1]) /\ bid \in Shard /\ Owner(e[2]) = worker /\ brange \in Nat /\ edgeptr_syn \in Nat
       /\ edgeptr - (brange - Len(InBlock(worker, bid))) = Place(e)
       /\ e[1] \in Interval(worker) <=> Inside(e)
       /\ Inside(e) => edgeptr_syn = Place(e) /\ bid = worker
  <2>1. PICK w : w = worker
    OBVIOUS
  <2>2. PICK c : c = edgeptr
    OBVIOUS
  <2>3. PICK b : b = bid
    OBVIOUS
  <2>4. PICK r : r = brange
    OBVIOUS
  <2>5. PICK s : s = edgeptr_syn
    OBVIOUS
  <2>6. w \in Shard /\ Loadable(w) /\ EdgeAt(w, c, x, e) /\ MainAt(w, c, b, r, s)
    BY <1>5, <1>9, <1>10, <2>1, <2>2, <2>3, <2>4, <2>5 DEF EdgeAt
  <2>7. /\ b = Owner(e[1]) /\ b \in Shard /\ Owner(e[2]) = w /\ r \in Nat /\ s \in Nat
        /\ c - (r - Len(InBlock(w, b))) = Place(e)
        /\ e[1] \in Interval(w) <=> Inside(e)
        /\ Inside(e) => s = Place(e) /\ b = w
    BY <2>6, PlaceOfEdge
  <2>8. QED
    BY <2>1, <2>2, <2>3, <2>4, <2>5, <2>7
<1>12. Own(vid) <=> Inside(e)
  BY <1>9, <1>11 DEF Own
<1>13. /\ MainAt(worker, x, bid', brange', edgeptr_syn')
       /\ bid' \in 0 .. P /\ brange' \in 0 .. Most /\ edgeptr_syn' \in 0 .. Most /\ x \in 0 .. Most
  <2>1. x < brange => bid' = bid /\ brange' = brange
    <3>1. x < brange => ~ (edgeptr + 1 >= brange)
      BY <1>5, <1>7, <1>11
    <3>2. QED
      BY <1>1, <3>1 DEF OneBlockOn
  <2>2. ~ (x < brange) => /\ bid' = bid + 1
                          /\ brange' = brange + (IF bid + 1 < P THEN Len(InBlock(worker, bid + 1)) ELSE 0)
    <3>1. ~ (x < brange) => edgeptr + 1 >= brange
      BY <1>5, <1>7, <1>11
    <3>2. QED
      BY <1>1, <3>1 DEF OneBlockOn
  <2>3. /\ Inside(e) => edgeptr_syn' = edgeptr_syn + 1
        /\ ~ Inside(e) => edgeptr_syn' = edgeptr_syn
    BY <1>1, <1>12
  <2>4. PICK c : c = edgeptr
    OBVIOUS
  <2>5. PICK bn : bn = bid'
    OBVIOUS
  <2>6. PICK rn : rn = brange'
    OBVIOUS
  <2>7. PICK sn : sn = edgeptr_syn'
    OBVIOUS
  <2>8. EdgeAt(worker, c, x, e) /\ MainAt(worker, c, bid, brange, edgeptr_syn)
    BY <1>9, <1>10, <2>4 DEF EdgeAt
  <2>9. BlockAfter(worker, bid, brange, edgeptr_syn, x, e, bn, rn, sn)
    BY <2>1, <2>2, <2>3, <2>5, <2>6, <2>7 DEF BlockAfter
  <2>10. /\ MainAt(worker, x, bn, rn, sn)
         /\ bn \in 0 .. P /\ rn \in 0 .. Most /\ sn \in 0 .. Most /\ x \in 0 .. Most
    BY <1>5, <2>8, <2>9, MainAtNext
  <2>11. QED
    BY <2>5, <2>6, <2>7, <2>10
<1>14. edges' = [edges EXCEPT ![worker] = @ \cup {InPtr(e)} \cup (IF Own(vid) THEN {OutPtr(e)} ELSE {})]
  <2>1. PICK sh : sh = ShadowOf(vid)
    OBVIOUS
  <2>2. sh = PlaceInShadow(e)
    <3>1. Own(vid) => sh = Place(e) /\ PlaceInShadow(e) = Place(e)
      BY <1>11, <1>12, <2>1 DEF ShadowOf, PlaceInShadow
    <3>2. ~ Own(vid) => sh = None /\ PlaceInShadow(e) = None
      BY <1>12, <2>1 DEF ShadowOf, PlaceInShadow
    <3>3. QED
      BY <3>1, <3>2
  <2>3. PICK at : at = edgeptr - (brange - Len(InBlock(worker, bid)))
    OBVIOUS
  <2>4. at = Place(e)
    BY <1>11, <2>3
  <2>5. Pointer("in", e, "inbuf", bid, at, sh) = InPtr(e)
    BY <1>11, <2>2, <2>4 DEF InPtr
  <2>6. Own(vid) => Pointer("out", e, "inbuf", bid, at, sh) = OutPtr(e)
    BY <1>11, <1>12, <2>2, <2>4 DEF OutPtr
  <2>7. edges' = [edges EXCEPT ![worker] =
                    @ \cup {Pointer("in", e, "inbuf", bid, at, sh)}
                      \cup (IF Own(vid) THEN {Pointer("out", e, "inbuf", bid, at, sh)} ELSE {})]
    BY <1>8, <2>1, <2>3 DEF MainEdge
  <2>8. CASE Own(vid)
    BY <2>5, <2>6, <2>7, <2>8
  <2>9. CASE ~ Own(vid)
    BY <2>5, <2>7, <2>9
  <2>10. QED
    BY <2>8, <2>9
<1>15. LoadControl'
  BY <1>1, <1>2, <1>3, <1>5, <1>6 DEF LoadControl
<1>16. LoadEdges'
  <2>1. /\ edges' = [k \in Shard |-> edges'[k]]
        /\ \A k \in Shard : k # worker => edges'[k] = edges[k]
        /\ edges'[worker] = edges[worker] \cup {InPtr(e)} \cup (IF Own(vid) THEN {OutPtr(e)} ELSE {})
    BY <1>3, <1>5, <1>14 DEF LoadEdges
  <2>2. edges[worker] = PointersOf(worker, Main, x - 1)
    BY <1>1, <1>3, <1>9 DEF LoadEdges
  <2>3. PointersOf(worker, Main, x)
          = PointersOf(worker, Main, x - 1) \cup {InPtr(e)} \cup (IF e[1] \in Interval(worker) THEN {OutPtr(e)} ELSE {})
    BY <1>5, <1>9, PointersMain
  <2>4. edges'[worker] = PointersOf(worker, Main, x)
    BY <1>9, <2>1, <2>2, <2>3 DEF Own
  <2>5. \A k \in Shard : k > worker => edges'[k] = {}
    <3>1. \A k \in Shard : k > worker => k # worker
      BY <1>5, GraphFacts
    <3>2. QED
      BY <1>3, <2>1, <3>1 DEF LoadEdges
  <2>6. QED
    BY <1>1, <1>2, <1>6, <1>7, <2>1, <2>4, <2>5 DEF LoadEdges
<1>17. LoadRows'
  BY <1>1, <1>2, <1>4, <1>5, <1>6, <1>7, <1>13 DEF LoadRows
<1>18. LoadBounds'
  BY <1>1, <1>2, <1>6, <1>7, <1>13 DEF LoadBounds
<1>19. QED
  BY <1>15, <1>16, <1>17, <1>18 DEF LoadInv

\* The assertion of the sliding part holds of every edge.
LEMMA SlidingEdgeStep ==
  ASSUME AllWritten, LoadInv, SlidingEdge
  PROVE  LoadInv'
<1>1. /\ graph' = graph /\ wsl' = wsl /\ pc' = pc /\ lpc = "edge" /\ part # Main
      /\ worker' = worker /\ part' = part /\ edgeptr_syn' = edgeptr_syn /\ bid' = bid /\ brange' = brange
  BY DEF SlidingEdge, rvars, svars
<1>2. /\ Shard' = Shard /\ P' = P /\ Most' = Most /\ EmptyBlock' = EmptyBlock
      /\ \A k : Loadable(k)' <=> Loadable(k)
      /\ \A w, p, x : PointersOf(w, p, x)' = PointersOf(w, p, x)
      /\ \A w, p, x, y, z : RowOf(w, p, x, y, z)' <=> RowOf(w, p, x, y, z)
      /\ \A w, p, x, y, z, m : InRowOf(w, p, x, y, z, m)' <=> InRowOf(w, p, x, y, z, m)
  BY <1>1, LoadStatic
<1>3. LoadControl /\ LoadEdges /\ LoadRows /\ LoadBounds
  BY DEF LoadInv
<1>4. Reading = part /\ Reading' = Reading
  BY <1>1 DEF Reading
<1>5. /\ graph \in Inputs /\ worker \in Shard /\ part \in Shard /\ Loadable(worker)
      /\ n > 0 /\ n \in Nat /\ edgeptr \in Nat /\ vid \in Nat /\ ptr \in Nat
      /\ edgeptr + 1 \in 1 .. Len(List(worker, part))
      /\ List(worker, part)[edgeptr + 1] = <<vid, Adj[ptr]>>
      /\ n = 1 => RowOf(worker, part, ptr + 1, vid + 1, edgeptr + 1)
      /\ n # 1 => InRowOf(worker, part, ptr + 1, vid, edgeptr + 1, n - 1)
  BY <1>1, <1>4, AtHand
<1>6. part # worker
  BY <1>3 DEF LoadControl
<1>7. PICK x : x = edgeptr + 1
  OBVIOUS
<1>8. PICK e : e = <<vid, Adj[ptr]>>
  OBVIOUS
<1>9. /\ e[1] = vid /\ e[2] = Adj[ptr] /\ x \in 1 .. Len(List(worker, part)) /\ e = List(worker, part)[x]
      /\ edgeptr = x - 1
  BY <1>5, <1>7, <1>8
<1>10. /\ e \in Block(worker, part) /\ Rank(e, Block(worker, part)) = edgeptr
       /\ Len(List(worker, part)) = Cardinality(Block(worker, part))
  <2>1. /\ FileEdges(worker, part) = Block(worker, part)
        /\ Len(List(worker, part)) = Cardinality(FileEdges(worker, part))
    BY <1>5, <1>6, FileFacts
  <2>2. e \in FileEdges(worker, part) /\ Rank(e, FileEdges(worker, part)) = x - 1
    BY <1>5, <1>9, FilePrefix
  <2>3. QED
    BY <1>9, <2>1, <2>2
<1>11. e \in graph.edges /\ e[2] \in Interval(part) /\ Owner(e[1]) = worker /\ Owner(e[2]) = part
  <2>1. e \in graph.edges /\ e[2] \in Interval(part) /\ e[1] \in Interval(worker)
    BY <1>10 DEF Block
  <2>2. QED
    BY <1>5, <2>1, OwnerFacts
<1>12. edgeptr < Len(OutBlock(worker, part)) /\ Adj[ptr] \in Interval(part)
  <2>1. OutBlock(worker, part) = Sorted(Block(worker, part))
    BY <1>5, WrittenBlocks
  <2>2. Len(Sorted(Block(worker, part))) = Cardinality(Block(worker, part)) /\ Cardinality(Block(worker, part)) \in Nat
    BY <1>5, BlockFacts
  <2>3. edgeptr < Cardinality(Block(worker, part))
    BY <1>5, <1>10, <2>2
  <2>4. QED
    BY <1>9, <1>11, <2>1, <2>2, <2>3
<1>13. OutPtr(e) = Pointer("out", e, "obuf", part, edgeptr, None)
  <2>1. ~ Inside(e)
    BY <1>6, <1>11 DEF Inside
  <2>2. Place(e) = edgeptr
    BY <1>10, <1>11 DEF Place
  <2>3. PlaceInShadow(e) = None
    BY <2>1 DEF PlaceInShadow
  <2>4. QED
    BY <1>11, <2>1, <2>2, <2>3 DEF OutPtr
<1>14. /\ edges' = [edges EXCEPT ![worker] = @ \cup {OutPtr(e)}]
       /\ edgeptr' = edgeptr + 1 /\ EndOfRow
  BY <1>8, <1>12, <1>13 DEF SlidingEdge
<1>15. /\ n' = n - 1 /\ ptr' = ptr + 1 /\ n' \in Nat /\ ptr' \in Nat /\ vid' \in Nat
       /\ n = 1 => lpc' = "row" /\ vid' = vid + 1
       /\ n # 1 => lpc' = "edge" /\ vid' = vid
  BY <1>1, <1>5, <1>14, EndOfRowIs
<1>16. LoadControl'
  BY <1>1, <1>2, <1>3, <1>5, <1>15 DEF LoadControl
<1>17. LoadEdges'
  <2>1. /\ edges' = [k \in Shard |-> edges'[k]]
        /\ \A k \in Shard : k # worker => edges'[k] = edges[k]
        /\ edges'[worker] = edges[worker] \cup {OutPtr(e)}
    BY <1>3, <1>5, <1>14 DEF LoadEdges
  <2>2. edges[worker] = PointersOf(worker, part, x - 1)
    BY <1>1, <1>3, <1>9 DEF LoadEdges
  <2>3. PointersOf(worker, part, x) = PointersOf(worker, part, x - 1) \cup {OutPtr(e)}
    BY <1>5, <1>9, PointersSliding
  <2>4. edges'[worker] = PointersOf(worker, part, x)
    BY <2>1, <2>2, <2>3
  <2>5. \A k \in Shard : k > worker => edges'[k] = {}
    <3>1. \A k \in Shard : k > worker => k # worker
      BY <1>5, GraphFacts
    <3>2. QED
      BY <1>3, <2>1, <3>1 DEF LoadEdges
  <2>6. QED
    BY <1>1, <1>2, <1>7, <1>14, <1>15, <2>1, <2>4, <2>5 DEF LoadEdges
<1>18. LoadRows'
  BY <1>1, <1>2, <1>4, <1>5, <1>14, <1>15 DEF LoadRows
<1>19. LoadBounds'
  <2>1. x \in 0 .. Most
    <3>1. Cardinality(Block(worker, part)) \in Nat /\ Cardinality(Block(worker, part)) <= Most /\ Most \in Nat
      BY <1>5, BlockFacts DEF Most
    <3>2. QED
      BY <1>9, <1>10, <3>1
  <2>2. QED
    BY <1>1, <1>2, <1>3, <1>7, <1>14, <1>15, <2>1 DEF LoadBounds
<1>20. QED
  BY <1>16, <1>17, <1>18, <1>19 DEF LoadInv

\* A part ends when all of its file is read: the file towards another interval, at the end
\* of which the sliding part would stop anyway, has no row of a vertex after the last.
LEMMA PartIsRead ==
  ASSUME AllWritten, FilesInv, LoadInv, EndPart
  PROVE  /\ graph \in Inputs /\ worker \in Shard /\ part \in Shard \cup {Main} /\ part # worker
         /\ Loadable(worker) /\ edges[worker] = LoadedAll(worker, part)
<1>1. lpc = "row" /\ ~ MoreRows
  BY DEF EndPart
<1>2. graph \in Inputs /\ LoadControl /\ LoadEdges /\ LoadRows
  BY DEF AllWritten, Typed, LoadInv
<1>3. /\ worker \in Shard /\ Reading \in Shard /\ part \in Shard \cup {Main} /\ part # worker
      /\ Loadable(worker)
  BY <1>1, <1>2 DEF LoadControl, Reading
<1>4. Adj = wsl[worker][Reading].adj
  BY DEF Adj, Reading
<1>5. RowOf(worker, Reading, ptr, vid, edgeptr)
  BY <1>1, <1>2 DEF LoadRows
<1>6. PICK v : v = NextVertex(wsl[worker][Reading])
  OBVIOUS
<1>7. PICK c : c = Cardinality(FileEdges(worker, Reading))
  OBVIOUS
<1>8. /\ ptr \in Nat /\ vid \in Nat /\ v \in Nat
      /\ ptr <= Len(Adj) => vid < v
      /\ ~ (ptr <= Len(Adj)) => edgeptr = c
  <2>1. PICK base : base = Base(worker, Reading)
    OBVIOUS
  <2>2. PICK L : L = List(worker, Reading)
    OBVIOUS
  <2>3. PICK adj : adj = wsl[worker][Reading].adj
    OBVIOUS
  <2>4. AtRow(adj, base, L, v, c, ptr, vid, edgeptr)
    BY <1>5, <1>6, <1>7, <2>1, <2>2, <2>3 DEF RowOf
  <2>5. /\ ptr \in Nat /\ vid \in Nat /\ v \in Nat
        /\ ptr <= Len(adj) => vid < v
        /\ ~ (ptr <= Len(adj)) => edgeptr = c
    BY <2>4, RowPlace
  <2>6. QED
    BY <1>4, <2>3, <2>5
<1>9. ~ (ptr <= Len(Adj))
  <2>1. SUFFICES ASSUME ptr <= Len(Adj) PROVE FALSE
    OBVIOUS
  <2>2. part # Main /\ ~ (vid <= graph.last[worker])
    BY <1>1, <2>1 DEF MoreRows
  <2>3. Reading # worker
    BY <1>3, <2>2 DEF Reading
  <2>4. v <= graph.last[worker] + 1
    <3>1. FilesAre(worker, wsl[worker])
      BY <1>3, ToRead
    <3>2. QED
      BY <1>3, <1>6, <2>3, <3>1 DEF FilesAre
  <2>5. PICK t : t = graph.last[worker]
    OBVIOUS
  <2>6. t \in Nat
    BY <1>2, <1>3, <2>5, GraphFacts
  <2>7. QED
    BY <1>8, <2>1, <2>2, <2>4, <2>5, <2>6
<1>10. edgeptr = Len(List(worker, Reading))
  BY <1>2, <1>3, <1>7, <1>8, <1>9, FileFacts
<1>11. edges[worker] = LoadedAll(worker, part)
  <2>1. edges[worker] = PointersOf(worker, part, edgeptr)
    BY <1>1, <1>2 DEF LoadEdges
  <2>2. QED
    BY <1>10, <2>1 DEF LoadedAll, Reading
<1>12. QED
  BY <1>2, <1>3, <1>11

\* LoadInv is kept when the next part, or the next worker, begins.
LEMMA EndPartStep ==
  ASSUME AllWritten, FilesInv, LoadInv, EndPart
  PROVE  LoadInv'
<1>1. /\ graph' = graph /\ wsl' = wsl /\ pc' = pc /\ pc = "done" /\ lpc = "row"
      /\ n' = n /\ edges' = edges /\ ptr' = ptr /\ vid' = vid
      /\ edgeptr' = edgeptr /\ edgeptr_syn' = edgeptr_syn /\ bid' = bid /\ brange' = brange
  BY DEF EndPart, rvars, svars, AllWritten
<1>2. /\ Shard' = Shard /\ P' = P /\ Most' = Most /\ EmptyBlock' = EmptyBlock
      /\ \A k : Loadable(k)' <=> Loadable(k)
      /\ \A w, p, x : PointersOf(w, p, x)' = PointersOf(w, p, x)
  BY <1>1, LoadStatic
<1>3. LoadControl /\ LoadEdges /\ LoadBounds
  BY DEF LoadInv
<1>4. /\ graph \in Inputs /\ worker \in Shard /\ part \in Shard \cup {Main} /\ part # worker
      /\ Loadable(worker) /\ edges[worker] = LoadedAll(worker, part)
  BY PartIsRead
<1>5. P \in Nat /\ P > 0 /\ Shard = 0 .. P - 1 /\ Main = -1
  BY <1>4, GraphFacts DEF Main
<1>6. LoadRows'
  <2>1. lpc' \notin {"row", "edge"}
    BY DEF EndPart
  <2>2. QED
    BY <2>1 DEF LoadRows
<1>7. LoadBounds'
  BY <1>1, <1>2, <1>3 DEF LoadBounds
<1>8. CASE PartsLeft
  <2>1. PICK q : q = PartAfter(worker, part)
    OBVIOUS
  <2>2. NextPart = q
    BY <2>1 DEF NextPart, PartAfter
  <2>3. part' = q /\ worker' = worker /\ lpc' = "open"
    BY <1>8, <2>2 DEF EndPart
  <2>4. q < P
    BY <1>8, <2>2 DEF PartsLeft
  <2>5. q \in Shard
    BY <1>4, <1>5, <2>1, <2>4 DEF PartAfter
  <2>6. edges[worker] = PointersOf(worker, q, 0) /\ q # worker /\ q # Main
    BY <1>4, <2>1, <2>5, PointersNext
  <2>7. LoadControl'
    BY <1>1, <1>2, <1>3, <1>4, <2>3, <2>5, <2>6 DEF LoadControl
  <2>8. LoadEdges'
    BY <1>1, <1>2, <1>3, <2>3, <2>6 DEF LoadEdges
  <2>9. QED
    BY <1>6, <1>7, <2>7, <2>8 DEF LoadInv
<1>9. CASE ~ PartsLeft
  <2>1. /\ part' = Main /\ worker' = worker + 1
        /\ worker + 1 < P => lpc' = "open"
        /\ ~ (worker + 1 < P) => lpc' = "done"
    BY <1>9 DEF EndPart
  <2>2. /\ worker + 1 \in 0 .. P /\ Main # worker + 1
        /\ worker + 1 < P => worker + 1 \in Shard
        /\ ~ (worker + 1 < P) => worker + 1 = P
        /\ worker + 1 > worker
    BY <1>4, <1>5
  <2>3. \A k \in Shard : k < worker + 1 => Loadable(k)
    <3>1. \A k \in Shard : k < worker + 1 => k < worker \/ k = worker
      BY <1>4, <1>5
    <3>2. QED
      BY <1>3, <1>4, <3>1 DEF LoadControl
  <2>4. \A k \in Shard : k > worker + 1 => edges[k] = {}
    <3>1. \A k \in Shard : k > worker + 1 => k > worker
      BY <1>4, <1>5
    <3>2. QED
      BY <1>3, <3>1 DEF LoadEdges
  <2>5. worker + 1 < P => edges[worker + 1] = PointersOf(worker + 1, Main, 0)
    <3>1. SUFFICES ASSUME worker + 1 < P PROVE edges[worker + 1] = PointersOf(worker + 1, Main, 0)
      OBVIOUS
    <3>2. edges[worker + 1] = {}
      BY <1>3, <2>2, <3>1 DEF LoadEdges
    <3>3. PointersOf(worker + 1, Main, 0) = {}
      BY <1>4, <2>2, <3>1, PointersNone
    <3>4. QED
      BY <3>2, <3>3
  <2>6. PICK u : u = worker + 1
    OBVIOUS
  <2>8. /\ worker' = u /\ u \in 0 .. P /\ u # Main
        /\ lpc' \in {"open", "done"}
        /\ lpc' = "open" => u \in Shard /\ edges[u] = PointersOf(u, Main, 0)
        /\ lpc' = "done" => u = P
    BY <2>1, <2>2, <2>5, <2>6
  <2>9. /\ \A k \in Shard : k < u => Loadable(k)
        /\ \A k \in Shard : k > u => edges[k] = {}
    BY <2>3, <2>4, <2>6
  <2>10. LoadControl'
    BY <1>1, <1>2, <2>1, <2>8, <2>9 DEF LoadControl
  <2>11. LoadEdges'
    BY <1>1, <1>2, <1>3, <2>1, <2>8, <2>9 DEF LoadEdges
  <2>12. QED
    BY <1>6, <1>7, <2>10, <2>11 DEF LoadInv
<1>10. QED
  BY <1>8, <1>9

\* Every step: reshard's are before the loading, the loader's after all is written.
LEMMA LoadStep == ReshardInv /\ FilesInv /\ LoadInv /\ [Next]_vars => LoadInv'
<1> SUFFICES ASSUME ReshardInv, FilesInv, LoadInv, [Next]_vars PROVE LoadInv'
  OBVIOUS
<1>1. pc = "done" => AllWritten
  BY DEF ReshardInv, Passing, AllWritten
<1>2. ASSUME lpc \in {"row", "edge"} \/ (lpc = "open" /\ part # Main) PROVE AllWritten
  <2>1. pc = "done"
    BY <1>2 DEF LoadInv, LoadControl
  <2>2. QED
    BY <1>1, <2>1
<1>3. CASE reshard /\ UNCHANGED lvars
  BY <1>3, LoadReshard
<1>4. CASE OpenMain
  <2>1. AllWritten
    BY <1>1, <1>4 DEF OpenMain
  <2>2. QED
    BY <1>4, <2>1, OpenMainStep
<1>5. CASE OpenSliding
  <2>1. AllWritten
    BY <1>2, <1>5 DEF OpenSliding
  <2>2. QED
    BY <1>5, <2>1, OpenSlidingStep
<1>6. CASE ZeroRow
  <2>1. AllWritten
    BY <1>2, <1>6 DEF ZeroRow
  <2>2. QED
    BY <1>6, <2>1, ZeroRowStep
<1>7. CASE EdgeRow
  <2>1. AllWritten
    BY <1>2, <1>7 DEF EdgeRow
  <2>2. QED
    BY <1>7, <2>1, EdgeRowStep
<1>8. CASE MainEdge
  <2>1. AllWritten
    BY <1>2, <1>8 DEF MainEdge
  <2>2. QED
    BY <1>8, <2>1, MainEdgeStep
<1>9. CASE SlidingEdge
  <2>1. AllWritten
    BY <1>2, <1>9 DEF SlidingEdge
  <2>2. QED
    BY <1>9, <2>1, SlidingEdgeStep
<1>10. CASE EndPart
  <2>1. AllWritten
    BY <1>2, <1>10 DEF EndPart
  <2>2. QED
    BY <1>10, <2>1, EndPartStep
<1>11. CASE UNCHANGED vars
  <2>1. /\ UNCHANGED <<graph, pc, wsl>>
        /\ UNCHANGED <<worker, part, lpc, ptr, vid, n, edgeptr, edgeptr_syn, bid, brange, edges>>
    BY <1>11 DEF vars, rvars, svars, lvars
  <2>2. /\ Shard' = Shard /\ P' = P /\ Most' = Most /\ EmptyBlock' = EmptyBlock
        /\ \A k : Loadable(k)' <=> Loadable(k)
        /\ \A w, p, x : PointersOf(w, p, x)' = PointersOf(w, p, x)
        /\ \A w, p, x, y, z : RowOf(w, p, x, y, z)' <=> RowOf(w, p, x, y, z)
        /\ \A w, p, x, y, z, m : InRowOf(w, p, x, y, z, m)' <=> InRowOf(w, p, x, y, z, m)
        /\ \A w, c, b, r, s : MainAt(w, c, b, r, s)' <=> MainAt(w, c, b, r, s)
    BY <2>1, LoadStatic
  <2>3. LoadControl'
    BY <2>1, <2>2 DEF LoadInv, LoadControl
  <2>4. LoadEdges'
    BY <2>1, <2>2 DEF LoadInv, LoadEdges
  <2>5. LoadRows'
    <3>1. Reading' = Reading
      BY <2>1 DEF Reading
    <3>2. QED
      BY <2>1, <2>2, <3>1 DEF LoadInv, LoadRows
  <2>6. LoadBounds'
    BY <2>1, <2>2 DEF LoadInv, LoadBounds
  <2>7. QED
    BY <2>3, <2>4, <2>5, <2>6 DEF LoadInv
<1>12. QED
  BY <1>3, <1>4, <1>5, <1>6, <1>7, <1>8, <1>9, <1>10, <1>11 DEF Next, Ended

\* A sequence over a set is one over a larger one.
LEMMA SeqOfLarger ==
  ASSUME NEW T, NEW S \in SUBSET T, NEW s \in Seq(S)
  PROVE  s \in Seq(T)
OBVIOUS

-----------------------------------------------------------------------------

\* LoadInv is an invariant: a worker that has read some of a file is at one of its rows,
\* its counters are those of the edges it has read, and the pointers it has are the right
\* ones of these and of the parts before.
THEOREM LoadInductive == Spec => []LoadInv
<1>1. Init => LoadInv
  BY LoadInit
<1>2. ReshardInv /\ FilesInv /\ LoadInv /\ [Next]_vars => LoadInv'
  BY LoadStep
<1>3. QED
  BY <1>1, <1>2, ReshardInductive, FilesInductive, PTL DEF Spec

\* The variables of reshard and of the loading have their types: edgeptr, edgeptr_syn and
\* the end of the in-block in load_vertices_XG never pass the number of edges, not even
\* where OneBlockOn goes one block too far, and the two places of a pass stay in its buffer.
THEOREM TypeOKHolds == Spec => []TypeOK
<1>1. ReshardInv /\ FilesInv /\ LoadInv => TypeOK
  <2> SUFFICES ASSUME ReshardInv, FilesInv, LoadInv PROVE TypeOK
    OBVIOUS
  <2>1. Typed /\ (Passing \/ (pc = "done" /\ shard = P)) /\ LoadControl /\ LoadBounds
    BY DEF ReshardInv, LoadInv
  <2>2. graph \in Inputs
    BY <2>1 DEF Typed
  <2>3. P \in Nat /\ P > 0 /\ Shard = 0 .. P - 1
    BY <2>2, GraphFacts
  <2>4. CASE Passing
    <3>1. /\ shard \in Shard /\ shovelbuf = Sorted(Shovel(shard, graph.edges))
          /\ i \in 0 .. Len(shovelbuf) /\ istart \in 0 .. i /\ pc \in {"value", "turn", "source", "failed"}
      BY <2>4 DEF Passing, PassAt
    <3>2. PICK S : S = Shovel(shard, graph.edges)
      OBVIOUS
    <3>3. S \in SUBSET graph.edges
      BY <3>2 DEF Shovel
    <3>4. IsFiniteSet(S) /\ S \in SUBSET (Nat \X Nat)
      <4>1. IsFiniteSet(graph.edges) /\ graph.edges \in SUBSET (Nat \X Nat)
        BY <2>2, GraphFacts
      <4>2. IsFiniteSet(S)
        BY <3>3, <4>1, FS_Subset
      <4>3. QED
        BY <3>3, <4>1, <4>2
    <3>5. shovelbuf \in Seq(S)
      BY <3>1, <3>2, <3>4, SortedAt
    <3>6. shovelbuf \in Seq(graph.edges)
      BY <3>3, <3>5, SeqOfLarger
    <3>7. shard \in 0 .. P
      BY <2>3, <3>1
    <3>8. QED
      BY <2>1, <3>1, <3>6, <3>7 DEF TypeOK, Typed, LoadControl, LoadBounds, Most
  <2>5. CASE pc = "done" /\ shard = P
    <3>1. shovelbuf = <<>> /\ i = 0 /\ istart = 0
      BY <2>5 DEF FilesInv
    <3>2. shovelbuf \in Seq(graph.edges) /\ Len(shovelbuf) = 0
      BY <3>1
    <3>3. i \in 0 .. Len(shovelbuf) /\ istart \in 0 .. i /\ shard \in 0 .. P
      BY <2>3, <2>5, <3>1, <3>2
    <3>4. QED
      BY <2>1, <2>5, <3>2, <3>3 DEF TypeOK, Typed, LoadControl, LoadBounds, Most
  <2>6. QED
    BY <2>1, <2>4, <2>5
<1>2. QED
  BY <1>1, ReshardInductive, FilesInductive, LoadInductive, PTL

\* No assertion of reshard (the targets of a row, sharder.hpp:3168) or of the loading (a
\* block is one stripe, preada_async; an edge of a sliding shard has a value and its target
\* is in the interval, read_next_vertices_XG) fails unless a block is empty or the sources
\* before some interval of the edges into it are vertex 0 alone, and with such a graph the
\* loading never ends.
THEOREM FailsOnlyIfKnownHolds == Spec => []FailsOnlyIfKnown
<1>1. ReshardInv /\ LoadInv => FailsOnlyIfKnown
  <2> SUFFICES ASSUME ReshardInv, LoadInv PROVE FailsOnlyIfKnown
    OBVIOUS
  <2>1. graph \in Inputs /\ LoadControl
    BY DEF ReshardInv, Typed, LoadInv
  <2>2. pc = "failed" => ~ Preparable
    BY DEF ReshardInv, Passing, PassAt, Preparable
  <2>3. lpc = "failed" => ~ Preparable
    BY <2>1 DEF LoadControl, Preparable
  <2>4. ASSUME lpc = "done" PROVE Preparable
    <3>1. \A k \in Shard : k < worker
      BY <2>1, <2>4, GraphFacts DEF LoadControl
    <3>2. \A k \in Shard : Loadable(k)
      BY <2>1, <3>1 DEF LoadControl
    <3>3. QED
      BY <3>2 DEF Loadable, Preparable, EmptyBlock
  <2>5. QED
    BY <2>2, <2>3, <2>4 DEF FailsOnlyIfKnown
<1>2. QED
  BY <1>1, ReshardInductive, LoadInductive, PTL

\* When load_vertices_XG and read_next_vertices_XG are done, the vertices of the worker have
\* all the in- and out-edges that they have in the graph and no other, and each pointer is
\* to the value of its own edge: whichever adjacency the edge was read from, whichever
\* block has the value, and wherever the rows and runs of zeros before it ended.
THEOREM PointersRightHolds == Spec => PointersRight
<1>1. ASSUME ReshardInv, FilesInv, LoadInv, [Next]_vars, worker' # worker
      PROVE  /\ edges[worker] = EdgesOf(worker)
             /\ \A q \in edges[worker] : ValueAt(worker, q) = q.edge
  <2>1. EndPart
    BY <1>1 DEF Next, lvars, vars, OpenMain, OpenSliding, ZeroRow, EdgeRow, MainEdge, SlidingEdge, Ended
  <2>2. AllWritten
    <3>1. pc = "done"
      BY <1>1, <2>1 DEF EndPart, LoadInv, LoadControl
    <3>2. QED
      BY <1>1, <3>1 DEF ReshardInv, Passing, AllWritten
  <2>3. /\ graph \in Inputs /\ worker \in Shard /\ part \in Shard \cup {Main} /\ part # worker
        /\ edges[worker] = LoadedAll(worker, part)
    BY <1>1, <2>1, <2>2, PartIsRead
  <2>4. ~ (PartAfter(worker, part) < P)
    BY <1>1, <2>1 DEF EndPart, PartsLeft, NextPart, PartAfter
  <2>5. edges[worker] = EdgesOf(worker)
    BY <2>3, <2>4, PointersAll
  <2>6. QED
    BY <2>2, <2>3, <2>5, ValuesRight
<1>2. ReshardInv /\ FilesInv /\ LoadInv /\ [Next]_vars =>
        [worker' # worker =>
           /\ edges[worker] = EdgesOf(worker)
           /\ \A q \in edges[worker] : ValueAt(worker, q) = q.edge]_vars
  BY <1>1
<1>3. QED
  BY <1>2, ReshardInductive, FilesInductive, LoadInductive, PTL DEF Spec, PointersRight

=============================================================================
