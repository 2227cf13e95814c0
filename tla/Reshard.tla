------------------------------- MODULE Reshard -------------------------------
(***************************************************************************)
(* The last step of the preprocessing (sharder.hpp, reshard): from the      *)
(* edges that begin or end in an interval, sorted, one pass writes all the  *)
(* files of its subgraph: the adjacency of the edges into it, the           *)
(* adjacencies of the edges from it to every other interval, and the blocks *)
(* of edge values that the workers will exchange.                           *)
(*                                                                          *)
(* A file is a sequence of fields; the value of an edge is abstracted to    *)
(* the edge itself.  Esc and MaxRun stand for the 255 and the 254 of the    *)
(* byte-sized counts, so that small graphs reach them.                      *)
(***************************************************************************)
EXTENDS Integers, Sequences, FiniteSets

CONSTANTS Inputs,  (* graphs: records [first, last, edges], first and last   *)
                   (* functions of the interval                              *)
          Esc,     (* a row this long has its length in a field of its own   *)
          MaxRun   (* the most vertices that one run of zeros adds           *)

\* Intervals 0, 1, ... one after the other from vertex 0, which hold both ends of every edge.
IsGraph(g) ==
  LET size == Cardinality(DOMAIN g.first)
  IN  /\ size \in Nat \ {0} /\ {g.first, g.last} \subseteq [0 .. size - 1 -> Nat]
      /\ g.first[0] = 0
      /\ \A k \in 0 .. size - 1 :
           g.first[k] <= g.last[k] /\ \A j \in 0 .. k - 1 : g.last[j] < g.first[k]
      /\ IsFiniteSet(g.edges) /\ g.edges \subseteq Nat \X Nat
      /\ \A e \in g.edges : \A v \in {e[1], e[2]} :
           \E k \in 0 .. size - 1 : v \in g.first[k] .. g.last[k]

ASSUME ReshardAssumption ==
  Esc \in Nat \ {0} /\ MaxRun \in Nat /\ \A g \in Inputs : IsGraph(g)

VARIABLES
  graph,      (* the input                                                  *)
  pc,         (* where reshard is in its loop; "done" when all are written  *)
  shard, shovelbuf,                       (* the subgraph, its sorted edges *)
  i, istart,  (* the edge it is at, the first one not in a row yet          *)
  css, cms,   (* current_sliding_shard, current_memory_shard                *)
  curvid, willout, index,
  wsl         (* wsl[k][p]: files and cursor of subgraph k towards p        *)

svars == <<shovelbuf, i, istart, css, cms, curvid, willout, index>>
rvars == <<graph, pc, shard, svars, wsl>>

Shard == DOMAIN graph.first
P == Cardinality(Shard)
Interval(k) == graph.first[k] .. graph.last[k]
Owner(v) == CHOOSE k \in Shard : v \in Interval(k)

\* edge_t_src_less
Less(e, f) == e[1] < f[1] \/ (e[1] = f[1] /\ e[2] < f[2])
Rank(e, E) == Cardinality({f \in E : Less(f, e)})
Sorted(E) == [x \in 1 .. Cardinality(E) |-> CHOOSE e \in E : Rank(e, E) = x - 1]

\* reshovel: an edge goes to the shovel of its target's interval and to that of its
\* source's.
OfTarget(k, E) == {e \in E : e[2] \in Interval(k)}
Shovel(k, E) == {e \in E : e[1] \in Interval(k) \/ e[2] \in Interval(k)}

-----------------------------------------------------------------------------
(* Rows and runs of zeros *)

Row(targets) ==
  (IF Len(targets) < Esc THEN <<Len(targets)>> ELSE <<Esc, Len(targets)>>) \o targets

\* nz vertices without an edge: pairs of a 0 and the vertices it adds to one.
ZeroRuns(nz) ==
  LET runs == (nz - 1) \div (MaxRun + 1) + 1
  IN  [f \in 1 .. 2 * runs |-> IF f % 2 = 1 THEN 0
                               ELSE IF f < 2 * runs THEN MaxRun ELSE (nz - 1) % (MaxRun + 1)]

\* The edges before the one at hand that are in no row yet.
PendingTargets == [x \in 1 .. i - istart |-> shovelbuf[istart + x][2]]

\* The pending edges as a row of file w, the row of vertex w.curvid.
WithRow(w) ==
  IF i = istart THEN w ELSE [w EXCEPT !.adj = @ \o Row(PendingTargets), !.vid_written = TRUE]

\* Runs of zeros in file w up to vertex src; curvid itself counts unless its row is written.
Gap(w, src) == src - w.curvid - (IF w.vid_written THEN 1 ELSE 0)
WithZeros(w, src) == IF Gap(w, src) > 0 THEN [w EXCEPT !.adj = @ \o ZeroRuns(Gap(w, src))] ELSE w

-----------------------------------------------------------------------------

NewFile(g, k, p) ==
  [adj |-> <<>>, ins |-> <<>>, outs |-> <<>>, vid_written |-> FALSE,
   curvid |-> IF p = k THEN 0 ELSE g.first[k]]

RInit ==
  /\ graph \in Inputs
  /\ pc = "value" /\ shard = 0 /\ shovelbuf = Sorted(Shovel(0, graph.edges))
  /\ i = 0 /\ istart = 0
  /\ css = -1 /\ cms = 0
  /\ curvid = 0 /\ willout = FALSE /\ index = 0
  /\ wsl = [k \in Shard |-> [p \in Shard |-> NewFile(graph, k, p)]]

Edge == shovelbuf[i + 1]
Src == Edge[1]
MoreEdges == i < Len(shovelbuf)

\* Which file of the subgraph holds the value of an edge: the block its source's
\* interval sends, or the block that goes to its target's.
SetFile(p, w) == wsl' = [wsl EXCEPT ![shard][p] = w]
File(p) == wsl[shard][p]

\* The edge comes from another interval, up to which current_sliding_shard moves.
EdgeIn ==
  /\ pc = "value" /\ MoreEdges /\ Owner(Src) # shard
  /\ css' = Owner(Src)
  /\ SetFile(css', [File(css') EXCEPT !.ins = Append(@, Edge)])
  /\ pc' = "source"
  /\ UNCHANGED <<graph, shard, shovelbuf, i, istart, cms, curvid, willout, index>>

\* The edge comes from the interval of the subgraph itself.
EdgeOut ==
  /\ pc = "value" /\ MoreEdges /\ Owner(Src) = shard
  /\ css' = shard /\ willout' = TRUE
  /\ index' = Owner(Edge[2])
  /\ SetFile(index', [File(index') EXCEPT !.outs = Append(@, Edge)])
  /\ pc' = "turn"
  /\ UNCHANGED <<graph, shard, shovelbuf, i, istart, cms, curvid>>

SameVertex == Src = File(cms).curvid
Turned == cms = index /\ Src = File(cms).curvid

\* A vertex whose row is still to come is not yet written, the first one above all.
KeepsWritten(w) == w.curvid = Src
FirstNotWritten(w) == w.curvid = Src /\ i # 0

\* Its row is another one than the pending edges': write them, and go to its row.
\* assert: they are edges into the interval of the file.
Turn ==
  /\ pc = "turn" /\ ~Turned
  /\ IF \A x \in DOMAIN PendingTargets : PendingTargets[x] \in Interval(cms)
     THEN /\ SetFile(cms, [WithZeros(WithRow(File(cms)), Src)
                             EXCEPT !.vid_written = FirstNotWritten(File(cms)), !.curvid = Src])
          /\ istart' = i
          /\ cms' = index
          /\ UNCHANGED pc
     ELSE pc' = "failed" /\ UNCHANGED <<wsl, istart, cms>>
  /\ UNCHANGED <<graph, shard, shovelbuf, i, css, curvid, willout, index>>

EndTurn ==
  /\ pc = "turn" /\ Turned
  /\ curvid' = Src
  /\ pc' = "source"
  /\ UNCHANGED <<graph, shard, shovelbuf, i, istart, css, cms, willout, index, wsl>>

\* The first edge from the interval after its own: the pending edges are the last ones
\* of the subgraph's own vertices.
Leaving == css = shard + 1 /\ willout

LeaveInterval ==
  /\ pc = "source" /\ Leaving
  /\ willout' = FALSE
  /\ SetFile(cms, WithRow(File(cms)))
  /\ istart' = i
  /\ cms' = shard
  /\ UNCHANGED <<graph, pc, shard, shovelbuf, i, css, curvid, index>>

\* Another source outside the interval: a new row of the edges into the interval.
NextSource ==
  /\ pc = "source" /\ ~Leaving /\ Src # curvid
  /\ SetFile(shard, [WithZeros(WithRow(File(shard)), Src)
                       EXCEPT !.curvid = Src, !.vid_written = FALSE])
  /\ istart' = i
  /\ cms' = shard
  /\ curvid' = Src
  /\ i' = i + 1
  /\ pc' = "value"
  /\ UNCHANGED <<graph, shard, shovelbuf, css, willout, index>>

SameSource ==
  /\ pc = "source" /\ ~Leaving /\ Src = curvid
  /\ i' = i + 1
  /\ pc' = "value"
  /\ UNCHANGED <<graph, shard, shovelbuf, istart, css, cms, curvid, willout, index, wsl>>

\* The stopper: the last row; then the next subgraph, by whichever machine.
LastRow == SetFile(cms, WithRow(File(cms)))

Stopper ==
  /\ pc = "value" /\ ~MoreEdges
  /\ LastRow
  /\ shard' = shard + 1
  /\ shovelbuf' = IF shard + 1 < P THEN Sorted(Shovel(shard + 1, graph.edges)) ELSE <<>>
  /\ pc' = IF shard + 1 < P THEN "value" ELSE "done"
  /\ i' = 0 /\ istart' = 0
  /\ css' = -1 /\ cms' = 0
  /\ curvid' = 0 /\ willout' = FALSE /\ index' = 0
  /\ UNCHANGED graph

reshard ==
  \/ EdgeIn \/ EdgeOut \/ Turn \/ EndTurn \/ LeaveInterval \/ NextSource \/ SameSource
  \/ Stopper

-----------------------------------------------------------------------------
\* The edges from interval k to interval p.
Block(k, p) == {e \in graph.edges : e[1] \in Interval(k) /\ e[2] \in Interval(p)}

-----------------------------------------------------------------------------
(* Properties *)

\* A source 0 of another subgraph's edges and no other source before its own.
OnlyZeroBefore(k) ==
  k # 0 /\ {e[1] : e \in OfTarget(k, graph.edges)} \cap 0 .. graph.first[k] - 1 = {0}

\* The assertion on the targets of a row fails for no other graph.
FailsOnlyAtZero == pc = "failed" => \E k \in Shard : OnlyZeroBefore(k)

\* Of two intervals, the block that the one sends and the block the other has a place for
\* are the same edges in the same order, although different passes write them, and none
\* of the edges is lost.
BlocksAgree ==
  pc = "done" => \A k \in Shard, p \in Shard :
    /\ wsl[k][p].outs = Sorted(Block(k, p))
    /\ k # p => wsl[p][k].ins = Sorted(Block(k, p))

=============================================================================
