------------------------------ MODULE Subgraph ------------------------------
(***************************************************************************)
(* The loading of the subgraphs: the files that module Reshard writes are   *)
(* read by the worker of each interval, the adjacency of its in-edges by    *)
(* load_vertices_XG (memoryshard.hpp), those of its out-edges to the other  *)
(* intervals by read_next_vertices_XG (slidingshard.hpp).  Both turn every  *)
(* edge into a pointer to its value in the block of its other end.          *)
(*                                                                          *)
(* The parts of a worker's loading are taken one after the other: the       *)
(* threads that run them write to different blocks, and what they share,    *)
(* the out-edge count of a vertex, is incremented atomically.  Every vertex *)
(* is scheduled: no task is ever removed from the scheduler.  The option   *)
(* asyn is 0.  Places in a block are counted in edges.                     *)
(***************************************************************************)
EXTENDS Reshard

VARIABLES
  worker, part,  (* the worker that loads, and what: Main or the sliding part p *)
  lpc,
  ptr,           (* the field of the adjacency it is at                      *)
  vid,           (* the vertex whose row that is                             *)
  n,             (* edges left of the row                                    *)
  edgeptr, edgeptr_syn,  (* main part: edges so far, and edges of own vertices;
                            the sliding part counts its edges in edgeptr too *)
  bid, brange,   (* main part: the in-block it is in, and where that ends    *)
  edges          (* edges[w]: the edges of the vertices of w with pointers   *)

lvars == <<worker, part, lpc, ptr, vid, n, edgeptr, edgeptr_syn, bid, brange, edges>>
vars  == <<rvars, lvars>>

Main == -1
None == -1

Adj == IF part = Main THEN wsl[worker][worker].adj ELSE wsl[worker][part].adj
InBlock(w, b) == IF b = w THEN wsl[w][w].outs ELSE wsl[w][b].ins
OutBlock(w, p) == wsl[w][p].outs

Own(v) == v \in Interval(worker)

Init ==
  /\ RInit
  /\ worker = 0 /\ part = Main /\ lpc = "open"
  /\ ptr = 1 /\ vid = 0 /\ n = 0
  /\ edgeptr = 0 /\ edgeptr_syn = 0 /\ bid = 0 /\ brange = 0
  /\ edges = [w \in DOMAIN graph.first |-> {}]

-----------------------------------------------------------------------------

\* load_edata_XG: preada_async asserts that a block is one stripe, so not empty.
Openable == \A b \in Shard : InBlock(worker, b) # <<>>

OpenMain ==
  /\ pc = "done" /\ lpc = "open" /\ part = Main
  /\ lpc' = IF Openable THEN "row" ELSE "failed"
  /\ ptr' = 1 /\ vid' = 0
  /\ edgeptr' = 0 /\ edgeptr_syn' = 0
  /\ bid' = 0 /\ brange' = Len(InBlock(worker, 0))
  /\ UNCHANGED <<rvars, worker, part, n, edges>>

OpenSliding ==
  /\ lpc = "open" /\ part # Main
  /\ lpc' = "row"
  /\ ptr' = 1 /\ vid' = graph.first[worker]
  /\ edgeptr' = 0
  /\ UNCHANGED <<rvars, worker, part, n, edgeptr_syn, bid, brange, edges>>

\* The sliding part ends with the vertices too.
MoreRows == ptr <= Len(Adj) /\ (part = Main \/ vid <= graph.last[worker])

\* A 0, and how many more vertices have no edge.
ZeroRow ==
  /\ lpc = "row" /\ MoreRows /\ Adj[ptr] = 0
  /\ vid' = vid + 1 + Adj[ptr + 1]
  /\ ptr' = ptr + 2
  /\ UNCHANGED <<rvars, worker, part, lpc, n, edgeptr, edgeptr_syn, bid, brange, edges>>

LengthOfRow == IF Adj[ptr] = Esc THEN <<Adj[ptr + 1], 2>> ELSE <<Adj[ptr], 1>>

EdgeRow ==
  /\ lpc = "row" /\ MoreRows /\ Adj[ptr] # 0
  /\ n' = LengthOfRow[1]
  /\ ptr' = ptr + LengthOfRow[2]
  /\ lpc' = "edge"
  /\ UNCHANGED <<rvars, worker, part, vid, edgeptr, edgeptr_syn, bid, brange, edges>>

Pointer(end, edge, buf, b, at, syn) ==
  [end |-> end, edge |-> edge, buf |-> buf, block |-> b, at |-> at, syn |-> syn]

\* main_to_main_buf has a place for every edge inside the interval.
ShadowOf(v) == IF Own(v) THEN edgeptr_syn ELSE None

\* The edge counts: the next in-block begins where this one ends.  (At the end of the
\* last one the code reads the size of one block too many, and does not use it.)
OneBlockOn ==
  IF edgeptr + 1 >= brange
  THEN /\ bid' = bid + 1
       /\ brange' = brange + IF bid + 1 < P THEN Len(InBlock(worker, bid + 1)) ELSE 0
  ELSE UNCHANGED <<bid, brange>>

EndOfRow ==
  /\ n' = n - 1
  /\ ptr' = ptr + 1
  /\ IF n = 1 THEN lpc' = "row" /\ vid' = vid + 1 ELSE UNCHANGED <<lpc, vid>>

\* Of an edge inside the interval both ends get the pointer.  Reshard writes only
\* targets in the interval; what the code does with others is left out.
MainEdge ==
  /\ lpc = "edge" /\ part = Main
  /\ LET edge == <<vid, Adj[ptr]>>
         at == edgeptr - (brange - Len(InBlock(worker, bid)))
         to(end) == Pointer(end, edge, "inbuf", bid, at, ShadowOf(vid))
     IN  edges' = [edges EXCEPT ![worker] =
                     @ \cup {to("in")} \cup (IF Own(vid) THEN {to("out")} ELSE {})]
  /\ edgeptr' = edgeptr + 1
  /\ edgeptr_syn' = IF Own(vid) THEN edgeptr_syn + 1 ELSE edgeptr_syn
  /\ OneBlockOn
  /\ EndOfRow
  /\ UNCHANGED <<rvars, worker, part>>

\* assert: the block has a value for the edge, and the target is in the interval.
SlidingEdge ==
  /\ lpc = "edge" /\ part # Main
  /\ IF edgeptr < Len(OutBlock(worker, part)) /\ Adj[ptr] \in Interval(part)
     THEN /\ edges' = [edges EXCEPT ![worker] =
                         @ \cup {Pointer("out", <<vid, Adj[ptr]>>, "obuf", part, edgeptr, None)}]
          /\ edgeptr' = edgeptr + 1
          /\ EndOfRow
     ELSE lpc' = "failed" /\ UNCHANGED <<edges, edgeptr, n, ptr, vid>>
  /\ UNCHANGED <<rvars, worker, part, edgeptr_syn, bid, brange>>

\* The worker's own interval has no sliding part.
NextOne == part + 1
NextPart == IF part + 1 = worker THEN part + 2 ELSE part + 1
OneOnLeft == part + 1 < P
PartsLeft == NextPart < P

EndPart ==
  /\ lpc = "row" /\ ~MoreRows
  /\ IF PartsLeft
     THEN part' = NextPart /\ lpc' = "open" /\ UNCHANGED worker
     ELSE /\ part' = Main
          /\ worker' = worker + 1
          /\ lpc' = IF worker + 1 < P THEN "open" ELSE "done"
  /\ UNCHANGED <<rvars, ptr, vid, n, edgeptr, edgeptr_syn, bid, brange, edges>>

\* All is loaded, or an assertion has failed.
Ended ==
  /\ lpc \in {"done", "failed"} \/ pc = "failed"
  /\ UNCHANGED vars

Next ==
  \/ reshard /\ UNCHANGED lvars
  \/ OpenMain \/ OpenSliding \/ ZeroRow \/ EdgeRow \/ MainEdge \/ SlidingEdge \/ EndPart
  \/ Ended

Spec == Init /\ [][Next]_vars

-----------------------------------------------------------------------------
(* Properties *)

\* The graphs that cannot be prepared.  A worker cannot load a block without edges.
EmptyBlock == \E k \in Shard, p \in Shard : Block(k, p) = {}

\* And reshard, which starts with current_memory_shard 0 and curvid 0, takes no notice
\* of a source 0 of another subgraph's edges unless another source comes before the
\* subgraph's own (OnlyZeroBefore): the row of vertex 0 goes to the file towards interval 0.
Preparable == ~EmptyBlock /\ \A k \in Shard : ~OnlyZeroBefore(k)

\* No assertion of reshard or of the loader fails unless the graph is one of these, and
\* these are not loaded.
FailsOnlyIfKnown ==
  /\ pc = "failed" \/ lpc = "failed" => ~Preparable
  /\ lpc = "done" => Preparable

\* What the code asserts of a row that it writes, that all its targets are in the
\* interval of the file (sharder.hpp:3168), for graphs that a worker can load.
TargetsOfTheFile == pc = "failed" => EmptyBlock

\* Place(e) counts from 0: the edges of a block are in the order of reshard.
Place(e) == Rank(e, Block(Owner(e[1]), Owner(e[2])))

Inside(e) == Owner(e[1]) = Owner(e[2])
PlaceInShadow(e) == IF Inside(e) THEN Place(e) ELSE None

EdgesOf(w) ==
  {Pointer("in", e, "inbuf", Owner(e[1]), Place(e), PlaceInShadow(e)) :
      e \in {f \in graph.edges : f[2] \in Interval(w)}}
  \cup
  {Pointer("out", e, IF Inside(e) THEN "inbuf" ELSE "obuf", Owner(e[2]), Place(e), PlaceInShadow(e)) :
      e \in {f \in graph.edges : f[1] \in Interval(w)}}

ValueAt(w, q) == (IF q.buf = "inbuf" THEN InBlock(w, q.block) ELSE OutBlock(w, q.block))[q.at + 1]

\* Every worker ends its loading with the in- and out-edges of its vertices and no
\* other, and each points at its own value, which for an edge between two intervals is
\* at the same place of the block that one worker sends and of the block the other
\* receives, although different passes wrote the two; for an edge inside the interval
\* both ends point to the same value, and to the same place of its shadow.
PointersRight ==
  [][worker' # worker =>
       /\ edges[worker] = EdgesOf(worker)
       /\ \A q \in edges[worker] : ValueAt(worker, q) = q.edge]_vars

\* The types of the loader's and reshard's variables.
TypeOK ==
  /\ pc \in {"value", "turn", "source", "failed", "done"}
  /\ shard \in 0 .. P /\ shovelbuf \in Seq(graph.edges)
  /\ i \in 0 .. Len(shovelbuf) /\ istart \in 0 .. i
  /\ css \in Shard \cup {-1} /\ cms \in Shard /\ index \in Shard
  /\ curvid \in Nat /\ willout \in BOOLEAN
  /\ worker \in 0 .. P /\ part \in Shard \cup {Main}
  /\ lpc \in {"open", "row", "edge", "done", "failed"}
  /\ ptr \in Nat /\ vid \in Nat /\ n \in Nat
  /\ bid \in 0 .. P /\ edgeptr \in 0 .. Cardinality(graph.edges)
  /\ edgeptr_syn \in 0 .. Cardinality(graph.edges) /\ brange \in 0 .. Cardinality(graph.edges)

=============================================================================
