----------------------------- MODULE MCSubgraph -----------------------------
(* Subgraph for TLC: every graph on four vertices in two intervals, and     *)
(* graphs on six vertices in three intervals.                               *)
EXTENDS Subgraph

Layout(size, shards) ==
  [first |-> [k \in 0 .. shards - 1 |-> k * size],
   last  |-> [k \in 0 .. shards - 1 |-> k * size + size - 1]]

Graph(layout, E) == [first |-> layout.first, last |-> layout.last, edges |-> E]

Simple(vs) == {e \in vs \X vs : e[1] # e[2]}

TwoIntervals == {Graph(Layout(2, 2), E) : E \in SUBSET Simple(0 .. 3)}

\* Between two of three intervals the first vertices, the last ones or all of them
\* are linked; inside one the first to the last, or the other way.
First(k) == 2 * k
Last(k) == 2 * k + 1
Cross == {<<k, p>> \in (0 .. 2) \X (0 .. 2) : k # p}
Links(k, p) ==
  <<{<<First(k), First(p)>>}, {<<Last(k), Last(p)>>},
    {First(k), Last(k)} \X {First(p), Last(p)}>>

ThreeIntervals ==
  {Graph(Layout(2, 3), UNION {Links(b[1], b[2])[kind[b]] : b \in Cross}
                         \cup {IF forth[k] THEN <<First(k), Last(k)>> ELSE <<Last(k), First(k)>> :
                               k \in 0 .. 2}) :
     kind \in [Cross -> 1 .. 3], forth \in [0 .. 2 -> BOOLEAN]}

Graphs == TwoIntervals \cup ThreeIntervals

=============================================================================
