------------------------------- MODULE TopList -------------------------------
(***************************************************************************)
(* The top list of a run: every worker scans the vertex values it has saved *)
(* in windows and keeps the greatest (util/toplist.hpp), sends them, and    *)
(* the master merges the lists it has received (ceMaster.cpp).              *)
(***************************************************************************)
EXTENDS Integers, SequencesExt

CONSTANTS
  M,       (* workers                                                       *)
  Size,    (* Size[w]: vertices in interval w                               *)
  NTop,    (* the option top                                                *)
  Window,  (* readwindow                                                    *)
  Values,  (* the vertex values                                             *)
  Garbage  (* the values an entry that was never written can have          *)

Worker == 0 .. M - 1

ASSUME TopListAssumption ==
  /\ M \in Nat \ {0} /\ NTop \in Nat \ {0}
  /\ Size \in [Worker -> Nat \ {0}]
  /\ Window \in Nat /\ Window >= NTop
  /\ Values \subseteq Int /\ Garbage \subseteq Int

Local(w) == 0 .. Size[w] - 1
Vertex == UNION {{w} \X Local(w) : w \in Worker}

\* Number of the first vertex of interval w.
Base(w) == FoldFunctionOnSet(LAMBDA n, sum : n + sum, 0, Size, 0 .. w - 1)

Entry(v, x) == [vid |-> v, value |-> x]
Unwritten == {Entry(-1, x) : x \in Garbage}

VARIABLES
  value,   (* value[<<w, v>>]: the value saved for vertex v of interval w    *)
  st,      (* st[w]: first vertex of w's next window                         *)
  topbuf,  (* topbuf[w]: the greatest so far, NTop entries or Size[w] if less *)
  buffer,  (* buffer[w]: buffer_idxs, only overwritten by what is included   *)
  done,    (* workers whose list the master has received                     *)
  q,       (* q[w]: what is left of it                                       *)
  out      (* the entries printed                                            *)

vars == <<value, st, topbuf, buffer, done, q, out>>

Init ==
  /\ value \in [Vertex -> Values]
  /\ st = [w \in Worker |-> 0]
  /\ topbuf = [w \in Worker |-> <<>>] /\ buffer = [w \in Worker |-> <<>>]
  /\ done = {}
  /\ q = [w \in Worker |-> <<>>] /\ out = <<>>

Least(a, b) == IF a < b THEN a ELSE b
Greater(a, b) == a.value > b.value

\* ntop of get_top_vertices.
Wanted(w) == Least(NTop, Size[w])

\* The vertices of the next window, as entries.
WindowOf(w) ==
  {Entry(v, value[<<w, v>>]) : v \in st[w] .. Least(st[w] + Window, Size[w]) - 1}

\* quickSort: in descending order, equal values in any.
Sorted(S) ==
  {s \in SetToSeqs(S) : \A i \in 1 .. Len(s), k \in 1 .. Len(s) : i < k => s[i].value >= s[k].value}

\* util/merge.hpp: m[<<i, j>>] is what is written when s1[i] and s2[j] are the next, of s2
\* only the first n are merged, and s2[1] is looked at also when n = 0.
Merge(s1, s2, n) ==
  LET m[p \in (1 .. Len(s1)) \X (1 .. n + 1)] ==
        LET i == p[1]
            j == p[2]
        IN IF Greater(s2[j], s1[i])
           THEN <<s2[j]>> \o (IF j >= n THEN SubSeq(s1, i, Len(s1)) ELSE m[<<i, j + 1>>])
           ELSE <<s1[i]>> \o (IF i = Len(s1) THEN SubSeq(s2, j, n)
                              ELSE IF j = n + 1 THEN SubSeq(s1, i + 1, Len(s1)) ELSE m[<<i + 1, j>>])
  IN m[<<1, 1>>]

\* Only values above the last one of the list so far need to be sorted.
AboveFirst(w, e) == st[w] = 0 \/ e.value > topbuf[w][1].value
Included(w, e) == st[w] = 0 \/ e.value > topbuf[w][Wanted(w)].value

Scan(w) ==
  /\ st[w] < Size[w]
  /\ \E found \in Sorted({e \in WindowOf(w) : Included(w, e)}) :
       LET buf == found \o SubSeq(buffer[w], Len(found) + 1, Len(buffer[w]))
       IN /\ buffer' = [buffer EXCEPT ![w] = buf]
          /\ topbuf' = [topbuf EXCEPT ![w] =
               IF st[w] = 0 THEN SubSeq(buf, 1, Wanted(w))
               ELSE SubSeq(Merge(@, buf, Least(Wanted(w), Len(found))), 1, Wanted(w))]
  /\ st' = [st EXCEPT ![w] = @ + Window]
  /\ UNCHANGED <<value, done, q, out>>

\* Entries of the list sent that are not filled in.
AllEntries(w) == NTop
Unfilled(w) == NTop - Wanted(w)

\* All of the file is scanned: the list is sent, as NTop entries of which only those
\* found are filled in, and a thread of the master takes it apart.
Send(w) ==
  /\ st[w] >= Size[w] /\ w \notin done
  /\ done' = done \cup {w}
  /\ \E rest \in [1 .. Unfilled(w) -> Unwritten] : q' = [q EXCEPT ![w] = topbuf[w] \o rest]
  /\ UNCHANGED <<value, st, topbuf, buffer, out>>

\* The list whose front is the greatest above zero, the first of them; list 0 if
\* none is above zero.
FrontValue(w) == Head(q[w]).value
LastAboveZero ==
  LET best == {w \in Worker : FrontValue(w) > 0}
  IN IF best = {} THEN 0 ELSE CHOOSE w \in best : \A x \in best : x <= w
Chosen ==
  LET best == {w \in Worker : FrontValue(w) > 0 /\ \A x \in Worker : FrontValue(x) <= FrontValue(w)}
  IN IF best = {} THEN 0 ELSE CHOOSE w \in best : \A x \in best : w <= x

\* The condition of the loop that prints.
OneMore == Len(out) <= NTop
MoreToPrint == Len(out) < NTop

\* while(done < M) has ended: a turn of the loop that prints.
PrintNext ==
  /\ done = Worker /\ MoreToPrint
  /\ out' = Append(out, Head(q[Chosen]))
  /\ q' = [q EXCEPT ![Chosen] = Tail(@)]
  /\ UNCHANGED <<value, st, topbuf, buffer, done>>

Next == PrintNext \/ \E w \in Worker : Scan(w) \/ Send(w)

Spec == Init /\ [][Next]_vars

-----------------------------------------------------------------------------
(* Properties *)

TypeOK ==
  /\ value \in [Vertex -> Values] /\ done \subseteq Worker
  /\ \A w \in Worker :
       /\ st[w] \in 0 .. Size[w] + Window /\ Len(topbuf[w]) \in {0, Wanted(w)}
       /\ Len(q[w]) <= NTop
       /\ \A s \in {topbuf[w], buffer[w], q[w]} : \A i \in 1 .. Len(s) :
            s[i] \in {Entry(v, x) : v \in Local(w), x \in Values} \cup Unwritten

\* The values of the entries are the n greatest of a set of vertices (all, if they are
\* fewer), in descending order: as many of them reach any given x.
IsTop(entries, vertices, n) ==
  /\ Len(entries) = Least(n, Cardinality(vertices))
  /\ \A i \in 2 .. Len(entries) : entries[i].value <= entries[i - 1].value
  /\ \A x \in Values \cup Garbage :
       Cardinality({i \in 1 .. Len(entries) : entries[i].value >= x})
         = Least(n, Cardinality({v \in vertices : value[v] >= x}))

\* After every window a worker holds the greatest values of what it has scanned, each
\* with a vertex of its own: no vertex is lost to the pruning by the last value of the
\* list, kept twice by the merge, or taken from what an earlier window left in buffer.
TopSoFar ==
  \A w \in Worker : st[w] > 0 =>
    /\ IsTop(topbuf[w], {<<w, v>> : v \in 0 .. Least(st[w], Size[w]) - 1}, NTop)
    /\ \A i \in 1 .. Len(topbuf[w]) :
         /\ value[<<w, topbuf[w][i].vid>>] = topbuf[w][i].value
         /\ \A k \in 1 .. i - 1 : topbuf[w][k].vid # topbuf[w][i].vid

\* front() is never called on an empty queue, although every turn of the loop looks at
\* the fronts of all and no turn tests for emptiness.
FrontsThere == done = Worker /\ MoreToPrint => \A w \in Worker : q[w] # <<>>

\* "Print top ntop vertices": what is printed are the greatest values of all workers.
PrintedTop == IsTop(out, Vertex, Len(out))

\* ... each with the number of a vertex that has it.
PrintedVertices ==
  \A i \in 1 .. Len(out) :
    \E x \in Vertex : Base(x[1]) + x[2] = out[i].vid /\ value[x] = out[i].value

=============================================================================
