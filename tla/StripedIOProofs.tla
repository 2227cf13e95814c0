--------------------------- MODULE StripedIOProofs ---------------------------
(***************************************************************************)
(* Theorems about module StripedIO, for any number of disks, of threads per *)
(* disk, of callers, of requests and of chunks of a request.                *)
(***************************************************************************)
EXTENDS StripedIO, FiniteSetTheorems, SequenceTheorems, TLAPS

-----------------------------------------------------------------------------
(* Sums *)

\* The sum of f[x] over the members x of a finite set is the number of these pairs.
Units(S, f) == UNION {{x} \X (1 .. f[x]) : x \in S}
Sum(S, f) == Cardinality(Units(S, f))

-----------------------------------------------------------------------------
(* Where the chunks of a request are *)

One(b) == IF b THEN 1 ELSE 0

\* How many chunks of request r a queue holds.
Chunks(q, r) == Cardinality({x \in 1 .. Len(q) : q[x] = r})
At(k, r) == Chunks(prioqueue[k], r) + Chunks(readqueue[k], r) + Chunks(commitqueue[k], r)

\* Thread k has a chunk in hand that it has not transferred, that it has not released,
\* that it is not through with.
Working == {"transfer", "uncount", "release", "done"}
Holds(k) ==
  \/ tpc[k] \in {"transfer", "release"}
  \/ tpc[k] = "uncount" /\ kind[task[k]] \in Reads

Untransferred(r) == [k \in Thread |-> At(k, r) + One(task[k] = r /\ tpc[k] = "transfer")]
Unreleased(r)    == [k \in Thread |-> At(k, r) + One(task[k] = r /\ Holds(k))]
Unfinished(r)    == [k \in Thread |-> At(k, r) + One(task[k] = r /\ tpc[k] \in Working)]
Unqueued(r)      == [c \in Caller |-> IF mine[c] = r THEN Len(left[c]) ELSE 0]

ToTransfer(r) == Sum(Thread, Untransferred(r)) + Sum(Caller, Unqueued(r))
ToRelease(r)  == Sum(Thread, Unreleased(r)) + Sum(Caller, Unqueued(r))
ToFinish(r)   == Sum(Thread, Unfinished(r)) + Sum(Caller, Unqueued(r))

-----------------------------------------------------------------------------
(* The inductive invariant *)

\* What is in a queue and in hand.
QueueKinds(k) ==
  /\ \A x \in 1 .. Len(prioqueue[k]) : kind[prioqueue[k][x]] = "now"
  /\ \A x \in 1 .. Len(readqueue[k]) : kind[readqueue[k][x]] = "read"
  /\ \A x \in 1 .. Len(commitqueue[k]) : kind[commitqueue[k][x]] \in {"write", "writefree"}

TaskKind(k) ==
  IF tpc[k] \in Working
  THEN /\ task[k] \in Req /\ kind[task[k]] # NoKind /\ size[task[k]] > 0
       /\ tpc[k] = "release" => kind[task[k]] # "write"
       /\ tpc[k] = "done" => HasDone(task[k])
  ELSE task[k] = NoReq

Kinded == \A k \in Thread : QueueKinds(k) /\ TaskKind(k)

\* PendingExact of one thread.
PendingReads(k) ==
  pending_reads[k] = Len(prioqueue[k]) + Len(readqueue[k])
                       + InHand(k, Reads) + Cardinality(Announced(k, Reads))
PendingWrites(k) ==
  pending_writes[k] = Len(commitqueue[k])
                        + InHand(k, Kinds \ Reads) + Cardinality(Announced(k, Kinds \ Reads))

\* A request is made by one caller, and is an issued one.
Calling == {"raise", "push", "spin"}

Calls ==
  /\ \A c \in Caller :
       /\ cpc[c] \in {"raise", "push"} <=> left[c] # <<>>
       /\ mine[c] # NoReq => kind[mine[c]] # NoKind
       /\ cpc[c] \in Calling => mine[c] # NoReq
       /\ cpc[c] = "spin" => kind[mine[c]] = "now"
  /\ \A c, d \in Caller :
       cpc[c] \in Calling /\ cpc[d] \in Calling /\ mine[c] = mine[d] => c = d

\* A request that is not issued.
Unissued ==
  \A r \in Req : kind[r] = NoKind => size[r] = 0 /\ count[r] = 0

MovedExact == \A r \in Req : moved[r] + ToTransfer(r) = size[r]

\* The reference of a caller that is to spin.
Owned(r) == \E c \in Caller : mine[c] = r /\ cpc[c] \in Calling /\ kind[r] = "now"

CountExact ==
  \A r \in Req : kind[r] # "write" => count[r] = ToRelease(r) + One(Owned(r))

\* The requests whose count is freed by somebody.
Counted(r) == kind[r] \in {"read", "now", "writefree"} /\ (size[r] > 0 \/ kind[r] = "now")

FreedExact == \A r \in Req : freed[r] = One(Counted(r) /\ count[r] = 0)

DoneExact == \A r \in Req : done[r] = IF HasDone(r) THEN ToFinish(r) ELSE 1

\* Nothing is left of what a wait waits for at the threads it has been through, and
\* nothing more of it comes.
WaitKinds(c) == IF cpc[c] = "reads" THEN Reads ELSE Kinds \ Reads

Waiting ==
  \A c \in Caller : cpc[c] \in {"reads", "writes"} =>
    \A r \in due[c] :
      /\ kind[r] \in WaitKinds(c)
      /\ \A d \in Caller : mine[d] = r => left[d] = <<>>
      /\ \A k \in Thread : k < at[c] => Untransferred(r)[k] = 0

Waited == \A r \in waited : kind[r] # NoKind /\ moved[r] = size[r]

IOInv ==
  /\ TypeOK /\ PendingExact
  /\ Kinded /\ Calls /\ Unissued
  /\ MovedExact /\ CountExact /\ FreedExact /\ DoneExact
  /\ Waiting /\ Waited

-----------------------------------------------------------------------------
(* Lemmas about sums *)

\* The set that a sum counts is finite.
LEMMA UnitsFinite ==
  ASSUME NEW S, IsFiniteSet(S), NEW f \in [S -> Nat]
  PROVE  IsFiniteSet(Units(S, f))
<1> DEFINE T == {{x} \X (1 .. f[x]) : x \in S}
           g == [x \in S |-> {x} \X (1 .. f[x])]
<1>1. g \in Surjection(S, T)
  BY DEF Surjection
<1>2. IsFiniteSet(T)
  BY <1>1, FS_Surjection
<1>3. ASSUME NEW x \in S PROVE IsFiniteSet({x} \X (1 .. f[x]))
  <2>1. f[x] \in Int /\ 1 \in Int
    OBVIOUS
  <2>2. IsFiniteSet(1 .. f[x])
    BY <2>1, FS_Interval
  <2>3. IsFiniteSet({x})
    BY FS_Singleton
  <2>4. QED
    BY <2>2, <2>3, FS_Product
<1>4. \A t \in T : IsFiniteSet(t)
  BY <1>3
<1> HIDE DEF T
<1>5. IsFiniteSet(UNION T)
  BY <1>2, <1>4, FS_UNION
<1>6. QED
  BY <1>5 DEF Units, T

\* A sum is the sum of all the others and one.
LEMMA SumSplit ==
  ASSUME NEW S, IsFiniteSet(S), NEW f \in [S -> Nat], NEW k \in S
  PROVE  /\ Cardinality(Units(S \ {k}, f)) \in Nat
         /\ Sum(S, f) = Cardinality(Units(S \ {k}, f)) + f[k]
<1> DEFINE R == Units(S \ {k}, f)
           Own == {k} \X (1 .. f[k])
<1>1. Units(S, f) = R \cup Own
  BY DEF Units
<1>2. R \cap Own = {}
  BY DEF Units
<1>3. IsFiniteSet(Units(S, f)) /\ R \in SUBSET Units(S, f)
  BY <1>1, UnitsFinite
<1>4. IsFiniteSet(R) /\ Cardinality(R) \in Nat
  BY <1>3, FS_Subset, FS_CardinalityType
<1>5. IsFiniteSet(Own) /\ Cardinality(Own) = f[k]
  <2>1. IsFiniteSet({k}) /\ Cardinality({k}) = 1
    BY FS_Singleton
  <2>2. IsFiniteSet(1 .. f[k]) /\ Cardinality(1 .. f[k]) = f[k]
    BY FS_Interval
  <2>3. IsFiniteSet(Own) /\ Cardinality(Own) = 1 * f[k]
    BY <2>1, <2>2, FS_Product
  <2>4. QED
    BY <2>3
<1> HIDE DEF R, Own
<1>6. Cardinality(R \cup Own) = Cardinality(R) + Cardinality(Own) - 0
  BY <1>2, <1>4, <1>5, FS_Union, FS_EmptySet
<1>7. QED
  BY <1>1, <1>4, <1>5, <1>6 DEF Sum, R

\* What one summand contributes, and what it changes.
LEMMA SumFacts ==
  ASSUME NEW S, IsFiniteSet(S), NEW f \in [S -> Nat]
  PROVE  /\ Sum(S, f) \in Nat
         /\ \A k \in S : Sum(S, f) >= f[k]
         /\ (\A k \in S : f[k] = 0) => Sum(S, f) = 0
<1>1. Sum(S, f) \in Nat
  BY UnitsFinite, FS_CardinalityType DEF Sum
<1>2. ASSUME NEW k \in S PROVE Sum(S, f) >= f[k]
  <2>1. /\ Cardinality(Units(S \ {k}, f)) \in Nat
        /\ Sum(S, f) = Cardinality(Units(S \ {k}, f)) + f[k]
    BY SumSplit
  <2>2. QED
    BY <2>1
<1>3. ASSUME \A k \in S : f[k] = 0 PROVE Sum(S, f) = 0
  <2>1. Units(S, f) = {}
    BY <1>3 DEF Units
  <2>2. QED
    BY <2>1, FS_EmptySet DEF Sum
<1>4. QED
  BY <1>1, <1>2, <1>3

\* A sum when one summand changes.
LEMMA SumChange ==
  ASSUME NEW S, IsFiniteSet(S), NEW f \in [S -> Nat], NEW g \in [S -> Nat], NEW k \in S,
         \A j \in S : j # k => g[j] = f[j]
  PROVE  Sum(S, g) = Sum(S, f) - f[k] + g[k]
<1>1. Units(S \ {k}, g) = Units(S \ {k}, f)
  BY DEF Units
<1>2. /\ Cardinality(Units(S \ {k}, f)) \in Nat
      /\ Sum(S, f) = Cardinality(Units(S \ {k}, f)) + f[k]
  BY SumSplit
<1>3. Sum(S, g) = Cardinality(Units(S \ {k}, g)) + g[k]
  BY SumSplit
<1>4. f[k] \in Nat /\ g[k] \in Nat
  OBVIOUS
<1>5. QED
  BY <1>1, <1>2, <1>3, <1>4

-----------------------------------------------------------------------------
(* Lemmas about queues *)

\* How many chunks of a request a queue holds is a number, and is 0 when there is none.
LEMMA ChunksFacts ==
  ASSUME NEW q \in Seq(Req), NEW r \in Req
  PROVE  /\ Len(q) \in Nat /\ IsFiniteSet({x \in 1 .. Len(q) : q[x] = r})
         /\ Chunks(q, r) \in Nat
         /\ Chunks(q, r) = 0 <=> \A x \in 1 .. Len(q) : q[x] # r
<1> HIDE DEF Req
<1>1. Len(q) \in Nat
  OBVIOUS
<1> DEFINE X == {x \in 1 .. Len(q) : q[x] = r}
<1>2. IsFiniteSet(1 .. Len(q))
  BY <1>1, FS_Interval
<1>3. IsFiniteSet(X)
  <2>1. X \in SUBSET (1 .. Len(q))
    OBVIOUS
  <2>2. QED
    BY <1>2, <2>1, FS_Subset
<1>4. Cardinality(X) \in Nat /\ (Cardinality(X) = 0 <=> X = {})
  BY <1>3, FS_CardinalityType, FS_EmptySet
<1>5. X = {} <=> \A x \in 1 .. Len(q) : q[x] # r
  OBVIOUS
<1>6. QED
  BY <1>1, <1>3, <1>4, <1>5 DEF Chunks

\* A chunk is pushed.
LEMMA ChunksAppend ==
  ASSUME NEW q \in Seq(Req), NEW e \in Req, NEW r \in Req
  PROVE  /\ Append(q, e) \in Seq(Req) /\ Len(Append(q, e)) = Len(q) + 1
         /\ \A x \in 1 .. Len(q) + 1 : Append(q, e)[x] = IF x = Len(q) + 1 THEN e ELSE q[x]
         /\ Chunks(Append(q, e), r) = Chunks(q, r) + One(e = r)
<1> DEFINE p == Append(q, e)
           X == {x \in 1 .. Len(q) : q[x] = r}
           Y == {x \in 1 .. Len(p) : p[x] = r}
<1> HIDE DEF Req
<1>1. /\ p \in Seq(Req) /\ Len(p) = Len(q) + 1 /\ Len(q) \in Nat
      /\ \A x \in 1 .. Len(q) + 1 : p[x] = IF x = Len(q) + 1 THEN e ELSE q[x]
  OBVIOUS
<1> HIDE DEF p
<1>2. Y = IF e = r THEN X \cup {Len(q) + 1} ELSE X
  BY <1>1
<1>3. IsFiniteSet(X) /\ Len(q) + 1 \notin X
  BY <1>1, ChunksFacts
<1>4. Cardinality(X \cup {Len(q) + 1}) = Cardinality(X) + 1
  BY <1>3, FS_AddElement
<1>5. Cardinality(X) \in Nat
  BY <1>3, FS_CardinalityType
<1>6. Cardinality(Y) = Cardinality(X) + One(e = r)
  <2> HIDE DEF X, Y
  <2>1. CASE e = r
    BY <1>2, <1>4, <2>1 DEF One
  <2>2. CASE e # r
    BY <1>2, <1>5, <2>2 DEF One
  <2>3. QED
    BY <2>1, <2>2
<1>7. QED
  BY <1>1, <1>6 DEF Chunks, p

\* A chunk is popped.
LEMMA ChunksTail ==
  ASSUME NEW q \in Seq(Req), q # <<>>, NEW r \in Req
  PROVE  /\ Tail(q) \in Seq(Req) /\ Len(Tail(q)) = Len(q) - 1
         /\ Head(q) \in Req /\ Head(q) = q[1] /\ Len(q) \in Nat \ {0}
         /\ \A x \in 1 .. Len(q) - 1 : Tail(q)[x] = q[x + 1]
         /\ Chunks(q, r) = Chunks(Tail(q), r) + One(Head(q) = r)
<1> DEFINE p == Tail(q)
           X == {x \in 1 .. Len(q) : q[x] = r}
           Y == {x \in 1 .. Len(p) : p[x] = r}
           f == [x \in Y |-> x + 1]
<1> HIDE DEF Req
<1>1. /\ p \in Seq(Req) /\ Len(p) = Len(q) - 1 /\ Len(q) \in Nat \ {0}
      /\ Head(q) = q[1] /\ Head(q) \in Req
      /\ \A x \in 1 .. Len(q) - 1 : p[x] = q[x + 1]
  OBVIOUS
<1> HIDE DEF p
<1>2. IsFiniteSet(X) /\ IsFiniteSet(Y) /\ Cardinality(Y) \in Nat
  BY <1>1, ChunksFacts, FS_CardinalityType
<1>3. f \in Bijection(Y, X \ {1})
  <2>1. ASSUME NEW x \in Y PROVE f[x] \in X \ {1}
    BY <1>1
  <2>2. \A x, y \in Y : f[x] = f[y] => x = y
    BY <1>1
  <2>3. ASSUME NEW z \in X \ {1} PROVE \E x \in Y : f[x] = z
    <3>1. z - 1 \in Y
      BY <1>1
    <3>2. f[z - 1] = z
      BY <1>1, <3>1
    <3>3. QED
      BY <3>1, <3>2
  <2>4. QED
    BY <2>1, <2>2, <2>3 DEF Bijection, Injection, Surjection, IsInjective
<1>4. Cardinality(X \ {1}) = Cardinality(Y)
  BY <1>2, <1>3, FS_Bijection DEF ExistsBijection
<1>5. Cardinality(X) = Cardinality(Y) + One(Head(q) = r)
  <2>1. 1 \in X <=> Head(q) = r
    BY <1>1
  <2>2. Cardinality(X \ {1}) = IF 1 \in X THEN Cardinality(X) - 1 ELSE Cardinality(X)
    BY <1>2, FS_RemoveElement
  <2>3. Cardinality(X) \in Nat
    BY <1>2, FS_CardinalityType
  <2>4. QED
    BY <1>2, <1>4, <2>1, <2>2, <2>3 DEF One
<1>6. QED
  BY <1>1, <1>5 DEF Chunks, p

-----------------------------------------------------------------------------
(* The parts of the invariant, thread by thread and request by request *)

\* The constants: there are finitely many threads and callers, and NoReq and NoKind are
\* no request and no kind.
LEMMA Basics ==
  /\ K \in Nat \ {0} /\ IsFiniteSet(Thread) /\ IsFiniteSet(Caller)
  /\ NoReq \notin Req /\ NoKind \notin Kinds
<1>1. K \in Nat \ {0}
  BY StripedIOAssumption DEF K
<1>2. IsFiniteSet(Thread)
  <2>1. 0 \in Int /\ K - 1 \in Int
    BY <1>1
  <2>2. QED
    BY <2>1, FS_Interval DEF Thread
<1>3. IsFiniteSet(Caller)
  BY StripedIOAssumption
<1>4. NoReq \notin Req /\ NoKind \notin Kinds
  BY DEF NoReq, Req, NoKind, Kinds
<1>5. QED
  BY <1>1, <1>2, <1>3, <1>4

\* The summands are numbers,
LEMMA Summands ==
  TypeOK =>
    \A r \in Req :
      /\ \A k \in Thread : At(k, r) \in Nat
      /\ Untransferred(r) \in [Thread -> Nat] /\ Unreleased(r) \in [Thread -> Nat]
      /\ Unfinished(r) \in [Thread -> Nat] /\ Unqueued(r) \in [Caller -> Nat]
<1> SUFFICES ASSUME TypeOK, NEW r \in Req
             PROVE  /\ \A k \in Thread : At(k, r) \in Nat
                    /\ Untransferred(r) \in [Thread -> Nat] /\ Unreleased(r) \in [Thread -> Nat]
                    /\ Unfinished(r) \in [Thread -> Nat] /\ Unqueued(r) \in [Caller -> Nat]
  OBVIOUS
<1>1. ASSUME NEW k \in Thread PROVE At(k, r) \in Nat
  <2>1. /\ prioqueue[k] \in Seq(Req) /\ readqueue[k] \in Seq(Req)
        /\ commitqueue[k] \in Seq(Req)
    BY DEF TypeOK
  <2>2. /\ Chunks(prioqueue[k], r) \in Nat /\ Chunks(readqueue[k], r) \in Nat
        /\ Chunks(commitqueue[k], r) \in Nat
    BY <2>1, ChunksFacts
  <2>3. QED
    BY <2>2 DEF At
<1>2. Untransferred(r) \in [Thread -> Nat]
  BY <1>1 DEF Untransferred, One
<1>3. Unreleased(r) \in [Thread -> Nat]
  BY <1>1 DEF Unreleased, One
<1>4. Unfinished(r) \in [Thread -> Nat]
  BY <1>1 DEF Unfinished, One
<1>5. Unqueued(r) \in [Caller -> Nat]
  <2>1. \A c \in Caller : Len(left[c]) \in Nat
    BY DEF TypeOK
  <2>2. QED
    BY <2>1 DEF Unqueued
<1>6. QED
  BY <1>1, <1>2, <1>3, <1>4, <1>5

\* after a step too.
LEMMA SummandsNext ==
  TypeOK' =>
    \A r \in Req :
      /\ \A k \in Thread : At(k, r)' \in Nat
      /\ Untransferred(r)' \in [Thread -> Nat] /\ Unreleased(r)' \in [Thread -> Nat]
      /\ Unfinished(r)' \in [Thread -> Nat] /\ Unqueued(r)' \in [Caller -> Nat]
<1>1. TypeOK' =>
        (\A r \in Req :
          /\ \A k \in Thread : At(k, r) \in Nat
          /\ Untransferred(r) \in [Thread -> Nat] /\ Unreleased(r) \in [Thread -> Nat]
          /\ Unfinished(r) \in [Thread -> Nat] /\ Unqueued(r) \in [Caller -> Nat])'
  BY Summands, PTL
<1>2. QED
  BY <1>1

\* The parts of the sums.
LEMMA Totals ==
  ASSUME TypeOK, NEW r \in Req
  PROVE  /\ Sum(Thread, Untransferred(r)) \in Nat /\ Sum(Thread, Unreleased(r)) \in Nat
         /\ Sum(Thread, Unfinished(r)) \in Nat /\ Sum(Caller, Unqueued(r)) \in Nat
         /\ \A k \in Thread : /\ Sum(Thread, Untransferred(r)) >= Untransferred(r)[k]
                              /\ Sum(Thread, Unreleased(r)) >= Unreleased(r)[k]
                              /\ Sum(Thread, Unfinished(r)) >= Unfinished(r)[k]
         /\ \A c \in Caller : Sum(Caller, Unqueued(r)) >= Unqueued(r)[c]
<1>1. /\ Untransferred(r) \in [Thread -> Nat] /\ Unreleased(r) \in [Thread -> Nat]
      /\ Unfinished(r) \in [Thread -> Nat] /\ Unqueued(r) \in [Caller -> Nat]
  BY Summands
<1>2. IsFiniteSet(Thread) /\ IsFiniteSet(Caller)
  BY Basics
<1>3. Sum(Thread, Untransferred(r)) \in Nat
      /\ \A k \in Thread : Sum(Thread, Untransferred(r)) >= Untransferred(r)[k]
  BY <1>1, <1>2, SumFacts
<1>4. Sum(Thread, Unreleased(r)) \in Nat
      /\ \A k \in Thread : Sum(Thread, Unreleased(r)) >= Unreleased(r)[k]
  BY <1>1, <1>2, SumFacts
<1>5. Sum(Thread, Unfinished(r)) \in Nat
      /\ \A k \in Thread : Sum(Thread, Unfinished(r)) >= Unfinished(r)[k]
  BY <1>1, <1>2, SumFacts
<1>6. Sum(Caller, Unqueued(r)) \in Nat
      /\ \A c \in Caller : Sum(Caller, Unqueued(r)) >= Unqueued(r)[c]
  BY <1>1, <1>2, SumFacts
<1>7. QED
  BY <1>3, <1>4, <1>5, <1>6

\* The same for the sums after a step.
LEMMA TotalsNext ==
  ASSUME TypeOK', NEW r \in Req
  PROVE  /\ Sum(Thread, Untransferred(r)') \in Nat /\ Sum(Thread, Unreleased(r)') \in Nat
         /\ Sum(Thread, Unfinished(r)') \in Nat /\ Sum(Caller, Unqueued(r)') \in Nat
<1>1. /\ Untransferred(r)' \in [Thread -> Nat] /\ Unreleased(r)' \in [Thread -> Nat]
      /\ Unfinished(r)' \in [Thread -> Nat] /\ Unqueued(r)' \in [Caller -> Nat]
  BY SummandsNext
<1>2. IsFiniteSet(Thread) /\ IsFiniteSet(Caller)
  BY Basics
<1>3. Sum(Thread, Untransferred(r)') \in Nat
  BY <1>1, <1>2, SumFacts
<1>4. Sum(Thread, Unreleased(r)') \in Nat
  BY <1>1, <1>2, SumFacts
<1>5. Sum(Thread, Unfinished(r)') \in Nat
  BY <1>1, <1>2, SumFacts
<1>6. Sum(Caller, Unqueued(r)') \in Nat
  BY <1>1, <1>2, SumFacts
<1>7. QED
  BY <1>3, <1>4, <1>5, <1>6

\* A step that touches one thread changes one summand of each sum.
LEMMA ThreadSums ==
  ASSUME TypeOK, TypeOK', NEW k \in Thread, NEW r \in Req,
         \A j \in Thread \ {k} :
           /\ At(j, r)' = At(j, r) /\ tpc'[j] = tpc[j] /\ task'[j] = task[j]
           /\ tpc[j] \in Working => kind'[task[j]] = kind[task[j]]
  PROVE  /\ Sum(Thread, Untransferred(r)') = Sum(Thread, Untransferred(r))
                                              - Untransferred(r)[k] + Untransferred(r)'[k]
         /\ Sum(Thread, Unreleased(r)') = Sum(Thread, Unreleased(r))
                                              - Unreleased(r)[k] + Unreleased(r)'[k]
         /\ Sum(Thread, Unfinished(r)') = Sum(Thread, Unfinished(r))
                                              - Unfinished(r)[k] + Unfinished(r)'[k]
<1>1. /\ Untransferred(r) \in [Thread -> Nat] /\ Unreleased(r) \in [Thread -> Nat]
      /\ Unfinished(r) \in [Thread -> Nat]
  BY Summands
<1>2. /\ Untransferred(r)' \in [Thread -> Nat] /\ Unreleased(r)' \in [Thread -> Nat]
      /\ Unfinished(r)' \in [Thread -> Nat]
  BY SummandsNext
<1>3. IsFiniteSet(Thread)
  BY Basics
<1>4. \A j \in Thread : j # k => Untransferred(r)'[j] = Untransferred(r)[j]
  BY DEF Untransferred
<1>5. \A j \in Thread : j # k => Unreleased(r)'[j] = Unreleased(r)[j]
  BY DEF Unreleased, Holds, Working
<1>6. \A j \in Thread : j # k => Unfinished(r)'[j] = Unfinished(r)[j]
  BY DEF Unfinished
<1>7. Sum(Thread, Untransferred(r)') = Sum(Thread, Untransferred(r))
                                        - Untransferred(r)[k] + Untransferred(r)'[k]
  BY <1>1, <1>2, <1>3, <1>4, SumChange
<1>8. Sum(Thread, Unreleased(r)') = Sum(Thread, Unreleased(r))
                                        - Unreleased(r)[k] + Unreleased(r)'[k]
  BY <1>1, <1>2, <1>3, <1>5, SumChange
<1>9. Sum(Thread, Unfinished(r)') = Sum(Thread, Unfinished(r))
                                        - Unfinished(r)[k] + Unfinished(r)'[k]
  BY <1>1, <1>2, <1>3, <1>6, SumChange
<1>10. QED
  BY <1>7, <1>8, <1>9

\* The same for a step of one caller.
LEMMA CallerSum ==
  ASSUME TypeOK, TypeOK', NEW c \in Caller, NEW r \in Req,
         \A d \in Caller \ {c} : mine'[d] = mine[d] /\ left'[d] = left[d]
  PROVE  Sum(Caller, Unqueued(r)') = Sum(Caller, Unqueued(r)) - Unqueued(r)[c] + Unqueued(r)'[c]
<1>1. Unqueued(r) \in [Caller -> Nat] /\ Unqueued(r)' \in [Caller -> Nat]
  BY Summands, SummandsNext
<1>2. IsFiniteSet(Caller)
  BY Basics
<1>3. \A d \in Caller : d # c => Unqueued(r)'[d] = Unqueued(r)[d]
  BY DEF Unqueued
<1>4. QED
  BY <1>1, <1>2, <1>3, SumChange

\* ... and for steps that touch no thread.
LEMMA ThreadsSame ==
  ASSUME NEW r \in Req, UNCHANGED <<prioqueue, readqueue, commitqueue, tpc, task>>,
         \A j \in Thread : tpc[j] \in Working => kind'[task[j]] = kind[task[j]]
  PROVE  /\ \A j \in Thread : At(j, r)' = At(j, r)
         /\ Untransferred(r)' = Untransferred(r) /\ Unreleased(r)' = Unreleased(r)
         /\ Unfinished(r)' = Unfinished(r)
<1>1. \A j \in Thread : At(j, r)' = At(j, r)
  BY DEF At, Chunks
<1>2. Untransferred(r)' = Untransferred(r)
  BY <1>1 DEF Untransferred
<1>3. Unreleased(r)' = Unreleased(r)
  BY <1>1 DEF Unreleased, Holds, Working
<1>4. Unfinished(r)' = Unfinished(r)
  BY <1>1 DEF Unfinished
<1>5. QED
  BY <1>1, <1>2, <1>3, <1>4

\* The conjuncts of PendingExact, thread by thread.
LEMMA PendingByThread == PendingExact <=> \A k \in Thread : PendingReads(k) /\ PendingWrites(k)
  BY DEF PendingExact, PendingReads, PendingWrites

-----------------------------------------------------------------------------
(* The steps of the I/O threads *)

\* Nothing changes at the threads but k.
Elsewhere(k) ==
  \A j \in Thread \ {k} :
    /\ prioqueue'[j] = prioqueue[j] /\ readqueue'[j] = readqueue[j]
    /\ commitqueue'[j] = commitqueue[j] /\ tpc'[j] = tpc[j] /\ task'[j] = task[j]
    /\ pending_reads'[j] = pending_reads[j] /\ pending_writes'[j] = pending_writes[j]

\* What a step takes from the summands of thread k it takes from, or adds to, what they
\* add up to.
MovedBalance(k) ==
  \A r \in Req : /\ Untransferred(r)'[k] + moved'[r] = Untransferred(r)[k] + moved[r]
                 /\ moved'[r] >= moved[r]

CountBalance(k) ==
  \A r \in Req :
    /\ kind[r] # "write" => Unreleased(r)'[k] + count[r] = Unreleased(r)[k] + count'[r]
    /\ kind[r] = NoKind => count'[r] = 0
    /\ freed'[r] = One(Counted(r) /\ count'[r] = 0)

DoneBalance(k) ==
  \A r \in Req :
    IF HasDone(r) THEN Unfinished(r)'[k] + done[r] = Unfinished(r)[k] + done'[r]
                  ELSE done'[r] = 1

CallersUnchanged == UNCHANGED <<cpc, mine, left, at, due, waited, kind, size>>

\* What is known of a request are numbers,
LEMMA NumbersNat ==
  TypeOK => \A r \in Req : /\ moved[r] \in Nat /\ count[r] \in Nat
                           /\ done[r] \in Nat /\ size[r] \in Nat
<1> SUFFICES ASSUME TypeOK
             PROVE  \A r \in Req : /\ moved[r] \in Nat /\ count[r] \in Nat
                                  /\ done[r] \in Nat /\ size[r] \in Nat
  OBVIOUS
<1>1. /\ moved \in [Req -> Nat] /\ count \in [Req -> Nat] /\ done \in [Req -> {0, 1}]
      /\ size \in [Req -> Nat]
  BY DEF TypeOK
<1>2. QED
  BY <1>1

\* after a step too.
LEMMA NumbersNatNext ==
  TypeOK' => \A r \in Req : /\ moved'[r] \in Nat /\ count'[r] \in Nat
                            /\ done'[r] \in Nat /\ size'[r] \in Nat
<1>1. TypeOK' => (\A r \in Req : /\ moved[r] \in Nat /\ count[r] \in Nat
                                 /\ done[r] \in Nat /\ size[r] \in Nat)'
  BY NumbersNat, PTL
<1>2. QED
  BY <1>1

\* A thread's step that balances keeps the invariant.
LEMMA ThreadStep ==
  ASSUME IOInv, TypeOK', NEW k \in Thread, CallersUnchanged, Elsewhere(k),
         QueueKinds(k)', TaskKind(k)', PendingReads(k)', PendingWrites(k)',
         MovedBalance(k), CountBalance(k), DoneBalance(k)
  PROVE  IOInv'
<1> USE DEF CallersUnchanged
<1>0. /\ TypeOK /\ PendingExact /\ Kinded /\ Calls /\ Unissued /\ MovedExact
      /\ CountExact /\ FreedExact /\ DoneExact /\ Waiting /\ Waited
  BY DEF IOInv
<1>1. \A j \in Thread, r \in Req : j # k => At(j, r)' = At(j, r)
  BY DEF At, Chunks, Elsewhere
<1>2. Kinded'
  <2>1. ASSUME NEW j \in Thread, j # k PROVE QueueKinds(j)' /\ TaskKind(j)'
    BY <1>0, <2>1 DEF Kinded, QueueKinds, TaskKind, HasDone, Elsewhere
  <2>2. QED
    BY <2>1 DEF Kinded
<1>3. PendingExact'
  <2>1. ASSUME NEW j \in Thread, j # k PROVE (PendingReads(j) /\ PendingWrites(j))'
    <3>1. PendingReads(j) /\ PendingWrites(j)
      BY <1>0, PendingByThread
    <3>2. /\ Announced(j, Reads)' = Announced(j, Reads)
          /\ Announced(j, Kinds \ Reads)' = Announced(j, Kinds \ Reads)
      BY DEF Announced
    <3>3. /\ InHand(j, Reads)' = InHand(j, Reads)
          /\ InHand(j, Kinds \ Reads)' = InHand(j, Kinds \ Reads)
      BY <2>1 DEF InHand, Elsewhere
    <3>4. QED
      BY <2>1, <3>1, <3>2, <3>3 DEF PendingReads, PendingWrites, Elsewhere
  <2>2. \A j \in Thread : PendingReads(j)' /\ PendingWrites(j)'
    BY <2>1
  <2>3. QED
    BY <2>2 DEF PendingExact, PendingReads, PendingWrites
<1>4. Calls' /\ Unissued'
  BY <1>0 DEF Calls, Unissued, CountBalance
<1>5. ASSUME NEW r \in Req
      PROVE  /\ Sum(Thread, Untransferred(r)') = Sum(Thread, Untransferred(r))
                                                  - Untransferred(r)[k] + Untransferred(r)'[k]
             /\ Sum(Thread, Unreleased(r)') = Sum(Thread, Unreleased(r))
                                                  - Unreleased(r)[k] + Unreleased(r)'[k]
             /\ Sum(Thread, Unfinished(r)') = Sum(Thread, Unfinished(r))
                                                  - Unfinished(r)[k] + Unfinished(r)'[k]
  <2>1. \A j \in Thread \ {k} :
          /\ At(j, r)' = At(j, r) /\ tpc'[j] = tpc[j] /\ task'[j] = task[j]
          /\ tpc[j] \in Working => kind'[task[j]] = kind[task[j]]
    BY <1>1 DEF Elsewhere
  <2>2. QED
    BY <1>0, <2>1, ThreadSums
<1>6. ASSUME NEW r \in Req PROVE Unqueued(r)' = Unqueued(r)
  BY DEF Unqueued
<1>7. ASSUME NEW r \in Req
      PROVE  /\ Untransferred(r)[k] \in Nat /\ Untransferred(r)'[k] \in Nat
             /\ Unreleased(r)[k] \in Nat /\ Unreleased(r)'[k] \in Nat
             /\ Unfinished(r)[k] \in Nat /\ Unfinished(r)'[k] \in Nat
             /\ Sum(Thread, Untransferred(r)) \in Nat /\ Sum(Thread, Unreleased(r)) \in Nat
             /\ Sum(Thread, Unfinished(r)) \in Nat /\ Sum(Caller, Unqueued(r)) \in Nat
             /\ moved[r] \in Nat /\ moved'[r] \in Nat /\ count[r] \in Nat /\ count'[r] \in Nat
             /\ done[r] \in Nat /\ done'[r] \in Nat /\ size[r] \in Nat
  <2>1. /\ Untransferred(r) \in [Thread -> Nat] /\ Unreleased(r) \in [Thread -> Nat]
        /\ Unfinished(r) \in [Thread -> Nat]
    BY <1>0, Summands
  <2>2. /\ Untransferred(r)' \in [Thread -> Nat] /\ Unreleased(r)' \in [Thread -> Nat]
        /\ Unfinished(r)' \in [Thread -> Nat]
    BY SummandsNext
  <2>3. /\ Sum(Thread, Untransferred(r)) \in Nat /\ Sum(Thread, Unreleased(r)) \in Nat
        /\ Sum(Thread, Unfinished(r)) \in Nat /\ Sum(Caller, Unqueued(r)) \in Nat
    BY <1>0, Totals
  <2>4. /\ moved[r] \in Nat /\ moved'[r] \in Nat /\ count[r] \in Nat /\ count'[r] \in Nat
        /\ done[r] \in Nat /\ done'[r] \in Nat /\ size[r] \in Nat
    BY <1>0, NumbersNat, NumbersNatNext
  <2>5. QED
    BY <2>1, <2>2, <2>3, <2>4
<1>8. MovedExact'
  <2>1. ASSUME NEW r \in Req PROVE moved'[r] + ToTransfer(r)' = size'[r]
    <3>1. moved[r] + ToTransfer(r) = size[r]
      BY <1>0 DEF MovedExact
    <3>2. Untransferred(r)'[k] + moved'[r] = Untransferred(r)[k] + moved[r]
      BY DEF MovedBalance
    <3>3. ToTransfer(r)' = Sum(Thread, Untransferred(r)') + Sum(Caller, Unqueued(r))
      BY <1>6 DEF ToTransfer
    <3>4. ToTransfer(r) = Sum(Thread, Untransferred(r)) + Sum(Caller, Unqueued(r))
      BY DEF ToTransfer
    <3>5. size'[r] = size[r]
      OBVIOUS
    <3>6. Sum(Thread, Untransferred(r)') = Sum(Thread, Untransferred(r))
                                            - Untransferred(r)[k] + Untransferred(r)'[k]
      BY <1>5
    <3>7. /\ Untransferred(r)[k] \in Nat /\ Untransferred(r)'[k] \in Nat
          /\ Sum(Thread, Untransferred(r)) \in Nat /\ Sum(Caller, Unqueued(r)) \in Nat
          /\ moved[r] \in Nat /\ moved'[r] \in Nat /\ size[r] \in Nat
      BY <1>7
    <3> HIDE DEF CallersUnchanged
    <3>8. QED
      BY <3>1, <3>2, <3>3, <3>4, <3>5, <3>6, <3>7
  <2>2. QED
    BY <2>1 DEF MovedExact
<1>9. CountExact'
  <2>1. ASSUME NEW r \in Req, kind[r] # "write" PROVE count'[r] = ToRelease(r)' + One(Owned(r)')
    <3>1. count[r] = ToRelease(r) + One(Owned(r))
      BY <1>0, <2>1 DEF CountExact
    <3>2. Owned(r)' <=> Owned(r)
      BY DEF Owned
    <3>3. One(Owned(r)) \in Nat
      BY DEF One
    <3>4. One(Owned(r)') = One(Owned(r))
      BY <3>2 DEF One
    <3>5. Unreleased(r)'[k] + count[r] = Unreleased(r)[k] + count'[r]
      BY <2>1 DEF CountBalance
    <3>6. QED
      BY <1>5, <1>6, <1>7, <3>1, <3>3, <3>4, <3>5 DEF ToRelease
  <2>2. QED
    BY <2>1 DEF CountExact
<1>10. FreedExact'
  BY DEF FreedExact, Counted, CountBalance
<1>11. DoneExact'
  <2>1. ASSUME NEW r \in Req PROVE done'[r] = IF HasDone(r) THEN ToFinish(r)' ELSE 1
    <3>1. CASE HasDone(r)
      <4>1. done[r] = ToFinish(r)
        BY <1>0, <3>1 DEF DoneExact
      <4>2. Unfinished(r)'[k] + done[r] = Unfinished(r)[k] + done'[r]
        BY <3>1 DEF DoneBalance
      <4>3. done'[r] = ToFinish(r)'
        <5>1. ToFinish(r)' = Sum(Thread, Unfinished(r)') + Sum(Caller, Unqueued(r))
          BY <1>6 DEF ToFinish
        <5>2. ToFinish(r) = Sum(Thread, Unfinished(r)) + Sum(Caller, Unqueued(r))
          BY DEF ToFinish
        <5>3. QED
          BY <1>5, <1>7, <4>1, <4>2, <5>1, <5>2
      <4>4. QED
        BY <3>1, <4>3
    <3>2. CASE ~ HasDone(r)
      BY <3>2 DEF DoneBalance
    <3>3. QED
      BY <3>1, <3>2
  <2>2. QED
    BY <2>1 DEF DoneExact, HasDone
<1>12. Waiting'
  <2>1. ASSUME NEW r \in Req, NEW j \in Thread, Untransferred(r)[j] = 0
        PROVE  Untransferred(r)'[j] = 0
    <3>1. CASE j = k
      <4>1. /\ Untransferred(r)'[k] + moved'[r] = Untransferred(r)[k] + moved[r]
            /\ moved'[r] >= moved[r]
        BY DEF MovedBalance
      <4>2. QED
        BY <1>7, <2>1, <3>1, <4>1
    <3>2. CASE j # k
      BY <1>1, <2>1, <3>2 DEF Untransferred, Elsewhere
    <3>3. QED
      BY <3>1, <3>2
  <2>2. \A c \in Caller : due[c] \subseteq Req
    BY <1>0 DEF TypeOK
  <2>3. QED
    BY <1>0, <2>1, <2>2 DEF Waiting, WaitKinds
<1>13. Waited'
  <2>1. ASSUME NEW r \in waited PROVE kind'[r] # NoKind /\ moved'[r] = size'[r]
    <3>1. r \in Req /\ kind[r] # NoKind /\ moved[r] = size[r]
      BY <1>0 DEF Waited, TypeOK
    <3>2. moved'[r] + ToTransfer(r)' = size'[r]
      BY <1>8, <3>1 DEF MovedExact
    <3>3. ToTransfer(r)' \in Nat
      BY <1>5, <1>6, <1>7, <3>1, TotalsNext DEF ToTransfer
    <3>4. moved'[r] >= moved[r] /\ size'[r] = size[r]
      BY <3>1 DEF MovedBalance
    <3>5. QED
      BY <1>7, <3>1, <3>2, <3>3, <3>4
  <2>2. QED
    BY <2>1 DEF Waited
<1>14. QED
  BY <1>2, <1>3, <1>4, <1>8, <1>9, <1>10, <1>11, <1>12, <1>13 DEF IOInv

\* What is not a step of thread k on a chunk in hand changes its place only.
LEMMA IdleStep ==
  ASSUME IOInv, NEW k \in Thread, NEW pc \in {"loop", "prio", "read", "commit", "exit"},
         tpc[k] \in {"loop", "prio", "read", "commit"}, Goto(k, pc),
         UNCHANGED <<counters, queues, running, task, cvars, rvars>>
  PROVE  IOInv'
<1> USE DEF counters, queues, cvars, rvars
<1>0. /\ TypeOK /\ PendingExact /\ Kinded /\ FreedExact /\ DoneExact /\ Unissued
  BY DEF IOInv
<1>1. tpc \in [Thread -> {"loop", "prio", "read", "commit", "transfer", "uncount",
                         "release", "done", "exit"}]
  BY <1>0 DEF TypeOK
<1>2. TypeOK'
  <2>1. tpc' \in [Thread -> {"loop", "prio", "read", "commit", "transfer", "uncount",
                         "release", "done", "exit"}]
    BY <1>1 DEF Goto
  <2>2. QED
    BY <1>0, <2>1 DEF TypeOK
<1>3. tpc'[k] = pc /\ \A j \in Thread \ {k} : tpc'[j] = tpc[j]
  BY <1>1 DEF Goto
<1>4. CallersUnchanged /\ Elsewhere(k)
  BY <1>3 DEF CallersUnchanged, Elsewhere
<1>5. task[k] = NoReq /\ task'[k] = NoReq
  BY <1>0 DEF Kinded, TaskKind, Working
<1>6. QueueKinds(k)' /\ TaskKind(k)'
  BY <1>0, <1>3, <1>5 DEF Kinded, QueueKinds, TaskKind, Working
<1>7. PendingReads(k)' /\ PendingWrites(k)'
  <2>1. PendingReads(k) /\ PendingWrites(k)
    BY <1>0, PendingByThread
  <2>2. /\ Announced(k, Reads)' = Announced(k, Reads)
        /\ Announced(k, Kinds \ Reads)' = Announced(k, Kinds \ Reads)
    BY DEF Announced
  <2>3. /\ InHand(k, Reads)' = InHand(k, Reads)
        /\ InHand(k, Kinds \ Reads)' = InHand(k, Kinds \ Reads)
    BY <1>5 DEF InHand
  <2>4. QED
    BY <2>1, <2>2, <2>3 DEF PendingReads, PendingWrites
<1>8. ASSUME NEW r \in Req
      PROVE  /\ Untransferred(r)'[k] = Untransferred(r)[k]
             /\ Unreleased(r)'[k] = Unreleased(r)[k]
             /\ Unfinished(r)'[k] = Unfinished(r)[k]
  <2>1. At(k, r)' = At(k, r)
    BY DEF At, Chunks
  <2>2. task[k] # r /\ task'[k] # r
    BY <1>5, Basics
  <2>3. QED
    BY <2>1, <2>2 DEF Untransferred, Unreleased, Unfinished, One
<1>9. ASSUME NEW r \in Req
      PROVE  /\ moved'[r] = moved[r] /\ moved[r] \in Nat
             /\ count'[r] = count[r] /\ done'[r] = done[r]
  BY <1>0, NumbersNat
<1>10. MovedBalance(k)
  BY <1>8, <1>9 DEF MovedBalance
<1>11. CountBalance(k)
  BY <1>0, <1>8, <1>9 DEF CountBalance, Unissued, FreedExact
<1>12. DoneBalance(k)
  BY <1>0, <1>8, <1>9 DEF DoneBalance, DoneExact
<1>13. QED
  BY <1>2, <1>4, <1>6, <1>7, <1>10, <1>11, <1>12, ThreadStep

\* A thread takes chunk e from a queue.
LEMMA PopStep ==
  ASSUME IOInv, TypeOK', NEW k \in Thread, NEW e \in Req,
         tpc[k] \in {"prio", "read", "commit"}, kind[e] # NoKind,
         task' = [task EXCEPT ![k] = e], Goto(k, "transfer"),
         UNCHANGED <<counters, running, cvars, rvars>>,
         \A j \in Thread \ {k} : /\ prioqueue'[j] = prioqueue[j] /\ readqueue'[j] = readqueue[j]
                                 /\ commitqueue'[j] = commitqueue[j],
         \A r \in Req : At(k, r) = At(k, r)' + One(e = r),
         QueueKinds(k)', PendingReads(k)', PendingWrites(k)'
  PROVE  IOInv'
<1> USE DEF counters, cvars, rvars
<1>0. /\ TypeOK /\ Kinded /\ FreedExact /\ DoneExact /\ Unissued /\ MovedExact
  BY DEF IOInv
<1>1. /\ tpc'[k] = "transfer" /\ task'[k] = e
      /\ \A j \in Thread \ {k} : tpc'[j] = tpc[j] /\ task'[j] = task[j]
  BY <1>0 DEF Goto, TypeOK
<1>2. CallersUnchanged /\ Elsewhere(k)
  BY <1>1 DEF CallersUnchanged, Elsewhere
<1>3. task[k] = NoReq
  BY <1>0 DEF Kinded, TaskKind, Working
<1>4. ASSUME NEW r \in Req
      PROVE  /\ Untransferred(r)'[k] = Untransferred(r)[k]
             /\ Unreleased(r)'[k] = Unreleased(r)[k]
             /\ Unfinished(r)'[k] = Unfinished(r)[k]
             /\ Untransferred(r)[k] = At(k, r)
  <2>1. At(k, r) \in Nat /\ At(k, r) = At(k, r)' + One(e = r)
    BY <1>0, Summands
  <2>2. task[k] # r
    BY <1>3, Basics
  <2>3. /\ Untransferred(r)[k] = At(k, r) /\ Unreleased(r)[k] = At(k, r)
        /\ Unfinished(r)[k] = At(k, r)
    BY <2>1, <2>2 DEF Untransferred, Unreleased, Unfinished, One
  <2>4. /\ Untransferred(r)'[k] = At(k, r)' + One(e = r)
        /\ Unreleased(r)'[k] = At(k, r)' + One(e = r)
        /\ Unfinished(r)'[k] = At(k, r)' + One(e = r)
    BY <1>1 DEF Untransferred, Unreleased, Unfinished, Holds, Working, One
  <2>5. QED
    BY <2>1, <2>3, <2>4
<1>5. TaskKind(k)'
  <2>1. At(k, e)' \in Nat /\ At(k, e) = At(k, e)' + 1
    BY SummandsNext DEF One
  <2>2. /\ Sum(Thread, Untransferred(e)) >= At(k, e)
        /\ Sum(Thread, Untransferred(e)) \in Nat /\ Sum(Caller, Unqueued(e)) \in Nat
    BY <1>0, <1>4, Totals
  <2>3. moved[e] + (Sum(Thread, Untransferred(e)) + Sum(Caller, Unqueued(e))) = size[e]
    BY <1>0 DEF MovedExact, ToTransfer
  <2>4. moved[e] \in Nat /\ size[e] \in Nat
    BY <1>0, NumbersNat
  <2>5. size[e] > 0
    BY <2>1, <2>2, <2>3, <2>4
  <2>6. QED
    BY <1>1, <2>5 DEF TaskKind, Working
<1>6. ASSUME NEW r \in Req
      PROVE  /\ moved'[r] = moved[r] /\ moved[r] \in Nat
             /\ count'[r] = count[r] /\ done'[r] = done[r]
  BY <1>0, NumbersNat
<1>7. MovedBalance(k)
  BY <1>4, <1>6 DEF MovedBalance
<1>8. CountBalance(k)
  BY <1>0, <1>4, <1>6 DEF CountBalance, Unissued, FreedExact
<1>9. DoneBalance(k)
  BY <1>0, <1>4, <1>6 DEF DoneBalance, DoneExact
<1>10. QED
  BY <1>2, <1>5, <1>7, <1>8, <1>9, ThreadStep


\* How many callers have announced a chunk is a number.
LEMMA AnnouncedFinite ==
  ASSUME NEW k, NEW knds
  PROVE  IsFiniteSet(Announced(k, knds)) /\ Cardinality(Announced(k, knds)) \in Nat
<1>1. Announced(k, knds) \in SUBSET Caller
  BY DEF Announced
<1>2. IsFiniteSet(Announced(k, knds))
  BY <1>1, Basics, FS_Subset
<1>3. QED
  BY <1>2, FS_CardinalityType

\* while(info->running): where the thread looks first.
LEMMA LookStep ==
  ASSUME IOInv, NEW k \in Thread, Look(k)
  PROVE  IOInv'
<1>1. PICK pc \in {"loop", "prio", "read", "commit", "exit"} : Goto(k, pc)
  BY DEF Look
<1>2. QED
  BY <1>1, IdleStep DEF Look

\* safepop of the queue of preada_now.
LEMMA PopPrioStep ==
  ASSUME IOInv, NEW k \in Thread, PopPrio(k)
  PROVE  IOInv'
<1>1. CASE prioqueue[k] = <<>>
  <2>1. /\ tpc[k] = "prio" /\ Goto(k, "read")
        /\ UNCHANGED <<counters, queues, running, task, cvars, rvars>>
    BY <1>1 DEF PopPrio, Pop, queues
  <2>2. QED
    BY <2>1, IdleStep
<1>2. CASE prioqueue[k] # <<>>
  <2> DEFINE e == Head(prioqueue[k])
  <2>0. TypeOK /\ PendingExact /\ Kinded
    BY DEF IOInv
  <2>1. /\ tpc[k] = "prio" /\ Goto(k, "transfer")
        /\ task' = [task EXCEPT ![k] = e]
        /\ prioqueue' = [prioqueue EXCEPT ![k] = Tail(@)]
        /\ UNCHANGED <<counters, running, cvars, rvars, readqueue, commitqueue>>
    BY <1>2 DEF PopPrio, Pop
  <2>2. /\ prioqueue \in [Thread -> Seq(Req)] /\ prioqueue[k] \in Seq(Req)
        /\ tpc \in [Thread -> {"loop", "prio", "read", "commit", "transfer", "uncount",
                               "release", "done", "exit"}]
        /\ task \in [Thread -> Req \cup {NoReq}]
    BY <2>0 DEF TypeOK
  <2>3. /\ Tail(prioqueue[k]) \in Seq(Req) /\ Len(Tail(prioqueue[k])) = Len(prioqueue[k]) - 1
        /\ e \in Req /\ e = prioqueue[k][1] /\ Len(prioqueue[k]) \in Nat \ {0}
        /\ \A x \in 1 .. Len(prioqueue[k]) - 1 : Tail(prioqueue[k])[x] = prioqueue[k][x + 1]
        /\ \A r \in Req : Chunks(prioqueue[k], r) = Chunks(Tail(prioqueue[k]), r) + One(e = r)
    BY <1>2, <2>2, ChunksTail
  <2> HIDE DEF e
  <2>4. /\ prioqueue'[k] = Tail(prioqueue[k])
        /\ \A j \in Thread \ {k} : prioqueue'[j] = prioqueue[j]
        /\ tpc'[k] = "transfer" /\ task'[k] = e
    BY <2>1, <2>2 DEF Goto
  <2>5. TypeOK'
    <3>1. prioqueue' \in [Thread -> Seq(Req)]
      BY <2>1, <2>2, <2>3
    <3>2. task' \in [Thread -> Req \cup {NoReq}]
      BY <2>1, <2>2, <2>3
    <3>3. tpc' \in [Thread -> {"loop", "prio", "read", "commit", "transfer", "uncount",
                               "release", "done", "exit"}]
      BY <2>1, <2>2 DEF Goto
    <3>4. QED
      BY <2>0, <2>1, <3>1, <3>2, <3>3 DEF TypeOK, counters, cvars, rvars
  <2>6. \A x \in 1 .. Len(prioqueue[k]) : kind[prioqueue[k][x]] = "now"
    BY <2>0 DEF Kinded, QueueKinds
  <2>7. kind[e] = "now"
    BY <2>3, <2>6
  <2>8. QueueKinds(k)'
    <3>1. ASSUME NEW x \in 1 .. Len(prioqueue'[k])
          PROVE  kind[prioqueue'[k][x]] = "now"
      <4>1. x \in 1 .. Len(prioqueue[k]) - 1 /\ x + 1 \in 1 .. Len(prioqueue[k])
        BY <2>3, <2>4
      <4>2. prioqueue'[k][x] = prioqueue[k][x + 1]
        BY <2>3, <2>4, <4>1
      <4>3. QED
        BY <2>6, <4>1, <4>2
    <3>2. QED
      BY <2>0, <2>1, <3>1 DEF Kinded, QueueKinds, rvars
  <2>9. PendingReads(k)' /\ PendingWrites(k)'
    <3>1. PendingReads(k) /\ PendingWrites(k)
      BY <2>0, PendingByThread
    <3>2. /\ Announced(k, Reads)' = Announced(k, Reads)
          /\ Announced(k, Kinds \ Reads)' = Announced(k, Kinds \ Reads)
      BY <2>1 DEF Announced, cvars, rvars
    <3>3. task[k] = NoReq
      BY <2>0, <2>1 DEF Kinded, TaskKind, Working
    <3>4. InHand(k, Reads) = 0 /\ InHand(k, Kinds \ Reads) = 0
      BY <3>3 DEF InHand
    <3>5. kind' = kind /\ e # NoReq
      BY <2>1, <2>3, Basics DEF rvars
    <3>6. /\ InHand(k, Reads)' = 1
          /\ InHand(k, Kinds \ Reads)' = 0
      BY <2>4, <2>7, <3>5 DEF InHand, Reads, Kinds
    <3>7. /\ Len(prioqueue[k]) \in Nat /\ Len(readqueue[k]) \in Nat
          /\ Len(commitqueue[k]) \in Nat
      BY <2>0 DEF TypeOK
    <3>8. /\ pending_reads' = pending_reads /\ pending_writes' = pending_writes
          /\ readqueue' = readqueue /\ commitqueue' = commitqueue
      BY <2>1 DEF counters
    <3>9. /\ Len(prioqueue'[k]) = Len(prioqueue[k]) - 1
          /\ Cardinality(Announced(k, Reads)) \in Nat
          /\ Cardinality(Announced(k, Kinds \ Reads)) \in Nat
      BY <2>3, <2>4, AnnouncedFinite
    <3>10. PendingReads(k)'
      <4>1. pending_reads[k] = Len(prioqueue[k]) + Len(readqueue[k]) + 0
                                 + Cardinality(Announced(k, Reads))
        BY <3>1, <3>4 DEF PendingReads
      <4>2. pending_reads'[k] = Len(prioqueue'[k]) + Len(readqueue'[k])
                                  + 1 + Cardinality(Announced(k, Reads))
        <5>1. /\ Len(readqueue'[k]) = Len(readqueue[k])
              /\ Len(commitqueue'[k]) = Len(commitqueue[k])
              /\ pending_reads'[k] = pending_reads[k]
          BY <3>8
        <5>2. QED
          BY <3>7, <3>9, <4>1, <5>1
      <4>3. QED
        BY <3>2, <3>6, <4>2 DEF PendingReads
    <3>11. PendingWrites(k)'
      BY <3>1, <3>2, <3>4, <3>6, <3>7, <3>8, <3>9 DEF PendingWrites
    <3>12. QED
      BY <3>10, <3>11
  <2>10. \A r \in Req : At(k, r) = At(k, r)' + One(e = r)
    <3>1. \A r \in Req : /\ Chunks(prioqueue[k], r) = Chunks(prioqueue'[k], r) + One(e = r)
                          /\ Chunks(prioqueue'[k], r) \in Nat /\ One(e = r) \in Nat
      BY <2>3, <2>4, ChunksFacts DEF One
    <3>2. /\ readqueue' = readqueue /\ commitqueue' = commitqueue
          /\ readqueue[k] \in Seq(Req) /\ commitqueue[k] \in Seq(Req)
      BY <2>0, <2>1 DEF TypeOK
    <3>3. \A r \in Req : Chunks(readqueue[k], r) \in Nat /\ Chunks(commitqueue[k], r) \in Nat
      BY <3>2, ChunksFacts
    <3>4. ASSUME NEW r \in Req
          PROVE  At(k, r)' = Chunks(prioqueue'[k], r) + Chunks(readqueue'[k], r)
                              + Chunks(commitqueue'[k], r)
      BY DEF At, Chunks
    <3>5. QED
      BY <3>1, <3>2, <3>3, <3>4 DEF At
  <2>11. /\ kind[e] # NoKind
         /\ \A j \in Thread \ {k} :
              /\ prioqueue'[j] = prioqueue[j] /\ readqueue'[j] = readqueue[j]
              /\ commitqueue'[j] = commitqueue[j]
    BY <2>1, <2>4, <2>7 DEF NoKind
  <2>12. UNCHANGED <<counters, running, cvars, rvars>> /\ tpc[k] \in {"prio", "read", "commit"}
    BY <2>1
  <2>13. QED
    BY <2>1, <2>3, <2>5, <2>8, <2>9, <2>10, <2>11, <2>12, PopStep
<1>3. QED
  BY <1>1, <1>2

\* safepop of the queue of preada_async.
LEMMA PopReadStep ==
  ASSUME IOInv, NEW k \in Thread, PopRead(k)
  PROVE  IOInv'
<1>1. CASE readqueue[k] = <<>>
  <2>1. /\ tpc[k] = "read" /\ Goto(k, "loop")
        /\ UNCHANGED <<counters, queues, running, task, cvars, rvars>>
    BY <1>1 DEF PopRead, Pop, queues
  <2>2. QED
    BY <2>1, IdleStep
<1>2. CASE readqueue[k] # <<>>
  <2> DEFINE e == Head(readqueue[k])
  <2>0. TypeOK /\ PendingExact /\ Kinded
    BY DEF IOInv
  <2>1. /\ tpc[k] = "read" /\ Goto(k, "transfer")
        /\ task' = [task EXCEPT ![k] = e]
        /\ readqueue' = [readqueue EXCEPT ![k] = Tail(@)]
        /\ UNCHANGED <<counters, running, cvars, rvars, prioqueue, commitqueue>>
    BY <1>2 DEF PopRead, Pop
  <2>2. /\ readqueue \in [Thread -> Seq(Req)] /\ readqueue[k] \in Seq(Req)
        /\ tpc \in [Thread -> {"loop", "prio", "read", "commit", "transfer", "uncount",
                               "release", "done", "exit"}]
        /\ task \in [Thread -> Req \cup {NoReq}]
    BY <2>0 DEF TypeOK
  <2>3. /\ Tail(readqueue[k]) \in Seq(Req) /\ Len(Tail(readqueue[k])) = Len(readqueue[k]) - 1
        /\ e \in Req /\ e = readqueue[k][1] /\ Len(readqueue[k]) \in Nat \ {0}
        /\ \A x \in 1 .. Len(readqueue[k]) - 1 : Tail(readqueue[k])[x] = readqueue[k][x + 1]
        /\ \A r \in Req : Chunks(readqueue[k], r) = Chunks(Tail(readqueue[k]), r) + One(e = r)
    BY <1>2, <2>2, ChunksTail
  <2> HIDE DEF e
  <2>4. /\ readqueue'[k] = Tail(readqueue[k])
        /\ \A j \in Thread \ {k} : readqueue'[j] = readqueue[j]
        /\ tpc'[k] = "transfer" /\ task'[k] = e
    BY <2>1, <2>2 DEF Goto
  <2>5. TypeOK'
    <3>1. readqueue' \in [Thread -> Seq(Req)]
      BY <2>1, <2>2, <2>3
    <3>2. task' \in [Thread -> Req \cup {NoReq}]
      BY <2>1, <2>2, <2>3
    <3>3. tpc' \in [Thread -> {"loop", "prio", "read", "commit", "transfer", "uncount",
                               "release", "done", "exit"}]
      BY <2>1, <2>2 DEF Goto
    <3>4. QED
      BY <2>0, <2>1, <3>1, <3>2, <3>3 DEF TypeOK, counters, cvars, rvars
  <2>6. \A x \in 1 .. Len(readqueue[k]) : kind[readqueue[k][x]] = "read"
    BY <2>0 DEF Kinded, QueueKinds
  <2>7. kind[e] = "read"
    BY <2>3, <2>6
  <2>8. QueueKinds(k)'
    <3>1. ASSUME NEW x \in 1 .. Len(readqueue'[k])
          PROVE  kind[readqueue'[k][x]] = "read"
      <4>1. x \in 1 .. Len(readqueue[k]) - 1 /\ x + 1 \in 1 .. Len(readqueue[k])
        BY <2>3, <2>4
      <4>2. readqueue'[k][x] = readqueue[k][x + 1]
        BY <2>3, <2>4, <4>1
      <4>3. QED
        BY <2>6, <4>1, <4>2
    <3>2. QED
      BY <2>0, <2>1, <3>1 DEF Kinded, QueueKinds, rvars
  <2>9. PendingReads(k)' /\ PendingWrites(k)'
    <3>1. PendingReads(k) /\ PendingWrites(k)
      BY <2>0, PendingByThread
    <3>2. /\ Announced(k, Reads)' = Announced(k, Reads)
          /\ Announced(k, Kinds \ Reads)' = Announced(k, Kinds \ Reads)
      BY <2>1 DEF Announced, cvars, rvars
    <3>3. task[k] = NoReq
      BY <2>0, <2>1 DEF Kinded, TaskKind, Working
    <3>4. InHand(k, Reads) = 0 /\ InHand(k, Kinds \ Reads) = 0
      BY <3>3 DEF InHand
    <3>5. kind' = kind /\ e # NoReq
      BY <2>1, <2>3, Basics DEF rvars
    <3>6. /\ InHand(k, Reads)' = 1
          /\ InHand(k, Kinds \ Reads)' = 0
      BY <2>4, <2>7, <3>5 DEF InHand, Reads, Kinds
    <3>7. /\ Len(prioqueue[k]) \in Nat /\ Len(readqueue[k]) \in Nat
          /\ Len(commitqueue[k]) \in Nat
      BY <2>0 DEF TypeOK
    <3>8. /\ pending_reads' = pending_reads /\ pending_writes' = pending_writes
          /\ prioqueue' = prioqueue /\ commitqueue' = commitqueue
      BY <2>1 DEF counters
    <3>9. /\ Len(readqueue'[k]) = Len(readqueue[k]) - 1
          /\ Cardinality(Announced(k, Reads)) \in Nat
          /\ Cardinality(Announced(k, Kinds \ Reads)) \in Nat
      BY <2>3, <2>4, AnnouncedFinite
    <3>10. PendingReads(k)'
      <4>1. pending_reads[k] = Len(prioqueue[k]) + Len(readqueue[k]) + 0
                                 + Cardinality(Announced(k, Reads))
        BY <3>1, <3>4 DEF PendingReads
      <4>2. pending_reads'[k] = Len(prioqueue'[k]) + Len(readqueue'[k])
                                  + 1 + Cardinality(Announced(k, Reads))
        <5>1. /\ Len(prioqueue'[k]) = Len(prioqueue[k])
              /\ Len(commitqueue'[k]) = Len(commitqueue[k])
              /\ pending_reads'[k] = pending_reads[k]
          BY <3>8
        <5>2. QED
          BY <3>7, <3>9, <4>1, <5>1
      <4>3. QED
        BY <3>2, <3>6, <4>2 DEF PendingReads
    <3>11. PendingWrites(k)'
      BY <3>1, <3>2, <3>4, <3>6, <3>7, <3>8, <3>9 DEF PendingWrites
    <3>12. QED
      BY <3>10, <3>11
  <2>10. \A r \in Req : At(k, r) = At(k, r)' + One(e = r)
    <3>1. \A r \in Req : /\ Chunks(readqueue[k], r) = Chunks(readqueue'[k], r) + One(e = r)
                          /\ Chunks(readqueue'[k], r) \in Nat /\ One(e = r) \in Nat
      BY <2>3, <2>4, ChunksFacts DEF One
    <3>2. /\ prioqueue' = prioqueue /\ commitqueue' = commitqueue
          /\ prioqueue[k] \in Seq(Req) /\ commitqueue[k] \in Seq(Req)
      BY <2>0, <2>1 DEF TypeOK
    <3>3. \A r \in Req : Chunks(prioqueue[k], r) \in Nat /\ Chunks(commitqueue[k], r) \in Nat
      BY <3>2, ChunksFacts
    <3>4. ASSUME NEW r \in Req
          PROVE  At(k, r)' = Chunks(prioqueue'[k], r) + Chunks(readqueue'[k], r)
                              + Chunks(commitqueue'[k], r)
      BY DEF At, Chunks
    <3>5. QED
      BY <3>1, <3>2, <3>3, <3>4 DEF At
  <2>11. /\ kind[e] # NoKind
         /\ \A j \in Thread \ {k} :
              /\ prioqueue'[j] = prioqueue[j] /\ readqueue'[j] = readqueue[j]
              /\ commitqueue'[j] = commitqueue[j]
    BY <2>1, <2>4, <2>7 DEF NoKind
  <2>12. UNCHANGED <<counters, running, cvars, rvars>> /\ tpc[k] \in {"prio", "read", "commit"}
    BY <2>1
  <2>13. QED
    BY <2>1, <2>3, <2>5, <2>8, <2>9, <2>10, <2>11, <2>12, PopStep
<1>3. QED
  BY <1>1, <1>2

\* safepop of the queue of the writes.
LEMMA PopCommitStep ==
  ASSUME IOInv, NEW k \in Thread, PopCommit(k)
  PROVE  IOInv'
<1>1. CASE commitqueue[k] = <<>>
  <2>1. /\ tpc[k] = "commit" /\ Goto(k, "loop")
        /\ UNCHANGED <<counters, queues, running, task, cvars, rvars>>
    BY <1>1 DEF PopCommit, Pop, queues
  <2>2. QED
    BY <2>1, IdleStep
<1>2. CASE commitqueue[k] # <<>>
  <2> DEFINE e == Head(commitqueue[k])
  <2>0. TypeOK /\ PendingExact /\ Kinded
    BY DEF IOInv
  <2>1. /\ tpc[k] = "commit" /\ Goto(k, "transfer")
        /\ task' = [task EXCEPT ![k] = e]
        /\ commitqueue' = [commitqueue EXCEPT ![k] = Tail(@)]
        /\ UNCHANGED <<counters, running, cvars, rvars, prioqueue, readqueue>>
    BY <1>2 DEF PopCommit, Pop
  <2>2. /\ commitqueue \in [Thread -> Seq(Req)] /\ commitqueue[k] \in Seq(Req)
        /\ tpc \in [Thread -> {"loop", "prio", "read", "commit", "transfer", "uncount",
                               "release", "done", "exit"}]
        /\ task \in [Thread -> Req \cup {NoReq}]
    BY <2>0 DEF TypeOK
  <2>3. /\ Tail(commitqueue[k]) \in Seq(Req) /\ Len(Tail(commitqueue[k])) = Len(commitqueue[k]) - 1
        /\ e \in Req /\ e = commitqueue[k][1] /\ Len(commitqueue[k]) \in Nat \ {0}
        /\ \A x \in 1 .. Len(commitqueue[k]) - 1 : Tail(commitqueue[k])[x] = commitqueue[k][x + 1]
        /\ \A r \in Req : Chunks(commitqueue[k], r) = Chunks(Tail(commitqueue[k]), r) + One(e = r)
    BY <1>2, <2>2, ChunksTail
  <2> HIDE DEF e
  <2>4. /\ commitqueue'[k] = Tail(commitqueue[k])
        /\ \A j \in Thread \ {k} : commitqueue'[j] = commitqueue[j]
        /\ tpc'[k] = "transfer" /\ task'[k] = e
    BY <2>1, <2>2 DEF Goto
  <2>5. TypeOK'
    <3>1. commitqueue' \in [Thread -> Seq(Req)]
      BY <2>1, <2>2, <2>3
    <3>2. task' \in [Thread -> Req \cup {NoReq}]
      BY <2>1, <2>2, <2>3
    <3>3. tpc' \in [Thread -> {"loop", "prio", "read", "commit", "transfer", "uncount",
                               "release", "done", "exit"}]
      BY <2>1, <2>2 DEF Goto
    <3>4. QED
      BY <2>0, <2>1, <3>1, <3>2, <3>3 DEF TypeOK, counters, cvars, rvars
  <2>6. \A x \in 1 .. Len(commitqueue[k]) : kind[commitqueue[k][x]] \in {"write", "writefree"}
    BY <2>0 DEF Kinded, QueueKinds
  <2>7. kind[e] \in {"write", "writefree"}
    BY <2>3, <2>6
  <2>8. QueueKinds(k)'
    <3>1. ASSUME NEW x \in 1 .. Len(commitqueue'[k])
          PROVE  kind[commitqueue'[k][x]] \in {"write", "writefree"}
      <4>1. x \in 1 .. Len(commitqueue[k]) - 1 /\ x + 1 \in 1 .. Len(commitqueue[k])
        BY <2>3, <2>4
      <4>2. commitqueue'[k][x] = commitqueue[k][x + 1]
        BY <2>3, <2>4, <4>1
      <4>3. QED
        BY <2>6, <4>1, <4>2
    <3>2. QED
      BY <2>0, <2>1, <3>1 DEF Kinded, QueueKinds, rvars
  <2>9. PendingReads(k)' /\ PendingWrites(k)'
    <3>1. PendingReads(k) /\ PendingWrites(k)
      BY <2>0, PendingByThread
    <3>2. /\ Announced(k, Reads)' = Announced(k, Reads)
          /\ Announced(k, Kinds \ Reads)' = Announced(k, Kinds \ Reads)
      BY <2>1 DEF Announced, cvars, rvars
    <3>3. task[k] = NoReq
      BY <2>0, <2>1 DEF Kinded, TaskKind, Working
    <3>4. InHand(k, Reads) = 0 /\ InHand(k, Kinds \ Reads) = 0
      BY <3>3 DEF InHand
    <3>5. kind' = kind /\ e # NoReq
      BY <2>1, <2>3, Basics DEF rvars
    <3>6. /\ InHand(k, Reads)' = 0
          /\ InHand(k, Kinds \ Reads)' = 1
      BY <2>4, <2>7, <3>5 DEF InHand, Reads, Kinds
    <3>7. /\ Len(prioqueue[k]) \in Nat /\ Len(readqueue[k]) \in Nat
          /\ Len(commitqueue[k]) \in Nat
      BY <2>0 DEF TypeOK
    <3>8. /\ pending_reads' = pending_reads /\ pending_writes' = pending_writes
          /\ prioqueue' = prioqueue /\ readqueue' = readqueue
      BY <2>1 DEF counters
    <3>9. /\ Len(commitqueue'[k]) = Len(commitqueue[k]) - 1
          /\ Cardinality(Announced(k, Reads)) \in Nat
          /\ Cardinality(Announced(k, Kinds \ Reads)) \in Nat
      BY <2>3, <2>4, AnnouncedFinite
    <3>10. PendingReads(k)'
      <4>1. pending_reads[k] = Len(prioqueue[k]) + Len(readqueue[k]) + 0
                                 + Cardinality(Announced(k, Reads))
        BY <3>1, <3>4 DEF PendingReads
      <4>2. pending_reads'[k] = Len(prioqueue'[k]) + Len(readqueue'[k])
                                  + 0 + Cardinality(Announced(k, Reads))
        <5>1. /\ Len(prioqueue'[k]) = Len(prioqueue[k]) /\ Len(readqueue'[k]) = Len(readqueue[k])
              /\ pending_reads'[k] = pending_reads[k]
          BY <3>8
        <5>2. QED
          BY <3>7, <3>9, <4>1, <5>1
      <4>3. QED
        BY <3>2, <3>6, <4>2 DEF PendingReads
    <3>11. PendingWrites(k)'
      BY <3>1, <3>2, <3>4, <3>6, <3>7, <3>8, <3>9 DEF PendingWrites
    <3>12. QED
      BY <3>10, <3>11
  <2>10. \A r \in Req : At(k, r) = At(k, r)' + One(e = r)
    <3>1. \A r \in Req : /\ Chunks(commitqueue[k], r) = Chunks(commitqueue'[k], r) + One(e = r)
                          /\ Chunks(commitqueue'[k], r) \in Nat /\ One(e = r) \in Nat
      BY <2>3, <2>4, ChunksFacts DEF One
    <3>2. /\ prioqueue' = prioqueue /\ readqueue' = readqueue
          /\ prioqueue[k] \in Seq(Req) /\ readqueue[k] \in Seq(Req)
      BY <2>0, <2>1 DEF TypeOK
    <3>3. \A r \in Req : Chunks(prioqueue[k], r) \in Nat /\ Chunks(readqueue[k], r) \in Nat
      BY <3>2, ChunksFacts
    <3>4. ASSUME NEW r \in Req
          PROVE  At(k, r)' = Chunks(prioqueue'[k], r) + Chunks(readqueue'[k], r)
                              + Chunks(commitqueue'[k], r)
      BY DEF At, Chunks
    <3>5. QED
      BY <3>1, <3>2, <3>3, <3>4 DEF At
  <2>11. /\ kind[e] # NoKind
         /\ \A j \in Thread \ {k} :
              /\ prioqueue'[j] = prioqueue[j] /\ readqueue'[j] = readqueue[j]
              /\ commitqueue'[j] = commitqueue[j]
    BY <2>1, <2>4, <2>7 DEF NoKind
  <2>12. UNCHANGED <<counters, running, cvars, rvars>> /\ tpc[k] \in {"prio", "read", "commit"}
    BY <2>1
  <2>13. QED
    BY <2>1, <2>3, <2>5, <2>8, <2>9, <2>10, <2>11, <2>12, PopStep
<1>3. QED
  BY <1>1, <1>2


\* Whether a thread at pc has still to release its chunk of r.
HoldsAt(pc, r) ==
  \/ pc \in {"transfer", "release"}
  \/ pc = "uncount" /\ kind[r] \in Reads

\* A thread with a chunk in hand goes on to pc.
OnHand(k, pc) ==
  /\ tpc[k] \in Working /\ GoOn(k, pc)
  /\ UNCHANGED <<queues, running, cvars, kind, size>>

\* The chunk in hand is of an issued request.
LEMMA HandFacts ==
  ASSUME IOInv, NEW k \in Thread, NEW pc \in Working \cup {"loop"}, OnHand(k, pc)
  PROVE  /\ task[k] \in Req /\ kind[task[k]] \in Kinds /\ size[task[k]] \in Nat \ {0}
         /\ task[k] # NoReq
         /\ tpc' = [tpc EXCEPT ![k] = pc] /\ tpc'[k] = pc
         /\ task'[k] = IF pc = "loop" THEN NoReq ELSE task[k]
         /\ tpc' \in [Thread -> {"loop", "prio", "read", "commit", "transfer", "uncount",
                                 "release", "done", "exit"}]
         /\ task' \in [Thread -> Req \cup {NoReq}]
         /\ \A j \in Thread \ {k} : tpc'[j] = tpc[j] /\ task'[j] = task[j]
<1>1. TypeOK /\ Kinded
  BY DEF IOInv
<1>2. /\ tpc \in [Thread -> {"loop", "prio", "read", "commit", "transfer", "uncount",
                            "release", "done", "exit"}]
      /\ task \in [Thread -> Req \cup {NoReq}]
      /\ kind \in [Req -> Kinds \cup {NoKind}] /\ size \in [Req -> Nat]
  BY <1>1 DEF TypeOK
<1>3. task[k] \in Req /\ kind[task[k]] # NoKind /\ size[task[k]] > 0
  BY <1>1 DEF Kinded, TaskKind, OnHand
<1>4. kind[task[k]] \in Kinds /\ size[task[k]] \in Nat \ {0} /\ task[k] # NoReq
  BY <1>2, <1>3, Basics
<1>5. /\ tpc' = [tpc EXCEPT ![k] = pc]
      /\ task' = [task EXCEPT ![k] = IF pc = "loop" THEN NoReq ELSE task[k]]
  BY <1>2 DEF OnHand, GoOn, Goto
<1>6. tpc' \in [Thread -> {"loop", "prio", "read", "commit", "transfer", "uncount",
                            "release", "done", "exit"}]
  BY <1>2, <1>5 DEF Working
<1>7. task' \in [Thread -> Req \cup {NoReq}]
  BY <1>2, <1>3, <1>5
<1>8. QED
  BY <1>2, <1>3, <1>4, <1>5, <1>6, <1>7

\* The summands of that thread.
LEMMA HandSummands ==
  ASSUME IOInv, NEW k \in Thread, NEW pc \in Working \cup {"loop"}, OnHand(k, pc), NEW r \in Req
  PROVE  /\ At(k, r) \in Nat
         /\ Untransferred(r)[k] = At(k, r) + One(task[k] = r /\ tpc[k] = "transfer")
         /\ Untransferred(r)'[k] = At(k, r) + One(task[k] = r /\ pc = "transfer")
         /\ Unreleased(r)[k] = At(k, r) + One(task[k] = r /\ HoldsAt(tpc[k], r))
         /\ Unreleased(r)'[k] = At(k, r) + One(task[k] = r /\ HoldsAt(pc, r))
         /\ Unfinished(r)[k] = At(k, r) + One(task[k] = r)
         /\ Unfinished(r)'[k] = At(k, r) + One(task[k] = r /\ pc # "loop")
<1>1. /\ tpc'[k] = pc /\ tpc[k] \in Working /\ NoReq \notin Req /\ "loop" \notin Working
      /\ task'[k] = IF pc = "loop" THEN NoReq ELSE task[k]
  BY HandFacts, Basics DEF OnHand, Working
<1>2. kind' = kind
  BY DEF OnHand
<1>3. At(k, r)' = At(k, r)
  BY DEF At, Chunks, OnHand, queues
<1>4. At(k, r) \in Nat
  BY Summands DEF IOInv
<1>5. Untransferred(r)[k] = At(k, r) + One(task[k] = r /\ tpc[k] = "transfer")
  BY DEF Untransferred
<1>6. Untransferred(r)'[k] = At(k, r) + One(task[k] = r /\ pc = "transfer")
  <2>1. Untransferred(r)'[k] = At(k, r)' + One(task'[k] = r /\ tpc'[k] = "transfer")
    BY DEF Untransferred
  <2>2. (task'[k] = r /\ tpc'[k] = "transfer") <=> (task[k] = r /\ pc = "transfer")
    BY <1>1
  <2>3. QED
    BY <1>3, <2>1, <2>2 DEF One
<1>7. Unreleased(r)[k] = At(k, r) + One(task[k] = r /\ HoldsAt(tpc[k], r))
  <2>1. Unreleased(r)[k] = At(k, r) + One(task[k] = r /\ Holds(k))
    BY DEF Unreleased
  <2>2. (task[k] = r /\ Holds(k)) <=> (task[k] = r /\ HoldsAt(tpc[k], r))
    BY DEF Holds, HoldsAt
  <2>3. QED
    BY <2>1, <2>2 DEF One
<1>8. Unreleased(r)'[k] = At(k, r) + One(task[k] = r /\ HoldsAt(pc, r))
  <2>1. Unreleased(r)'[k] = At(k, r)' + One(task'[k] = r /\ Holds(k)')
    BY DEF Unreleased
  <2>2. (task'[k] = r /\ Holds(k)') <=> (task[k] = r /\ HoldsAt(pc, r))
    BY <1>1, <1>2 DEF Holds, HoldsAt
  <2>3. QED
    BY <1>3, <2>1, <2>2 DEF One
<1>9. Unfinished(r)[k] = At(k, r) + One(task[k] = r)
  <2>1. Unfinished(r)[k] = At(k, r) + One(task[k] = r /\ tpc[k] \in Working)
    BY DEF Unfinished
  <2>2. QED
    BY <1>1, <2>1 DEF One
<1>10. Unfinished(r)'[k] = At(k, r) + One(task[k] = r /\ pc # "loop")
  <2>1. Unfinished(r)'[k] = At(k, r)' + One(task'[k] = r /\ tpc'[k] \in Working)
    BY DEF Unfinished
  <2>2. (task'[k] = r /\ tpc'[k] \in Working) <=> (task[k] = r /\ pc # "loop")
    BY <1>1
  <2>3. QED
    BY <1>3, <2>1, <2>2 DEF One
<1>11. QED
  BY <1>4, <1>5, <1>6, <1>7, <1>8, <1>9, <1>10

\* Arithmetic.
LEMMA NatSumZero == \A a, b \in Nat : a + b = 0 => a = 0 /\ b = 0
  OBVIOUS

LEMMA NatAdd == \A a, b \in Nat : (a + 1) + b = a + b + 1 /\ a + (b + 1) = a + b + 1
  OBVIOUS

LEMMA NatSum == \A a, b \in Nat : a + b \in Nat
  OBVIOUS

\* Its counters stay exact when they change as what it has in hand.
CountersFollow(k) ==
  /\ pending_reads'[k] = pending_reads[k] - InHand(k, Reads) + InHand(k, Reads)'
  /\ pending_writes'[k]
       = pending_writes[k] - InHand(k, Kinds \ Reads) + InHand(k, Kinds \ Reads)'

LEMMA HandPending ==
  ASSUME IOInv, NEW k \in Thread, NEW pc \in Working \cup {"loop"}, OnHand(k, pc),
         CountersFollow(k)
  PROVE  PendingReads(k)' /\ PendingWrites(k)'
<1>1. PendingReads(k) /\ PendingWrites(k) /\ TypeOK
  BY PendingByThread DEF IOInv
<1>2. /\ Announced(k, Reads)' = Announced(k, Reads)
      /\ Announced(k, Kinds \ Reads)' = Announced(k, Kinds \ Reads)
  BY DEF Announced, OnHand, cvars
<1>3. /\ Cardinality(Announced(k, Reads)) \in Nat
      /\ Cardinality(Announced(k, Kinds \ Reads)) \in Nat
  BY AnnouncedFinite
<1>4. /\ Len(prioqueue[k]) \in Nat /\ Len(readqueue[k]) \in Nat /\ Len(commitqueue[k]) \in Nat
  BY <1>1 DEF TypeOK
<1>5. /\ Len(prioqueue'[k]) = Len(prioqueue[k]) /\ Len(readqueue'[k]) = Len(readqueue[k])
      /\ Len(commitqueue'[k]) = Len(commitqueue[k])
  BY DEF OnHand, queues
<1>6. /\ InHand(k, Reads) \in Nat /\ InHand(k, Reads)' \in Nat
      /\ InHand(k, Kinds \ Reads) \in Nat /\ InHand(k, Kinds \ Reads)' \in Nat
  BY DEF InHand
<1>7. PendingReads(k)'
  <2> DEFINE queued == Len(prioqueue[k]) + Len(readqueue[k])
  <2>1. pending_reads[k] = queued + InHand(k, Reads) + Cardinality(Announced(k, Reads))
    BY <1>1 DEF PendingReads
  <2>2. queued \in Nat
    BY <1>4, NatSum, Zenon
  <2>3. pending_reads'[k] = queued + InHand(k, Reads)' + Cardinality(Announced(k, Reads))
    <3> HIDE DEF queued
    <3>1. QED
      BY <1>3, <1>6, <2>1, <2>2 DEF CountersFollow
  <2>4. QED
    BY <1>2, <1>5, <2>3 DEF PendingReads
<1>8. PendingWrites(k)'
  <2>1. pending_writes[k] = Len(commitqueue[k]) + InHand(k, Kinds \ Reads)
                             + Cardinality(Announced(k, Kinds \ Reads))
    BY <1>1 DEF PendingWrites
  <2>2. pending_writes'[k] = Len(commitqueue[k]) + InHand(k, Kinds \ Reads)'
                             + Cardinality(Announced(k, Kinds \ Reads))
    BY <1>3, <1>4, <1>6, <2>1 DEF CountersFollow
  <2>3. QED
    BY <1>2, <1>5, <2>2 DEF PendingWrites
<1>9. QED
  BY <1>7, <1>8


\* A step on the chunk in hand keeps the invariant if its balances do.
LEMMA HandStep ==
  ASSUME IOInv, TypeOK', NEW k \in Thread, NEW pc \in Working \cup {"loop"}, OnHand(k, pc),
         \A j \in Thread \ {k} : /\ pending_reads'[j] = pending_reads[j]
                                 /\ pending_writes'[j] = pending_writes[j],
         CountersFollow(k), TaskKind(k)', MovedBalance(k), CountBalance(k), DoneBalance(k)
  PROVE  IOInv'
<1>1. CallersUnchanged
  BY DEF CallersUnchanged, OnHand, cvars
<1>2. Elsewhere(k)
  <2>1. \A j \in Thread \ {k} : tpc'[j] = tpc[j] /\ task'[j] = task[j]
    BY HandFacts
  <2>2. QED
    BY <2>1 DEF Elsewhere, OnHand, queues
<1>3. QueueKinds(k)'
  BY DEF IOInv, Kinded, QueueKinds, OnHand, queues
<1>4. PendingReads(k)' /\ PendingWrites(k)'
  BY HandPending
<1>5. QED
  BY <1>1, <1>2, <1>3, <1>4, ThreadStep

\* The thread reads or writes its chunk.
LEMMA TransferStep ==
  ASSUME IOInv, NEW k \in Thread, Transfer(k)
  PROVE  IOInv'
<1> DEFINE t == task[k]
           pc == AfterTransfer(t)
<1>0. /\ TypeOK /\ Kinded /\ FreedExact /\ DoneExact /\ Unissued
  BY DEF IOInv
<1>1. pc \in {"release", "uncount"} /\ pc \in Working \cup {"loop"} /\ pc # "loop"
  BY DEF AfterTransfer, Working
<1>2. OnHand(k, pc) /\ tpc[k] = "transfer"
  BY DEF Transfer, OnHand, Working
<1> HIDE DEF pc
<1>3. /\ t \in Req /\ kind[t] \in Kinds /\ size[t] \in Nat \ {0} /\ t # NoReq
      /\ tpc'[k] = pc /\ task'[k] = t
      /\ tpc' \in [Thread -> {"loop", "prio", "read", "commit", "transfer", "uncount",
                              "release", "done", "exit"}]
      /\ task' \in [Thread -> Req \cup {NoReq}]
  BY <1>1, <1>2, HandFacts
<1>4. /\ moved' = [moved EXCEPT ![t] = @ + 1] /\ moved \in [Req -> Nat]
      /\ UNCHANGED <<counters, queues, running, cvars, kind, size, count, freed, done>>
  BY <1>0 DEF Transfer, TypeOK
<1>5. TypeOK'
  <2>1. moved' \in [Req -> Nat]
    BY <1>3, <1>4
  <2>2. QED
    BY <1>0, <1>3, <1>4, <2>1 DEF TypeOK, counters, queues, cvars
<1>6. CountersFollow(k)
  <2>1. InHand(k, Reads)' = InHand(k, Reads)
    BY <1>1, <1>2, <1>3, <1>4 DEF InHand, pc, AfterTransfer, Reads
  <2>2. InHand(k, Kinds \ Reads)' = InHand(k, Kinds \ Reads)
    BY <1>1, <1>2, <1>3, <1>4 DEF InHand, pc, AfterTransfer, Reads
  <2>3. InHand(k, Reads) \in Nat /\ InHand(k, Kinds \ Reads) \in Nat
    BY DEF InHand
  <2>4. pending_reads[k] \in Nat /\ pending_writes[k] \in Nat
    BY <1>0 DEF TypeOK
  <2>5. QED
    BY <1>4, <2>1, <2>2, <2>3, <2>4 DEF CountersFollow, counters
<1>7. TaskKind(k)'
  <2>1. pc \in Working /\ pc # "done" /\ (pc = "release" => kind[t] # "write")
    BY <1>1 DEF pc, AfterTransfer, Working
  <2>2. kind[t] # NoKind /\ size[t] > 0
    BY <1>3, Basics
  <2>3. QED
    BY <1>3, <1>4, <2>1, <2>2 DEF TaskKind
<1>8. ASSUME NEW r \in Req
      PROVE  /\ Untransferred(r)'[k] + moved'[r] = Untransferred(r)[k] + moved[r]
             /\ moved'[r] >= moved[r]
  <2>1. /\ At(k, r) \in Nat
        /\ Untransferred(r)[k] = At(k, r) + One(t = r /\ tpc[k] = "transfer")
        /\ Untransferred(r)'[k] = At(k, r) + One(t = r /\ pc = "transfer")
    BY <1>1, <1>2, HandSummands
  <2>2. moved[r] \in Nat /\ moved'[r] = IF r = t THEN moved[r] + 1 ELSE moved[r]
    BY <1>3, <1>4
  <2>3. One(t = r /\ pc = "transfer") = 0
    BY <1>1 DEF One
  <2>4. One(t = r /\ tpc[k] = "transfer") = IF r = t THEN 1 ELSE 0
    BY <1>2 DEF One
  <2>5. QED
    BY <2>1, <2>2, <2>3, <2>4
<1>9. MovedBalance(k)
  BY <1>8 DEF MovedBalance
<1>10. CountBalance(k)
  <2>1. ASSUME NEW r \in Req, kind[r] # "write"
        PROVE  Unreleased(r)'[k] = Unreleased(r)[k]
    <3>1. t = r => HoldsAt(tpc[k], r) /\ HoldsAt(pc, r)
      BY <1>2, <1>3, <2>1 DEF HoldsAt, pc, AfterTransfer, Kinds, Reads
    <3>2. One(t = r /\ HoldsAt(tpc[k], r)) = One(t = r /\ HoldsAt(pc, r))
      BY <3>1 DEF One
    <3>3. QED
      BY <1>1, <1>2, <3>2, HandSummands
  <2>2. QED
    BY <1>0, <1>4, <2>1 DEF CountBalance, Unissued, FreedExact
<1>11. DoneBalance(k)
  <2>1. ASSUME NEW r \in Req
        PROVE  Unfinished(r)'[k] = Unfinished(r)[k]
    <3>1. One(t = r) = One(t = r /\ pc # "loop")
      BY <1>1 DEF One
    <3>2. QED
      BY <1>1, <1>2, <3>1, HandSummands
  <2>2. QED
    BY <1>0, <1>4, <2>1 DEF DoneBalance, DoneExact
<1>12. \A j \in Thread \ {k} : /\ pending_reads'[j] = pending_reads[j]
                              /\ pending_writes'[j] = pending_writes[j]
  BY <1>4 DEF counters
<1>13. QED
  BY <1>1, <1>2, <1>5, <1>6, <1>7, <1>9, <1>10, <1>11, <1>12, HandStep


\* The thread lowers its counter.
LEMMA UncountStep ==
  ASSUME IOInv, NEW k \in Thread, Uncount(k)
  PROVE  IOInv'
<1> DEFINE t == task[k]
           pc == AfterUncount(t)
<1>0. /\ TypeOK /\ Kinded /\ FreedExact /\ DoneExact /\ Unissued /\ PendingExact
  BY DEF IOInv
<1>1. pc = (IF kind[t] \in Reads THEN "release" ELSE "loop") /\ pc \in Working \cup {"loop"}
  BY DEF AfterUncount, Working
<1>2. OnHand(k, pc) /\ tpc[k] = "uncount"
  BY DEF Uncount, OnHand, Working, rvars
<1> HIDE DEF pc
<1>3. /\ t \in Req /\ kind[t] \in Kinds /\ size[t] \in Nat \ {0} /\ t # NoReq
      /\ tpc'[k] = pc /\ task'[k] = IF pc = "loop" THEN NoReq ELSE t
      /\ tpc' \in [Thread -> {"loop", "prio", "read", "commit", "transfer", "uncount",
                              "release", "done", "exit"}]
      /\ task' \in [Thread -> Req \cup {NoReq}]
  BY <1>1, <1>2, HandFacts
<1>4. UNCHANGED <<queues, running, cvars, rvars>>
  BY DEF Uncount
<1>5. kind' = kind /\ size' = size
  BY <1>4 DEF rvars
<1>6. pending_reads \in [Thread -> Nat] /\ pending_writes \in [Thread -> Nat]
  BY <1>0 DEF TypeOK
<1>7. PendingReads(k) /\ PendingWrites(k)
  BY <1>0, PendingByThread
<1>8. /\ Cardinality(Announced(k, Reads)) \in Nat
      /\ Cardinality(Announced(k, Kinds \ Reads)) \in Nat
      /\ Len(prioqueue[k]) \in Nat /\ Len(readqueue[k]) \in Nat /\ Len(commitqueue[k]) \in Nat
  BY <1>0, AnnouncedFinite DEF TypeOK
<1>9. /\ pending_reads' \in [Thread -> Nat] /\ pending_writes' \in [Thread -> Nat]
      /\ CountersFollow(k)
      /\ \A j \in Thread \ {k} : /\ pending_reads'[j] = pending_reads[j]
                                 /\ pending_writes'[j] = pending_writes[j]
  <2>1. CASE kind[t] \in Reads
    <3>1. pending_reads' = [pending_reads EXCEPT ![k] = @ - 1] /\ pending_writes' = pending_writes
      BY <2>1 DEF Uncount, OncePerChunk
    <3>2. InHand(k, Reads) = 1 /\ InHand(k, Kinds \ Reads) = 0
      BY <1>2, <1>3, <2>1 DEF InHand
    <3>3. pc = "release" /\ task'[k] = t
      BY <1>1, <1>3, <2>1
    <3>4. InHand(k, Reads)' = 0 /\ InHand(k, Kinds \ Reads)' = 0
      BY <1>3, <1>5, <2>1, <3>3 DEF InHand
    <3>5. pending_reads[k] \in Nat \ {0}
      <4> DEFINE queued == Len(prioqueue[k]) + Len(readqueue[k])
      <4>1. queued \in Nat
        BY <1>8, NatSum, Zenon
      <4>2. pending_reads[k] = queued + 1 + Cardinality(Announced(k, Reads))
        BY <1>7, <3>2 DEF PendingReads
      <4> HIDE DEF queued
      <4>3. QED
        BY <1>8, <4>1, <4>2
    <3>6. /\ pending_reads'[k] = pending_reads[k] - 1 /\ pending_writes'[k] = pending_writes[k]
          /\ pending_writes[k] \in Nat /\ pending_reads' \in [Thread -> Nat]
      BY <1>6, <3>1, <3>5
    <3>7. CountersFollow(k)
      BY <3>2, <3>4, <3>5, <3>6 DEF CountersFollow
    <3>8. QED
      BY <1>6, <3>1, <3>6, <3>7
  <2>2. CASE kind[t] \notin Reads
    <3>1. pending_writes' = [pending_writes EXCEPT ![k] = @ - 1] /\ pending_reads' = pending_reads
      BY <2>2 DEF Uncount, OncePerChunk
    <3>2. InHand(k, Reads) = 0 /\ InHand(k, Kinds \ Reads) = 1
      BY <1>2, <1>3, <2>2 DEF InHand
    <3>3. pc = "loop" /\ task'[k] = NoReq
      BY <1>1, <1>3, <2>2
    <3>4. InHand(k, Reads)' = 0 /\ InHand(k, Kinds \ Reads)' = 0
      BY <3>3 DEF InHand
    <3>5. pending_writes[k] \in Nat \ {0}
      <4>1. pending_writes[k] = Len(commitqueue[k]) + 1 + Cardinality(Announced(k, Kinds \ Reads))
        BY <1>7, <3>2 DEF PendingWrites
      <4>2. QED
        BY <1>8, <4>1
    <3>6. /\ pending_writes'[k] = pending_writes[k] - 1 /\ pending_reads'[k] = pending_reads[k]
          /\ pending_reads[k] \in Nat /\ pending_writes' \in [Thread -> Nat]
      BY <1>6, <3>1, <3>5
    <3>7. CountersFollow(k)
      BY <3>2, <3>4, <3>5, <3>6 DEF CountersFollow
    <3>8. QED
      BY <1>6, <3>1, <3>6, <3>7
  <2>3. QED
    BY <2>1, <2>2
<1>10. TypeOK'
  BY <1>0, <1>3, <1>4, <1>9 DEF TypeOK, queues, cvars, rvars
<1>11. TaskKind(k)'
  <2>1. kind[t] # NoKind /\ size[t] > 0 /\ (kind[t] \in Reads => kind[t] # "write")
    BY <1>3, Basics DEF Reads
  <2>2. CASE kind[t] \in Reads
    <3>1. pc = "release" /\ task'[k] = t
      BY <1>1, <1>3, <2>2
    <3>2. QED
      BY <1>3, <1>5, <2>1, <2>2, <3>1 DEF TaskKind, Working
  <2>3. CASE kind[t] \notin Reads
    BY <1>1, <1>3, <2>3 DEF TaskKind, Working
  <2>4. QED
    BY <2>2, <2>3
<1>12. ASSUME NEW r \in Req
       PROVE  /\ moved'[r] = moved[r] /\ moved[r] \in Nat
              /\ count'[r] = count[r] /\ freed'[r] = freed[r] /\ done'[r] = done[r]
  BY <1>0, <1>4, NumbersNat DEF rvars
<1>13. MovedBalance(k)
  <2>1. ASSUME NEW r \in Req PROVE Untransferred(r)'[k] = Untransferred(r)[k]
    <3>1. One(t = r /\ tpc[k] = "transfer") = One(t = r /\ pc = "transfer")
      BY <1>1, <1>2 DEF One
    <3>2. QED
      BY <1>1, <1>2, <3>1, HandSummands
  <2>2. QED
    BY <1>12, <2>1 DEF MovedBalance
<1>14. CountBalance(k)
  <2>1. ASSUME NEW r \in Req, kind[r] # "write"
        PROVE  Unreleased(r)'[k] = Unreleased(r)[k]
    <3>1. t = r => (HoldsAt(tpc[k], r) <=> HoldsAt(pc, r))
      BY <1>1, <1>2 DEF HoldsAt
    <3>2. One(t = r /\ HoldsAt(tpc[k], r)) = One(t = r /\ HoldsAt(pc, r))
      BY <3>1 DEF One
    <3>3. QED
      BY <1>1, <1>2, <3>2, HandSummands
  <2>2. QED
    BY <1>0, <1>12, <2>1 DEF CountBalance, Unissued, FreedExact
<1>15. DoneBalance(k)
  <2>1. ASSUME NEW r \in Req, HasDone(r)
        PROVE  Unfinished(r)'[k] = Unfinished(r)[k]
    <3>1. t = r => pc # "loop"
      BY <1>1, <2>1 DEF HasDone, Reads
    <3>2. One(t = r) = One(t = r /\ pc # "loop")
      BY <3>1 DEF One
    <3>3. QED
      BY <1>1, <1>2, <3>2, HandSummands
  <2>2. QED
    BY <1>0, <1>12, <2>1 DEF DoneBalance, DoneExact
<1>16. QED
  BY <1>1, <1>2, <1>9, <1>10, <1>11, <1>13, <1>14, <1>15, HandStep


\* The thread lowers the count of the request, and frees it after the last chunk.
LEMMA ReleaseStep ==
  ASSUME IOInv, NEW k \in Thread, Release(k)
  PROVE  IOInv'
<1> DEFINE t == task[k]
           pc == AfterRelease(t)
<1>0. /\ TypeOK /\ Kinded /\ FreedExact /\ DoneExact /\ Unissued /\ CountExact
  BY DEF IOInv
<1>1. pc \in {"uncount", "done", "loop"} /\ pc \in Working \cup {"loop"}
  BY DEF AfterRelease, Working
<1>2. OnHand(k, pc) /\ tpc[k] = "release"
  BY DEF Release, OnHand, Working
<1>3. /\ kind[t] = "writefree" <=> pc = "uncount"
      /\ HasDone(t) => pc = "done"
      /\ pc = "done" => HasDone(t)
  BY DEF AfterRelease, HasDone
<1> HIDE DEF pc
<1>4. /\ t \in Req /\ kind[t] \in Kinds /\ size[t] \in Nat \ {0} /\ t # NoReq
      /\ tpc'[k] = pc /\ task'[k] = IF pc = "loop" THEN NoReq ELSE t
      /\ tpc' \in [Thread -> {"loop", "prio", "read", "commit", "transfer", "uncount",
                              "release", "done", "exit"}]
      /\ task' \in [Thread -> Req \cup {NoReq}]
  BY <1>1, <1>2, HandFacts
<1>5. kind[t] \in {"read", "now", "writefree"} /\ kind[t] # "write" /\ Counted(t)
  <2>1. kind[t] # "write"
    BY <1>0, <1>2 DEF Kinded, TaskKind, Working
  <2>2. QED
    BY <1>4, <2>1 DEF Counted, Kinds
<1>6. /\ UNCHANGED <<counters, queues, running, cvars, kind, size, done, moved>>
      /\ count' = [count EXCEPT ![t] = @ - 1]
      /\ freed' = [freed EXCEPT ![t] = IF count[t] = 1 THEN @ + 1 ELSE @]
      /\ count \in [Req -> Nat] /\ freed \in [Req -> {0, 1}]
  BY <1>0 DEF Release, Last, TypeOK
<1>7. count[t] \in Nat \ {0}
  <2>1. Unreleased(t)[k] = At(k, t) + 1 /\ At(k, t) \in Nat
    <3>1. One(t = t /\ HoldsAt(tpc[k], t)) = 1
      BY <1>2 DEF One, HoldsAt
    <3>2. QED
      BY <1>1, <1>2, <1>4, <3>1, HandSummands
  <2>2. /\ Sum(Thread, Unreleased(t)) \in Nat /\ Sum(Caller, Unqueued(t)) \in Nat
        /\ Sum(Thread, Unreleased(t)) >= Unreleased(t)[k]
    BY <1>0, <1>4, Totals
  <2>3. count[t] = (Sum(Thread, Unreleased(t)) + Sum(Caller, Unqueued(t))) + One(Owned(t))
    BY <1>0, <1>4, <1>5 DEF CountExact, ToRelease
  <2>4. One(Owned(t)) \in Nat
    BY DEF One
  <2> HIDE DEF t
  <2>5. QED
    BY <2>1, <2>2, <2>3, <2>4
<1>8. ASSUME NEW r \in Req
      PROVE  /\ moved'[r] = moved[r] /\ moved[r] \in Nat /\ done'[r] = done[r]
             /\ count'[r] = (IF r = t THEN count[r] - 1 ELSE count[r]) /\ count[r] \in Nat
             /\ freed'[r] = One(Counted(r) /\ count'[r] = 0)
  <2>1. /\ moved'[r] = moved[r] /\ moved[r] \in Nat /\ done'[r] = done[r]
        /\ count'[r] = (IF r = t THEN count[r] - 1 ELSE count[r]) /\ count[r] \in Nat
    BY <1>0, <1>6, NumbersNat
  <2>2. freed[r] = One(Counted(r) /\ count[r] = 0)
    BY <1>0 DEF FreedExact
  <2>3. freed'[r] = IF r = t THEN (IF count[r] = 1 THEN freed[r] + 1 ELSE freed[r]) ELSE freed[r]
    BY <1>6
  <2>4. CASE r = t
    <3>1. count[r] # 0 /\ Counted(r)
      BY <1>5, <1>7, <2>4
    <3>2. freed[r] = 0
      BY <2>2, <3>1 DEF One
    <3>3. freed'[r] = (IF count[r] = 1 THEN 1 ELSE 0) /\ count'[r] = count[r] - 1
      BY <2>1, <2>3, <2>4, <3>2
    <3>4. count'[r] = 0 <=> count[r] = 1
      BY <2>1, <3>3
    <3>5. QED
      BY <2>1, <3>1, <3>3, <3>4 DEF One
  <2>5. CASE r # t
    BY <2>1, <2>2, <2>3, <2>5
  <2>6. QED
    BY <2>1, <2>4, <2>5
<1>9. TypeOK'
  <2>1. count' \in [Req -> Nat]
    <3>1. ASSUME NEW r \in Req PROVE count'[r] \in Nat
      <4>1. CASE r = t
        BY <1>7, <1>8, <4>1
      <4>2. CASE r # t
        BY <1>8, <4>2
      <4>3. QED
        BY <4>1, <4>2
    <3>2. QED
      BY <1>6, <3>1
  <2>2. \A r \in Req : freed'[r] \in {0, 1}
    BY <1>8 DEF One
  <2>3. freed' \in [Req -> {0, 1}]
    BY <1>6, <2>2
  <2>4. QED
    BY <1>0, <1>4, <1>6, <2>1, <2>3 DEF TypeOK, counters, queues, cvars
<1>10. CountersFollow(k)
  <2>1. InHand(k, Reads)' = InHand(k, Reads)
    <3>1. InHand(k, Reads) = 0
      BY <1>2 DEF InHand
    <3>2. kind[t] \in Reads => pc \in {"done", "loop"}
      BY <1>1, <1>3 DEF Reads
    <3>3. InHand(k, Reads)' = 0
      BY <1>4, <1>6, <3>2 DEF InHand
    <3>4. QED
      BY <3>1, <3>3
  <2>2. InHand(k, Kinds \ Reads)' = InHand(k, Kinds \ Reads)
    BY <1>2, <1>3, <1>4, <1>5, <1>6 DEF InHand, Reads, Kinds
  <2>3. InHand(k, Reads) \in Nat /\ InHand(k, Kinds \ Reads) \in Nat
    BY DEF InHand
  <2>4. pending_reads[k] \in Nat /\ pending_writes[k] \in Nat
    BY <1>0 DEF TypeOK
  <2>5. QED
    BY <1>6, <2>1, <2>2, <2>3, <2>4 DEF CountersFollow, counters
<1>11. TaskKind(k)'
  <2>1. kind[t] # NoKind /\ size[t] > 0 /\ kind' = kind /\ size' = size
    BY <1>4, <1>6, Basics
  <2>2. CASE pc = "loop"
    BY <1>4, <2>2 DEF TaskKind, Working
  <2>3. CASE pc # "loop"
    <3>1. task'[k] = t /\ pc \in Working /\ pc # "release"
      BY <1>1, <1>4, <2>3
    <3>2. pc = "done" => kind'[t] = "read" /\ size'[t] = 1
      BY <1>3, <2>1 DEF HasDone
    <3>3. QED
      BY <1>3, <1>4, <2>1, <3>1, <3>2 DEF TaskKind, HasDone
  <2>4. QED
    BY <2>2, <2>3
<1>12. MovedBalance(k)
  <2>1. ASSUME NEW r \in Req PROVE Untransferred(r)'[k] = Untransferred(r)[k]
    <3>1. One(t = r /\ tpc[k] = "transfer") = One(t = r /\ pc = "transfer")
      BY <1>1, <1>2 DEF One
    <3>2. QED
      BY <1>1, <1>2, <3>1, HandSummands
  <2>2. QED
    BY <1>8, <2>1 DEF MovedBalance
<1>13. CountBalance(k)
  <2>1. ASSUME NEW r \in Req
        PROVE  Unreleased(r)'[k] + count[r] = Unreleased(r)[k] + count'[r]
    <3>1. /\ At(k, r) \in Nat
          /\ Unreleased(r)[k] = At(k, r) + One(t = r /\ HoldsAt(tpc[k], r))
          /\ Unreleased(r)'[k] = At(k, r) + One(t = r /\ HoldsAt(pc, r))
      BY <1>1, <1>2, HandSummands
    <3>2. One(t = r /\ HoldsAt(pc, r)) = 0
      BY <1>1, <1>3 DEF One, HoldsAt, Reads
    <3>3. One(t = r /\ HoldsAt(tpc[k], r)) = IF r = t THEN 1 ELSE 0
      BY <1>2 DEF One, HoldsAt
    <3>4. count'[r] = (IF r = t THEN count[r] - 1 ELSE count[r]) /\ count[r] \in Nat
      BY <1>8
    <3> HIDE DEF t
    <3>5. QED
      BY <3>1, <3>2, <3>3, <3>4
  <2>2. ASSUME NEW r \in Req, kind[r] = NoKind PROVE count'[r] = 0
    <3>1. r # t
      BY <1>4, <2>2, Basics
    <3>2. QED
      BY <1>0, <1>8, <2>2, <3>1 DEF Unissued
  <2>3. QED
    BY <1>8, <2>1, <2>2 DEF CountBalance
<1>14. DoneBalance(k)
  <2>1. ASSUME NEW r \in Req, HasDone(r)
        PROVE  Unfinished(r)'[k] = Unfinished(r)[k]
    <3>1. t = r => pc # "loop"
      BY <1>3, <2>1
    <3>2. One(t = r) = One(t = r /\ pc # "loop")
      BY <3>1 DEF One
    <3>3. QED
      BY <1>1, <1>2, <3>2, HandSummands
  <2>2. QED
    BY <1>0, <1>8, <2>1 DEF DoneBalance, DoneExact
<1>15. \A j \in Thread \ {k} : /\ pending_reads'[j] = pending_reads[j]
                              /\ pending_writes'[j] = pending_writes[j]
  BY <1>6 DEF counters
<1>16. QED
  BY <1>1, <1>2, <1>9, <1>10, <1>11, <1>12, <1>13, <1>14, <1>15, HandStep

\* The thread lowers *doneptr.
LEMMA DoneStep ==
  ASSUME IOInv, NEW k \in Thread, Done(k)
  PROVE  IOInv'
<1> DEFINE t == task[k]
<1>0. /\ TypeOK /\ Kinded /\ FreedExact /\ DoneExact /\ Unissued
  BY DEF IOInv
<1>1. "loop" \in Working \cup {"loop"}
  OBVIOUS
<1>2. OnHand(k, "loop") /\ tpc[k] = "done"
  BY DEF Done, OnHand, Working
<1>3. /\ t \in Req /\ tpc'[k] = "loop" /\ task'[k] = NoReq
      /\ tpc' \in [Thread -> {"loop", "prio", "read", "commit", "transfer", "uncount",
                              "release", "done", "exit"}]
      /\ task' \in [Thread -> Req \cup {NoReq}]
  BY <1>1, <1>2, HandFacts
<1>4. HasDone(t)
  BY <1>0, <1>2 DEF Kinded, TaskKind, Working
<1>5. /\ UNCHANGED <<counters, queues, running, cvars, kind, size, count, freed, moved>>
      /\ done' = [done EXCEPT ![t] = @ - 1] /\ done \in [Req -> {0, 1}]
  BY <1>0 DEF Done, TypeOK
<1>6. done[t] = 1
  <2>1. Unfinished(t)[k] = At(k, t) + 1 /\ At(k, t) \in Nat
    <3>1. One(t = t) = 1
      BY DEF One
    <3>2. QED
      BY <1>1, <1>2, <1>3, <3>1, HandSummands
  <2>2. /\ Sum(Thread, Unfinished(t)) \in Nat /\ Sum(Caller, Unqueued(t)) \in Nat
        /\ Sum(Thread, Unfinished(t)) >= Unfinished(t)[k]
    BY <1>0, <1>3, Totals
  <2>3. done[t] = Sum(Thread, Unfinished(t)) + Sum(Caller, Unqueued(t))
    BY <1>0, <1>3, <1>4 DEF DoneExact, ToFinish
  <2>4. done[t] \in {0, 1}
    BY <1>3, <1>5
  <2> HIDE DEF t
  <2>5. QED
    BY <2>1, <2>2, <2>3, <2>4
<1>7. ASSUME NEW r \in Req
      PROVE  /\ moved'[r] = moved[r] /\ moved[r] \in Nat
             /\ count'[r] = count[r] /\ freed'[r] = freed[r]
             /\ done'[r] = (IF r = t THEN 0 ELSE done[r]) /\ done[r] \in {0, 1}
  BY <1>0, <1>5, <1>6, NumbersNat
<1>8. TypeOK'
  <2>1. done' \in [Req -> {0, 1}]
    BY <1>5, <1>7
  <2>2. QED
    BY <1>0, <1>3, <1>5, <2>1 DEF TypeOK, counters, queues, cvars
<1>9. CountersFollow(k)
  <2>1. InHand(k, Reads) = 0 /\ InHand(k, Kinds \ Reads) = 0
    BY <1>2 DEF InHand
  <2>2. InHand(k, Reads)' = 0 /\ InHand(k, Kinds \ Reads)' = 0
    BY <1>3 DEF InHand
  <2>3. pending_reads[k] \in Nat /\ pending_writes[k] \in Nat
    BY <1>0 DEF TypeOK
  <2>4. QED
    BY <1>5, <2>1, <2>2, <2>3 DEF CountersFollow, counters
<1>10. TaskKind(k)'
  BY <1>3 DEF TaskKind, Working
<1>11. MovedBalance(k)
  <2>1. ASSUME NEW r \in Req PROVE Untransferred(r)'[k] = Untransferred(r)[k]
    <3>1. One(t = r /\ tpc[k] = "transfer") = One(t = r /\ "loop" = "transfer")
      BY <1>2 DEF One
    <3>2. QED
      BY <1>1, <1>2, <3>1, HandSummands
  <2>2. QED
    BY <1>7, <2>1 DEF MovedBalance
<1>12. CountBalance(k)
  <2>1. ASSUME NEW r \in Req PROVE Unreleased(r)'[k] = Unreleased(r)[k]
    <3>1. One(t = r /\ HoldsAt(tpc[k], r)) = One(t = r /\ HoldsAt("loop", r))
      BY <1>2 DEF One, HoldsAt
    <3>2. QED
      BY <1>1, <1>2, <3>1, HandSummands
  <2>2. QED
    BY <1>0, <1>7, <2>1 DEF CountBalance, Unissued, FreedExact
<1>13. DoneBalance(k)
  <2>1. ASSUME NEW r \in Req
        PROVE  Unfinished(r)'[k] + done[r] = Unfinished(r)[k] + done'[r]
    <3>1. /\ At(k, r) \in Nat
          /\ Unfinished(r)[k] = At(k, r) + One(t = r)
          /\ Unfinished(r)'[k] = At(k, r) + One(t = r /\ "loop" # "loop")
      BY <1>1, <1>2, HandSummands
    <3>2. One(t = r /\ "loop" # "loop") = 0 /\ One(t = r) = IF r = t THEN 1 ELSE 0
      BY DEF One
    <3>3. done'[r] = (IF r = t THEN 0 ELSE done[r]) /\ (r = t => done[r] = 1) /\ done[r] \in {0, 1}
      BY <1>6, <1>7
    <3> HIDE DEF t
    <3>4. QED
      BY <3>1, <3>2, <3>3
  <2>2. ASSUME NEW r \in Req, ~ HasDone(r) PROVE done'[r] = 1
    <3>1. r # t /\ done[r] = 1
      BY <1>0, <1>4, <2>2 DEF DoneExact
    <3>2. QED
      BY <1>7, <3>1
  <2>3. QED
    BY <2>1, <2>2 DEF DoneBalance
<1>14. \A j \in Thread \ {k} : /\ pending_reads'[j] = pending_reads[j]
                              /\ pending_writes'[j] = pending_writes[j]
  BY <1>5 DEF counters
<1>15. QED
  BY <1>1, <1>2, <1>8, <1>9, <1>10, <1>11, <1>12, <1>13, <1>14, HandStep

\* Every step of io_thread_loop.
LEMMA IOThreadStep ==
  ASSUME IOInv, NEW k \in Thread, io_thread_loop(k)
  PROVE  IOInv'
BY LookStep, PopPrioStep, PopReadStep, PopCommitStep, TransferStep, UncountStep,
   ReleaseStep, DoneStep DEF io_thread_loop


-----------------------------------------------------------------------------
(* The steps of the callers *)

\* What a step keeps that touches no chunk.
LEMMA ChunksUntouched ==
  ASSUME IOInv, UNCHANGED <<queues, tvars, kind, size, moved, done, mine, left>>
  PROVE  /\ Kinded' /\ MovedExact' /\ DoneExact'
         /\ \A r \in Req : Untransferred(r)' = Untransferred(r) /\ ToRelease(r)' = ToRelease(r)
         /\ \A k \in Thread : \A knds : InHand(k, knds)' = InHand(k, knds)
<1> USE DEF queues, tvars
<1>0. Kinded /\ MovedExact /\ DoneExact
  BY DEF IOInv
<1>1. ASSUME NEW r \in Req
      PROVE  /\ Untransferred(r)' = Untransferred(r) /\ Unreleased(r)' = Unreleased(r)
             /\ Unfinished(r)' = Unfinished(r)
  BY ThreadsSame
<1>2. ASSUME NEW r \in Req PROVE Unqueued(r)' = Unqueued(r)
  BY DEF Unqueued
<1>3. Kinded'
  BY <1>0 DEF Kinded, QueueKinds, TaskKind, HasDone
<1>4. MovedExact'
  <2>1. ASSUME NEW r \in Req PROVE ToTransfer(r)' = ToTransfer(r)
    BY <1>1, <1>2 DEF ToTransfer
  <2>2. QED
    BY <1>0, <2>1 DEF MovedExact
<1>5. DoneExact'
  <2>1. ASSUME NEW r \in Req PROVE ToFinish(r)' = ToFinish(r)
    BY <1>1, <1>2 DEF ToFinish
  <2>2. QED
    BY <1>0, <2>1 DEF DoneExact, HasDone
<1>6. ASSUME NEW r \in Req PROVE ToRelease(r)' = ToRelease(r)
  BY <1>1, <1>2 DEF ToRelease
<1>7. ASSUME NEW k \in Thread, NEW knds PROVE InHand(k, knds)' = InHand(k, knds)
  BY DEF InHand
<1>8. QED
  BY <1>1, <1>3, <1>4, <1>5, <1>6, <1>7

\* A request is transferred when nobody has to transfer, or to release, a chunk of it.
LEMMA NothingLeft ==
  ASSUME IOInv, NEW r \in Req
  PROVE  /\ ToTransfer(r) \in Nat /\ ToRelease(r) \in Nat /\ ToFinish(r) \in Nat
         /\ ToTransfer(r) = 0 => moved[r] = size[r]
         /\ ToRelease(r) = 0 => ToTransfer(r) = 0
         /\ ToFinish(r) = 0 => ToTransfer(r) = 0
<1> DEFINE T == Sum(Thread, Untransferred(r))
           R == Sum(Thread, Unreleased(r))
           F == Sum(Thread, Unfinished(r))
           C == Sum(Caller, Unqueued(r))
<1>0. TypeOK /\ MovedExact
  BY DEF IOInv
<1>1. /\ ToTransfer(r) = T + C /\ ToRelease(r) = R + C /\ ToFinish(r) = F + C
      /\ T \in Nat /\ R \in Nat /\ F \in Nat /\ C \in Nat
      /\ \A k \in Thread : R >= Unreleased(r)[k] /\ F >= Unfinished(r)[k]
  BY <1>0, Totals DEF ToTransfer, ToRelease, ToFinish
<1>2. /\ Untransferred(r) \in [Thread -> Nat] /\ Unreleased(r) \in [Thread -> Nat]
      /\ Unfinished(r) \in [Thread -> Nat] /\ \A k \in Thread : At(k, r) \in Nat
  BY <1>0, Summands
<1>3. ASSUME NEW k \in Thread
      PROVE  /\ Unreleased(r)[k] >= Untransferred(r)[k]
             /\ Unfinished(r)[k] >= Untransferred(r)[k]
  <2>1. At(k, r) \in Nat
    BY <1>2
  <2>2. CASE task[k] = r /\ tpc[k] = "transfer"
    BY <2>1, <2>2 DEF Untransferred, Unreleased, Unfinished, Holds, Working, One
  <2>3. CASE ~ (task[k] = r /\ tpc[k] = "transfer")
    <3>1. Untransferred(r)[k] = At(k, r)
      BY <2>1, <2>3 DEF Untransferred, One
    <3>2. Unreleased(r)[k] >= At(k, r) /\ Unfinished(r)[k] >= At(k, r)
      BY <2>1 DEF Unreleased, Unfinished, One
    <3>3. QED
      BY <3>1, <3>2
  <2>4. QED
    BY <2>2, <2>3
<1>4. (\A k \in Thread : Untransferred(r)[k] = 0) => T = 0
  BY <1>2, Basics, SumFacts
<1> HIDE DEF T, R, F, C
<1>5. ASSUME R = 0 \/ F = 0 PROVE T = 0
  <2>1. ASSUME NEW k \in Thread PROVE Untransferred(r)[k] = 0
    <3>1. /\ Untransferred(r)[k] \in Nat /\ Unreleased(r)[k] \in Nat
          /\ Unfinished(r)[k] \in Nat
      BY <1>2
    <3>2. QED
      BY <1>1, <1>3, <1>5, <3>1
  <2>2. QED
    BY <1>4, <2>1
<1>6. moved[r] + ToTransfer(r) = size[r] /\ moved[r] \in Nat /\ size[r] \in Nat
  BY <1>0, NumbersNat DEF MovedExact
<1>7. QED
  BY <1>1, <1>5, <1>6

\* A wait begins.
LEMMA WaitForStep ==
  ASSUME IOInv, NEW c \in Caller, wait_for_reads(c) \/ wait_for_writes(c)
  PROVE  IOInv'
<1>0. /\ TypeOK /\ PendingExact /\ Kinded /\ Calls /\ Unissued /\ MovedExact
      /\ CountExact /\ FreedExact /\ DoneExact /\ Waiting /\ Waited
  BY DEF IOInv
<1>1. PICK pc \in {"reads", "writes"} :
        /\ cpc[c] = "idle" /\ cpc' = [cpc EXCEPT ![c] = pc]
        /\ at' = [at EXCEPT ![c] = 0]
        /\ due' = [due EXCEPT ![c] = Queued(IF pc = "reads" THEN Reads ELSE Kinds \ Reads)]
        /\ UNCHANGED <<counters, queues, running, tvars, mine, left, waited, rvars>>
  BY DEF wait_for_reads, wait_for_writes, WaitFor
<1> DEFINE asked == IF pc = "reads" THEN Reads ELSE Kinds \ Reads
<1>2. /\ cpc \in [Caller -> {"idle", "raise", "push", "spin", "reads", "writes"}]
      /\ at \in [Caller -> Thread] /\ due \in [Caller -> SUBSET Req]
  BY <1>0 DEF TypeOK
<1>3. Queued(asked) \in SUBSET Req /\ 0 \in Thread
  BY Basics DEF Queued, Thread
<1>4. /\ cpc'[c] = pc /\ at'[c] = 0 /\ due'[c] = Queued(asked)
      /\ \A d \in Caller \ {c} : cpc'[d] = cpc[d] /\ at'[d] = at[d] /\ due'[d] = due[d]
  BY <1>1, <1>2
<1>5. TypeOK'
  <2>1. /\ cpc' \in [Caller -> {"idle", "raise", "push", "spin", "reads", "writes"}]
        /\ at' \in [Caller -> Thread] /\ due' \in [Caller -> SUBSET Req]
    BY <1>1, <1>2, <1>3
  <2>2. QED
    BY <1>0, <1>1, <2>1 DEF TypeOK, counters, queues, tvars, rvars
<1>6. /\ UNCHANGED <<queues, tvars, kind, size, moved, done, mine, left>>
      /\ kind' = kind /\ size' = size /\ count' = count /\ freed' = freed /\ moved' = moved
      /\ mine' = mine /\ left' = left /\ waited' = waited
      /\ pending_reads' = pending_reads /\ pending_writes' = pending_writes
      /\ prioqueue' = prioqueue /\ readqueue' = readqueue /\ commitqueue' = commitqueue
  BY <1>1 DEF rvars, counters, queues
<1>7. /\ Kinded' /\ MovedExact' /\ DoneExact'
      /\ \A r \in Req : Untransferred(r)' = Untransferred(r) /\ ToRelease(r)' = ToRelease(r)
      /\ \A k \in Thread : \A knds : InHand(k, knds)' = InHand(k, knds)
  BY <1>6, ChunksUntouched
<1>8. \A d \in Caller : (cpc'[d] \in Calling <=> cpc[d] \in Calling)
                       /\ (cpc'[d] = "push" <=> cpc[d] = "push")
                       /\ (cpc'[d] \in {"raise", "push"} <=> cpc[d] \in {"raise", "push"})
                       /\ (cpc'[d] = "spin" <=> cpc[d] = "spin")
  BY <1>1, <1>4 DEF Calling
<1>9. PendingExact'
  <2>1. ASSUME NEW k \in Thread, NEW knds PROVE Announced(k, knds)' = Announced(k, knds)
    BY <1>6, <1>8 DEF Announced
  <2>2. QED
    BY <1>0, <1>6, <1>7, <2>1 DEF PendingExact
<1>10. Calls'
  BY <1>0, <1>6, <1>8 DEF Calls
<1>11. Unissued' /\ FreedExact'
  BY <1>0, <1>6 DEF Unissued, FreedExact, Counted
<1>12. CountExact'
  <2>1. ASSUME NEW r \in Req PROVE Owned(r)' <=> Owned(r)
    BY <1>6, <1>8 DEF Owned
  <2>2. ASSUME NEW r \in Req PROVE One(Owned(r)') = One(Owned(r))
    BY <2>1 DEF One
  <2>3. QED
    BY <1>0, <1>6, <1>7, <2>2 DEF CountExact
<1>13. Waiting'
  <2>1. ASSUME NEW d \in Caller, cpc'[d] \in {"reads", "writes"}, NEW r \in due'[d]
        PROVE  /\ kind'[r] \in WaitKinds(d)'
               /\ \A b \in Caller : mine'[b] = r => left'[b] = <<>>
               /\ \A k \in Thread : k < at'[d] => Untransferred(r)'[k] = 0
    <3>1. CASE d = c
      <4>1. r \in Req /\ kind[r] \in asked /\ r \notin BeingQueued
        BY <1>4, <3>1 DEF Queued
      <4>2. WaitKinds(d)' = asked
        BY <1>4, <3>1 DEF WaitKinds
      <4>3. \A b \in Caller : mine[b] = r => left[b] = <<>>
        BY <4>1 DEF BeingQueued
      <4>4. \A k \in Thread : ~ (k < at'[d])
        BY <1>4, <3>1, Basics DEF Thread
      <4>5. QED
        BY <1>6, <4>1, <4>2, <4>3, <4>4
    <3>2. CASE d # c
      <4>1. /\ cpc[d] \in {"reads", "writes"} /\ r \in due[d] /\ r \in Req
            /\ WaitKinds(d)' = WaitKinds(d) /\ at'[d] = at[d]
        BY <1>2, <1>4, <2>1, <3>2 DEF WaitKinds
      <4>2. QED
        BY <1>0, <1>6, <1>7, <4>1 DEF Waiting
    <3>3. QED
      BY <3>1, <3>2
  <2>2. QED
    BY <2>1 DEF Waiting
<1>14. Waited'
  BY <1>0, <1>6 DEF Waited
<1>15. QED
  BY <1>5, <1>7, <1>9, <1>10, <1>11, <1>12, <1>13, <1>14 DEF IOInv


\* A wait goes on to the next thread, or ends.
LEMMA WaitStepStep ==
  ASSUME IOInv, NEW c \in Caller, WaitReadsStep(c) \/ WaitWritesStep(c)
  PROVE  IOInv'
<1>0. /\ TypeOK /\ PendingExact /\ Kinded /\ Calls /\ Unissued /\ MovedExact
      /\ CountExact /\ FreedExact /\ DoneExact /\ Waiting /\ Waited
  BY DEF IOInv
<1> DEFINE a == at[c]
<1>1. /\ cpc[c] \in {"reads", "writes"}
      /\ cpc[c] = "reads" => pending_reads[a] = 0
      /\ cpc[c] = "writes" => pending_writes[a] = 0
      /\ IF a + 1 < K
         THEN at' = [at EXCEPT ![c] = @ + 1] /\ UNCHANGED <<cpc, due, waited>>
         ELSE /\ at' = [at EXCEPT ![c] = 0]
              /\ cpc' = [cpc EXCEPT ![c] = "idle"]
              /\ waited' = waited \cup due[c]
              /\ due' = [due EXCEPT ![c] = {}]
      /\ UNCHANGED <<counters, queues, running, tvars, mine, left, rvars>>
  BY DEF WaitReadsStep, WaitWritesStep, WaitStep, NothingPending
<1>2. /\ cpc \in [Caller -> {"idle", "raise", "push", "spin", "reads", "writes"}]
      /\ at \in [Caller -> Thread] /\ due \in [Caller -> SUBSET Req] /\ waited \subseteq Req
  BY <1>0 DEF TypeOK
<1>3. a \in Thread /\ a \in Nat /\ K \in Nat \ {0} /\ Thread = 0 .. K - 1
  BY <1>2, Basics DEF Thread
<1>4. TypeOK'
  <2>1. CASE a + 1 < K
    <3>1. a + 1 \in Thread
      BY <1>3, <2>1
    <3>2. at' \in [Caller -> Thread]
      BY <1>1, <1>2, <2>1, <3>1
    <3>3. QED
      BY <1>0, <1>1, <2>1, <3>2 DEF TypeOK, counters, queues, tvars, rvars
  <2>2. CASE ~ (a + 1 < K)
    <3>1. 0 \in Thread
      BY <1>3
    <3>2. /\ cpc' \in [Caller -> {"idle", "raise", "push", "spin", "reads", "writes"}]
          /\ at' \in [Caller -> Thread] /\ due' \in [Caller -> SUBSET Req] /\ waited' \subseteq Req
      BY <1>1, <1>2, <2>2, <3>1
    <3>3. QED
      BY <1>0, <1>1, <3>2 DEF TypeOK, counters, queues, tvars, rvars
  <2>3. QED
    BY <2>1, <2>2
<1>5. /\ UNCHANGED <<queues, tvars, kind, size, moved, done, mine, left>>
      /\ kind' = kind /\ size' = size /\ count' = count /\ freed' = freed /\ moved' = moved
      /\ mine' = mine /\ left' = left
      /\ pending_reads' = pending_reads /\ pending_writes' = pending_writes
      /\ prioqueue' = prioqueue /\ readqueue' = readqueue /\ commitqueue' = commitqueue
  BY <1>1 DEF rvars, counters, queues
<1>6. /\ Kinded' /\ MovedExact' /\ DoneExact'
      /\ \A r \in Req : Untransferred(r)' = Untransferred(r) /\ ToRelease(r)' = ToRelease(r)
      /\ \A k \in Thread : \A knds : InHand(k, knds)' = InHand(k, knds)
  BY <1>5, ChunksUntouched
<1>7. \A d \in Caller \ {c} : cpc'[d] = cpc[d] /\ at'[d] = at[d] /\ due'[d] = due[d]
  <2>1. CASE a + 1 < K
    BY <1>1, <1>2, <2>1
  <2>2. CASE ~ (a + 1 < K)
    BY <1>1, <1>2, <2>2
  <2>3. QED
    BY <2>1, <2>2
<1>8. cpc'[c] \in {"reads", "writes", "idle"}
  <2>1. CASE a + 1 < K
    BY <1>1, <2>1
  <2>2. CASE ~ (a + 1 < K)
    BY <1>1, <1>2, <2>2
  <2>3. QED
    BY <2>1, <2>2
<1>9. \A d \in Caller : (cpc'[d] \in Calling <=> cpc[d] \in Calling)
                       /\ (cpc'[d] = "push" <=> cpc[d] = "push")
                       /\ (cpc'[d] \in {"raise", "push"} <=> cpc[d] \in {"raise", "push"})
                       /\ (cpc'[d] = "spin" <=> cpc[d] = "spin")
  BY <1>1, <1>7, <1>8 DEF Calling
<1>10. PendingExact'
  <2>1. ASSUME NEW k \in Thread, NEW knds PROVE Announced(k, knds)' = Announced(k, knds)
    BY <1>5, <1>9 DEF Announced
  <2>2. QED
    BY <1>0, <1>5, <1>6, <2>1 DEF PendingExact
<1>11. Calls'
  BY <1>0, <1>5, <1>9 DEF Calls
<1>12. Unissued' /\ FreedExact'
  BY <1>0, <1>5 DEF Unissued, FreedExact, Counted
<1>13. CountExact'
  <2>1. ASSUME NEW r \in Req PROVE Owned(r)' <=> Owned(r)
    BY <1>5, <1>9 DEF Owned
  <2>2. ASSUME NEW r \in Req PROVE One(Owned(r)') = One(Owned(r))
    BY <2>1 DEF One
  <2>3. QED
    BY <1>0, <1>5, <1>6, <2>2 DEF CountExact
\* What the wait has seen.
<1>14. ASSUME NEW r \in due[c] PROVE r \in Req /\ Untransferred(r)[a] = 0
  <2>1. r \in Req /\ kind[r] \in WaitKinds(c)
    BY <1>0, <1>1, <1>2 DEF Waiting
  <2>2. QueueKinds(a)
    BY <1>0, <1>3 DEF Kinded
  <2>3. /\ prioqueue[a] \in Seq(Req) /\ readqueue[a] \in Seq(Req) /\ commitqueue[a] \in Seq(Req)
        /\ Len(prioqueue[a]) \in Nat /\ Len(readqueue[a]) \in Nat /\ Len(commitqueue[a]) \in Nat
    <3>1. \A k \in Thread : /\ prioqueue[k] \in Seq(Req) /\ readqueue[k] \in Seq(Req)
                            /\ commitqueue[k] \in Seq(Req)
      BY <1>0 DEF TypeOK
    <3> HIDE DEF a
    <3>2. QED
      BY <1>3, <3>1
  <2>4. PendingReads(a) /\ PendingWrites(a)
    BY <1>0, <1>3, PendingByThread
  <2>5. /\ Cardinality(Announced(a, Reads)) \in Nat
        /\ Cardinality(Announced(a, Kinds \ Reads)) \in Nat
    BY AnnouncedFinite
  <2>6. InHand(a, Reads) \in Nat /\ InHand(a, Kinds \ Reads) \in Nat
    BY DEF InHand
  <2>7. /\ InHand(a, WaitKinds(c)) = 0
        /\ \A x \in 1 .. Len(prioqueue[a]) : prioqueue[a][x] # r
        /\ \A x \in 1 .. Len(readqueue[a]) : readqueue[a][x] # r
        /\ \A x \in 1 .. Len(commitqueue[a]) : commitqueue[a][x] # r
    <3>1. CASE cpc[c] = "reads"
      <4>1. WaitKinds(c) = Reads
        BY <3>1 DEF WaitKinds
      <4>2. Len(prioqueue[a]) + Len(readqueue[a]) \in Nat
        BY <2>3, NatSum, Zenon
      <4>3. Len(prioqueue[a]) + Len(readqueue[a]) = 0 /\ InHand(a, Reads) = 0
        <5> DEFINE queued == Len(prioqueue[a]) + Len(readqueue[a])
        <5>1. 0 = queued + InHand(a, Reads) + Cardinality(Announced(a, Reads))
          BY <1>1, <2>4, <3>1 DEF PendingReads
        <5>2. queued \in Nat
          BY <4>2
        <5> HIDE DEF queued
        <5>3. queued = 0 /\ InHand(a, Reads) = 0
          BY <2>5, <2>6, <5>1, <5>2
        <5>4. QED
          BY <5>3 DEF queued
      <4>4. Len(prioqueue[a]) = 0 /\ Len(readqueue[a]) = 0
        BY <2>3, <4>3, NatSumZero, Zenon
      <4>5. \A x \in 1 .. Len(commitqueue[a]) : commitqueue[a][x] # r
        BY <2>1, <2>2, <4>1 DEF QueueKinds, Reads
      <4>6. QED
        BY <4>1, <4>3, <4>4, <4>5
    <3>2. CASE cpc[c] = "writes"
      <4>1. WaitKinds(c) = Kinds \ Reads
        BY <3>2 DEF WaitKinds
      <4>2. Len(commitqueue[a]) = 0 /\ InHand(a, Kinds \ Reads) = 0
        <5>1. 0 = Len(commitqueue[a]) + InHand(a, Kinds \ Reads)
                   + Cardinality(Announced(a, Kinds \ Reads))
          BY <1>1, <2>4, <3>2 DEF PendingWrites
        <5>2. QED
          BY <2>3, <2>5, <2>6, <5>1
      <4>3. kind[r] # "now" /\ kind[r] # "read"
        BY <2>1, <4>1 DEF Reads
      <4>4. /\ \A x \in 1 .. Len(prioqueue[a]) : prioqueue[a][x] # r
            /\ \A x \in 1 .. Len(readqueue[a]) : readqueue[a][x] # r
        BY <2>2, <4>3 DEF QueueKinds
      <4>5. QED
        BY <4>1, <4>2, <4>4
    <3>3. QED
      BY <1>1, <3>1, <3>2
  <2>8. At(a, r) = 0
    <3>1. /\ Chunks(prioqueue[a], r) = 0 /\ Chunks(readqueue[a], r) = 0
          /\ Chunks(commitqueue[a], r) = 0
      BY <2>1, <2>3, <2>7, ChunksFacts
    <3>2. QED
      BY <3>1 DEF At
  <2>9. ~ (task[a] = r /\ tpc[a] = "transfer")
    <3>1. r # NoReq
      BY <2>1, Basics
    <3>2. QED
      BY <2>1, <2>7, <3>1 DEF InHand
  <2>10. QED
    BY <1>3, <2>1, <2>8, <2>9 DEF Untransferred, One
<1>15. Waiting'
  <2>1. ASSUME NEW d \in Caller, cpc'[d] \in {"reads", "writes"}, NEW r \in due'[d]
        PROVE  /\ kind'[r] \in WaitKinds(d)'
               /\ \A b \in Caller : mine'[b] = r => left'[b] = <<>>
               /\ \A k \in Thread : k < at'[d] => Untransferred(r)'[k] = 0
    <3>1. CASE d = c
      <4>1. a + 1 < K
        BY <1>1, <1>2, <2>1, <3>1
      <4>2. /\ cpc' = cpc /\ r \in due[c] /\ at'[c] = a + 1 /\ cpc[c] \in {"reads", "writes"}
        BY <1>1, <1>2, <2>1, <3>1, <4>1
      <4>3. /\ kind[r] \in WaitKinds(c)
            /\ \A b \in Caller : mine[b] = r => left[b] = <<>>
            /\ \A k \in Thread : k < a => Untransferred(r)[k] = 0
        BY <1>0, <4>2 DEF Waiting
      <4>4. \A k \in Thread : k < a + 1 => Untransferred(r)[k] = 0
        <5>1. \A k \in Thread : k < a + 1 => k < a \/ k = a
          BY <1>3
        <5>2. QED
          BY <1>14, <4>2, <4>3, <5>1
      <4>5. WaitKinds(d)' = WaitKinds(c) /\ r \in Req
        BY <1>14, <3>1, <4>2 DEF WaitKinds
      <4>6. QED
        BY <1>5, <1>6, <3>1, <4>2, <4>3, <4>4, <4>5
    <3>2. CASE d # c
      <4>1. /\ cpc[d] \in {"reads", "writes"} /\ r \in due[d] /\ r \in Req
            /\ WaitKinds(d)' = WaitKinds(d) /\ at'[d] = at[d]
        BY <1>2, <1>7, <2>1, <3>2 DEF WaitKinds
      <4>2. QED
        BY <1>0, <1>5, <1>6, <4>1 DEF Waiting
    <3>3. QED
      BY <3>1, <3>2
  <2>2. QED
    BY <2>1 DEF Waiting
<1>16. Waited'
  <2>1. CASE a + 1 < K
    BY <1>0, <1>1, <1>5, <2>1 DEF Waited
  <2>2. CASE ~ (a + 1 < K)
    <3>1. ASSUME NEW r \in due[c] PROVE kind[r] # NoKind /\ moved[r] = size[r]
      <4>1. /\ kind[r] \in WaitKinds(c) /\ r \in Req
            /\ \A b \in Caller : mine[b] = r => left[b] = <<>>
            /\ \A k \in Thread : k < a => Untransferred(r)[k] = 0
        BY <1>0, <1>1, <1>14 DEF Waiting
      <4>2. \A k \in Thread : k < a \/ k = a
        BY <1>3, <2>2
      <4>3. \A k \in Thread : Untransferred(r)[k] = 0
        BY <1>14, <4>1, <4>2
      <4>4. \A b \in Caller : Unqueued(r)[b] = 0
        <5>1. ASSUME NEW b \in Caller PROVE Unqueued(r)[b] = 0
          <6>1. mine[b] = r => Len(left[b]) = 0
            BY <4>1
          <6>2. QED
            BY <6>1 DEF Unqueued
        <5>2. QED
          BY <5>1
      <4>5. Sum(Thread, Untransferred(r)) = 0 /\ Sum(Caller, Unqueued(r)) = 0
        <5>1. Untransferred(r) \in [Thread -> Nat] /\ Unqueued(r) \in [Caller -> Nat]
          BY <1>0, <4>1, Summands
        <5>2. Sum(Thread, Untransferred(r)) = 0
          BY <4>3, <5>1, Basics, SumFacts
        <5>3. Sum(Caller, Unqueued(r)) = 0
          BY <4>4, <5>1, Basics, SumFacts
        <5>4. QED
          BY <5>2, <5>3
      <4>6. ToTransfer(r) = 0
        BY <4>5 DEF ToTransfer
      <4>7. moved[r] = size[r]
        BY <4>1, <4>6, NothingLeft
      <4>8. kind[r] # NoKind
        BY <4>1, Basics DEF WaitKinds, Reads, Kinds
      <4>9. QED
        BY <4>7, <4>8
    <3>2. QED
      BY <1>0, <1>1, <1>5, <2>2, <3>1 DEF Waited
  <2>3. QED
    BY <2>1, <2>2
<1>17. QED
  BY <1>4, <1>6, <1>10, <1>11, <1>12, <1>13, <1>15, <1>16 DEF IOInv


\* preada_now has seen its count at 1.
LEMMA SpinNowStep ==
  ASSUME IOInv, NEW c \in Caller, SpinNow(c)
  PROVE  IOInv'
<1> DEFINE r == mine[c]
<1>0. /\ TypeOK /\ PendingExact /\ Kinded /\ Calls /\ Unissued /\ MovedExact
      /\ CountExact /\ FreedExact /\ DoneExact /\ Waiting /\ Waited
  BY DEF IOInv
<1>1. /\ cpc[c] = "spin" /\ count[r] <= 1
      /\ freed' = [freed EXCEPT ![r] = @ + 1] /\ count' = [count EXCEPT ![r] = 0]
      /\ waited' = waited \cup {r} /\ cpc' = [cpc EXCEPT ![c] = "idle"]
      /\ UNCHANGED <<counters, queues, running, tvars, mine, left, at, due, kind, size, done,
                     moved>>
  BY DEF SpinNow
<1>2. /\ cpc \in [Caller -> {"idle", "raise", "push", "spin", "reads", "writes"}]
      /\ freed \in [Req -> {0, 1}] /\ count \in [Req -> Nat]
      /\ mine \in [Caller -> Req \cup {NoReq}]
  BY <1>0 DEF TypeOK
<1>3. r \in Req /\ kind[r] = "now"
  BY <1>0, <1>1, <1>2 DEF Calls, Calling
<1>4. Owned(r)
  BY <1>1, <1>3 DEF Owned, Calling
<1>5. ToRelease(r) = 0 /\ count[r] = 1
  <2>1. count[r] = ToRelease(r) + 1
    BY <1>0, <1>3, <1>4 DEF CountExact, One
  <2>2. ToRelease(r) \in Nat /\ count[r] \in Nat
    BY <1>2, <1>3, NothingLeft
  <2>3. QED
    BY <1>1, <2>1, <2>2
<1>6. moved[r] = size[r]
  BY <1>3, <1>5, NothingLeft
<1>7. freed[r] = 0
  BY <1>0, <1>3, <1>5 DEF FreedExact, One
<1>8. /\ cpc'[c] = "idle" /\ \A d \in Caller \ {c} : cpc'[d] = cpc[d]
      /\ count'[r] = 0 /\ freed'[r] = 1
      /\ \A q \in Req \ {r} : count'[q] = count[q] /\ freed'[q] = freed[q]
  BY <1>1, <1>2, <1>3, <1>7
<1>9. TypeOK'
  <2>1. cpc' \in [Caller -> {"idle", "raise", "push", "spin", "reads", "writes"}]
    BY <1>1, <1>2
  <2>2. freed' \in [Req -> {0, 1}]
    BY <1>1, <1>2, <1>3, <1>7
  <2>3. count' \in [Req -> Nat]
    BY <1>1, <1>2
  <2>4. waited' \subseteq Req
    BY <1>0, <1>1, <1>3 DEF TypeOK
  <2> HIDE DEF r
  <2>5. QED
    BY <1>0, <1>1, <2>1, <2>2, <2>3, <2>4 DEF TypeOK, counters, queues, tvars
<1>10. /\ UNCHANGED <<queues, tvars, kind, size, moved, done, mine, left>>
       /\ kind' = kind /\ size' = size /\ moved' = moved
       /\ mine' = mine /\ left' = left /\ at' = at /\ due' = due
       /\ pending_reads' = pending_reads /\ pending_writes' = pending_writes
       /\ prioqueue' = prioqueue /\ readqueue' = readqueue /\ commitqueue' = commitqueue
  BY <1>1 DEF counters, queues
<1>11. /\ Kinded' /\ MovedExact' /\ DoneExact'
       /\ \A q \in Req : Untransferred(q)' = Untransferred(q) /\ ToRelease(q)' = ToRelease(q)
       /\ \A k \in Thread : \A knds : InHand(k, knds)' = InHand(k, knds)
  BY <1>10, ChunksUntouched
<1>12. PendingExact'
  <2>1. ASSUME NEW k \in Thread, NEW knds PROVE Announced(k, knds)' = Announced(k, knds)
    BY <1>1, <1>8, <1>10 DEF Announced
  <2>2. QED
    BY <1>0, <1>10, <1>11, <2>1 DEF PendingExact
<1>13. Calls'
  <2>1. \A d \in Caller : cpc'[d] \in Calling => cpc[d] \in Calling
    BY <1>1, <1>8 DEF Calling
  <2>2. \A d \in Caller : (cpc'[d] \in {"raise", "push"} <=> cpc[d] \in {"raise", "push"})
                          /\ (cpc'[d] = "spin" => cpc[d] = "spin")
    BY <1>1, <1>8
  <2> HIDE DEF r
  <2>3. QED
    BY <1>0, <1>10, <2>1, <2>2 DEF Calls
<1>14. Unissued'
  BY <1>0, <1>3, <1>8, <1>10 DEF Unissued, NoKind
<1>15. CountExact'
  <2>1. ASSUME NEW q \in Req, kind'[q] # "write"
        PROVE  count'[q] = ToRelease(q)' + One(Owned(q)')
    <3>1. CASE q = r
      <4>1. ToRelease(q)' = 0
        BY <1>5, <1>11, <3>1
      <4>2. ~ Owned(q)'
        BY <1>0, <1>1, <1>8, <1>10, <3>1 DEF Owned, Calls, Calling
      <4>3. One(Owned(q)') = 0
        BY <4>2 DEF One
      <4>4. QED
        BY <1>8, <3>1, <4>1, <4>3
    <3>2. CASE q # r
      <4>1. Owned(q)' <=> Owned(q)
        BY <1>1, <1>8, <1>10, <3>2 DEF Owned, Calling
      <4>2. One(Owned(q)') = One(Owned(q))
        BY <4>1 DEF One
      <4>3. count[q] = ToRelease(q) + One(Owned(q))
        BY <1>0, <1>10, <2>1 DEF CountExact
      <4>4. QED
        BY <1>8, <1>11, <3>2, <4>2, <4>3
    <3>3. QED
      BY <3>1, <3>2
  <2>2. QED
    BY <2>1 DEF CountExact
<1>16. FreedExact'
  <2>1. ASSUME NEW q \in Req PROVE freed'[q] = One(Counted(q)' /\ count'[q] = 0)
    <3>1. Counted(q)' <=> Counted(q)
      BY <1>10 DEF Counted
    <3>2. CASE q = r
      <4>1. Counted(q)
        BY <1>3, <3>2 DEF Counted
      <4>2. QED
        BY <1>8, <3>1, <3>2, <4>1 DEF One
    <3>3. CASE q # r
      <4>1. freed[q] = One(Counted(q) /\ count[q] = 0)
        BY <1>0 DEF FreedExact
      <4>2. QED
        BY <1>8, <3>1, <3>3, <4>1 DEF One
    <3>4. QED
      BY <3>2, <3>3
  <2>2. QED
    BY <2>1 DEF FreedExact
<1>17. Waiting'
  <2>1. \A d \in Caller : cpc'[d] \in {"reads", "writes"} => cpc'[d] = cpc[d]
    BY <1>8
  <2>2. \A d \in Caller : due[d] \subseteq Req
    BY <1>0 DEF TypeOK
  <2> HIDE DEF r
  <2>3. QED
    BY <1>0, <1>10, <1>11, <2>1, <2>2 DEF Waiting, WaitKinds
<1>18. Waited'
  BY <1>0, <1>1, <1>3, <1>6, <1>10 DEF Waited, NoKind
<1>19. QED
  BY <1>9, <1>11, <1>12, <1>13, <1>14, <1>15, <1>16, <1>17, <1>18 DEF IOInv

\* A caller that is to push has announced its chunk.
LEMMA RaiseStep ==
  ASSUME IOInv, NEW c \in Caller, Raise(c)
  PROVE  IOInv'
<1> DEFINE k0 == Head(left[c])
<1>0. /\ TypeOK /\ PendingExact /\ Kinded /\ Calls /\ Unissued /\ MovedExact
      /\ CountExact /\ FreedExact /\ DoneExact /\ Waiting /\ Waited
  BY DEF IOInv
<1>1. /\ cpc[c] = "raise" /\ cpc' = [cpc EXCEPT ![c] = "push"]
      /\ IF kind[mine[c]] \in Reads
         THEN pending_reads' = [pending_reads EXCEPT ![k0] = @ + 1] /\ UNCHANGED pending_writes
         ELSE pending_writes' = [pending_writes EXCEPT ![k0] = @ + 1] /\ UNCHANGED pending_reads
      /\ UNCHANGED <<queues, running, tvars, mine, left, at, due, waited, rvars>>
  BY DEF Raise, ThreadOf
<1>2. /\ cpc \in [Caller -> {"idle", "raise", "push", "spin", "reads", "writes"}]
      /\ mine \in [Caller -> Req \cup {NoReq}] /\ left \in [Caller -> Seq(Thread)]
      /\ pending_reads \in [Thread -> Nat] /\ pending_writes \in [Thread -> Nat]
      /\ kind \in [Req -> Kinds \cup {NoKind}]
  BY <1>0 DEF TypeOK
<1>3. mine[c] \in Req /\ kind[mine[c]] \in Kinds /\ k0 \in Thread
  <2>1. mine[c] \in Req /\ kind[mine[c]] # NoKind /\ left[c] # <<>>
    BY <1>0, <1>1, <1>2 DEF Calls, Calling
  <2>2. left[c] \in Seq(Thread)
    BY <1>2
  <2>3. Head(left[c]) \in Thread
    BY <2>1, <2>2
  <2>4. QED
    BY <1>2, <2>1, <2>3
<1>4. cpc'[c] = "push" /\ \A d \in Caller \ {c} : cpc'[d] = cpc[d]
  BY <1>1, <1>2
<1>5. /\ UNCHANGED <<queues, tvars, kind, size, moved, done, mine, left>>
      /\ kind' = kind /\ size' = size /\ moved' = moved /\ count' = count /\ freed' = freed
      /\ mine' = mine /\ left' = left /\ at' = at /\ due' = due /\ waited' = waited
      /\ prioqueue' = prioqueue /\ readqueue' = readqueue /\ commitqueue' = commitqueue
  BY <1>1 DEF queues, rvars
<1>6. /\ Kinded' /\ MovedExact' /\ DoneExact'
      /\ \A q \in Req : Untransferred(q)' = Untransferred(q) /\ ToRelease(q)' = ToRelease(q)
      /\ \A k \in Thread : \A knds : InHand(k, knds)' = InHand(k, knds)
  BY <1>5, ChunksUntouched
<1>7. ASSUME NEW k \in Thread, NEW knds
      PROVE  /\ k = k0 /\ kind[mine[c]] \in knds =>
                  Cardinality(Announced(k, knds)') = Cardinality(Announced(k, knds)) + 1
             /\ ~ (k = k0 /\ kind[mine[c]] \in knds) => Announced(k, knds)' = Announced(k, knds)
  <2>1. ASSUME k = k0, kind[mine[c]] \in knds
        PROVE  Announced(k, knds)' = Announced(k, knds) \cup {c} /\ c \notin Announced(k, knds)
    BY <1>1, <1>4, <1>5, <2>1 DEF Announced
  <2>2. ASSUME ~ (k = k0 /\ kind[mine[c]] \in knds)
        PROVE  Announced(k, knds)' = Announced(k, knds)
    BY <1>1, <1>4, <1>5, <2>2 DEF Announced
  <2>3. IsFiniteSet(Announced(k, knds))
    BY AnnouncedFinite
  <2>4. c \notin Announced(k, knds) =>
          Cardinality(Announced(k, knds) \cup {c}) = Cardinality(Announced(k, knds)) + 1
    BY <2>3, FS_AddElement
  <2>5. QED
    BY <2>1, <2>2, <2>4
<1>8. /\ pending_reads' \in [Thread -> Nat] /\ pending_writes' \in [Thread -> Nat]
  BY <1>1, <1>2, <1>3
<1>9. TypeOK'
  <2>1. cpc' \in [Caller -> {"idle", "raise", "push", "spin", "reads", "writes"}]
    BY <1>1, <1>2
  <2>2. QED
    BY <1>0, <1>1, <1>8, <2>1 DEF TypeOK, queues, tvars, rvars
<1>10. PendingExact'
  <2>1. ASSUME NEW k \in Thread PROVE PendingReads(k)' /\ PendingWrites(k)'
    <3>1. PendingReads(k) /\ PendingWrites(k)
      BY <1>0, PendingByThread
    <3>2. /\ Len(prioqueue[k]) \in Nat /\ Len(readqueue[k]) \in Nat /\ Len(commitqueue[k]) \in Nat
      BY <1>0 DEF TypeOK
    <3>3. /\ InHand(k, Reads) \in Nat /\ InHand(k, Kinds \ Reads) \in Nat
          /\ InHand(k, Reads)' = InHand(k, Reads)
          /\ InHand(k, Kinds \ Reads)' = InHand(k, Kinds \ Reads)
      BY <1>6 DEF InHand
    <3>4. /\ Cardinality(Announced(k, Reads)) \in Nat
          /\ Cardinality(Announced(k, Kinds \ Reads)) \in Nat
      BY AnnouncedFinite
    <3> DEFINE queued == Len(prioqueue[k]) + Len(readqueue[k])
    <3>5. queued \in Nat
      BY <3>2, NatSum, Zenon
    <3>6. /\ pending_reads[k] = queued + InHand(k, Reads) + Cardinality(Announced(k, Reads))
          /\ pending_writes[k] = Len(commitqueue[k]) + InHand(k, Kinds \ Reads)
                                   + Cardinality(Announced(k, Kinds \ Reads))
      BY <3>1 DEF PendingReads, PendingWrites
    <3>7. /\ pending_reads'[k] = queued + InHand(k, Reads) + Cardinality(Announced(k, Reads)')
          /\ pending_writes'[k] = Len(commitqueue[k]) + InHand(k, Kinds \ Reads)
                                    + Cardinality(Announced(k, Kinds \ Reads)')
      <4> HIDE DEF queued
      <4>1. CASE k # k0
        <5>1. pending_reads'[k] = pending_reads[k] /\ pending_writes'[k] = pending_writes[k]
          BY <1>1, <1>2, <4>1
        <5>2. QED
          BY <1>7, <3>6, <4>1, <5>1
      <4>2. CASE k = k0 /\ kind[mine[c]] \in Reads
        <5>1. pending_reads'[k] = pending_reads[k] + 1 /\ pending_writes'[k] = pending_writes[k]
          BY <1>1, <1>2, <4>2
        <5>2. /\ Cardinality(Announced(k, Reads)') = Cardinality(Announced(k, Reads)) + 1
              /\ Announced(k, Kinds \ Reads)' = Announced(k, Kinds \ Reads)
          BY <1>7, <4>2
        <5>3. pending_reads'[k] = queued + InHand(k, Reads) + Cardinality(Announced(k, Reads)')
          BY <3>3, <3>4, <3>5, <3>6, <5>1, <5>2
        <5>4. QED
          BY <3>6, <5>1, <5>2, <5>3
      <4>3. CASE k = k0 /\ kind[mine[c]] \notin Reads
        <5>1. pending_reads'[k] = pending_reads[k] /\ pending_writes'[k] = pending_writes[k] + 1
          BY <1>1, <1>2, <4>3
        <5>2. /\ Cardinality(Announced(k, Kinds \ Reads)')
                   = Cardinality(Announced(k, Kinds \ Reads)) + 1
              /\ Announced(k, Reads)' = Announced(k, Reads)
          BY <1>3, <1>7, <4>3
        <5>3. pending_writes'[k] = Len(commitqueue[k]) + InHand(k, Kinds \ Reads)
                                     + Cardinality(Announced(k, Kinds \ Reads)')
          <6> DEFINE n == Len(commitqueue[k])
          <6>1. n \in Nat /\ pending_writes[k] = n + InHand(k, Kinds \ Reads)
                                                 + Cardinality(Announced(k, Kinds \ Reads))
            BY <3>2, <3>6
          <6> HIDE DEF n
          <6>2. pending_writes'[k] = n + InHand(k, Kinds \ Reads)
                                       + Cardinality(Announced(k, Kinds \ Reads)')
            BY <3>3, <3>4, <5>1, <5>2, <6>1
          <6>3. QED
            BY <6>2 DEF n
        <5>4. QED
          BY <3>6, <5>1, <5>2, <5>3
      <4>4. QED
        BY <4>1, <4>2, <4>3
    <3>8. QED
      BY <1>5, <3>3, <3>7 DEF PendingReads, PendingWrites
  <2>2. QED
    BY <2>1 DEF PendingExact, PendingReads, PendingWrites
<1> HIDE DEF k0
<1>11. \A d \in Caller : (cpc'[d] \in Calling <=> cpc[d] \in Calling)
                        /\ (cpc'[d] \in {"raise", "push"} <=> cpc[d] \in {"raise", "push"})
                        /\ (cpc'[d] = "spin" <=> cpc[d] = "spin")
                        /\ (cpc'[d] \in {"reads", "writes"} => cpc'[d] = cpc[d])
  BY <1>1, <1>4 DEF Calling
<1>12. Calls'
  BY <1>0, <1>5, <1>11 DEF Calls
<1>13. Unissued' /\ FreedExact'
  BY <1>0, <1>5 DEF Unissued, FreedExact, Counted
<1>14. CountExact'
  <2>1. ASSUME NEW r \in Req PROVE Owned(r)' <=> Owned(r)
    BY <1>5, <1>11 DEF Owned
  <2>2. ASSUME NEW r \in Req PROVE One(Owned(r)') = One(Owned(r))
    BY <2>1 DEF One
  <2>3. QED
    BY <1>0, <1>5, <1>6, <2>2 DEF CountExact
<1>15. Waiting'
  <2>1. \A d \in Caller : due[d] \subseteq Req
    BY <1>0 DEF TypeOK
  <2>2. QED
    BY <1>0, <1>5, <1>6, <1>11, <2>1 DEF Waiting, WaitKinds
<1>16. Waited'
  BY <1>0, <1>5 DEF Waited
<1>17. QED
  BY <1>6, <1>9, <1>10, <1>12, <1>13, <1>14, <1>15, <1>16 DEF IOInv

\* The destructor begins, or nothing happens.
LEMMA DestroyStep ==
  ASSUME IOInv, Destroy \/ UNCHANGED vars
  PROVE  IOInv'
<1>0. /\ TypeOK /\ PendingExact /\ Kinded /\ Calls /\ Unissued /\ MovedExact
      /\ CountExact /\ FreedExact /\ DoneExact /\ Waiting /\ Waited
  BY DEF IOInv
<1>1. UNCHANGED <<counters, queues, tvars, cvars, rvars>> /\ running' \in BOOLEAN
  BY <1>0 DEF Destroy, vars, TypeOK
<1>2. /\ UNCHANGED <<queues, tvars, kind, size, moved, done, mine, left>>
      /\ kind' = kind /\ size' = size /\ moved' = moved /\ count' = count /\ freed' = freed
      /\ mine' = mine /\ left' = left /\ at' = at /\ due' = due /\ waited' = waited /\ cpc' = cpc
      /\ pending_reads' = pending_reads /\ pending_writes' = pending_writes
      /\ prioqueue' = prioqueue /\ readqueue' = readqueue /\ commitqueue' = commitqueue
  BY <1>1 DEF counters, queues, cvars, rvars
<1>3. /\ Kinded' /\ MovedExact' /\ DoneExact'
      /\ \A q \in Req : Untransferred(q)' = Untransferred(q) /\ ToRelease(q)' = ToRelease(q)
      /\ \A k \in Thread : \A knds : InHand(k, knds)' = InHand(k, knds)
  BY <1>2, ChunksUntouched
<1>4. TypeOK'
  BY <1>0, <1>1 DEF TypeOK, counters, queues, tvars, cvars, rvars
<1>5. PendingExact'
  <2>1. ASSUME NEW k \in Thread, NEW knds PROVE Announced(k, knds)' = Announced(k, knds)
    BY <1>2 DEF Announced
  <2>2. QED
    BY <1>0, <1>2, <1>3, <2>1 DEF PendingExact
<1>6. Calls' /\ Unissued' /\ FreedExact'
  BY <1>0, <1>2 DEF Calls, Unissued, FreedExact, Counted
<1>7. CountExact'
  <2>1. ASSUME NEW r \in Req PROVE One(Owned(r)') = One(Owned(r))
    BY <1>2 DEF Owned
  <2>2. QED
    BY <1>0, <1>2, <1>3, <2>1 DEF CountExact
<1>8. Waiting' /\ Waited'
  <2>1. \A d \in Caller : due[d] \subseteq Req
    BY <1>0 DEF TypeOK
  <2>2. QED
    BY <1>0, <1>2, <1>3, <2>1 DEF Waiting, WaitKinds, Waited
<1>9. QED
  BY <1>3, <1>4, <1>5, <1>6, <1>7, <1>8 DEF IOInv


\* A chunk of the queue's kinds is pushed.
LEMMA AppendKinds ==
  ASSUME NEW q \in Seq(Req), NEW e \in Req, NEW S,
         \A x \in 1 .. Len(q) : kind[q[x]] \in S, kind[e] \in S
  PROVE  \A x \in 1 .. Len(Append(q, e)) : kind[Append(q, e)[x]] \in S
<1> DEFINE p == Append(q, e)
<1>1. /\ Len(p) = Len(q) + 1 /\ Len(q) \in Nat
      /\ \A x \in 1 .. Len(q) + 1 : p[x] = IF x = Len(q) + 1 THEN e ELSE q[x]
  BY ChunksAppend
<1> HIDE DEF p
<1>2. ASSUME NEW x \in 1 .. Len(p) PROVE kind[p[x]] \in S
  <2>1. x = Len(q) + 1 \/ x \in 1 .. Len(q)
    BY <1>1
  <2>2. x \in 1 .. Len(q) => x # Len(q) + 1
    BY <1>1
  <2>3. QED
    BY <1>1, <2>1, <2>2
<1>3. QED
  BY <1>2 DEF p

\* A sequence without its first member.
LEMMA TailFacts ==
  ASSUME NEW S, NEW s \in Seq(S), s # <<>>
  PROVE  /\ Head(s) \in S /\ Tail(s) \in Seq(S)
         /\ Len(s) \in Nat \ {0} /\ Len(Tail(s)) = Len(s) - 1 /\ Len(Tail(s)) \in Nat
         /\ Tail(s) = <<>> <=> ~ (Len(s) > 1)
<1>1. /\ Head(s) \in S /\ Tail(s) \in Seq(S)
      /\ Len(s) \in Nat \ {0} /\ Len(Tail(s)) = Len(s) - 1
  OBVIOUS
<1>2. Len(Tail(s)) \in Nat /\ (Len(Tail(s)) = 0 <=> ~ (Len(s) > 1))
  BY <1>1
<1>3. Tail(s) = <<>> <=> Len(Tail(s)) = 0
  BY <1>1, EmptySeq
<1>4. QED
  BY <1>1, <1>2, <1>3

\* A caller pushes its next chunk.
LEMMA PushStep ==
  ASSUME IOInv, NEW c \in Caller, Push(c)
  PROVE  IOInv'
<1> DEFINE r == mine[c]
           k0 == Head(left[c])
<1>0. /\ TypeOK /\ PendingExact /\ Kinded /\ Calls /\ Unissued /\ MovedExact
      /\ CountExact /\ FreedExact /\ DoneExact /\ Waiting /\ Waited
  BY DEF IOInv
<1>1. /\ cpc[c] = "push" /\ left' = [left EXCEPT ![c] = Tail(@)]
      /\ cpc' = [cpc EXCEPT ![c] = IF Len(left[c]) > 1 THEN "raise" ELSE AfterQueueing(kind[r])]
      /\ prioqueue' = IF kind[r] = "now"
                      THEN [prioqueue EXCEPT ![k0] = Append(@, r)] ELSE prioqueue
      /\ readqueue' = IF kind[r] = "read"
                      THEN [readqueue EXCEPT ![k0] = Append(@, r)] ELSE readqueue
      /\ commitqueue' = IF kind[r] \in {"write", "writefree"}
                        THEN [commitqueue EXCEPT ![k0] = Append(@, r)] ELSE commitqueue
      /\ UNCHANGED <<counters, running, tvars, mine, at, due, waited, rvars>>
  BY DEF Push, PushOn
<1>2. /\ cpc \in [Caller -> {"idle", "raise", "push", "spin", "reads", "writes"}]
      /\ mine \in [Caller -> Req \cup {NoReq}] /\ left \in [Caller -> Seq(Thread)]
      /\ kind \in [Req -> Kinds \cup {NoKind}]
      /\ prioqueue \in [Thread -> Seq(Req)] /\ readqueue \in [Thread -> Seq(Req)]
      /\ commitqueue \in [Thread -> Seq(Req)]
  BY <1>0 DEF TypeOK
<1>3. /\ r \in Req /\ kind[r] \in Kinds /\ k0 \in Thread /\ left[c] # <<>>
      /\ Tail(left[c]) \in Seq(Thread) /\ Len(left[c]) \in Nat \ {0}
      /\ Len(Tail(left[c])) = Len(left[c]) - 1 /\ Len(Tail(left[c])) \in Nat
      /\ Tail(left[c]) = <<>> <=> ~ (Len(left[c]) > 1)
  <2>1. r \in Req /\ kind[r] # NoKind /\ left[c] # <<>>
    BY <1>0, <1>1, <1>2 DEF Calls, Calling
  <2> HIDE DEF r
  <2>2. left[c] \in Seq(Thread)
    BY <1>2
  <2>3. /\ Head(left[c]) \in Thread /\ Tail(left[c]) \in Seq(Thread)
        /\ Len(left[c]) \in Nat \ {0} /\ Len(Tail(left[c])) = Len(left[c]) - 1
        /\ Len(Tail(left[c])) \in Nat
        /\ Tail(left[c]) = <<>> <=> ~ (Len(left[c]) > 1)
    BY <2>1, <2>2, TailFacts
  <2>4. kind[r] \in Kinds
    BY <1>2, <2>1
  <2>5. QED
    BY <2>1, <2>3, <2>4
<1>4. /\ left'[c] = Tail(left[c])
      /\ cpc'[c] = IF Len(left[c]) > 1 THEN "raise" ELSE AfterQueueing(kind[r])
      /\ \A d \in Caller \ {c} : cpc'[d] = cpc[d] /\ left'[d] = left[d]
  BY <1>1, <1>2
<1>5. AfterQueueing(kind[r]) = IF kind[r] = "now" THEN "spin" ELSE "idle"
  BY DEF AfterQueueing
<1>6. /\ kind' = kind /\ size' = size /\ moved' = moved /\ count' = count /\ freed' = freed
      /\ done' = done /\ mine' = mine /\ at' = at /\ due' = due /\ waited' = waited
      /\ tpc' = tpc /\ task' = task
      /\ pending_reads' = pending_reads /\ pending_writes' = pending_writes
  BY <1>1 DEF rvars, tvars, counters
<1> HIDE DEF r, k0
<1>7. ASSUME NEW k \in Thread
      PROVE  /\ prioqueue'[k] = IF kind[r] = "now" /\ k = k0
                                THEN Append(prioqueue[k], r) ELSE prioqueue[k]
             /\ readqueue'[k] = IF kind[r] = "read" /\ k = k0
                                THEN Append(readqueue[k], r) ELSE readqueue[k]
             /\ commitqueue'[k] = IF kind[r] \in {"write", "writefree"} /\ k = k0
                                  THEN Append(commitqueue[k], r) ELSE commitqueue[k]
             /\ prioqueue[k] \in Seq(Req) /\ readqueue[k] \in Seq(Req)
             /\ commitqueue[k] \in Seq(Req)
  BY <1>1, <1>2, <1>3
<1>8. TypeOK'
  <2>1. Append(prioqueue[k0], r) \in Seq(Req) /\ Append(readqueue[k0], r) \in Seq(Req)
        /\ Append(commitqueue[k0], r) \in Seq(Req)
    BY <1>3, <1>7, ChunksAppend
  <2>2. prioqueue' \in [Thread -> Seq(Req)]
    BY <1>1, <1>2, <1>3, <2>1
  <2>3. readqueue' \in [Thread -> Seq(Req)]
    BY <1>1, <1>2, <1>3, <2>1
  <2>4. commitqueue' \in [Thread -> Seq(Req)]
    BY <1>1, <1>2, <1>3, <2>1
  <2>5. cpc' \in [Caller -> {"idle", "raise", "push", "spin", "reads", "writes"}]
    BY <1>1, <1>2, <1>5
  <2>6. left' \in [Caller -> Seq(Thread)]
    BY <1>1, <1>2, <1>3
  <2>7. QED
    BY <1>0, <1>1, <2>2, <2>3, <2>4, <2>5, <2>6 DEF TypeOK, counters, tvars, rvars
\* The queues.
<1>9. ASSUME NEW k \in Thread, NEW q \in Req
      PROVE  At(k, q)' = At(k, q) + One(k = k0 /\ q = r) /\ At(k, q) \in Nat
  <2>1. /\ At(k, q) = Chunks(prioqueue[k], q) + Chunks(readqueue[k], q)
                        + Chunks(commitqueue[k], q)
        /\ At(k, q)' = Chunks(prioqueue'[k], q) + Chunks(readqueue'[k], q)
                        + Chunks(commitqueue'[k], q)
    BY DEF At, Chunks
  <2>2. /\ Chunks(prioqueue[k], q) \in Nat /\ Chunks(readqueue[k], q) \in Nat
        /\ Chunks(commitqueue[k], q) \in Nat /\ At(k, q) \in Nat
    BY <1>0, <1>7, ChunksFacts, Summands
  <2>3. CASE k # k0
    <3>1. One(k = k0 /\ q = r) = 0
      BY <2>3 DEF One
    <3>2. /\ prioqueue'[k] = prioqueue[k] /\ readqueue'[k] = readqueue[k]
          /\ commitqueue'[k] = commitqueue[k]
      BY <1>7, <2>3
    <3>3. QED
      BY <2>1, <2>2, <3>1, <3>2
  <2>4. CASE k = k0
    <3>1. /\ Chunks(Append(prioqueue[k], r), q) = Chunks(prioqueue[k], q) + One(r = q)
          /\ Chunks(Append(readqueue[k], r), q) = Chunks(readqueue[k], q) + One(r = q)
          /\ Chunks(Append(commitqueue[k], r), q) = Chunks(commitqueue[k], q) + One(r = q)
      BY <1>3, <1>7, ChunksAppend
    <3>2. One(k = k0 /\ q = r) = One(r = q) /\ One(r = q) \in Nat
      BY <2>4 DEF One
    <3>3. CASE kind[r] = "now"
      <4>1. /\ prioqueue'[k] = Append(prioqueue[k], r) /\ readqueue'[k] = readqueue[k]
            /\ commitqueue'[k] = commitqueue[k]
        BY <1>7, <2>4, <3>3
      <4>2. QED
        BY <2>1, <2>2, <3>1, <3>2, <4>1
    <3>4. CASE kind[r] = "read"
      <4>1. /\ prioqueue'[k] = prioqueue[k] /\ readqueue'[k] = Append(readqueue[k], r)
            /\ commitqueue'[k] = commitqueue[k]
        BY <1>7, <2>4, <3>4
      <4>2. QED
        BY <2>1, <2>2, <3>1, <3>2, <4>1
    <3>5. CASE kind[r] \in {"write", "writefree"}
      <4>1. /\ prioqueue'[k] = prioqueue[k] /\ readqueue'[k] = readqueue[k]
            /\ commitqueue'[k] = Append(commitqueue[k], r)
        BY <1>7, <2>4, <3>5
      <4>2. QED
        BY <2>1, <2>2, <3>1, <3>2, <4>1
    <3>6. QED
      BY <1>3, <3>3, <3>4, <3>5 DEF Kinds
  <2>5. QED
    BY <2>3, <2>4
<1>10. Kinded'
  <2>1. ASSUME NEW k \in Thread PROVE QueueKinds(k)' /\ TaskKind(k)'
    <3>1. QueueKinds(k) /\ TaskKind(k)
      BY <1>0 DEF Kinded
    <3>2. TaskKind(k)'
      BY <1>6, <3>1 DEF TaskKind, HasDone
    <3>3. \A x \in 1 .. Len(prioqueue'[k]) : kind[prioqueue'[k][x]] = "now"
      <4>1. \A x \in 1 .. Len(prioqueue[k]) : kind[prioqueue[k][x]] = "now"
        BY <3>1 DEF QueueKinds
      <4>2. CASE kind[r] = "now" /\ k = k0
        <5>1. prioqueue'[k] = Append(prioqueue[k], r) /\ prioqueue[k] \in Seq(Req)
          BY <1>7, <4>2
        <5>2. QED
          BY <1>3, <4>1, <4>2, <5>1, AppendKinds
      <4>3. CASE ~ (kind[r] = "now" /\ k = k0)
        BY <1>7, <4>1, <4>3
      <4>4. QED
        BY <4>2, <4>3
    <3>4. \A x \in 1 .. Len(readqueue'[k]) : kind[readqueue'[k][x]] = "read"
      <4>1. \A x \in 1 .. Len(readqueue[k]) : kind[readqueue[k][x]] = "read"
        BY <3>1 DEF QueueKinds
      <4>2. CASE kind[r] = "read" /\ k = k0
        <5>1. readqueue'[k] = Append(readqueue[k], r) /\ readqueue[k] \in Seq(Req)
          BY <1>7, <4>2
        <5>2. QED
          BY <1>3, <4>1, <4>2, <5>1, AppendKinds
      <4>3. CASE ~ (kind[r] = "read" /\ k = k0)
        BY <1>7, <4>1, <4>3
      <4>4. QED
        BY <4>2, <4>3
    <3>5. \A x \in 1 .. Len(commitqueue'[k]) : kind[commitqueue'[k][x]] \in {"write", "writefree"}
      <4>1. \A x \in 1 .. Len(commitqueue[k]) : kind[commitqueue[k][x]] \in {"write", "writefree"}
        BY <3>1 DEF QueueKinds
      <4>2. CASE kind[r] \in {"write", "writefree"} /\ k = k0
        <5>1. commitqueue'[k] = Append(commitqueue[k], r) /\ commitqueue[k] \in Seq(Req)
          BY <1>7, <4>2
        <5>2. QED
          BY <1>3, <4>1, <4>2, <5>1, AppendKinds
      <4>3. CASE ~ (kind[r] \in {"write", "writefree"} /\ k = k0)
        BY <1>7, <4>1, <4>3
      <4>4. QED
        BY <4>2, <4>3
    <3>6. QED
      BY <1>6, <3>2, <3>3, <3>4, <3>5 DEF QueueKinds
  <2>2. QED
    BY <2>1 DEF Kinded
\* The counters of the threads.
<1>11. ASSUME NEW k \in Thread, NEW knds
       PROVE  /\ k = k0 /\ kind[r] \in knds =>
                   Cardinality(Announced(k, knds)') = Cardinality(Announced(k, knds)) - 1
              /\ ~ (k = k0 /\ kind[r] \in knds) => Announced(k, knds)' = Announced(k, knds)
  <2>1. cpc'[c] # "push"
    BY <1>4, <1>5
  <2>2. ASSUME k = k0, kind[r] \in knds
        PROVE  Announced(k, knds)' = Announced(k, knds) \ {c} /\ c \in Announced(k, knds)
    BY <1>1, <1>4, <1>6, <2>1, <2>2 DEF Announced, r, k0
  <2>3. ASSUME ~ (k = k0 /\ kind[r] \in knds)
        PROVE  Announced(k, knds)' = Announced(k, knds)
    BY <1>1, <1>4, <1>6, <2>1, <2>3 DEF Announced, r, k0
  <2>4. IsFiniteSet(Announced(k, knds))
    BY AnnouncedFinite
  <2>5. c \in Announced(k, knds) =>
          Cardinality(Announced(k, knds) \ {c}) = Cardinality(Announced(k, knds)) - 1
    BY <2>4, FS_RemoveElement
  <2>6. QED
    BY <2>2, <2>3, <2>5
<1>12. PendingExact'
  <2>1. ASSUME NEW k \in Thread PROVE PendingReads(k)' /\ PendingWrites(k)'
    <3>1. PendingReads(k) /\ PendingWrites(k)
      BY <1>0, PendingByThread
    <3>2. /\ Len(prioqueue[k]) \in Nat /\ Len(readqueue[k]) \in Nat /\ Len(commitqueue[k]) \in Nat
      BY <1>7
    <3>3. /\ InHand(k, Reads) \in Nat /\ InHand(k, Kinds \ Reads) \in Nat
          /\ InHand(k, Reads)' = InHand(k, Reads)
          /\ InHand(k, Kinds \ Reads)' = InHand(k, Kinds \ Reads)
      BY <1>6 DEF InHand
    <3>4. /\ Cardinality(Announced(k, Reads)) \in Nat
          /\ Cardinality(Announced(k, Kinds \ Reads)) \in Nat
      BY AnnouncedFinite
    <3>5. CASE k # k0
      <4>1. /\ Announced(k, Reads)' = Announced(k, Reads)
            /\ Announced(k, Kinds \ Reads)' = Announced(k, Kinds \ Reads)
        BY <1>11, <3>5
      <4>2. /\ prioqueue'[k] = prioqueue[k] /\ readqueue'[k] = readqueue[k]
            /\ commitqueue'[k] = commitqueue[k]
        BY <1>7, <3>5
      <4>3. QED
        BY <1>6, <3>1, <3>3, <4>1, <4>2 DEF PendingReads, PendingWrites
    <3>6. CASE k = k0 /\ kind[r] \in Reads
      <4>1. /\ Cardinality(Announced(k, Reads)') = Cardinality(Announced(k, Reads)) - 1
            /\ Announced(k, Kinds \ Reads)' = Announced(k, Kinds \ Reads)
        BY <1>11, <3>6
      <4>2. /\ commitqueue'[k] = commitqueue[k]
            /\ \/ prioqueue'[k] = Append(prioqueue[k], r) /\ readqueue'[k] = readqueue[k]
               \/ prioqueue'[k] = prioqueue[k] /\ readqueue'[k] = Append(readqueue[k], r)
        BY <1>7, <3>6 DEF Reads
      <4> DEFINE queued == Len(prioqueue[k]) + Len(readqueue[k])
      <4>3. queued \in Nat
        BY <3>2, NatSum, Zenon
      <4>4. Len(prioqueue'[k]) + Len(readqueue'[k]) = queued + 1
        <5>1. /\ Len(Append(prioqueue[k], r)) = Len(prioqueue[k]) + 1
              /\ Len(Append(readqueue[k], r)) = Len(readqueue[k]) + 1
          BY <1>3, <1>7, ChunksAppend
        <5>2. CASE prioqueue'[k] = Append(prioqueue[k], r) /\ readqueue'[k] = readqueue[k]
          <6>1. /\ Len(prioqueue'[k]) = Len(prioqueue[k]) + 1
                /\ Len(readqueue'[k]) = Len(readqueue[k])
            BY <5>1, <5>2
          <6>2. (Len(prioqueue[k]) + 1) + Len(readqueue[k]) = queued + 1
            BY <3>2, NatAdd, Zenon
          <6>3. QED
            BY <6>1, <6>2
        <5>3. CASE prioqueue'[k] = prioqueue[k] /\ readqueue'[k] = Append(readqueue[k], r)
          <6>1. /\ Len(prioqueue'[k]) = Len(prioqueue[k])
                /\ Len(readqueue'[k]) = Len(readqueue[k]) + 1
            BY <5>1, <5>3
          <6>2. Len(prioqueue[k]) + (Len(readqueue[k]) + 1) = queued + 1
            BY <3>2, NatAdd, Zenon
          <6>3. QED
            BY <6>1, <6>2
        <5>4. QED
          BY <4>2, <5>2, <5>3
      <4>5. pending_reads[k] = queued + InHand(k, Reads) + Cardinality(Announced(k, Reads))
        BY <3>1 DEF PendingReads
      <4>6. PendingReads(k)'
        <5> HIDE DEF queued
        <5>1. pending_reads[k] = queued + 1 + InHand(k, Reads) + Cardinality(Announced(k, Reads)')
          BY <3>3, <3>4, <4>1, <4>3, <4>5
        <5>2. QED
          BY <1>6, <3>3, <4>4, <5>1 DEF PendingReads
      <4>7. PendingWrites(k)'
        BY <1>6, <3>1, <3>3, <4>1, <4>2 DEF PendingWrites
      <4>8. QED
        BY <4>6, <4>7
    <3>7. CASE k = k0 /\ kind[r] \notin Reads
      <4>1. /\ Announced(k, Reads)' = Announced(k, Reads)
            /\ Cardinality(Announced(k, Kinds \ Reads)')
                 = Cardinality(Announced(k, Kinds \ Reads)) - 1
        BY <1>3, <1>11, <3>7
      <4>2. /\ prioqueue'[k] = prioqueue[k] /\ readqueue'[k] = readqueue[k]
            /\ commitqueue'[k] = Append(commitqueue[k], r)
        BY <1>3, <1>7, <3>7 DEF Reads, Kinds
      <4>3. Len(commitqueue'[k]) = Len(commitqueue[k]) + 1
        BY <1>3, <1>7, <4>2, ChunksAppend
      <4>4. pending_writes[k] = Len(commitqueue[k]) + InHand(k, Kinds \ Reads)
                                  + Cardinality(Announced(k, Kinds \ Reads))
        BY <3>1 DEF PendingWrites
      <4>5. pending_writes[k] = Len(commitqueue[k]) + 1 + InHand(k, Kinds \ Reads)
                                  + Cardinality(Announced(k, Kinds \ Reads)')
        <5> DEFINE n == Len(commitqueue[k])
        <5>1. n \in Nat /\ pending_writes[k] = n + InHand(k, Kinds \ Reads)
                                               + Cardinality(Announced(k, Kinds \ Reads))
          BY <3>2, <4>4
        <5> HIDE DEF n
        <5>2. pending_writes[k] = n + 1 + InHand(k, Kinds \ Reads)
                                    + Cardinality(Announced(k, Kinds \ Reads)')
          BY <3>3, <3>4, <4>1, <5>1
        <5>3. QED
          BY <5>2 DEF n
      <4>6. PendingWrites(k)'
        BY <1>6, <3>3, <4>3, <4>5 DEF PendingWrites
      <4>7. PendingReads(k)'
        BY <1>6, <3>1, <3>3, <4>1, <4>2 DEF PendingReads
      <4>8. QED
        BY <4>6, <4>7
    <3>8. QED
      BY <3>5, <3>6, <3>7
  <2>2. QED
    BY <2>1 DEF PendingExact, PendingReads, PendingWrites
\* The chunk leaves the caller's part of a sum for the thread's.
<1>13. ASSUME NEW q \in Req
       PROVE  /\ ToTransfer(q)' = ToTransfer(q) /\ ToRelease(q)' = ToRelease(q)
              /\ ToFinish(q)' = ToFinish(q)
              /\ q # r => \A k \in Thread : Untransferred(q)'[k] = Untransferred(q)[k]
  <2>1. \A j \in Thread \ {k0} :
          /\ At(j, q)' = At(j, q) /\ tpc'[j] = tpc[j] /\ task'[j] = task[j]
          /\ tpc[j] \in Working => kind'[task[j]] = kind[task[j]]
    <3>1. \A j \in Thread \ {k0} : One(j = k0 /\ q = r) = 0
      BY DEF One
    <3>2. \A j \in Thread \ {k0} : At(j, q)' = At(j, q)
      BY <1>9, <3>1
    <3>3. QED
      BY <1>6, <3>2
  <2>2. /\ Sum(Thread, Untransferred(q)') = Sum(Thread, Untransferred(q))
                                             - Untransferred(q)[k0] + Untransferred(q)'[k0]
        /\ Sum(Thread, Unreleased(q)') = Sum(Thread, Unreleased(q))
                                             - Unreleased(q)[k0] + Unreleased(q)'[k0]
        /\ Sum(Thread, Unfinished(q)') = Sum(Thread, Unfinished(q))
                                             - Unfinished(q)[k0] + Unfinished(q)'[k0]
    BY <1>0, <1>3, <1>8, <2>1, ThreadSums
  <2>3. ASSUME NEW k \in Thread
        PROVE  /\ Untransferred(q)'[k] = Untransferred(q)[k] + One(k = k0 /\ q = r)
               /\ Unreleased(q)'[k] = Unreleased(q)[k] + One(k = k0 /\ q = r)
               /\ Unfinished(q)'[k] = Unfinished(q)[k] + One(k = k0 /\ q = r)
               /\ Untransferred(q)[k] \in Nat /\ Unreleased(q)[k] \in Nat
               /\ Unfinished(q)[k] \in Nat
    <3> DEFINE a == At(k, q)
               u == One(task[k] = q /\ tpc[k] = "transfer")
               v == One(task[k] = q /\ Holds(k))
               w == One(task[k] = q /\ tpc[k] \in Working)
               p == One(k = k0 /\ q = r)
    <3>1. a \in Nat /\ At(k, q)' = a + p
      BY <1>9
    <3>2. u \in Nat /\ v \in Nat /\ w \in Nat /\ p \in Nat
      BY DEF One
    <3>3. Untransferred(q)[k] = a + u /\ Unreleased(q)[k] = a + v /\ Unfinished(q)[k] = a + w
      BY DEF Untransferred, Unreleased, Unfinished
    <3>4. /\ Untransferred(q)'[k] = At(k, q)' + u /\ Unreleased(q)'[k] = At(k, q)' + v
          /\ Unfinished(q)'[k] = At(k, q)' + w
      BY <1>6 DEF Untransferred, Unreleased, Unfinished, Holds
    <3> HIDE DEF a, u, v, w, p
    <3>5. /\ Untransferred(q)'[k] = Untransferred(q)[k] + p
          /\ Unreleased(q)'[k] = Unreleased(q)[k] + p
          /\ Unfinished(q)'[k] = Unfinished(q)[k] + p
          /\ Untransferred(q)[k] \in Nat /\ Unreleased(q)[k] \in Nat
          /\ Unfinished(q)[k] \in Nat
      BY <3>1, <3>2, <3>3, <3>4
    <3>6. QED
      BY <3>5 DEF p
  <2>4. Sum(Caller, Unqueued(q)') = Sum(Caller, Unqueued(q)) - One(q = r)
    <3>1. \A d \in Caller \ {c} : mine'[d] = mine[d] /\ left'[d] = left[d]
      BY <1>4, <1>6
    <3>2. Sum(Caller, Unqueued(q)')
            = Sum(Caller, Unqueued(q)) - Unqueued(q)[c] + Unqueued(q)'[c]
      BY <1>0, <1>8, <3>1, CallerSum
    <3>3. /\ Unqueued(q)[c] = IF r = q THEN Len(left[c]) ELSE 0
          /\ Unqueued(q)'[c] = IF r = q THEN Len(left[c]) - 1 ELSE 0
      BY <1>3, <1>4, <1>6 DEF Unqueued, r
    <3>4. Sum(Caller, Unqueued(q)) \in Nat
      BY <1>0, Totals
    <3>5. One(q = r) = IF r = q THEN 1 ELSE 0
      BY DEF One
    <3>6. Len(left[c]) \in Nat
      BY <1>3
    <3>7. QED
      BY <3>2, <3>3, <3>4, <3>5, <3>6
  <2>5. One(k0 = k0 /\ q = r) = One(q = r) /\ One(q = r) \in Nat
    BY DEF One
  <2> DEFINE T == Sum(Thread, Untransferred(q))
             R == Sum(Thread, Unreleased(q))
             F == Sum(Thread, Unfinished(q))
             C == Sum(Caller, Unqueued(q))
             o == One(q = r)
  <2>6. T \in Nat /\ R \in Nat /\ F \in Nat /\ C \in Nat /\ o \in Nat
    BY <1>0, <2>5, Totals
  <2>7. /\ ToTransfer(q) = T + C /\ ToRelease(q) = R + C /\ ToFinish(q) = F + C
    BY DEF ToTransfer, ToRelease, ToFinish
  <2>8. /\ ToTransfer(q)' = Sum(Thread, Untransferred(q)') + Sum(Caller, Unqueued(q)')
        /\ ToRelease(q)' = Sum(Thread, Unreleased(q)') + Sum(Caller, Unqueued(q)')
        /\ ToFinish(q)' = Sum(Thread, Unfinished(q)') + Sum(Caller, Unqueued(q)')
    BY DEF ToTransfer, ToRelease, ToFinish
  <2>9. /\ Sum(Thread, Untransferred(q)') = T + o /\ Sum(Thread, Unreleased(q)') = R + o
        /\ Sum(Thread, Unfinished(q)') = F + o /\ Sum(Caller, Unqueued(q)') = C - o
    <3>1. /\ Untransferred(q)'[k0] = Untransferred(q)[k0] + o
          /\ Unreleased(q)'[k0] = Unreleased(q)[k0] + o
          /\ Unfinished(q)'[k0] = Unfinished(q)[k0] + o
          /\ Untransferred(q)[k0] \in Nat /\ Unreleased(q)[k0] \in Nat
          /\ Unfinished(q)[k0] \in Nat
      BY <1>3, <2>3, <2>5
    <3>2. /\ Sum(Thread, Untransferred(q)') = T - Untransferred(q)[k0] + Untransferred(q)'[k0]
          /\ Sum(Thread, Unreleased(q)') = R - Unreleased(q)[k0] + Unreleased(q)'[k0]
          /\ Sum(Thread, Unfinished(q)') = F - Unfinished(q)[k0] + Unfinished(q)'[k0]
      BY <2>2
    <3>3. Sum(Caller, Unqueued(q)') = C - o
      BY <2>4
    <3> HIDE DEF T, R, F, C, o
    <3>4. Sum(Thread, Untransferred(q)') = T + o
      BY <2>6, <3>1, <3>2
    <3>5. Sum(Thread, Unreleased(q)') = R + o
      BY <2>6, <3>1, <3>2
    <3>6. Sum(Thread, Unfinished(q)') = F + o
      BY <2>6, <3>1, <3>2
    <3>7. QED
      BY <3>3, <3>4, <3>5, <3>6
  <2>10. ASSUME q # r, NEW k \in Thread PROVE Untransferred(q)'[k] = Untransferred(q)[k]
    <3>1. One(k = k0 /\ q = r) = 0
      BY <2>10 DEF One
    <3>2. QED
      BY <2>3, <3>1
  <2> HIDE DEF T, R, F, C, o
  <2>11. QED
    BY <2>6, <2>7, <2>8, <2>9, <2>10
<1>14. MovedExact' /\ DoneExact'
  BY <1>0, <1>6, <1>13 DEF MovedExact, DoneExact, HasDone
\* The callers.
<1>15. /\ cpc'[c] \in Calling <=> (Len(left[c]) > 1 \/ kind[r] = "now")
       /\ cpc'[c] \in {"raise", "push"} <=> Len(left[c]) > 1
       /\ cpc'[c] = "spin" => kind[r] = "now"
       /\ cpc'[c] \notin {"reads", "writes"} /\ cpc[c] \in Calling
  BY <1>1, <1>4, <1>5 DEF Calling
<1>16. Calls'
  <2>1. \A d \in Caller :
          /\ cpc'[d] \in {"raise", "push"} <=> left'[d] # <<>>
          /\ mine'[d] # NoReq => kind'[mine'[d]] # NoKind
          /\ cpc'[d] \in Calling => mine'[d] # NoReq
          /\ cpc'[d] = "spin" => kind'[mine'[d]] = "now"
    <3>1. ASSUME NEW d \in Caller, d # c
          PROVE  /\ cpc'[d] \in {"raise", "push"} <=> left'[d] # <<>>
                 /\ mine'[d] # NoReq => kind'[mine'[d]] # NoKind
                 /\ cpc'[d] \in Calling => mine'[d] # NoReq
                 /\ cpc'[d] = "spin" => kind'[mine'[d]] = "now"
      BY <1>0, <1>4, <1>6, <3>1 DEF Calls
    <3>2. /\ cpc'[c] \in {"raise", "push"} <=> left'[c] # <<>>
          /\ mine'[c] # NoReq => kind'[mine'[c]] # NoKind
          /\ cpc'[c] \in Calling => mine'[c] # NoReq
          /\ cpc'[c] = "spin" => kind'[mine'[c]] = "now"
      BY <1>3, <1>4, <1>6, <1>15, Basics DEF r
    <3>3. QED
      BY <3>1, <3>2
  <2>2. \A d \in Caller : cpc'[d] \in Calling => cpc[d] \in Calling
    BY <1>4, <1>15
  <2>3. \A b, d \in Caller :
          cpc'[b] \in Calling /\ cpc'[d] \in Calling /\ mine'[b] = mine'[d] => b = d
    BY <1>0, <1>6, <2>2 DEF Calls
  <2>4. QED
    BY <2>1, <2>3 DEF Calls
<1>17. Unissued' /\ FreedExact'
  BY <1>0, <1>6 DEF Unissued, FreedExact, Counted
<1>18. CountExact'
  <2>1. ASSUME NEW q \in Req PROVE Owned(q)' <=> Owned(q)
    <3>1. \A d \in Caller : kind[mine[d]] = "now" =>
            (cpc'[d] \in Calling <=> cpc[d] \in Calling)
      BY <1>4, <1>15 DEF r
    <3>2. QED
      BY <1>6, <3>1 DEF Owned
  <2>2. ASSUME NEW q \in Req PROVE One(Owned(q)') = One(Owned(q))
    BY <2>1 DEF One
  <2>3. QED
    BY <1>0, <1>6, <1>13, <2>2 DEF CountExact
<1>19. Waiting'
  <2>1. ASSUME NEW d \in Caller, cpc'[d] \in {"reads", "writes"}, NEW q \in due'[d]
        PROVE  /\ kind'[q] \in WaitKinds(d)'
               /\ \A b \in Caller : mine'[b] = q => left'[b] = <<>>
               /\ \A k \in Thread : k < at'[d] => Untransferred(q)'[k] = 0
    <3>1. d # c /\ cpc'[d] = cpc[d] /\ q \in due[d] /\ q \in Req
      BY <1>0, <1>4, <1>6, <1>15, <2>1 DEF TypeOK
    <3>2. /\ kind[q] \in WaitKinds(d)
          /\ \A b \in Caller : mine[b] = q => left[b] = <<>>
          /\ \A k \in Thread : k < at[d] => Untransferred(q)[k] = 0
      BY <1>0, <2>1, <3>1 DEF Waiting
    <3>3. q # r
      BY <1>3, <3>2 DEF r
    <3>4. WaitKinds(d)' = WaitKinds(d)
      BY <3>1 DEF WaitKinds
    <3>5. \A b \in Caller : mine'[b] = q => left'[b] = <<>>
      BY <1>4, <1>6, <3>2, <3>3 DEF r
    <3>6. QED
      BY <1>6, <1>13, <3>1, <3>2, <3>3, <3>4, <3>5
  <2>2. QED
    BY <2>1 DEF Waiting
<1>20. Waited'
  BY <1>0, <1>6 DEF Waited
<1>21. QED
  BY <1>8, <1>10, <1>12, <1>14, <1>16, <1>17, <1>18, <1>19, <1>20 DEF IOInv


\* The stripes of a request are a sequence of threads.
LEMMA StripesFacts ==
  ASSUME NEW s \in Stripes
  PROVE  s \in Seq(Thread) /\ Len(s) \in Nat /\ (s = <<>> <=> Len(s) = 0)
<1>1. PICK n \in Sizes : s \in [1 .. n -> Thread]
  BY DEF Stripes
<1>2. n \in Nat
  BY StripedIOAssumption
<1>3. s \in Seq(Thread)
  BY <1>1, <1>2, SeqDef
<1>4. Len(s) \in Nat /\ (s = <<>> <=> Len(s) = 0)
  BY <1>3, EmptySeq, LenProperties
<1>5. QED
  BY <1>3, <1>4

\* Nobody has a chunk of a request that is not issued.
LEMMA NotIssued ==
  ASSUME IOInv, NEW r \in Req, kind[r] = NoKind
  PROVE  /\ moved[r] = 0 /\ size[r] = 0 /\ count[r] = 0 /\ freed[r] = 0 /\ done[r] = 1
         /\ ToTransfer(r) = 0 /\ ToRelease(r) = 0 /\ ToFinish(r) = 0
         /\ \A d \in Caller : mine[d] # r
         /\ \A k \in Thread : /\ task[k] # r
                              /\ \A x \in 1 .. Len(prioqueue[k]) : prioqueue[k][x] # r
                              /\ \A x \in 1 .. Len(readqueue[k]) : readqueue[k][x] # r
                              /\ \A x \in 1 .. Len(commitqueue[k]) : commitqueue[k][x] # r
<1>0. /\ TypeOK /\ Kinded /\ Calls /\ Unissued /\ MovedExact /\ FreedExact /\ DoneExact
  BY DEF IOInv
<1>1. size[r] = 0 /\ count[r] = 0 /\ freed[r] = 0 /\ done[r] = 1
  BY <1>0 DEF Unissued, FreedExact, Counted, DoneExact, HasDone, NoKind, One
<1>2. moved[r] = 0
  <2>1. moved[r] + ToTransfer(r) = 0 /\ moved[r] \in Nat
    BY <1>0, <1>1, NumbersNat DEF MovedExact
  <2>2. ToTransfer(r) \in Nat
    BY NothingLeft
  <2>3. QED
    BY <2>1, <2>2
<1>3. \A d \in Caller : mine[d] # r
  BY <1>0, Basics DEF Calls
<1>4. ASSUME NEW k \in Thread
      PROVE  /\ task[k] # r
             /\ \A x \in 1 .. Len(prioqueue[k]) : prioqueue[k][x] # r
             /\ \A x \in 1 .. Len(readqueue[k]) : readqueue[k][x] # r
             /\ \A x \in 1 .. Len(commitqueue[k]) : commitqueue[k][x] # r
  BY <1>0, Basics DEF Kinded, QueueKinds, TaskKind, NoKind
<1>5. ASSUME NEW k \in Thread
      PROVE  /\ Untransferred(r)[k] = 0 /\ Unreleased(r)[k] = 0 /\ Unfinished(r)[k] = 0
  <2>1. At(k, r) = 0
    <3>1. /\ prioqueue[k] \in Seq(Req) /\ readqueue[k] \in Seq(Req)
          /\ commitqueue[k] \in Seq(Req)
      BY <1>0 DEF TypeOK
    <3>2. /\ Chunks(prioqueue[k], r) = 0 /\ Chunks(readqueue[k], r) = 0
          /\ Chunks(commitqueue[k], r) = 0
      BY <1>4, <3>1, ChunksFacts
    <3>3. QED
      BY <3>2 DEF At
  <2>2. QED
    BY <1>4, <2>1 DEF Untransferred, Unreleased, Unfinished, One
<1>6. /\ Untransferred(r) \in [Thread -> Nat] /\ Unreleased(r) \in [Thread -> Nat]
      /\ Unfinished(r) \in [Thread -> Nat] /\ Unqueued(r) \in [Caller -> Nat]
  BY <1>0, Summands
<1>7. /\ Sum(Thread, Untransferred(r)) = 0 /\ Sum(Thread, Unreleased(r)) = 0
      /\ Sum(Thread, Unfinished(r)) = 0
  BY <1>5, <1>6, Basics, SumFacts
<1>8. Sum(Caller, Unqueued(r)) = 0
  <2>1. \A d \in Caller : Unqueued(r)[d] = 0
    BY <1>3 DEF Unqueued
  <2>2. QED
    BY <1>6, <2>1, Basics, SumFacts
<1>9. ToTransfer(r) = 0 /\ ToRelease(r) = 0 /\ ToFinish(r) = 0
  BY <1>7, <1>8 DEF ToTransfer, ToRelease, ToFinish
<1>10. QED
  BY <1>1, <1>2, <1>3, <1>4, <1>9

\* A request is made.
LEMMA IssueStep ==
  ASSUME IOInv, NEW c \in Caller, NEW r \in Req, NEW knd \in Kinds, NEW s \in Stripes,
         Issue(c, r, knd, s)
  PROVE  IOInv'
<1> DEFINE n == Len(s)
<1>0. /\ TypeOK /\ PendingExact /\ Kinded /\ Calls /\ Unissued /\ MovedExact
      /\ CountExact /\ FreedExact /\ DoneExact /\ Waiting /\ Waited
  BY DEF IOInv
<1>1. /\ cpc[c] = "idle" /\ kind[r] = NoKind
      /\ kind' = [kind EXCEPT ![r] = knd] /\ size' = [size EXCEPT ![r] = n]
      /\ count' = [count EXCEPT ![r] = IF knd = "now" THEN n + 1 ELSE n]
      /\ mine' = [mine EXCEPT ![c] = r] /\ left' = [left EXCEPT ![c] = s]
      /\ cpc' = [cpc EXCEPT ![c] = IF s = <<>> THEN AfterQueueing(knd) ELSE "raise"]
      /\ UNCHANGED <<counters, queues, running, tvars, at, due, waited, freed, done, moved>>
  BY DEF Issue, CountWithOwn
<1>2. s \in Seq(Thread) /\ n \in Nat /\ (s = <<>> <=> n = 0)
  BY StripesFacts
<1>3. /\ cpc \in [Caller -> {"idle", "raise", "push", "spin", "reads", "writes"}]
      /\ mine \in [Caller -> Req \cup {NoReq}] /\ left \in [Caller -> Seq(Thread)]
      /\ kind \in [Req -> Kinds \cup {NoKind}] /\ size \in [Req -> Nat] /\ count \in [Req -> Nat]
  BY <1>0 DEF TypeOK
<1>4. AfterQueueing(knd) = IF knd = "now" THEN "spin" ELSE "idle"
  BY DEF AfterQueueing
<1> HIDE DEF n
<1>5. /\ kind'[r] = knd /\ size'[r] = n /\ count'[r] = IF knd = "now" THEN n + 1 ELSE n
      /\ \A q \in Req \ {r} : kind'[q] = kind[q] /\ size'[q] = size[q] /\ count'[q] = count[q]
  BY <1>1, <1>3
<1>6. /\ mine'[c] = r /\ left'[c] = s /\ cpc'[c] = IF s = <<>> THEN AfterQueueing(knd) ELSE "raise"
      /\ \A d \in Caller \ {c} : mine'[d] = mine[d] /\ left'[d] = left[d] /\ cpc'[d] = cpc[d]
  BY <1>1, <1>3
<1>7. /\ moved' = moved /\ freed' = freed /\ done' = done /\ at' = at /\ due' = due
      /\ waited' = waited /\ tpc' = tpc /\ task' = task
      /\ pending_reads' = pending_reads /\ pending_writes' = pending_writes
      /\ prioqueue' = prioqueue /\ readqueue' = readqueue /\ commitqueue' = commitqueue
  BY <1>1 DEF counters, queues, tvars
<1>8. /\ moved[r] = 0 /\ size[r] = 0 /\ count[r] = 0 /\ freed[r] = 0 /\ done[r] = 1
      /\ ToTransfer(r) = 0 /\ ToRelease(r) = 0 /\ ToFinish(r) = 0
      /\ \A d \in Caller : mine[d] # r
      /\ \A k \in Thread : /\ task[k] # r
                           /\ \A x \in 1 .. Len(prioqueue[k]) : prioqueue[k][x] # r
                           /\ \A x \in 1 .. Len(readqueue[k]) : readqueue[k][x] # r
                           /\ \A x \in 1 .. Len(commitqueue[k]) : commitqueue[k][x] # r
  BY <1>1, NotIssued
<1>9. left[c] = <<>> /\ cpc[c] \notin Calling /\ knd # NoKind
  BY <1>0, <1>1, Basics DEF Calls, Calling
<1>10. TypeOK'
  <2>1. /\ kind' \in [Req -> Kinds \cup {NoKind}] /\ size' \in [Req -> Nat]
        /\ count' \in [Req -> Nat]
    BY <1>1, <1>2, <1>3
  <2>2. /\ mine' \in [Caller -> Req \cup {NoReq}] /\ left' \in [Caller -> Seq(Thread)]
        /\ cpc' \in [Caller -> {"idle", "raise", "push", "spin", "reads", "writes"}]
    BY <1>1, <1>2, <1>3, <1>4
  <2>3. QED
    BY <1>0, <1>1, <2>1, <2>2 DEF TypeOK, counters, queues, tvars
\* The chunks of the others.
<1>11. ASSUME NEW k \in Thread
       PROVE  /\ tpc[k] \in Working => task[k] \in Req \ {r}
              /\ tpc[k] \notin Working => task[k] = NoReq
  BY <1>0, <1>8 DEF Kinded, TaskKind
<1>12. ASSUME NEW q \in Req
       PROVE  /\ Untransferred(q)' = Untransferred(q) /\ Unreleased(q)' = Unreleased(q)
              /\ Unfinished(q)' = Unfinished(q)
  <2>1. \A j \in Thread : tpc[j] \in Working => kind'[task[j]] = kind[task[j]]
    BY <1>5, <1>11
  <2>2. UNCHANGED <<prioqueue, readqueue, commitqueue, tpc, task>>
    BY <1>7
  <2>3. QED
    BY <2>1, <2>2, ThreadsSame
<1>13. Kinded'
  <2>1. ASSUME NEW k \in Thread PROVE QueueKinds(k)' /\ TaskKind(k)'
    <3>1. QueueKinds(k) /\ TaskKind(k)
      BY <1>0 DEF Kinded
    <3>2. QueueKinds(k)'
      <4>1. /\ prioqueue[k] \in Seq(Req) /\ readqueue[k] \in Seq(Req)
            /\ commitqueue[k] \in Seq(Req)
        BY <1>0 DEF TypeOK
      <4>2. /\ \A x \in 1 .. Len(prioqueue[k]) : prioqueue[k][x] \in Req
            /\ \A x \in 1 .. Len(readqueue[k]) : readqueue[k][x] \in Req
            /\ \A x \in 1 .. Len(commitqueue[k]) : commitqueue[k][x] \in Req
        BY <4>1
      <4>3. QED
        BY <1>5, <1>7, <1>8, <3>1, <4>2 DEF QueueKinds
    <3>3. TaskKind(k)'
      BY <1>5, <1>7, <1>11, <3>1 DEF TaskKind, HasDone
    <3>4. QED
      BY <3>2, <3>3
  <2>2. QED
    BY <2>1 DEF Kinded
<1>14. PendingExact'
  <2>1. ASSUME NEW k \in Thread, NEW knds PROVE Announced(k, knds)' = Announced(k, knds)
    <3>1. cpc'[c] # "push"
      BY <1>4, <1>6
    <3>2. \A d \in Caller : cpc[d] = "push" => mine[d] \in Req \ {r}
      BY <1>0, <1>3, <1>8 DEF Calls, Calling
    <3>3. ASSUME NEW d \in Caller
          PROVE  (cpc'[d] = "push" /\ Head(left'[d]) = k /\ kind'[mine'[d]] \in knds)
                   <=> (cpc[d] = "push" /\ Head(left[d]) = k /\ kind[mine[d]] \in knds)
      BY <1>1, <1>5, <1>6, <3>1, <3>2
    <3>4. QED
      BY <3>3 DEF Announced
  <2>2. ASSUME NEW k \in Thread, NEW knds PROVE InHand(k, knds)' = InHand(k, knds)
    BY <1>5, <1>7, <1>11 DEF InHand
  <2>3. QED
    BY <1>0, <1>7, <2>1, <2>2 DEF PendingExact
\* The callers.
<1>15. Calls'
  <2>1. /\ cpc'[c] \in {"raise", "push"} <=> left'[c] # <<>>
        /\ cpc'[c] = "spin" => knd = "now"
    BY <1>4, <1>6
  <2>2. ASSUME NEW d \in Caller
        PROVE  /\ cpc'[d] \in {"raise", "push"} <=> left'[d] # <<>>
               /\ mine'[d] # NoReq => kind'[mine'[d]] # NoKind
               /\ cpc'[d] \in Calling => mine'[d] # NoReq
               /\ cpc'[d] = "spin" => kind'[mine'[d]] = "now"
    <3>1. CASE d = c
      BY <1>5, <1>6, <1>9, <2>1, <3>1, Basics
    <3>2. CASE d # c
      <4>1. mine[d] # NoReq => mine[d] \in Req \ {r}
        BY <1>3, <1>8
      <4>2. cpc[d] = "spin" => mine[d] # NoReq
        BY <1>0 DEF Calls, Calling
      <4>3. QED
        BY <1>0, <1>5, <1>6, <3>2, <4>1, <4>2 DEF Calls
    <3>3. QED
      BY <3>1, <3>2
  <2>3. \A b, d \in Caller :
          cpc'[b] \in Calling /\ cpc'[d] \in Calling /\ mine'[b] = mine'[d] => b = d
    BY <1>0, <1>6, <1>8 DEF Calls
  <2>4. QED
    BY <2>2, <2>3 DEF Calls
<1>16. Unissued'
  BY <1>0, <1>5, <1>9 DEF Unissued
\* The sums: all chunks of the new request are still to be queued.
<1>17. ASSUME NEW q \in Req
       PROVE  Sum(Caller, Unqueued(q)') = Sum(Caller, Unqueued(q)) + (IF q = r THEN n ELSE 0)
  <2>1. \A d \in Caller \ {c} : mine'[d] = mine[d] /\ left'[d] = left[d]
    BY <1>6
  <2>2. Sum(Caller, Unqueued(q)') = Sum(Caller, Unqueued(q)) - Unqueued(q)[c] + Unqueued(q)'[c]
    BY <1>0, <1>10, <2>1, CallerSum
  <2>3. Len(left[c]) = 0
    BY <1>9
  <2>4. Unqueued(q)[c] = 0 /\ Unqueued(q)'[c] = IF q = r THEN n ELSE 0
    BY <1>6, <2>3 DEF Unqueued, n
  <2>5. Sum(Caller, Unqueued(q)) \in Nat
    BY <1>0, Totals
  <2>6. QED
    BY <1>2, <2>2, <2>4, <2>5
<1>18. ASSUME NEW q \in Req
       PROVE  /\ ToTransfer(q)' = ToTransfer(q) + (IF q = r THEN n ELSE 0)
              /\ ToRelease(q)' = ToRelease(q) + (IF q = r THEN n ELSE 0)
              /\ ToFinish(q)' = ToFinish(q) + (IF q = r THEN n ELSE 0)
              /\ ToTransfer(q) \in Nat /\ ToRelease(q) \in Nat /\ ToFinish(q) \in Nat
  <2> DEFINE T == Sum(Thread, Untransferred(q))
             R == Sum(Thread, Unreleased(q))
             F == Sum(Thread, Unfinished(q))
             C == Sum(Caller, Unqueued(q))
             o == IF q = r THEN n ELSE 0
  <2>1. T \in Nat /\ R \in Nat /\ F \in Nat /\ C \in Nat /\ o \in Nat
    BY <1>0, <1>2, Totals
  <2>2. /\ ToTransfer(q) = T + C /\ ToRelease(q) = R + C /\ ToFinish(q) = F + C
    BY DEF ToTransfer, ToRelease, ToFinish
  <2>3. /\ ToTransfer(q)' = T + Sum(Caller, Unqueued(q)')
        /\ ToRelease(q)' = R + Sum(Caller, Unqueued(q)')
        /\ ToFinish(q)' = F + Sum(Caller, Unqueued(q)')
    BY <1>12 DEF ToTransfer, ToRelease, ToFinish
  <2>4. Sum(Caller, Unqueued(q)') = C + o
    BY <1>17
  <2> HIDE DEF T, R, F, C, o
  <2>5. /\ ToTransfer(q)' = ToTransfer(q) + o /\ ToRelease(q)' = ToRelease(q) + o
        /\ ToFinish(q)' = ToFinish(q) + o
        /\ ToTransfer(q) \in Nat /\ ToRelease(q) \in Nat /\ ToFinish(q) \in Nat
    BY <2>1, <2>2, <2>3, <2>4
  <2>6. QED
    BY <2>5 DEF o
<1>19. MovedExact'
  <2>1. ASSUME NEW q \in Req PROVE moved'[q] + ToTransfer(q)' = size'[q]
    <3>1. moved[q] + ToTransfer(q) = size[q] /\ moved[q] \in Nat
      BY <1>0, NumbersNat DEF MovedExact
    <3>2. CASE q = r
      <4>1. ToTransfer(q)' = n
        BY <1>2, <1>8, <1>18, <3>2
      <4>2. QED
        BY <1>2, <1>5, <1>7, <1>8, <3>2, <4>1
    <3>3. CASE q # r
      <4>1. ToTransfer(q)' = ToTransfer(q)
        BY <1>18, <3>3
      <4>2. QED
        BY <1>5, <1>7, <3>1, <3>3, <4>1
    <3>4. QED
      BY <3>2, <3>3
  <2>2. QED
    BY <2>1 DEF MovedExact
<1>20. CountExact'
  <2>1. ASSUME NEW q \in Req, kind'[q] # "write"
        PROVE  count'[q] = ToRelease(q)' + One(Owned(q)')
    <3>1. CASE q = r
      <4>1. ToRelease(q)' = n
        BY <1>2, <1>8, <1>18, <3>1
      <4>2. Owned(q)' <=> knd = "now"
        <5>1. knd = "now" => cpc'[c] \in Calling
          BY <1>4, <1>6 DEF Calling
        <5>2. QED
          BY <1>5, <1>6, <3>1, <5>1 DEF Owned
      <4>3. One(Owned(q)') = IF knd = "now" THEN 1 ELSE 0
        BY <4>2 DEF One
      <4>4. QED
        BY <1>2, <1>5, <3>1, <4>1, <4>3
    <3>2. CASE q # r
      <4>1. ToRelease(q)' = ToRelease(q)
        BY <1>18, <3>2
      <4>2. Owned(q)' <=> Owned(q)
        BY <1>5, <1>6, <1>9, <3>2 DEF Owned
      <4>3. One(Owned(q)') = One(Owned(q))
        BY <4>2 DEF One
      <4>4. QED
        BY <1>0, <1>5, <2>1, <3>2, <4>1, <4>3 DEF CountExact
    <3>3. QED
      BY <3>1, <3>2
  <2>2. QED
    BY <2>1 DEF CountExact
<1>21. FreedExact'
  <2>1. ASSUME NEW q \in Req PROVE freed'[q] = One(Counted(q)' /\ count'[q] = 0)
    <3>1. CASE q = r
      <4>1. ~ (Counted(q)' /\ count'[q] = 0)
        BY <1>2, <1>5, <3>1 DEF Counted
      <4>2. QED
        BY <1>7, <1>8, <3>1, <4>1 DEF One
    <3>2. CASE q # r
      <4>1. (Counted(q)' /\ count'[q] = 0) <=> (Counted(q) /\ count[q] = 0)
        BY <1>5, <3>2 DEF Counted
      <4>2. freed[q] = One(Counted(q) /\ count[q] = 0)
        BY <1>0 DEF FreedExact
      <4>3. QED
        BY <1>7, <4>1, <4>2 DEF One
    <3>3. QED
      BY <3>1, <3>2
  <2>2. QED
    BY <2>1 DEF FreedExact
<1>22. DoneExact'
  <2>1. ASSUME NEW q \in Req PROVE done'[q] = IF HasDone(q)' THEN ToFinish(q)' ELSE 1
    <3>1. CASE q = r
      <4>1. ToFinish(q)' = n
        BY <1>2, <1>8, <1>18, <3>1
      <4>2. HasDone(q)' => n = 1
        BY <1>5, <3>1 DEF HasDone
      <4>3. QED
        BY <1>7, <1>8, <3>1, <4>1, <4>2
    <3>2. CASE q # r
      <4>1. ToFinish(q)' = ToFinish(q)
        BY <1>18, <3>2
      <4>2. HasDone(q)' <=> HasDone(q)
        BY <1>5, <3>2 DEF HasDone
      <4>3. QED
        BY <1>0, <1>7, <4>1, <4>2 DEF DoneExact
    <3>3. QED
      BY <3>1, <3>2
  <2>2. QED
    BY <2>1 DEF DoneExact
<1>23. Waiting'
  <2>1. ASSUME NEW d \in Caller, cpc'[d] \in {"reads", "writes"}, NEW q \in due'[d]
        PROVE  /\ kind'[q] \in WaitKinds(d)'
               /\ \A b \in Caller : mine'[b] = q => left'[b] = <<>>
               /\ \A k \in Thread : k < at'[d] => Untransferred(q)'[k] = 0
    <3>1. d # c /\ cpc'[d] = cpc[d] /\ q \in due[d] /\ q \in Req
      BY <1>0, <1>4, <1>6, <1>7, <2>1 DEF TypeOK
    <3>2. /\ kind[q] \in WaitKinds(d)
          /\ \A b \in Caller : mine[b] = q => left[b] = <<>>
          /\ \A k \in Thread : k < at[d] => Untransferred(q)[k] = 0
      BY <1>0, <2>1, <3>1 DEF Waiting
    <3>3. q # r
      BY <1>1, <3>2, Basics DEF WaitKinds, Reads, Kinds, NoKind
    <3>4. WaitKinds(d)' = WaitKinds(d)
      BY <3>1 DEF WaitKinds
    <3>5. \A b \in Caller : mine'[b] = q => left'[b] = <<>>
      BY <1>6, <3>2, <3>3
    <3>6. QED
      BY <1>5, <1>7, <1>12, <3>1, <3>2, <3>3, <3>4, <3>5
  <2>2. QED
    BY <2>1 DEF Waiting
<1>24. Waited'
  <2>1. ASSUME NEW q \in waited PROVE q \in Req \ {r} /\ kind[q] # NoKind /\ moved[q] = size[q]
    BY <1>0, <1>1 DEF Waited, TypeOK
  <2>2. QED
    BY <1>5, <1>7, <2>1 DEF Waited
<1>25. QED
  BY <1>10, <1>13, <1>14, <1>15, <1>16, <1>19, <1>20, <1>21, <1>22, <1>23, <1>24 DEF IOInv


-----------------------------------------------------------------------------
(* The theorems *)

\* Nothing is requested when the manager is made.
LEMMA IOInit == Init => IOInv
<1> SUFFICES ASSUME Init PROVE IOInv
  OBVIOUS
<1>0. /\ prioqueue = [k \in Thread |-> <<>>] /\ readqueue = [k \in Thread |-> <<>>]
      /\ commitqueue = [k \in Thread |-> <<>>]
      /\ pending_reads = [k \in Thread |-> 0] /\ pending_writes = [k \in Thread |-> 0]
      /\ tpc = [k \in Thread |-> "loop"] /\ task = [k \in Thread |-> NoReq]
      /\ cpc = [c \in Caller |-> "idle"] /\ mine = [c \in Caller |-> NoReq]
      /\ left = [c \in Caller |-> <<>>] /\ at = [c \in Caller |-> 0]
      /\ due = [c \in Caller |-> {}] /\ waited = {}
      /\ kind = [r \in Req |-> NoKind] /\ size = [r \in Req |-> 0]
      /\ count = [r \in Req |-> 0] /\ freed = [r \in Req |-> 0]
      /\ done = [r \in Req |-> 1] /\ moved = [r \in Req |-> 0]
  BY DEF Init
<1>1. 0 \in Thread
  BY Basics DEF Thread
<1>2. TypeOK
  <2>1. /\ prioqueue \in [Thread -> Seq(Req)] /\ readqueue \in [Thread -> Seq(Req)]
        /\ commitqueue \in [Thread -> Seq(Req)] /\ left \in [Caller -> Seq(Thread)]
    BY <1>0, EmptySeq
  <2>2. /\ pending_reads \in [Thread -> Nat] /\ pending_writes \in [Thread -> Nat]
        /\ running \in BOOLEAN
        /\ tpc \in [Thread -> {"loop", "prio", "read", "commit", "transfer", "uncount",
                               "release", "done", "exit"}]
        /\ task \in [Thread -> Req \cup {NoReq}]
    BY <1>0 DEF Init
  <2>3. /\ cpc \in [Caller -> {"idle", "raise", "push", "spin", "reads", "writes"}]
        /\ mine \in [Caller -> Req \cup {NoReq}]
        /\ at \in [Caller -> Thread] /\ due \in [Caller -> SUBSET Req] /\ waited \subseteq Req
    BY <1>0, <1>1
  <2>4. /\ kind \in [Req -> Kinds \cup {NoKind}] /\ size \in [Req -> Nat]
        /\ count \in [Req -> Nat] /\ freed \in [Req -> {0, 1}]
        /\ done \in [Req -> {0, 1}] /\ moved \in [Req -> Nat]
    BY <1>0
  <2>5. QED
    BY <2>1, <2>2, <2>3, <2>4 DEF TypeOK
<1>3. ASSUME NEW k \in Thread
      PROVE  /\ prioqueue[k] = <<>> /\ readqueue[k] = <<>> /\ commitqueue[k] = <<>>
             /\ Len(prioqueue[k]) = 0 /\ Len(readqueue[k]) = 0 /\ Len(commitqueue[k]) = 0
             /\ task[k] = NoReq /\ tpc[k] = "loop"
             /\ pending_reads[k] = 0 /\ pending_writes[k] = 0
  BY <1>0
<1>4. Kinded
  BY <1>3 DEF Kinded, QueueKinds, TaskKind, Working
<1>5. PendingExact
  <2>1. ASSUME NEW k \in Thread, NEW knds
        PROVE  Cardinality(Announced(k, knds)) = 0 /\ InHand(k, knds) = 0
    <3>1. Announced(k, knds) = {}
      BY <1>0 DEF Announced
    <3>2. QED
      BY <1>3, <3>1, FS_EmptySet DEF InHand
  <2>2. ASSUME NEW k \in Thread PROVE PendingReads(k) /\ PendingWrites(k)
    <3>1. /\ Cardinality(Announced(k, Reads)) = 0 /\ InHand(k, Reads) = 0
          /\ Cardinality(Announced(k, Kinds \ Reads)) = 0 /\ InHand(k, Kinds \ Reads) = 0
      BY <2>1
    <3>2. /\ Len(prioqueue[k]) = 0 /\ Len(readqueue[k]) = 0 /\ Len(commitqueue[k]) = 0
          /\ pending_reads[k] = 0 /\ pending_writes[k] = 0
      BY <1>3
    <3>3. QED
      BY <3>1, <3>2 DEF PendingReads, PendingWrites
  <2>3. QED
    BY <2>2, PendingByThread
<1>6. Calls /\ Unissued
  BY <1>0 DEF Calls, Unissued, Calling
<1>7. ASSUME NEW r \in Req
      PROVE  /\ ToTransfer(r) = 0 /\ ToRelease(r) = 0 /\ ToFinish(r) = 0
  <2>1. ASSUME NEW k \in Thread
        PROVE  /\ Untransferred(r)[k] = 0 /\ Unreleased(r)[k] = 0 /\ Unfinished(r)[k] = 0
    <3>1. At(k, r) = 0
      <4>1. /\ prioqueue[k] \in Seq(Req) /\ readqueue[k] \in Seq(Req)
            /\ commitqueue[k] \in Seq(Req)
        BY <1>2 DEF TypeOK
      <4>2. /\ Chunks(prioqueue[k], r) = 0 /\ Chunks(readqueue[k], r) = 0
            /\ Chunks(commitqueue[k], r) = 0
        <5>1. /\ Len(prioqueue[k]) = 0 /\ Len(readqueue[k]) = 0
              /\ Len(commitqueue[k]) = 0
          BY <1>3
        <5>2. /\ \A x \in 1 .. Len(prioqueue[k]) : prioqueue[k][x] # r
              /\ \A x \in 1 .. Len(readqueue[k]) : readqueue[k][x] # r
              /\ \A x \in 1 .. Len(commitqueue[k]) : commitqueue[k][x] # r
          BY <5>1
        <5>3. QED
          BY <4>1, <5>2, ChunksFacts
      <4>3. QED
        BY <4>2 DEF At
    <3>2. task[k] # r
      BY <1>3, Basics
    <3>3. QED
      BY <3>1, <3>2 DEF Untransferred, Unreleased, Unfinished, One
  <2>2. \A c \in Caller : Unqueued(r)[c] = 0
    BY <1>0, Basics DEF Unqueued
  <2>3. /\ Untransferred(r) \in [Thread -> Nat] /\ Unreleased(r) \in [Thread -> Nat]
        /\ Unfinished(r) \in [Thread -> Nat] /\ Unqueued(r) \in [Caller -> Nat]
    BY <1>2, Summands
  <2>4. /\ Sum(Thread, Untransferred(r)) = 0 /\ Sum(Thread, Unreleased(r)) = 0
        /\ Sum(Thread, Unfinished(r)) = 0
    BY <2>1, <2>3, Basics, SumFacts
  <2>5. Sum(Caller, Unqueued(r)) = 0
    BY <2>2, <2>3, Basics, SumFacts
  <2>6. QED
    BY <2>4, <2>5 DEF ToTransfer, ToRelease, ToFinish
<1>8. \A r \in Req : /\ kind[r] = NoKind /\ size[r] = 0 /\ count[r] = 0 /\ freed[r] = 0
                     /\ done[r] = 1 /\ moved[r] = 0 /\ ~ Owned(r)
  BY <1>0 DEF Owned, Calling
<1>9. MovedExact /\ CountExact
  BY <1>7, <1>8 DEF MovedExact, CountExact, One
<1>10. FreedExact /\ DoneExact
  BY <1>8 DEF FreedExact, DoneExact, Counted, HasDone, NoKind, One
<1>11. Waiting /\ Waited
  BY <1>0 DEF Waiting, Waited
<1>12. QED
  BY <1>2, <1>4, <1>5, <1>6, <1>9, <1>10, <1>11 DEF IOInv

\* What a request's count, its flag and the amount transferred say holds in every state.
THEOREM IOInductive == Spec => []IOInv
<1>1. IOInv /\ [Next]_vars => IOInv'
  <2> SUFFICES ASSUME IOInv, [Next]_vars PROVE IOInv'
    OBVIOUS
  <2>1. ASSUME NEW c \in Caller, NEW r \in Req, NEW knd \in Kinds, NEW s \in Stripes,
               Issue(c, r, knd, s)
        PROVE  IOInv'
    BY <2>1, IssueStep
  <2>2. ASSUME NEW c \in Caller, wait_for_reads(c) \/ wait_for_writes(c)
        PROVE  IOInv'
    BY <2>2, WaitForStep
  <2>3. ASSUME NEW c \in Caller, Call(c)
        PROVE  IOInv'
    BY <2>3, RaiseStep, PushStep, SpinNowStep, WaitStepStep DEF Call
  <2>4. ASSUME NEW k \in Thread, io_thread_loop(k)
        PROVE  IOInv'
    BY <2>4, IOThreadStep
  <2>5. CASE Destroy \/ UNCHANGED vars
    BY <2>5, DestroyStep
  <2>6. QED
    BY <2>1, <2>2, <2>3, <2>4, <2>5 DEF Next
<1>2. QED
  BY IOInit, <1>1, PTL DEF Spec

\* Types; the pending counters of the threads, the references of a request and what is
\* read of *doneptr are never negative.
THEOREM IOTypeOK == Spec => []TypeOK
<1>1. IOInv => TypeOK
  BY DEF IOInv
<1>2. QED
  BY <1>1, IOInductive, PTL

\* pending_reads and pending_writes of an I/O thread are exact, however the callers that
\* raise them and push chunks interleave with the thread that takes them.
THEOREM CountersExact == Spec => []PendingExact
<1>1. IOInv => PendingExact
  BY DEF IOInv
<1>2. QED
  BY <1>1, IOInductive, PTL

\* Somebody still has a reference of r.
LEMMA TouchedCounts ==
  ASSUME IOInv, NEW r \in Req, Counted(r)
  PROVE  count[r] = 0 <=> ~ Touched(r)
<1>0. TypeOK /\ Calls /\ CountExact
  BY DEF IOInv
<1> DEFINE T == Sum(Thread, Unreleased(r))
           C == Sum(Caller, Unqueued(r))
           o == One(Owned(r))
<1>1. count[r] = (T + C) + o
  BY <1>0 DEF CountExact, ToRelease, Counted
<1>2. T \in Nat /\ C \in Nat /\ o \in Nat
  BY <1>0, Totals DEF One
<1>3. ASSUME NEW k \in Thread
      PROVE  /\ At(k, r) \in Nat
             /\ At(k, r) = 0 <=> ~ \E queue \in {prioqueue[k], readqueue[k], commitqueue[k]} :
                                     \E x \in 1 .. Len(queue) : queue[x] = r
             /\ Unreleased(r)[k] = At(k, r) + One(task[k] = r /\ Holds(k))
  <2>1. /\ prioqueue[k] \in Seq(Req) /\ readqueue[k] \in Seq(Req) /\ commitqueue[k] \in Seq(Req)
    BY <1>0 DEF TypeOK
  <2> DEFINE p == Chunks(prioqueue[k], r)
             d == Chunks(readqueue[k], r)
             w == Chunks(commitqueue[k], r)
  <2>2. /\ p \in Nat /\ d \in Nat /\ w \in Nat
        /\ p = 0 <=> \A x \in 1 .. Len(prioqueue[k]) : prioqueue[k][x] # r
        /\ d = 0 <=> \A x \in 1 .. Len(readqueue[k]) : readqueue[k][x] # r
        /\ w = 0 <=> \A x \in 1 .. Len(commitqueue[k]) : commitqueue[k][x] # r
    BY <2>1, ChunksFacts
  <2>3. At(k, r) = p + d + w
    BY DEF At
  <2>4. Unreleased(r)[k] = At(k, r) + One(task[k] = r /\ Holds(k))
    BY DEF Unreleased
  <2> HIDE DEF p, d, w
  <2>5. At(k, r) \in Nat /\ (At(k, r) = 0 <=> p = 0 /\ d = 0 /\ w = 0)
    BY <2>2, <2>3
  <2>6. QED
    BY <2>2, <2>4, <2>5
<1>4. ASSUME Touched(r) PROVE count[r] # 0
  <2>1. ASSUME NEW k \in Thread,
               \/ \E queue \in {prioqueue[k], readqueue[k], commitqueue[k]} :
                    \E x \in 1 .. Len(queue) : queue[x] = r
               \/ task[k] = r /\ Holds(k)
        PROVE  count[r] # 0
    <3>1. Unreleased(r)[k] >= 1
      <4>1. At(k, r) \in Nat /\ Unreleased(r)[k] = At(k, r) + One(task[k] = r /\ Holds(k))
        BY <1>3
      <4>2. At(k, r) # 0 \/ One(task[k] = r /\ Holds(k)) = 1
        BY <1>3, <2>1 DEF One
      <4>3. One(task[k] = r /\ Holds(k)) \in Nat
        BY DEF One
      <4>4. QED
        BY <4>1, <4>2, <4>3
    <3>2. T >= Unreleased(r)[k] /\ Unreleased(r)[k] \in Nat
      BY <1>0, Totals, Summands
    <3> HIDE DEF T, C, o
    <3>3. QED
      BY <1>1, <1>2, <3>1, <3>2
  <2>2. ASSUME NEW c \in Caller, mine[c] = r, left[c] # <<>>
        PROVE  count[r] # 0
    <3>1. left[c] \in Seq(Thread)
      BY <1>0 DEF TypeOK
    <3>2. Len(left[c]) \in Nat \ {0}
      BY <2>2, <3>1, EmptySeq
    <3>3. Unqueued(r)[c] \in Nat \ {0}
      BY <2>2, <3>2 DEF Unqueued
    <3>4. C >= Unqueued(r)[c]
      BY <1>0, Totals
    <3> HIDE DEF T, C, o
    <3>5. QED
      BY <1>1, <1>2, <3>3, <3>4
  <2>3. ASSUME NEW c \in Caller, mine[c] = r, cpc[c] = "spin"
        PROVE  count[r] # 0
    <3>1. Owned(r)
      BY <1>0, <2>3 DEF Owned, Calls, Calling
    <3>2. o = 1
      BY <3>1 DEF One
    <3> HIDE DEF T, C, o
    <3>3. QED
      BY <1>1, <1>2, <3>2
  <2>4. QED
    BY <1>4, <2>1, <2>2, <2>3 DEF Touched, Holds
<1>5. ASSUME ~ Touched(r) PROVE count[r] = 0
  <2>1. ASSUME NEW k \in Thread PROVE Unreleased(r)[k] = 0
    <3>1. ~ (task[k] = r /\ Holds(k))
      BY <1>5 DEF Touched, Holds
    <3>2. At(k, r) = 0
      BY <1>3, <1>5 DEF Touched
    <3>3. QED
      BY <1>3, <3>1, <3>2 DEF One
  <2>2. ASSUME NEW c \in Caller PROVE Unqueued(r)[c] = 0
    BY <1>5 DEF Touched, Unqueued
  <2>3. Unreleased(r) \in [Thread -> Nat] /\ Unqueued(r) \in [Caller -> Nat]
    BY <1>0, Summands
  <2>4. T = 0
    BY <2>1, <2>3, Basics, SumFacts
  <2>5. C = 0
    BY <2>2, <2>3, Basics, SumFacts
  <2>6. ~ Owned(r)
    BY <1>0, <1>5 DEF Owned, Calls, Calling, Touched
  <2>7. o = 0
    BY <2>6 DEF One
  <2> HIDE DEF T, C, o
  <2>8. QED
    BY <1>1, <2>4, <2>5, <2>7
<1>6. QED
  BY <1>4, <1>5

\* The last thread or caller that is through with a request frees its count, and none
\* before it does.
THEOREM FreedByTheLast == Spec => []FreedAtTheEnd
<1>1. IOInv => FreedAtTheEnd
  <2> SUFFICES ASSUME IOInv, NEW r \in Req,
                      kind[r] \in {"read", "now", "writefree"},
                      size[r] > 0 \/ kind[r] = "now"
               PROVE  freed[r] = IF Touched(r) THEN 0 ELSE 1
    BY DEF FreedAtTheEnd
  <2>1. Counted(r)
    BY DEF Counted
  <2>2. freed[r] = One(Counted(r) /\ count[r] = 0)
    BY DEF IOInv, FreedExact
  <2>3. count[r] = 0 <=> ~ Touched(r)
    BY <2>1, TouchedCounts
  <2>4. QED
    BY <2>1, <2>2, <2>3 DEF One
<1>2. QED
  BY <1>1, IOInductive, PTL

\* What a caller has waited for, by wait_for_reads, wait_for_writes, preada_now or by its
\* *doneptr, has been transferred wholly.
THEOREM WaitsAreTrue == Spec => []WaitedIsMoved
<1>1. IOInv => WaitedIsMoved
  <2> SUFFICES ASSUME IOInv PROVE WaitedIsMoved
    OBVIOUS
  <2>1. \A r \in waited : moved[r] = size[r]
    BY DEF IOInv, Waited
  <2>2. ASSUME NEW r \in Req, done[r] = 0 PROVE moved[r] = size[r]
    <3>1. ToFinish(r) = 0
      BY <2>2 DEF IOInv, DoneExact
    <3>2. QED
      BY <3>1, NothingLeft
  <2>3. QED
    BY <2>1, <2>2 DEF WaitedIsMoved
<1>2. QED
  BY <1>1, IOInductive, PTL

=============================================================================
