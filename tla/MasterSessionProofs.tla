------------------------- MODULE MasterSessionProofs -------------------------
(***************************************************************************)
(* Theorems about module MasterSession, for any number of hosts, of workers *)
(* among them, of iterations and of the pieces a top list travels in.  The  *)
(* schedule package is taken to arrive in one piece: InTurn fails otherwise. *)
(***************************************************************************)
EXTENDS MasterSession, TLAPS

USE SessionAssumption

-----------------------------------------------------------------------------
(* Both ends of a connection count: the packages from the master and those to it *)

\* The packages the master has sent to w, by the part of main it is in.
Sent(w) ==
  IF mpc = "discover" THEN IF w < at THEN 1 ELSE 0
  ELSE IF mpc = "answer" THEN IF w <= at THEN 1 ELSE 0
  ELSE IF w \notin Worker THEN 1
  ELSE IF mpc = "schedule" THEN IF w < at THEN 2 ELSE 1
  ELSE IF mpc = "scheduled" THEN IF w <= at THEN 2 ELSE 1
  ELSE IF mpc = "init" THEN 2
  ELSE IF mpc = "begin" THEN IF w < at THEN 3 + miter ELSE 2 + miter
  ELSE IF mpc = "collect" THEN 3 + miter
  ELSE IF mpc = "results" THEN 2 + N
  ELSE IF mpc = "finish" THEN IF w < at THEN 3 + N ELSE 2 + N
  ELSE 3 + N

\* The reads of the master that waited for something from w.
Taken(w) ==
  IF mpc \in {"discover", "answer"} THEN IF w < at THEN 1 ELSE 0
  ELSE IF w \notin Worker THEN 1
  ELSE IF mpc \in {"schedule", "scheduled"} THEN IF w < at THEN 2 ELSE 1
  ELSE IF mpc = "init" THEN IF w \in arrived THEN 3 ELSE 2
  ELSE IF mpc = "begin" THEN 3 + miter
  ELSE IF mpc = "collect" THEN IF w \in arrived THEN 4 + miter ELSE 3 + miter
  ELSE IF mpc = "results" THEN IF w \in arrived THEN 4 + N ELSE 3 + N
  ELSE 4 + N

Early == {"spin", "schedule", "failed"}

\* The packages w has read.
Got(w) ==
  IF w \notin fd_master THEN 0
  ELSE IF wpc[w] \in Early THEN 1
  ELSE IF wpc[w] = "ended" THEN 3 + N
  ELSE 2 + begun[w]

\* The packages w has answered with and, at the end, the pieces of its top list.
Answers(w) ==
  IF w \notin fd_master THEN 0
  ELSE IF wpc[w] \in Early THEN 1
  ELSE IF wpc[w] \in {"load", "computing", "exchanging"} THEN 2 + begun[w]
  ELSE IF wpc[w] \in {"wait", "output"} THEN 3 + begun[w]
  ELSE 3 + N + ListPieces

\* The n-th package of the master.
Package(n) ==
  IF n = 1 THEN "XGREQT" ELSE IF n = 2 THEN "XGREQS"
  ELSE IF n < 3 + N THEN "tbegin" ELSE "XGREQF"

-----------------------------------------------------------------------------
(* The inductive invariant *)

\* Where the loops of the master are.
MasterLoops ==
  /\ mpc \in {"schedule", "scheduled", "begin", "finish"} => at < M
  /\ mpc \in {"init", "collect", "results", "exit"} => at = 0
  /\ mpc \in {"discover", "answer", "schedule", "scheduled", "init"} => miter = 0
  /\ mpc \in {"begin", "collect"} => miter < N
  /\ mpc \in {"discover", "answer", "schedule", "scheduled", "begin"} => arrived = {}
  /\ \A w \in Host : ~ open[w] => mpc \in {"close", "exit"}

\* The master goes on only with a piece of every top list.
ListsRead ==
  /\ mpc = "results" => \A w \in arrived : list[w] > 0
  /\ mpc \in {"finish", "close", "exit"} => \A w \in Worker : list[w] > 0

\* The iterations w has begun at each place of its main thread.
WorkerStage ==
  \A w \in Host :
    /\ w \notin fd_master => wpc[w] = "spin"
    /\ w \notin Worker => wpc[w] \in Early
    /\ wpc[w] = "failed" => w \notin Worker
    /\ wpc[w] \in Early \cup {"load"} => begun[w] = 0
    /\ wpc[w] = "wait" => begun[w] < N
    /\ wpc[w] \in {"computing", "exchanging"} => begun[w] > 0
    /\ wpc[w] \in {"output", "final", "ended"} => begun[w] = N

\* Nothing but the one package w has not read yet is under way to it.
ToWorkerExact ==
  \A w \in Host :
    /\ Got(w) <= Sent(w) /\ Sent(w) <= Got(w) + 1
    /\ toWorker[w] = IF Sent(w) = Got(w) THEN <<>> ELSE <<Package(Sent(w))>>

\* A read at the master may take more than it waits for, and never less: what is
\* unread and the reads there have been are no more than what w has sent.
ToMasterBounded ==
  \A w \in Host :
    /\ Len(toMaster[w]) + Taken(w) <= Answers(w)
    /\ Taken(w) >= 1 => \A n \in 1 .. Len(toMaster[w]) : toMaster[w][n] # "XGACKT"

\* The iterations w has computed; nobody has left an iteration that another one has not.
Done(w) == IF wpc[w] = "computing" THEN begun[w] - 1 ELSE begun[w]
Together == \A w, j \in Worker : Left(w) <= Done(j)

SInv ==
  /\ TypeOK /\ MasterLoops /\ ListsRead /\ WorkerStage
  /\ ToWorkerExact /\ ToMasterBounded /\ Together /\ stray = {}

-----------------------------------------------------------------------------
(* Lemmas about the streams *)

\* What a read leaves of a stream.
LEMMA ReadFacts ==
  ASSUME NEW S, NEW q \in Seq(S), NEW k \in 1 .. Len(q)
  PROVE  /\ SubSeq(q, k + 1, Len(q)) \in Seq(S)
         /\ Len(q) \in Nat /\ Len(SubSeq(q, k + 1, Len(q))) = Len(q) - k
         /\ \A n \in 1 .. Len(q) - k : SubSeq(q, k + 1, Len(q))[n] = q[n + k]
  OBVIOUS

\* What a write adds to a stream.
LEMMA WriteFacts ==
  ASSUME NEW S, NEW q \in Seq(S), NEW p \in Seq(S)
  PROVE  /\ q \o p \in Seq(S)
         /\ Len(q) \in Nat /\ Len(p) \in Nat /\ Len(q \o p) = Len(q) + Len(p)
         /\ \A n \in 1 .. Len(q) : (q \o p)[n] = q[n]
         /\ \A n \in 1 .. Len(p) : (q \o p)[Len(q) + n] = p[n]
  OBVIOUS

\* A package of n pieces.
LEMMA TimesFacts ==
  ASSUME NEW n \in Nat, NEW x
  PROVE  /\ Times(n, x) \in Seq({x}) /\ Len(Times(n, x)) = n
         /\ \A k \in 1 .. n : Times(n, x)[k] = x
         /\ Times(1, x) = <<x>>
<1>1. Times(n, x) \in Seq({x}) /\ Len(Times(n, x)) = n /\ \A k \in 1 .. n : Times(n, x)[k] = x
  BY DEF Times
<1>2. Times(1, x) = <<x>>
  BY DEF Times
<1>3. QED
  BY <1>1, <1>2

\* The counts are numbers.
LEMMA CountTypes ==
  ASSUME TypeOK, NEW w \in Host
  PROVE  Sent(w) \in Nat /\ Taken(w) \in Nat /\ Got(w) \in Nat /\ Answers(w) \in Nat
<1>1. miter \in Nat /\ begun[w] \in Nat
  BY DEF TypeOK
<1>2. Sent(w) \in Nat
  BY <1>1 DEF Sent
<1>3. Taken(w) \in Nat
  BY <1>1 DEF Taken
<1>4. Got(w) \in Nat
  BY <1>1 DEF Got
<1>5. Answers(w) \in Nat
  BY <1>1 DEF Answers
<1>6. QED
  BY <1>2, <1>3, <1>4, <1>5

\* The worker's side of the counts follows the worker's variables, and the master's
\* side those of the master.
LEMMA WorkerSide ==
  ASSUME UNCHANGED <<wpc, begun, fd_master>>
  PROVE  /\ \A w \in Host : Got(w)' = Got(w) /\ Answers(w)' = Answers(w)
         /\ WorkerStage => WorkerStage'
         /\ Together => Together'
<1>1. \A w \in Host : Got(w)' = Got(w) /\ Answers(w)' = Answers(w)
  BY DEF Got, Answers
<1>2. WorkerStage => WorkerStage'
  BY DEF WorkerStage
<1>3. Together => Together'
  BY DEF Together, Left, Done
<1>4. QED
  BY <1>1, <1>2, <1>3

LEMMA MasterSide ==
  ASSUME UNCHANGED mastervars
  PROVE  /\ \A w \in Host : Sent(w)' = Sent(w) /\ Taken(w)' = Taken(w)
         /\ MasterLoops => MasterLoops'
         /\ ListsRead => ListsRead'
<1> USE DEF mastervars
<1>1. \A w \in Host : Sent(w)' = Sent(w) /\ Taken(w)' = Taken(w)
  BY DEF Sent, Taken
<1>2. MasterLoops => MasterLoops'
  BY DEF MasterLoops
<1>3. ListsRead => ListsRead'
  BY DEF ListsRead
<1>4. QED
  BY <1>1, <1>2, <1>3

-----------------------------------------------------------------------------
(* The four kinds of steps on a stream *)

\* The master writes package p to h, which has read all the ones before.
LEMMA MasterWrites ==
  ASSUME TypeOK, ToWorkerExact, NEW h \in Host, NEW p, MasterSends(h, <<p>>),
         \A w \in Host : Got(w)' = Got(w),
         \A w \in Host : Sent(w)' = IF w = h THEN Sent(w) + 1 ELSE Sent(w),
         Got(h) = Sent(h), p = Package(Sent(h) + 1)
  PROVE  /\ ToWorkerExact' /\ UNCHANGED toMaster
         /\ toWorker' \in [Host -> Seq({"XGREQT", "XGREQS", "tbegin", "XGREQF"})]
<1>1. toWorker[h] = <<>>
  BY DEF ToWorkerExact
<1>2. <<>> \o <<p>> = <<p>>
  OBVIOUS
<1>3. \A w \in Host : toWorker'[w] = IF w = h THEN <<p>> ELSE toWorker[w]
  BY <1>1, <1>2 DEF MasterSends, TypeOK
<1>4. Got(h) \in Nat /\ Sent(h) \in Nat /\ Sent(h)' = Sent(h) + 1
  BY CountTypes
<1>5. Package(Sent(h))' = p
  BY <1>4 DEF Package
<1>6. \A w \in Host : w # h => Package(Sent(w))' = Package(Sent(w))
  BY DEF Package
<1>7. ASSUME NEW w \in Host
      PROVE  /\ Got(w)' <= Sent(w)' /\ Sent(w)' <= Got(w)' + 1
             /\ toWorker'[w] = IF Sent(w)' = Got(w)' THEN <<>> ELSE <<Package(Sent(w))'>>
  <2>1. CASE w = h
    BY <1>3, <1>4, <1>5, <2>1
  <2>2. CASE w # h
    BY <1>3, <1>6, <2>2 DEF ToWorkerExact
  <2>3. QED
    BY <2>1, <2>2
<1>8. toWorker' \in [Host -> Seq({"XGREQT", "XGREQS", "tbegin", "XGREQF"})]
  <2>1. p \in {"XGREQT", "XGREQS", "tbegin", "XGREQF"}
    BY DEF Package
  <2>2. <<p>> \in Seq({"XGREQT", "XGREQS", "tbegin", "XGREQF"})
    BY <2>1
  <2>3. toWorker' = [toWorker EXCEPT ![h] = <<p>>]
    BY <1>1, <1>2 DEF MasterSends
  <2>4. QED
    BY <2>2, <2>3 DEF TypeOK
<1>9. QED
  BY <1>7, <1>8 DEF ToWorkerExact, MasterSends

\* Nothing happens on the streams to the workers.
LEMMA ToWorkerFrame ==
  ASSUME ToWorkerExact, UNCHANGED toWorker,
         \A w \in Host : Got(w)' = Got(w) /\ Sent(w)' = Sent(w)
  PROVE  ToWorkerExact'
<1>1. \A w \in Host : Package(Sent(w))' = Package(Sent(w))
  BY DEF Package
<1>2. QED
  BY <1>1 DEF ToWorkerExact

\* Nothing happens on the streams to the master.
LEMMA ToMasterFrame ==
  ASSUME ToMasterBounded, UNCHANGED toMaster,
         \A w \in Host : Taken(w)' = Taken(w) /\ Answers(w)' = Answers(w)
  PROVE  ToMasterBounded'
  BY DEF ToMasterBounded

\* A worker's read takes the one package there is.
LEMMA WorkerReads ==
  ASSUME TypeOK, ToWorkerExact, NEW h \in Host, NEW k \in 1 .. Len(toWorker[h]),
         WorkerTakes(h, k)
  PROVE  /\ Sent(h) = Got(h) + 1 /\ k = 1
         /\ toWorker[h] = <<Package(Sent(h))>>
         /\ \A w \in Host : toWorker'[w] = IF w = h THEN <<>> ELSE toWorker[w]
         /\ toWorker' \in [Host -> Seq({"XGREQT", "XGREQS", "tbegin", "XGREQF"})]
         /\ /\ \A w \in Host : Sent(w)' = Sent(w)
            /\ \A w \in Host : Got(w)' = IF w = h THEN Got(w) + 1 ELSE Got(w)
            => ToWorkerExact'
<1>1. Sent(h) \in Nat /\ Got(h) \in Nat
  BY CountTypes
<1>2. toWorker[h] # <<>>
  OBVIOUS
<1>3. Sent(h) = Got(h) + 1 /\ toWorker[h] = <<Package(Sent(h))>>
  <2>1. Sent(h) # Got(h)
    BY <1>2, Zenon DEF ToWorkerExact
  <2>2. Got(h) <= Sent(h) /\ Sent(h) <= Got(h) + 1
    BY DEF ToWorkerExact
  <2>3. toWorker[h] = <<Package(Sent(h))>>
    BY <2>1, Zenon DEF ToWorkerExact
  <2>4. QED
    BY <1>1, <2>1, <2>2, <2>3
<1>4. Len(toWorker[h]) = 1 /\ k = 1
  BY <1>3
<1>5. SubSeq(toWorker[h], 2, 1) = <<>>
  BY <1>3
<1>6. toWorker' = [toWorker EXCEPT ![h] = <<>>]
  <2>1. SubSeq(toWorker[h], k + 1, Len(toWorker[h])) = <<>>
    BY <1>4, <1>5
  <2>2. toWorker' = [toWorker EXCEPT ![h] = SubSeq(toWorker[h], k + 1, Len(toWorker[h]))]
    BY Zenon DEF WorkerTakes
  <2>3. QED
    BY <2>1, <2>2, Zenon
<1>7. \A w \in Host : toWorker'[w] = IF w = h THEN <<>> ELSE toWorker[w]
  BY <1>6 DEF TypeOK
<1>8. toWorker' \in [Host -> Seq({"XGREQT", "XGREQS", "tbegin", "XGREQF"})]
  BY <1>6 DEF TypeOK
<1>9. ASSUME \A w \in Host : Sent(w)' = Sent(w),
             \A w \in Host : Got(w)' = IF w = h THEN Got(w) + 1 ELSE Got(w)
      PROVE  ToWorkerExact'
  <2>1. \A w \in Host : Package(Sent(w))' = Package(Sent(w))
    BY <1>9 DEF Package
  <2>2. ASSUME NEW w \in Host
        PROVE  /\ Got(w)' <= Sent(w)' /\ Sent(w)' <= Got(w)' + 1
               /\ toWorker'[w] = IF Sent(w)' = Got(w)' THEN <<>> ELSE <<Package(Sent(w))'>>
    <3>1. CASE w = h
      BY <1>1, <1>3, <1>7, <1>9, <3>1
    <3>2. CASE w # h
      BY <1>7, <1>9, <2>1, <3>2 DEF ToWorkerExact
    <3>3. QED
      BY <3>1, <3>2
  <2>3. QED
    BY <2>2 DEF ToWorkerExact
<1>10. QED
  BY <1>3, <1>4, <1>7, <1>8, <1>9

ToMasterAlphabet == {"XGACKT", "XGACKS", "list"}

\* A read of the master that waits for something from h.
LEMMA MasterReads ==
  ASSUME TypeOK, ToMasterBounded, NEW h \in Host, NEW k \in 1 .. Len(toMaster[h]),
         MasterTakes(h, k),
         \A w \in Host : Answers(w)' = Answers(w),
         \A w \in Host : Taken(w)' = IF w = h THEN Taken(w) + 1 ELSE Taken(w),
         Taken(h) = 0 => Answers(h) <= 1
  PROVE  /\ ToMasterBounded' /\ toMaster' \in [Host -> Seq(ToMasterAlphabet)]
         /\ UNCHANGED toWorker
         /\ k \in Nat \ {0} /\ k <= Answers(h) - Taken(h)
<1> DEFINE q == toMaster[h]
           r == SubSeq(q, k + 1, Len(q))
<1>1. q \in Seq(ToMasterAlphabet)
  BY DEF TypeOK, ToMasterAlphabet
<1>2. /\ r \in Seq(ToMasterAlphabet) /\ Len(q) \in Nat /\ Len(r) = Len(q) - k
      /\ \A n \in 1 .. Len(q) - k : r[n] = q[n + k]
  BY <1>1, ReadFacts
<1>3. toMaster' = [toMaster EXCEPT ![h] = r] /\ UNCHANGED toWorker
  BY DEF MasterTakes
<1> HIDE DEF r
<1>4. toMaster' \in [Host -> Seq(ToMasterAlphabet)]
  BY <1>2, <1>3 DEF TypeOK, ToMasterAlphabet
<1>5. \A w \in Host : toMaster'[w] = IF w = h THEN r ELSE toMaster[w]
  BY <1>3 DEF TypeOK
<1>6. /\ Taken(h) \in Nat /\ Answers(h) \in Nat /\ Len(q) + Taken(h) <= Answers(h)
      /\ Taken(h) >= 1 => \A n \in 1 .. Len(q) : q[n] # "XGACKT"
  BY CountTypes DEF ToMasterBounded
<1>7. k \in Nat \ {0} /\ k <= Len(q)
  BY <1>2
<1>8. \A n \in 1 .. Len(r) : r[n] # "XGACKT"
  <2>1. CASE Taken(h) = 0
    <3>1. Len(r) = 0
      BY <1>2, <1>6, <1>7, <2>1
    <3>2. QED
      BY <3>1
  <2>2. CASE Taken(h) # 0
    <3> TAKE n \in 1 .. Len(r)
    <3>1. n + k \in 1 .. Len(q) /\ n \in 1 .. Len(q) - k
      BY <1>2, <1>7
    <3>2. Taken(h) >= 1
      BY <1>6, <2>2
    <3>3. QED
      BY <1>2, <1>6, <3>1, <3>2
  <2>3. QED
    BY <2>1, <2>2
<1>9. ASSUME NEW w \in Host
      PROVE  /\ Len(toMaster'[w]) + Taken(w)' <= Answers(w)'
             /\ Taken(w)' >= 1 => \A n \in 1 .. Len(toMaster'[w]) : toMaster'[w][n] # "XGACKT"
  <2>1. CASE w = h
    BY <1>2, <1>5, <1>6, <1>7, <1>8, <2>1
  <2>2. CASE w # h
    BY <1>5, <2>2 DEF ToMasterBounded
  <2>3. QED
    BY <2>1, <2>2
<1>10. ToMasterBounded'
  BY <1>9 DEF ToMasterBounded
<1>11. QED
  BY <1>2, <1>3, <1>4, <1>6, <1>7, <1>10

\* What a read takes besides the package it waits for is no answer to a greeting.
LEMMA SwallowedType ==
  ASSUME TypeOK, ToMasterBounded, NEW h \in Host, NEW k \in 1 .. Len(toMaster[h]),
         MasterTakesAck(h, k), Taken(h) >= 1
  PROVE  swallowed' \in [Host -> SUBSET {"XGACKS", "list"}]
<1>1. Len(toMaster[h]) \in Nat
  BY DEF TypeOK
<1>2. \A n \in 2 .. k : toMaster[h][n] \in {"XGACKS", "list"}
  <2> TAKE n \in 2 .. k
  <2>1. n \in 1 .. Len(toMaster[h])
    BY <1>1
  <2>2. toMaster[h][n] \in {"XGACKT", "XGACKS", "list"}
    BY <2>1 DEF TypeOK
  <2>3. QED
    BY <2>1, <2>2 DEF ToMasterBounded
<1> DEFINE extra == {toMaster[h][n] : n \in 2 .. k}
<1>3. extra \in SUBSET {"XGACKS", "list"}
  BY <1>2
<1>4. swallowed' = [swallowed EXCEPT ![h] = swallowed[h] \cup extra]
  BY DEF MasterTakesAck
<1> HIDE DEF extra
<1>5. QED
  BY <1>3, <1>4 DEF TypeOK

\* Worker h writes p to the master.
LEMMA WorkerWrites ==
  ASSUME TypeOK, ToMasterBounded, NEW h \in Host, NEW p \in Seq(ToMasterAlphabet),
         WorkerSends(h, p),
         \A w \in Host : Taken(w)' = Taken(w),
         \A w \in Host : Answers(w)' = IF w = h THEN Answers(w) + Len(p) ELSE Answers(w),
         Taken(h) >= 1 => \A n \in 1 .. Len(p) : p[n] # "XGACKT"
  PROVE  ToMasterBounded' /\ toMaster' \in [Host -> Seq(ToMasterAlphabet)]
<1> DEFINE q == toMaster[h]
           r == q \o p
<1>1. q \in Seq(ToMasterAlphabet)
  BY DEF TypeOK, ToMasterAlphabet
<1>2. /\ r \in Seq(ToMasterAlphabet)
      /\ Len(q) \in Nat /\ Len(p) \in Nat /\ Len(r) = Len(q) + Len(p)
      /\ \A n \in 1 .. Len(q) : r[n] = q[n]
      /\ \A n \in 1 .. Len(p) : r[Len(q) + n] = p[n]
  BY <1>1, WriteFacts
<1>3. toMaster' = [toMaster EXCEPT ![h] = r]
  BY DEF WorkerSends
<1> HIDE DEF r
<1>4. toMaster' \in [Host -> Seq(ToMasterAlphabet)]
  BY <1>2, <1>3 DEF TypeOK, ToMasterAlphabet
<1>5. \A w \in Host : toMaster'[w] = IF w = h THEN r ELSE toMaster[w]
  BY <1>3 DEF TypeOK
<1>6. /\ Taken(h) \in Nat /\ Answers(h) \in Nat /\ Len(q) + Taken(h) <= Answers(h)
      /\ Taken(h) >= 1 => \A n \in 1 .. Len(q) : q[n] # "XGACKT"
  BY CountTypes DEF ToMasterBounded
<1>7. ASSUME Taken(h) >= 1, NEW n \in 1 .. Len(r) PROVE r[n] # "XGACKT"
  <2>1. CASE n <= Len(q)
    BY <1>2, <1>6, <1>7, <2>1
  <2>2. CASE ~ n <= Len(q)
    <3>1. n - Len(q) \in 1 .. Len(p) /\ Len(q) + (n - Len(q)) = n
      BY <1>2, <2>2
    <3>2. QED
      BY <1>2, <1>7, <3>1
  <2>3. QED
    BY <2>1, <2>2
<1>8. ASSUME NEW w \in Host
      PROVE  /\ Len(toMaster'[w]) + Taken(w)' <= Answers(w)'
             /\ Taken(w)' >= 1 => \A n \in 1 .. Len(toMaster'[w]) : toMaster'[w][n] # "XGACKT"
  <2>1. CASE w = h
    BY <1>2, <1>5, <1>6, <1>7, <2>1
  <2>2. CASE w # h
    BY <1>5, <2>2 DEF ToMasterBounded
  <2>3. QED
    BY <2>1, <2>2
<1>9. QED
  BY <1>4, <1>8 DEF ToMasterBounded

\* Worker h answers the master with one package.
LEMMA WorkerAnswers ==
  ASSUME TypeOK, ToMasterBounded, NEW h \in Host, NEW x \in ToMasterAlphabet,
         WorkerSends(h, <<x>>),
         \A w \in Host : Taken(w)' = Taken(w),
         \A w \in Host \ {h} : Answers(w)' = Answers(w),
         Answers(h)' = Answers(h) + 1,
         Taken(h) >= 1 => x # "XGACKT"
  PROVE  ToMasterBounded' /\ toMaster' \in [Host -> Seq(ToMasterAlphabet)]
<1> DEFINE p == <<x>>
<1>1. p \in Seq(ToMasterAlphabet) /\ Len(p) = 1 /\ \A n \in 1 .. 1 : p[n] = x
  OBVIOUS
<1>2. WorkerSends(h, p)
  OBVIOUS
<1> HIDE DEF p
<1>3. \A w \in Host : Answers(w)' = IF w = h THEN Answers(w) + Len(p) ELSE Answers(w)
  BY <1>1
<1>4. Taken(h) >= 1 => \A n \in 1 .. Len(p) : p[n] # "XGACKT"
  BY <1>1
<1>5. QED
  BY <1>1, <1>2, <1>3, <1>4, WorkerWrites

\* How the counts of one connection stand to each other.
LEMMA Order ==
  ASSUME SInv, NEW h \in Host
  PROVE  /\ Sent(h) \in Nat /\ Taken(h) \in Nat /\ Got(h) \in Nat /\ Answers(h) \in Nat
         /\ Got(h) <= Sent(h) /\ Sent(h) <= Got(h) + 1 /\ Taken(h) <= Answers(h)
         /\ Answers(h) >= 1 => Got(h) >= 1
         /\ Answers(h) <= Got(h) + 1 \/ Got(h) >= 2 + N
<1>1. Sent(h) \in Nat /\ Taken(h) \in Nat /\ Got(h) \in Nat /\ Answers(h) \in Nat
  BY CountTypes DEF SInv
<1>2. Got(h) <= Sent(h) /\ Sent(h) <= Got(h) + 1
  BY DEF SInv, ToWorkerExact
<1>3. Taken(h) <= Answers(h)
  <2>1. Len(toMaster[h]) \in Nat
    BY DEF SInv, TypeOK
  <2>2. Len(toMaster[h]) + Taken(h) <= Answers(h)
    BY DEF SInv, ToMasterBounded
  <2>3. QED
    BY <1>1, <2>1, <2>2
<1>4. /\ Answers(h) >= 1 => Got(h) >= 1
      /\ Answers(h) <= Got(h) + 1 \/ Got(h) >= 2 + N
  BY DEF SInv, TypeOK, WorkerStage, Got, Answers, Early, InLoop
<1>5. QED
  BY <1>1, <1>2, <1>3, <1>4

\* Nobody is sent the package of an iteration, or the last one, before the master has
\* read that every worker is ready for it.
LEMMA Ahead ==
  ASSUME TypeOK, MasterLoops, NEW w \in Worker, NEW j \in Worker, Sent(w) >= 3
  PROVE  Sent(w) <= Taken(j)
<1>1. miter \in Nat
  BY DEF TypeOK
<1>2. QED
  BY <1>1 DEF TypeOK, MasterLoops, Sent, Taken

-----------------------------------------------------------------------------
(* The steps of the master *)

\* The master greets a host that has read nothing.
LEMMA GreetStep ==
  ASSUME SInv, SchedulePieces = 1, Greet
  PROVE  SInv'
<1>1. UNCHANGED <<workervars, swallowed, open, list, arrived, miter>>
  BY DEF Greet
<1>2. /\ \A w \in Host : Got(w)' = Got(w) /\ Answers(w)' = Answers(w)
      /\ WorkerStage' /\ Together' /\ stray' = {}
  BY <1>1, WorkerSide DEF workervars, SInv
<1>3. at \in Host /\ miter \in Nat
  BY DEF SInv, TypeOK, Host
<1>4. \A w \in Host : /\ Sent(w)' = IF w = at THEN Sent(w) + 1 ELSE Sent(w)
                      /\ Taken(w)' = Taken(w)
  BY <1>1, <1>3 DEF SInv, MasterLoops, Greet, Sent, Taken, Host, Worker
<1>5. Got(at) = Sent(at) /\ Package(Sent(at) + 1) = "XGREQT" /\ MasterSends(at, <<"XGREQT">>)
  <2>1. Sent(at) = 0
    BY <1>3 DEF Greet, Sent, Host
  <2>2. Got(at) = 0
    BY <1>3, <2>1, Order
  <2>3. QED
    BY <2>1, <2>2 DEF Greet, Package
<1>6. /\ ToWorkerExact' /\ UNCHANGED toMaster
      /\ toWorker' \in [Host -> Seq({"XGREQT", "XGREQS", "tbegin", "XGREQF"})]
  BY <1>2, <1>3, <1>4, <1>5, MasterWrites DEF SInv
<1>7. ToMasterBounded'
  BY <1>2, <1>4, <1>6, ToMasterFrame DEF SInv
<1>8. mpc' \in {"answer", "scheduled", "begin", "collect", "finish", "close"} /\ at' \in Host
  BY <1>3 DEF SInv, MasterLoops, Greet, Host
<1>9. TypeOK'
  BY <1>1, <1>6, <1>8 DEF SInv, TypeOK, workervars, Host
<1>10. MasterLoops' /\ ListsRead'
  BY <1>1, <1>3 DEF SInv, MasterLoops, ListsRead, Greet, Host, Worker
<1>11. QED
  BY <1>2, <1>6, <1>7, <1>9, <1>10 DEF SInv

\* The master sends the schedule package to a worker that has answered the greeting.
LEMMA SendScheduleStep ==
  ASSUME SInv, SchedulePieces = 1, SendSchedule
  PROVE  SInv'
<1>1. UNCHANGED <<workervars, swallowed, open, list, arrived, miter>>
  BY DEF SendSchedule
<1>2. /\ \A w \in Host : Got(w)' = Got(w) /\ Answers(w)' = Answers(w)
      /\ WorkerStage' /\ Together' /\ stray' = {}
  BY <1>1, WorkerSide DEF workervars, SInv
<1>3. at \in Host /\ miter \in Nat
  BY DEF SInv, TypeOK, Host
<1>4. \A w \in Host : /\ Sent(w)' = IF w = at THEN Sent(w) + 1 ELSE Sent(w)
                      /\ Taken(w)' = Taken(w)
  BY <1>1, <1>3 DEF SInv, MasterLoops, SendSchedule, Sent, Taken, Host, Worker
<1>5. Got(at) = Sent(at) /\ Package(Sent(at) + 1) = "XGREQS" /\ MasterSends(at, <<"XGREQS">>)
  <2>1. Sent(at) = 1 /\ Taken(at) = 1
    BY <1>3 DEF SInv, MasterLoops, SendSchedule, Sent, Taken, Worker, Host
  <2>2. Got(at) = 1
    BY <1>3, <2>1, Order
  <2>3. Times(SchedulePieces, "XGREQS") = <<"XGREQS">>
    BY TimesFacts
  <2>4. QED
    BY <2>1, <2>2, <2>3 DEF SendSchedule, Package
<1>6. /\ ToWorkerExact' /\ UNCHANGED toMaster
      /\ toWorker' \in [Host -> Seq({"XGREQT", "XGREQS", "tbegin", "XGREQF"})]
  BY <1>2, <1>3, <1>4, <1>5, MasterWrites DEF SInv
<1>7. ToMasterBounded'
  BY <1>2, <1>4, <1>6, ToMasterFrame DEF SInv
<1>8. mpc' \in {"answer", "scheduled", "begin", "collect", "finish", "close"} /\ at' \in Host
  BY <1>3 DEF SInv, MasterLoops, SendSchedule, Host
<1>9. TypeOK'
  BY <1>1, <1>6, <1>8 DEF SInv, TypeOK, workervars, Host
<1>10. MasterLoops' /\ ListsRead'
  BY <1>1, <1>3 DEF SInv, MasterLoops, ListsRead, SendSchedule, Host, Worker
<1>11. QED
  BY <1>2, <1>6, <1>7, <1>9, <1>10 DEF SInv

\* The master begins an iteration of a worker that has reported the one before.
LEMMA SendBeginStep ==
  ASSUME SInv, SchedulePieces = 1, SendBegin
  PROVE  SInv'
<1>1. UNCHANGED <<workervars, swallowed, open, list, arrived, miter>>
  BY DEF SendBegin
<1>2. /\ \A w \in Host : Got(w)' = Got(w) /\ Answers(w)' = Answers(w)
      /\ WorkerStage' /\ Together' /\ stray' = {}
  BY <1>1, WorkerSide DEF workervars, SInv
<1>3. at \in Host /\ miter \in Nat
  BY DEF SInv, TypeOK, Host
<1>4. \A w \in Host : /\ Sent(w)' = IF w = at THEN Sent(w) + 1 ELSE Sent(w)
                      /\ Taken(w)' = Taken(w)
  BY <1>1, <1>3 DEF SInv, MasterLoops, SendBegin, Advance, Sent, Taken, Host, Worker
<1>5. Got(at) = Sent(at) /\ Package(Sent(at) + 1) = "tbegin" /\ MasterSends(at, <<"tbegin">>)
  <2>1. Sent(at) = 2 + miter /\ Taken(at) = 3 + miter /\ miter < N
    BY <1>3 DEF SInv, MasterLoops, SendBegin, Sent, Taken, Worker, Host
  <2>2. Got(at) = 2 + miter
    BY <1>3, <2>1, Order
  <2>3. QED
    BY <1>3, <2>1, <2>2 DEF SendBegin, Package
<1>6. /\ ToWorkerExact' /\ UNCHANGED toMaster
      /\ toWorker' \in [Host -> Seq({"XGREQT", "XGREQS", "tbegin", "XGREQF"})]
  BY <1>2, <1>3, <1>4, <1>5, MasterWrites DEF SInv
<1>7. ToMasterBounded'
  BY <1>2, <1>4, <1>6, ToMasterFrame DEF SInv
<1>8. mpc' \in {"answer", "scheduled", "begin", "collect", "finish", "close"} /\ at' \in Host
  BY <1>3 DEF SInv, MasterLoops, SendBegin, Advance, Host
<1>9. TypeOK'
  BY <1>1, <1>6, <1>8 DEF SInv, TypeOK, workervars, Host
<1>10. MasterLoops' /\ ListsRead'
  BY <1>1, <1>3 DEF SInv, MasterLoops, ListsRead, SendBegin, Advance, Host, Worker
<1>11. QED
  BY <1>2, <1>6, <1>7, <1>9, <1>10 DEF SInv

\* The master dismisses a worker that has sent its top list.
LEMMA SendFinishStep ==
  ASSUME SInv, SchedulePieces = 1, SendFinish
  PROVE  SInv'
<1>1. UNCHANGED <<workervars, swallowed, open, list, arrived, miter>>
  BY DEF SendFinish
<1>2. /\ \A w \in Host : Got(w)' = Got(w) /\ Answers(w)' = Answers(w)
      /\ WorkerStage' /\ Together' /\ stray' = {}
  BY <1>1, WorkerSide DEF workervars, SInv
<1>3. at \in Host /\ miter \in Nat
  BY DEF SInv, TypeOK, Host
<1>4. \A w \in Host : /\ Sent(w)' = IF w = at THEN Sent(w) + 1 ELSE Sent(w)
                      /\ Taken(w)' = Taken(w)
  BY <1>1, <1>3 DEF SInv, MasterLoops, SendFinish, Advance, Sent, Taken, Host, Worker
<1>5. Got(at) = Sent(at) /\ Package(Sent(at) + 1) = "XGREQF" /\ MasterSends(at, <<"XGREQF">>)
  <2>1. Sent(at) = 2 + N /\ Taken(at) = 4 + N
    BY <1>3 DEF SInv, MasterLoops, SendFinish, Sent, Taken, Worker, Host
  <2>2. Got(at) = 2 + N
    BY <1>3, <2>1, Order
  <2>3. QED
    BY <2>1, <2>2 DEF SendFinish, Package
<1>6. /\ ToWorkerExact' /\ UNCHANGED toMaster
      /\ toWorker' \in [Host -> Seq({"XGREQT", "XGREQS", "tbegin", "XGREQF"})]
  BY <1>2, <1>3, <1>4, <1>5, MasterWrites DEF SInv
<1>7. ToMasterBounded'
  BY <1>2, <1>4, <1>6, ToMasterFrame DEF SInv
<1>8. mpc' \in {"answer", "scheduled", "begin", "collect", "finish", "close"} /\ at' \in Host
  BY <1>3 DEF SInv, MasterLoops, SendFinish, Advance, Host
<1>9. TypeOK'
  BY <1>1, <1>6, <1>8 DEF SInv, TypeOK, workervars, Host
<1>10. MasterLoops' /\ ListsRead'
  BY <1>1, <1>3 DEF SInv, MasterLoops, ListsRead, SendFinish, Advance, Host, Worker
<1>11. QED
  BY <1>2, <1>6, <1>7, <1>9, <1>10 DEF SInv

\* The answer to the greeting is the only thing under way from a new host.
LEMMA AnsweredStep ==
  ASSUME SInv, Answered
  PROVE  SInv'
<1>1. UNCHANGED <<miter, arrived, list, open, workervars, swallowed>>
  BY DEF Answered
<1>2. /\ \A j \in Host : Got(j)' = Got(j) /\ Answers(j)' = Answers(j)
      /\ WorkerStage' /\ Together' /\ stray' = {}
  BY <1>1, WorkerSide DEF workervars, SInv
<1>3. at \in Host /\ miter = 0
  BY DEF SInv, TypeOK, MasterLoops, Answered, Host, Worker
<1>4. \A j \in Host : /\ Sent(j)' = Sent(j)
                      /\ Taken(j)' = IF j = at THEN Taken(j) + 1 ELSE Taken(j)
  BY <1>1, <1>3 DEF SInv, MasterLoops, Answered, Advance, Sent, Taken, Host, Worker
<1>5. PICK k \in 1 .. Len(toMaster[at]) : MasterTakes(at, k)
  BY DEF Answered
<1>6. Taken(at) = 0 => Answers(at) <= 1
  <2>1. Sent(at) = 1
    BY <1>3 DEF Answered, Sent, Host
  <2>2. Got(at) \in Nat /\ Got(at) <= 1
    BY <1>3, <2>1, Order
  <2>3. Answers(at) <= 1
    BY <1>3, <2>2 DEF SInv, TypeOK, Got, Answers, Early
  <2>4. QED
    BY <2>3
<1>7. /\ ToMasterBounded' /\ toMaster' \in [Host -> Seq(ToMasterAlphabet)]
      /\ UNCHANGED toWorker
      /\ k \in Nat \ {0} /\ k <= Answers(at) - Taken(at)
  BY <1>2, <1>3, <1>4, <1>5, <1>6, MasterReads DEF SInv
<1>8. ToWorkerExact'
  BY <1>2, <1>4, <1>7, ToWorkerFrame DEF SInv
<1>9. mpc' \in {"discover", "schedule"} /\ at' \in Host
  BY <1>3 DEF Answered, Advance, Host
<1>10. TypeOK'
  BY <1>1, <1>7, <1>9 DEF SInv, TypeOK, workervars, ToMasterAlphabet, Host
<1>11. MasterLoops' /\ ListsRead'
  BY <1>1, <1>3 DEF SInv, MasterLoops, ListsRead, Answered, Advance, Host
<1>12. QED
  BY <1>2, <1>7, <1>8, <1>10, <1>11 DEF SInv

\* The acknowledgement of the schedule package; the report of the loading may be read with it.
LEMMA ScheduledStep ==
  ASSUME SInv, Scheduled
  PROVE  SInv'
<1>1. UNCHANGED <<miter, arrived, list, open, workervars>>
  BY DEF Scheduled
<1>2. /\ \A j \in Host : Got(j)' = Got(j) /\ Answers(j)' = Answers(j)
      /\ WorkerStage' /\ Together' /\ stray' = {}
  BY <1>1, WorkerSide DEF workervars, SInv
<1>3. at \in Host /\ at \in Worker /\ miter = 0 /\ arrived = {}
  BY DEF SInv, TypeOK, MasterLoops, Scheduled, Host, Worker
<1>4. \A j \in Host : /\ Sent(j)' = Sent(j)
                      /\ Taken(j)' = IF j = at THEN Taken(j) + 1 ELSE Taken(j)
  BY <1>1, <1>3 DEF SInv, MasterLoops, Scheduled, Advance, Sent, Taken, Host, Worker
<1>5. PICK k \in 1 .. Len(toMaster[at]) : MasterTakesAck(at, k)
  BY DEF Scheduled
<1>6. Taken(at) >= 1
  BY <1>3 DEF Scheduled, Taken
<1>7. /\ ToMasterBounded' /\ toMaster' \in [Host -> Seq(ToMasterAlphabet)]
      /\ UNCHANGED toWorker
      /\ k \in Nat \ {0} /\ k <= Answers(at) - Taken(at)
  BY <1>2, <1>3, <1>4, <1>5, <1>6, MasterReads DEF SInv, MasterTakesAck
<1>8. ToWorkerExact'
  BY <1>2, <1>4, <1>7, ToWorkerFrame DEF SInv
<1>9. mpc' \in {"schedule", "init"} /\ at' \in Host
  BY <1>3 DEF Scheduled, Advance, Host, Worker
<1>10. swallowed' \in [Host -> SUBSET {"XGACKS", "list"}]
  BY <1>3, <1>5, <1>6, SwallowedType DEF SInv
<1>11. TypeOK'
  BY <1>1, <1>7, <1>9, <1>10 DEF SInv, TypeOK, workervars, ToMasterAlphabet, Host
<1>12. MasterLoops' /\ ListsRead'
  BY <1>1, <1>3 DEF SInv, MasterLoops, ListsRead, Scheduled, Advance, Host
<1>13. QED
  BY <1>2, <1>7, <1>8, <1>11, <1>12 DEF SInv

\* A turn of a parallel loop of the master.
LEMMA ReadAckStep ==
  ASSUME SInv, NEW w \in Host, ReadAck(w)
  PROVE  SInv'
<1>1. UNCHANGED <<mpc, at, miter, list, open, workervars>>
  BY DEF ReadAck
<1>2. /\ \A j \in Host : Got(j)' = Got(j) /\ Answers(j)' = Answers(j)
      /\ WorkerStage' /\ Together' /\ stray' = {}
  BY <1>1, WorkerSide DEF workervars, SInv
<1>3. w \in Worker \ arrived /\ miter \in Nat
  BY DEF SInv, TypeOK, MasterLoops, ReadAck, Host, Worker
<1>4. \A j \in Host : /\ Sent(j)' = Sent(j)
                      /\ Taken(j)' = IF j = w THEN Taken(j) + 1 ELSE Taken(j)
  BY <1>1, <1>3 DEF SInv, MasterLoops, ReadAck, Sent, Taken, Host, Worker
<1>5. PICK k \in 1 .. Len(toMaster[w]) : MasterTakesAck(w, k)
  BY DEF ReadAck
<1>6. Taken(w) >= 1
  BY <1>3 DEF ReadAck, Taken
<1>7. /\ ToMasterBounded' /\ toMaster' \in [Host -> Seq(ToMasterAlphabet)]
      /\ UNCHANGED toWorker
      /\ k \in Nat \ {0} /\ k <= Answers(w) - Taken(w)
  BY <1>2, <1>3, <1>4, <1>5, <1>6, MasterReads DEF SInv, MasterTakesAck
<1>8. ToWorkerExact'
  BY <1>2, <1>4, <1>7, ToWorkerFrame DEF SInv
<1>9. swallowed' \in [Host -> SUBSET {"XGACKS", "list"}]
  BY <1>5, <1>6, SwallowedType DEF SInv
<1>10. arrived' \subseteq Worker
  BY <1>3 DEF SInv, TypeOK, ReadAck
<1>11. TypeOK'
  BY <1>1, <1>7, <1>9, <1>10 DEF SInv, TypeOK, workervars, ToMasterAlphabet
<1>12. MasterLoops' /\ ListsRead'
  BY <1>1 DEF SInv, MasterLoops, ListsRead, ReadAck
<1>13. QED
  BY <1>2, <1>7, <1>8, <1>11, <1>12 DEF SInv

\* The read of a top list puts at least one and at most all of its pieces into topbuf.
LEMMA ReadListStep ==
  ASSUME SInv, NEW w \in Host, ReadList(w)
  PROVE  SInv'
<1>1. UNCHANGED <<mpc, at, miter, open, workervars, swallowed>>
  BY DEF ReadList
<1>2. /\ \A j \in Host : Got(j)' = Got(j) /\ Answers(j)' = Answers(j)
      /\ WorkerStage' /\ Together' /\ stray' = {}
  BY <1>1, WorkerSide DEF workervars, SInv
<1>3. w \in Worker \ arrived /\ arrived' = arrived \cup {w} /\ Taken(w) = 3 + N
  BY DEF ReadList, Taken
<1>4. \A j \in Host : /\ Sent(j)' = Sent(j)
                      /\ Taken(j)' = IF j = w THEN Taken(j) + 1 ELSE Taken(j)
  BY <1>1, <1>3 DEF ReadList, Sent, Taken
<1>5. PICK k \in 1 .. Len(toMaster[w]) :
        MasterTakes(w, k) /\ list' = [list EXCEPT ![w] = k]
  BY DEF ReadList
<1>6. /\ ToMasterBounded' /\ toMaster' \in [Host -> Seq(ToMasterAlphabet)]
      /\ UNCHANGED toWorker
      /\ k \in Nat \ {0} /\ k <= Answers(w) - Taken(w)
  BY <1>2, <1>3, <1>4, <1>5, MasterReads DEF SInv
<1>7. ToWorkerExact'
  BY <1>2, <1>4, <1>6, ToWorkerFrame DEF SInv
<1>8. k \in 1 .. ListPieces
  <2>1. Answers(w) <= 3 + N + ListPieces
    BY DEF SInv, TypeOK, Answers
  <2>2. Answers(w) \in Nat
    BY Order
  <2>3. QED
    BY <1>3, <1>6, <2>1, <2>2
<1>9. TypeOK'
  <2>1. list' \in [Host -> 0 .. ListPieces]
    BY <1>5, <1>8 DEF SInv, TypeOK
  <2>2. arrived' \subseteq Worker
    BY <1>3 DEF SInv, TypeOK
  <2>3. QED
    BY <1>1, <1>6, <2>1, <2>2 DEF SInv, TypeOK, workervars, ToMasterAlphabet
<1>10. \A j \in Host : list'[j] = IF j = w THEN k ELSE list[j]
  BY <1>5 DEF SInv, TypeOK
<1>11. Worker \subseteq Host
  BY DEF Worker, Host
<1>12. MasterLoops' /\ ListsRead'
  BY <1>1, <1>3, <1>8, <1>10, <1>11 DEF SInv, TypeOK, MasterLoops, ListsRead, ReadList
<1>13. QED
  BY <1>2, <1>6, <1>7, <1>9, <1>12 DEF SInv

\* Barrier and Merge pass when every worker has been read from, and what has been sent
\* and read stays what it is.
LEMMA BarrierStep ==
  ASSUME SInv, Barrier
  PROVE  SInv'
<1>1. UNCHANGED <<at, list, open, workervars, toMaster, toWorker, swallowed>>
  BY DEF Barrier
<1>2. /\ \A j \in Host : Got(j)' = Got(j) /\ Answers(j)' = Answers(j)
      /\ WorkerStage' /\ Together' /\ stray' = {}
  BY <1>1, WorkerSide DEF workervars, SInv
<1>3. /\ arrived = Worker /\ arrived' = {} /\ at = 0 /\ miter \in Nat
      /\ mpc = "init" => miter' = 0 /\ mpc' = "begin"
      /\ mpc = "collect" => /\ miter < N /\ miter' = miter + 1
                            /\ mpc' = IF miter' = N THEN "results" ELSE "begin"
      /\ mpc \in {"init", "collect"}
  BY DEF SInv, TypeOK, MasterLoops, Barrier, CountFull, LoopOver
<1>4. \A j \in Host : Sent(j)' = Sent(j) /\ Taken(j)' = Taken(j)
  <2>1. CASE mpc = "init"
    BY <1>1, <1>3, <2>1 DEF Sent, Taken, Host, Worker
  <2>2. CASE mpc = "collect"
    BY <1>1, <1>3, <2>2 DEF Sent, Taken, Host, Worker
  <2>3. QED
    BY <1>3, <2>1, <2>2
<1>5. ToWorkerExact' /\ ToMasterBounded'
  BY <1>1, <1>2, <1>4, ToWorkerFrame, ToMasterFrame DEF SInv
<1>6. TypeOK'
  BY <1>1, <1>3 DEF SInv, TypeOK, workervars
<1>7. MasterLoops' /\ ListsRead'
  BY <1>1, <1>3 DEF SInv, MasterLoops, ListsRead
<1>8. QED
  BY <1>2, <1>5, <1>6, <1>7 DEF SInv

LEMMA MergeStep ==
  ASSUME SInv, Merge
  PROVE  SInv'
<1>1. UNCHANGED <<at, miter, arrived, list, open, workervars, toMaster, toWorker, swallowed>>
  BY DEF Merge
<1>2. /\ \A j \in Host : Got(j)' = Got(j) /\ Answers(j)' = Answers(j)
      /\ WorkerStage' /\ Together' /\ stray' = {}
  BY <1>1, WorkerSide DEF workervars, SInv
<1>3. arrived = Worker /\ at = 0 /\ mpc = "results" /\ mpc' = "finish"
  BY DEF SInv, MasterLoops, Merge, CountFull
<1>4. \A j \in Host : Sent(j)' = Sent(j) /\ Taken(j)' = Taken(j)
  BY <1>1, <1>3 DEF Sent, Taken, Host, Worker
<1>5. ToWorkerExact' /\ ToMasterBounded'
  BY <1>1, <1>2, <1>4, ToWorkerFrame, ToMasterFrame DEF SInv
<1>6. TypeOK'
  BY <1>1, <1>3 DEF SInv, TypeOK, workervars
<1>7. MasterLoops' /\ ListsRead'
  BY <1>1, <1>3 DEF SInv, MasterLoops, ListsRead
<1>8. QED
  BY <1>2, <1>5, <1>6, <1>7 DEF SInv

\* Closing a connection changes nothing for what is on it.
LEMMA CloseNextStep ==
  ASSUME SInv, CloseNext
  PROVE  SInv'
<1>1. UNCHANGED <<miter, arrived, list, workervars, toMaster, toWorker, swallowed>>
  BY DEF CloseNext
<1>2. /\ \A j \in Host : Got(j)' = Got(j) /\ Answers(j)' = Answers(j)
      /\ WorkerStage' /\ Together' /\ stray' = {}
  BY <1>1, WorkerSide DEF workervars, SInv
<1>3. /\ at \in Host /\ at' \in Host /\ mpc = "close" /\ mpc' \in {"close", "exit"}
      /\ mpc' = "exit" => at' = 0
  BY DEF SInv, TypeOK, CloseNext, Advance, Host
<1>4. \A j \in Host : Sent(j)' = Sent(j) /\ Taken(j)' = Taken(j)
  BY <1>1, <1>3 DEF Sent, Taken
<1>5. ToWorkerExact' /\ ToMasterBounded'
  BY <1>1, <1>2, <1>4, ToWorkerFrame, ToMasterFrame DEF SInv
<1>6. open' \in [Host -> BOOLEAN]
  BY DEF SInv, TypeOK, CloseNext
<1>7. TypeOK'
  BY <1>1, <1>3, <1>6 DEF SInv, TypeOK, workervars, Host
<1>8. MasterLoops' /\ ListsRead'
  BY <1>1, <1>3 DEF SInv, MasterLoops, ListsRead
<1>9. QED
  BY <1>2, <1>5, <1>7, <1>8 DEF SInv

-----------------------------------------------------------------------------
(* The steps of a worker *)

\* What all steps of a worker have in common.
WorkerStep(w) ==
  /\ UNCHANGED mastervars /\ UNCHANGED swallowed
  /\ \A j \in Host \ {w} : wpc'[j] = wpc[j] /\ begun'[j] = begun[j]
                             /\ (j \in fd_master' <=> j \in fd_master)

\* The counts of the others, and of the master, stay; the other parts of the invariant
\* have to be looked at for w only.
LEMMA OneWorker ==
  ASSUME SInv, NEW w \in Host, WorkerStep(w)
  PROVE  /\ \A j \in Host : Sent(j)' = Sent(j) /\ Taken(j)' = Taken(j)
         /\ \A j \in Host \ {w} : Got(j)' = Got(j) /\ Answers(j)' = Answers(j)
         /\ MasterLoops' /\ ListsRead'
         /\ \A j \in Host \ {w} : Left(j)' = Left(j) /\ Done(j)' = Done(j)
<1>1. MasterLoops' /\ ListsRead' /\ \A j \in Host : Sent(j)' = Sent(j) /\ Taken(j)' = Taken(j)
  BY MasterSide DEF SInv, WorkerStep
<1>2. \A j \in Host \ {w} : Got(j)' = Got(j) /\ Answers(j)' = Answers(j)
  BY DEF WorkerStep, Got, Answers
<1>3. \A j \in Host \ {w} : Left(j)' = Left(j) /\ Done(j)' = Done(j)
  BY DEF WorkerStep, Left, Done
<1>4. QED
  BY <1>1, <1>2, <1>3

\* A step by which w leaves no iteration and computes no less keeps all together.
LEMMA TogetherFrame ==
  ASSUME SInv, NEW w \in Host, WorkerStep(w), Left(w)' = Left(w),
         Done(w)' \in Int, Done(w)' >= Done(w)
  PROVE  Together'
<1>1. \A j \in Host : Left(j) \in Int /\ Done(j) \in Int
  BY DEF SInv, TypeOK, Left, Done
<1>2. \A j \in Host : Left(j)' = Left(j) /\ (Done(j)' = Done(j) \/ j = w)
  BY OneWorker
<1>3. Worker \subseteq Host
  BY DEF Worker, Host
<1>4. ASSUME NEW v \in Worker, NEW j \in Worker PROVE Left(v)' <= Done(j)'
  <2>1. Left(v) <= Done(j)
    BY DEF SInv, Together
  <2>2. CASE j = w
    BY <1>1, <1>2, <1>3, <2>1, <2>2
  <2>3. CASE j # w
    BY <1>1, <1>2, <1>3, <2>1, <2>3
  <2>4. QED
    BY <2>2, <2>3
<1>5. QED
  BY <1>4 DEF Together

\* A worker that moves on, from and to the places named.
LEMMA StageUpdate ==
  ASSUME SInv, NEW w \in Host, NEW pc, wpc' = [wpc EXCEPT ![w] = pc]
  PROVE  \A j \in Host : wpc'[j] = IF j = w THEN pc ELSE wpc[j]
  BY DEF SInv, TypeOK

\* server1 answers the greeting, the first thing a host reads.
LEMMA WelcomeStep ==
  ASSUME SInv, NEW w \in Host, Welcome(w)
  PROVE  SInv'
<1>1. /\ wpc[w] = "spin" /\ w \notin fd_master /\ fd_master' = fd_master \cup {w}
      /\ UNCHANGED <<wpc, begun, stray, failed>>
  BY DEF SInv, WorkerStage, Welcome
<1>2. WorkerStep(w)
  BY <1>1 DEF Welcome, WorkerStep
<1>3. Got(w) = 0 /\ Got(w)' = 1 /\ Answers(w) = 0 /\ Answers(w)' = 1
  BY <1>1 DEF Got, Answers, Early
<1>4. PICK k \in 1 .. Len(toWorker[w]) : WorkerTakes(w, k)
  BY DEF Welcome
<1>5. ToWorkerExact' /\ toWorker' \in [Host -> Seq({"XGREQT", "XGREQS", "tbegin", "XGREQF"})]
  BY <1>2, <1>3, <1>4, OneWorker, WorkerReads DEF SInv
<1>6. ToMasterBounded' /\ toMaster' \in [Host -> Seq(ToMasterAlphabet)]
  <2>1. Taken(w) = 0
    BY <1>3, Order
  <2>2. WorkerSends(w, <<"XGACKT">>) /\ "XGACKT" \in ToMasterAlphabet
    BY DEF Welcome, ToMasterAlphabet
  <2>3. Answers(w)' = Answers(w) + 1
    BY <1>3
  <2>4. ~ Taken(w) >= 1
    BY <2>1
  <2>5. QED
    BY <1>2, <2>2, <2>3, <2>4, OneWorker, WorkerAnswers DEF SInv
<1>7. TypeOK'
  BY <1>1, <1>2, <1>5, <1>6 DEF SInv, TypeOK, ToMasterAlphabet, WorkerStep, mastervars
<1>8. WorkerStage'
  BY <1>1 DEF SInv, WorkerStage
<1>9. Together' /\ stray' = {}
  BY <1>1 DEF SInv, Together, Left, Done
<1>10. QED
  BY <1>2, <1>5, <1>6, <1>7, <1>8, <1>9, OneWorker DEF SInv

\* The main thread goes on when server1 has set fd_master.
LEMMA AdoptStep ==
  ASSUME SInv, NEW w \in Host, Adopt(w)
  PROVE  SInv'
<1>1. /\ wpc[w] = "spin" /\ w \in fd_master
      /\ UNCHANGED <<fd_master, begun, stray, failed, toMaster, toWorker>>
  BY DEF Adopt
<1>2. \A j \in Host : wpc'[j] = IF j = w THEN "schedule" ELSE wpc[j]
  BY StageUpdate DEF Adopt
<1>3. WorkerStep(w)
  BY <1>1, <1>2 DEF Adopt, WorkerStep
<1>4. \A j \in Host : Got(j)' = Got(j) /\ Answers(j)' = Answers(j)
  BY <1>1, <1>2 DEF Got, Answers, Early
<1>5. ToWorkerExact' /\ ToMasterBounded'
  BY <1>1, <1>3, <1>4, OneWorker, ToWorkerFrame, ToMasterFrame DEF SInv
<1>6. TypeOK'
  BY <1>1, <1>3 DEF SInv, TypeOK, Adopt, WorkerStep, mastervars
<1>7. WorkerStage'
  BY <1>1, <1>2 DEF SInv, WorkerStage, Early
<1>8. Together'
  BY <1>1, <1>2 DEF SInv, Together, Left, Done, Worker, Host
<1>9. QED
  BY <1>1, <1>3, <1>5, <1>6, <1>7, <1>8, OneWorker DEF SInv

\* Only a worker gets a schedule package, and it is the one package under way to it.
LEMMA ReadScheduleStep ==
  ASSUME SInv, NEW w \in Host, ReadSchedule(w)
  PROVE  SInv'
<1>1. /\ wpc[w] = "schedule" /\ w \in fd_master /\ begun[w] = 0
      /\ UNCHANGED <<fd_master, begun, stray, failed>>
  BY DEF SInv, WorkerStage, Early, ReadSchedule
<1>2. \A j \in Host : wpc'[j] = IF j = w THEN "load" ELSE wpc[j]
  BY StageUpdate DEF ReadSchedule
<1>3. WorkerStep(w)
  BY <1>1, <1>2 DEF ReadSchedule, WorkerStep
<1>4. Got(w) = 1 /\ Got(w)' = 2 /\ Answers(w) = 1 /\ Answers(w)' = 2
  BY <1>1, <1>2 DEF Got, Answers, Early
<1>5. PICK k \in 1 .. Len(toWorker[w]) : WorkerTakes(w, k)
  BY DEF ReadSchedule
<1>6. /\ ToWorkerExact' /\ toWorker' \in [Host -> Seq({"XGREQT", "XGREQS", "tbegin", "XGREQF"})]
      /\ Sent(w) = 2
  BY <1>3, <1>4, <1>5, OneWorker, WorkerReads DEF SInv
<1>7. ToMasterBounded' /\ toMaster' \in [Host -> Seq(ToMasterAlphabet)]
  <2>1. WorkerSends(w, <<"XGACKS">>) /\ "XGACKS" \in ToMasterAlphabet
    BY DEF ReadSchedule, ToMasterAlphabet
  <2>2. Answers(w)' = Answers(w) + 1
    BY <1>4
  <2>3. QED
    BY <1>3, <2>1, <2>2, OneWorker, WorkerAnswers DEF SInv
<1>8. w \in Worker
  BY <1>6 DEF Sent
<1>9. TypeOK'
  BY <1>1, <1>3, <1>6, <1>7 DEF SInv, TypeOK, ReadSchedule, ToMasterAlphabet, WorkerStep, mastervars
<1>10. WorkerStage'
  BY <1>1, <1>2, <1>8 DEF SInv, WorkerStage, Early
<1>11. Together'
  BY <1>1, <1>2 DEF SInv, Together, Left, Done, Worker, Host
<1>12. QED
  BY <1>1, <1>3, <1>6, <1>7, <1>9, <1>10, <1>11, OneWorker DEF SInv

\* The assertion after the read of the schedule package fails only on a host without
\* an interval.
LEMMA ReadClosedStep ==
  ASSUME SInv, NEW w \in Host, ReadClosed(w)
  PROVE  SInv'
<1>1. /\ wpc[w] = "schedule" /\ w \in fd_master /\ begun[w] = 0
      /\ toWorker[w] = <<>> /\ ~ open[w]
      /\ UNCHANGED <<fd_master, begun, stray, toMaster, toWorker>>
  BY DEF SInv, WorkerStage, Early, ReadClosed
<1>2. \A j \in Host : wpc'[j] = IF j = w THEN "failed" ELSE wpc[j]
  BY StageUpdate DEF ReadClosed
<1>3. WorkerStep(w)
  BY <1>1, <1>2 DEF ReadClosed, WorkerStep
<1>4. \A j \in Host : Got(j)' = Got(j) /\ Answers(j)' = Answers(j)
  BY <1>1, <1>2 DEF Got, Answers, Early
<1>5. ToWorkerExact' /\ ToMasterBounded'
  BY <1>1, <1>3, <1>4, OneWorker, ToWorkerFrame, ToMasterFrame DEF SInv
<1>6. w \notin Worker
  <2>1. mpc \in {"close", "exit"}
    BY <1>1 DEF SInv, MasterLoops
  <2>2. Sent(w) = IF w \in Worker THEN 3 + N ELSE 1
    BY <2>1 DEF Sent
  <2>3. Got(w) = 1
    BY <1>1 DEF Got, Early
  <2>4. Sent(w) <= Got(w) + 1
    BY Order
  <2>5. QED
    BY <2>2, <2>3, <2>4
<1>7. TypeOK'
  BY <1>1, <1>3 DEF SInv, TypeOK, ReadClosed, WorkerStep, mastervars
<1>8. WorkerStage'
  BY <1>1, <1>2, <1>6 DEF SInv, WorkerStage, Early
<1>9. Together'
  BY <1>1, <1>2 DEF SInv, Together, Left, Done, Worker, Host
<1>10. QED
  BY <1>1, <1>3, <1>5, <1>7, <1>8, <1>9, OneWorker DEF SInv

\* The report that the subgraph is loaded.
LEMMA ReportStep ==
  ASSUME SInv, NEW w \in Host, Report(w)
  PROVE  SInv'
<1>1. /\ wpc[w] = "load" /\ w \in fd_master /\ begun[w] = 0
      /\ UNCHANGED <<fd_master, begun, stray, failed, toWorker>>
  BY DEF SInv, WorkerStage, Report
<1>2. \A j \in Host : wpc'[j] = IF j = w THEN "wait" ELSE wpc[j]
  BY StageUpdate DEF Report
<1>3. WorkerStep(w)
  BY <1>1, <1>2 DEF Report, WorkerStep
<1>4. Got(w)' = Got(w) /\ Answers(w)' = Answers(w) + 1
  BY <1>1, <1>2 DEF Got, Answers, Early
<1>5. ToWorkerExact'
  BY <1>1, <1>3, <1>4, OneWorker, ToWorkerFrame DEF SInv
<1>6. ToMasterBounded' /\ toMaster' \in [Host -> Seq(ToMasterAlphabet)]
  <2>1. WorkerSends(w, <<"XGACKS">>) /\ "XGACKS" \in ToMasterAlphabet
    BY DEF Report, ToMasterAlphabet
  <2>2. QED
    BY <1>3, <1>4, <2>1, OneWorker, WorkerAnswers DEF SInv
<1>7. TypeOK'
  BY <1>1, <1>3, <1>6 DEF SInv, TypeOK, Report, ToMasterAlphabet, WorkerStep, mastervars, InLoop
<1>8. WorkerStage'
  BY <1>1, <1>2 DEF SInv, WorkerStage, Early
<1>9. Together'
  BY <1>1, <1>2 DEF SInv, Together, Left, Done, Worker, Host
<1>10. QED
  BY <1>1, <1>3, <1>5, <1>6, <1>7, <1>8, <1>9, OneWorker DEF SInv

\* What a waiting worker finds is the package that begins its next iteration.
LEMMA BeginFacts ==
  ASSUME SInv, NEW w \in Host, ReadBegin(w)
  PROVE  /\ w \in Worker /\ wpc[w] = "wait" /\ begun[w] \in 0 .. N - 1
         /\ Got(w) = 2 + begun[w] /\ Sent(w) = 3 + begun[w]
         /\ toWorker[w] = <<"tbegin">>
         /\ \A k \in 1 .. Len(toWorker[w]) : WorkerTakes(w, k) => k = 1
<1>1. wpc[w] = "wait" /\ w \in Worker /\ w \in fd_master /\ begun[w] \in 0 .. N - 1
  BY DEF SInv, TypeOK, WorkerStage, ReadBegin, Early
<1>2. Got(w) = 2 + begun[w]
  BY <1>1 DEF Got, Early
<1>3. PICK k \in 1 .. Len(toWorker[w]) : WorkerTakes(w, k)
  BY DEF ReadBegin
<1>4. Sent(w) = Got(w) + 1 /\ toWorker[w] = <<Package(Sent(w))>>
  BY <1>3, WorkerReads DEF SInv
<1>5. Package(3 + begun[w]) = "tbegin"
  BY <1>1 DEF Package
<1>6. Sent(w) = 3 + begun[w]
  BY <1>1, <1>2, <1>4
<1>7. \A n \in 1 .. Len(toWorker[w]) : WorkerTakes(w, n) => n = 1
  BY WorkerReads DEF SInv
<1>8. QED
  BY <1>1, <1>2, <1>4, <1>5, <1>6, <1>7

LEMMA ReadBeginStep ==
  ASSUME SInv, NEW w \in Host, ReadBegin(w)
  PROVE  SInv'
<1>1. /\ w \in Worker /\ wpc[w] = "wait" /\ begun[w] \in 0 .. N - 1 /\ w \in fd_master
      /\ toWorker[w] = <<"tbegin">> /\ Got(w) = 2 + begun[w]
      /\ UNCHANGED <<fd_master, failed, toMaster>>
  BY BeginFacts DEF ReadBegin, SInv, WorkerStage
<1>2. \A j \in Host : wpc'[j] = IF j = w THEN "computing" ELSE wpc[j]
  BY StageUpdate DEF ReadBegin
<1>3. \A j \in Host : begun'[j] = IF j = w THEN begun[j] + 1 ELSE begun[j]
  BY DEF ReadBegin, SInv, TypeOK
<1>4. WorkerStep(w)
  BY <1>1, <1>2, <1>3 DEF ReadBegin, WorkerStep
<1>5. Got(w)' = Got(w) + 1 /\ Answers(w)' = Answers(w)
  BY <1>1, <1>2, <1>3 DEF Got, Answers, Early
<1>6. PICK k \in 1 .. Len(toWorker[w]) :
        /\ WorkerTakes(w, k)
        /\ stray' = IF SubSeq(toWorker[w], 1, k) = <<"tbegin">> THEN stray ELSE stray \cup {w}
  BY DEF ReadBegin
<1>7. ToWorkerExact' /\ toWorker' \in [Host -> Seq({"XGREQT", "XGREQS", "tbegin", "XGREQF"})]
  BY <1>4, <1>5, <1>6, OneWorker, WorkerReads DEF SInv
<1>8. ToMasterBounded'
  BY <1>1, <1>4, <1>5, OneWorker, ToMasterFrame DEF SInv
<1>9. stray' = {}
  <2>1. k = 1
    BY <1>6, BeginFacts
  <2>2. SubSeq(<<"tbegin">>, 1, 1) = <<"tbegin">>
    <3>1. <<"tbegin">> \in Seq({"tbegin"}) /\ Len(<<"tbegin">>) = 1
      OBVIOUS
    <3>2. /\ SubSeq(<<"tbegin">>, 1, 1) \in Seq({"tbegin"})
          /\ Len(SubSeq(<<"tbegin">>, 1, 1)) = 1
          /\ SubSeq(<<"tbegin">>, 1, 1)[1] = "tbegin"
      BY <3>1
    <3> DEFINE q == SubSeq(<<"tbegin">>, 1, 1)
    <3> HIDE DEF q
    <3>3. q = [n \in 1 .. 1 |-> "tbegin"]
      BY <3>2 DEF q
    <3>4. Times(1, "tbegin") = <<"tbegin">>
      BY TimesFacts
    <3>5. QED
      BY <3>3, <3>4 DEF q, Times
  <2>3. QED
    BY <1>1, <1>6, <2>1, <2>2 DEF SInv
<1>10. TypeOK'
  <2>1. begun' \in [Host -> 0 .. N]
    BY <1>1 DEF ReadBegin, SInv, TypeOK
  <2>2. QED
    BY <1>1, <1>4, <1>7, <1>9, <2>1
       DEF SInv, TypeOK, ReadBegin, WorkerStep, mastervars, InLoop
<1>11. WorkerStage'
  BY <1>1, <1>2, <1>3, <1>4 DEF SInv, TypeOK, WorkerStage, WorkerStep, Early
<1>12. Together'
  <2>1. Left(w)' = Left(w) /\ Done(w)' = Done(w) /\ Done(w)' \in Int
    BY <1>1, <1>2, <1>3 DEF Left, Done
  <2>2. QED
    BY <1>4, <2>1, TogetherFrame
<1>13. QED
  BY <1>4, <1>7, <1>8, <1>9, <1>10, <1>11, <1>12, OneWorker DEF SInv

LEMMA ComputedStep ==
  ASSUME SInv, NEW w \in Host, Computed(w)
  PROVE  SInv'
<1>1. /\ wpc[w] = "computing" /\ w \in fd_master /\ begun[w] \in 1 .. N
      /\ UNCHANGED <<fd_master, begun, stray, failed, toMaster, toWorker>>
  BY DEF SInv, TypeOK, WorkerStage, Computed
<1>2. \A j \in Host : wpc'[j] = IF j = w THEN "exchanging" ELSE wpc[j]
  BY StageUpdate DEF Computed
<1>3. WorkerStep(w)
  BY <1>1, <1>2 DEF Computed, WorkerStep
<1>4. \A j \in Host : Got(j)' = Got(j) /\ Answers(j)' = Answers(j)
  BY <1>1, <1>2 DEF Got, Answers, Early
<1>5. ToWorkerExact' /\ ToMasterBounded'
  BY <1>1, <1>3, <1>4, OneWorker, ToWorkerFrame, ToMasterFrame DEF SInv
<1>6. TypeOK'
  BY <1>1, <1>3 DEF SInv, TypeOK, Computed, WorkerStep, mastervars, InLoop
<1>7. WorkerStage'
  BY <1>1, <1>2 DEF SInv, WorkerStage, Early
<1>8. Together'
  <2>1. Left(w)' = Left(w) /\ Done(w)' \in Int /\ Done(w)' >= Done(w)
    BY <1>1, <1>2 DEF Left, Done
  <2>2. QED
    BY <1>3, <2>1, TogetherFrame
<1>9. QED
  BY <1>1, <1>3, <1>5, <1>6, <1>7, <1>8, OneWorker DEF SInv

\* A worker leaves an iteration that all have computed.
LEMMA LeaveStep ==
  ASSUME SInv, NEW w \in Host, Leave(w)
  PROVE  SInv'
<1> DEFINE pc == IF begun[w] = N THEN "output" ELSE "wait"
<1>1. /\ wpc[w] = "exchanging" /\ w \in fd_master /\ w \in Worker /\ begun[w] \in 1 .. N
      /\ UNCHANGED <<fd_master, begun, stray, failed, toWorker>>
  BY DEF SInv, TypeOK, WorkerStage, Leave, Early
<1>2. \A j \in Host : wpc'[j] = IF j = w THEN pc ELSE wpc[j]
  <2>1. wpc' = [wpc EXCEPT ![w] = pc]
    BY DEF Leave
  <2> HIDE DEF pc
  <2>2. QED
    BY <2>1, StageUpdate
<1>3. WorkerStep(w)
  BY <1>1, <1>2 DEF Leave, WorkerStep
<1>4. Got(w)' = Got(w) /\ Answers(w)' = Answers(w) + 1
  BY <1>1, <1>2 DEF Got, Answers, Early
<1>5. ToWorkerExact'
  BY <1>1, <1>3, <1>4, OneWorker, ToWorkerFrame DEF SInv
<1>6. ToMasterBounded' /\ toMaster' \in [Host -> Seq(ToMasterAlphabet)]
  <2>1. WorkerSends(w, <<"XGACKS">>) /\ "XGACKS" \in ToMasterAlphabet
    BY DEF Leave, ToMasterAlphabet
  <2>2. QED
    BY <1>3, <1>4, <2>1, OneWorker, WorkerAnswers DEF SInv
<1>7. TypeOK'
  BY <1>1, <1>3, <1>6 DEF SInv, TypeOK, Leave, ToMasterAlphabet, WorkerStep, mastervars, InLoop
<1>8. WorkerStage'
  BY <1>1, <1>2 DEF SInv, TypeOK, WorkerStage, Early
<1>9. Together'
  <2>1. \A j \in Host : Left(j) \in Int /\ Done(j) \in Int /\ begun[j] \in Nat
    BY DEF SInv, TypeOK, Left, Done
  <2>2. Left(w)' = begun[w] /\ Done(w)' = begun[w] /\ Done(w) = begun[w]
    BY <1>1, <1>2 DEF Left, Done
  <2>3. \A j \in Worker : begun[w] <= Done(j)
    <3>1. Exchanged(w) /\ Worker \subseteq Host
      BY DEF Leave, Worker, Host
    <3>2. QED
      BY <1>1, <2>1, <3>1 DEF Exchanged, Done
  <2>4. ASSUME NEW v \in Worker, NEW j \in Worker PROVE Left(v)' <= Done(j)'
    <3>1. v \in Host /\ j \in Host /\ Left(v) <= Done(j)
      BY DEF SInv, Together, Worker, Host
    <3>2. Done(j)' = Done(j)
      BY <1>3, <2>2, <3>1, OneWorker
    <3>3. Left(v)' = IF v = w THEN begun[w] ELSE Left(v)
      BY <1>3, <2>2, <3>1, OneWorker
    <3>4. QED
      BY <2>3, <3>1, <3>2, <3>3
  <2>5. QED
    BY <2>4 DEF Together
<1>10. QED
  BY <1>1, <1>3, <1>5, <1>6, <1>7, <1>8, <1>9, OneWorker DEF SInv

LEMMA SendListStep ==
  ASSUME SInv, NEW w \in Host, SendList(w)
  PROVE  SInv'
<1>1. /\ wpc[w] = "output" /\ w \in fd_master /\ begun[w] = N
      /\ UNCHANGED <<fd_master, begun, stray, failed, toWorker>>
  BY DEF SInv, WorkerStage, SendList
<1>2. \A j \in Host : wpc'[j] = IF j = w THEN "final" ELSE wpc[j]
  BY StageUpdate DEF SendList
<1>3. WorkerStep(w)
  BY <1>1, <1>2 DEF SendList, WorkerStep
<1>4. Got(w)' = Got(w) /\ Answers(w)' = Answers(w) + ListPieces
  BY <1>1, <1>2 DEF Got, Answers, Early
<1>5. ToWorkerExact'
  BY <1>1, <1>3, <1>4, OneWorker, ToWorkerFrame DEF SInv
<1>6. ToMasterBounded' /\ toMaster' \in [Host -> Seq(ToMasterAlphabet)]
  <2> DEFINE p == Times(ListPieces, "list")
  <2>1. /\ p \in Seq({"list"}) /\ Len(p) = ListPieces
        /\ \A n \in 1 .. ListPieces : p[n] = "list"
    BY TimesFacts
  <2>2. WorkerSends(w, p)
    BY DEF SendList
  <2> HIDE DEF p
  <2>3. p \in Seq(ToMasterAlphabet)
    BY <2>1 DEF ToMasterAlphabet
  <2>4. \A j \in Host : Answers(j)' = IF j = w THEN Answers(j) + Len(p) ELSE Answers(j)
    BY <1>3, <1>4, <2>1, OneWorker
  <2>5. \A n \in 1 .. Len(p) : p[n] # "XGACKT"
    BY <2>1
  <2>6. QED
    BY <1>3, <2>2, <2>3, <2>4, <2>5, OneWorker, WorkerWrites DEF SInv
<1>7. TypeOK'
  BY <1>1, <1>3, <1>6 DEF SInv, TypeOK, SendList, ToMasterAlphabet, WorkerStep, mastervars, InLoop
<1>8. WorkerStage'
  BY <1>1, <1>2 DEF SInv, WorkerStage, Early
<1>9. Together'
  BY <1>1, <1>2 DEF SInv, Together, Left, Done, Worker, Host
<1>10. QED
  BY <1>1, <1>3, <1>5, <1>6, <1>7, <1>8, <1>9, OneWorker DEF SInv

LEMMA ReadFinishStep ==
  ASSUME SInv, NEW w \in Host, ReadFinish(w)
  PROVE  SInv'
<1>1. /\ wpc[w] = "final" /\ w \in fd_master /\ begun[w] = N
      /\ UNCHANGED <<fd_master, begun, stray, failed, toMaster>>
  BY DEF SInv, WorkerStage, ReadFinish
<1>2. \A j \in Host : wpc'[j] = IF j = w THEN "ended" ELSE wpc[j]
  BY StageUpdate DEF ReadFinish
<1>3. WorkerStep(w)
  BY <1>1, <1>2 DEF ReadFinish, WorkerStep
<1>4. Got(w)' = Got(w) + 1 /\ Answers(w)' = Answers(w)
  BY <1>1, <1>2 DEF Got, Answers, Early
<1>5. PICK k \in 1 .. Len(toWorker[w]) : WorkerTakes(w, k)
  BY DEF ReadFinish
<1>6. ToWorkerExact' /\ toWorker' \in [Host -> Seq({"XGREQT", "XGREQS", "tbegin", "XGREQF"})]
  BY <1>3, <1>4, <1>5, OneWorker, WorkerReads DEF SInv
<1>7. ToMasterBounded'
  BY <1>1, <1>3, <1>4, OneWorker, ToMasterFrame DEF SInv
<1>8. TypeOK'
  BY <1>1, <1>3, <1>6 DEF SInv, TypeOK, ReadFinish, WorkerStep, mastervars, InLoop
<1>9. WorkerStage'
  BY <1>1, <1>2 DEF SInv, WorkerStage, Early
<1>10. Together'
  BY <1>1, <1>2 DEF SInv, Together, Left, Done, Worker, Host
<1>11. QED
  BY <1>1, <1>3, <1>6, <1>7, <1>8, <1>9, <1>10, OneWorker DEF SInv

-----------------------------------------------------------------------------
(* Theorems *)

\* Nothing has been sent or read.
LEMMA SessionInit == Init => SInv
<1> SUFFICES ASSUME Init PROVE SInv
  OBVIOUS
<1> USE DEF Init
<1>1. TypeOK
  <2>1. 0 \in Host
    BY DEF Host
  <2>2. /\ toMaster \in [Host -> Seq({"XGACKT", "XGACKS", "list"})]
        /\ toWorker \in [Host -> Seq({"XGREQT", "XGREQS", "tbegin", "XGREQF"})]
    OBVIOUS
  <2>3. QED
    BY <2>1, <2>2 DEF TypeOK, Host
<1>2. MasterLoops /\ ListsRead
  BY DEF MasterLoops, ListsRead
<1>3. WorkerStage
  BY DEF WorkerStage, Early
<1>4. \A w \in Host : Sent(w) = 0 /\ Taken(w) = 0 /\ Got(w) = 0 /\ Answers(w) = 0
  BY DEF Sent, Taken, Got, Answers, Host
<1>5. ToWorkerExact
  BY <1>4 DEF ToWorkerExact
<1>6. ToMasterBounded
  <2>1. \A w \in Host : Len(toMaster[w]) = 0
    OBVIOUS
  <2>2. QED
    BY <1>4, <2>1 DEF ToMasterBounded
<1>7. Together
  BY DEF Together, Left, Done, Worker, Host
<1>8. QED
  BY <1>1, <1>2, <1>3, <1>5, <1>6, <1>7 DEF SInv

\* Every step of the master and of the hosts keeps the invariant.
LEMMA SessionNext ==
  ASSUME SchedulePieces = 1
  PROVE  SInv /\ [Next]_vars => SInv'
<1> SUFFICES ASSUME SInv, [Next]_vars PROVE SInv'
  OBVIOUS
<1>1. CASE Master
  BY <1>1, GreetStep, AnsweredStep, SendScheduleStep, ScheduledStep, BarrierStep,
     SendBeginStep, MergeStep, SendFinishStep, CloseNextStep DEF Master
<1>2. ASSUME NEW w \in Host, MasterThread(w) PROVE SInv'
  BY <1>2, ReadAckStep, ReadListStep DEF MasterThread
<1>3. ASSUME NEW w \in Host, Welcome(w) PROVE SInv'
  BY <1>3, WelcomeStep
<1>4. ASSUME NEW w \in Host, Main(w) PROVE SInv'
  BY <1>4, AdoptStep, ReadScheduleStep, ReadClosedStep, ReportStep, ReadBeginStep,
     ComputedStep, LeaveStep, SendListStep, ReadFinishStep DEF Main
<1>5. CASE UNCHANGED vars
  <2>1. UNCHANGED mastervars /\ UNCHANGED workervars
          /\ UNCHANGED <<begun, toMaster, toWorker, swallowed>>
    BY <1>5, Zenon DEF vars, workervars
  <2>2. /\ \A w \in Host : /\ Sent(w)' = Sent(w) /\ Taken(w)' = Taken(w)
                           /\ Got(w)' = Got(w) /\ Answers(w)' = Answers(w)
        /\ MasterLoops' /\ ListsRead' /\ WorkerStage' /\ Together'
    BY <2>1, MasterSide, WorkerSide DEF SInv, workervars
  <2>3. ToWorkerExact' /\ ToMasterBounded'
    BY <2>1, <2>2, ToWorkerFrame, ToMasterFrame DEF SInv
  <2>4. TypeOK' /\ stray' = {}
    BY <2>1 DEF SInv, TypeOK, mastervars, workervars
  <2>5. QED
    BY <2>2, <2>3, <2>4 DEF SInv
<1>6. QED
  BY <1>1, <1>2, <1>3, <1>4, <1>5 DEF Next

\* SInv is an invariant of the session: on every connection the packages sent and the
\* packages read keep step, whatever the reads at the master join.
THEOREM SessionInductive ==
  ASSUME SchedulePieces = 1
  PROVE  Spec => []SInv
<1>1. QED
  BY SessionInit, SessionNext, PTL DEF Spec

\* The variables of the session keep their types: no loop of the master or of a worker
\* runs over.
THEOREM SessionTypeCorrect ==
  ASSUME SchedulePieces = 1
  PROVE  Spec => []TypeOK
<1>1. SInv => TypeOK
  BY DEF SInv
<1>2. QED
  BY <1>1, SessionInductive, PTL

\* run() and server1, which never look at what they have read, read every package in
\* its turn: what is under way to a worker is the one it expects.
THEOREM InTurnHolds ==
  ASSUME SchedulePieces = 1
  PROVE  Spec => []InTurn
<1>1. SInv => InTurn
  <2> SUFFICES ASSUME SInv, NEW w \in Host, toWorker[w] # <<>>
               PROVE  toWorker[w] = Expected(w)
    BY DEF InTurn, SInv
  <2>1. /\ Sent(w) \in Nat /\ Got(w) \in Nat /\ Taken(w) \in Nat /\ Answers(w) \in Nat
        /\ Taken(w) <= Answers(w) /\ begun[w] \in 0 .. N
    BY Order DEF SInv, TypeOK
  <2>2. Sent(w) = Got(w) + 1 /\ toWorker[w] = <<Package(Got(w) + 1)>>
    <3>1. Sent(w) # Got(w) /\ toWorker[w] = <<Package(Sent(w))>>
      BY Zenon DEF SInv, ToWorkerExact
    <3>2. Got(w) <= Sent(w) /\ Sent(w) <= Got(w) + 1
      BY Order
    <3>3. QED
      BY <2>1, <3>1, <3>2
  <2>3. Got(w) >= 2 => w \in Worker /\ Got(w) + 1 <= Answers(w)
    <3>1. w \in Worker \/ Sent(w) <= 1
      BY DEF Sent
    <3>2. ASSUME Got(w) >= 2 PROVE w \in Worker /\ Got(w) + 1 <= Answers(w)
      <4>1. w \in Worker /\ Sent(w) >= 3
        BY <2>1, <2>2, <3>1, <3>2
      <4>2. Sent(w) <= Taken(w)
        BY <4>1, Ahead DEF SInv
      <4>3. QED
        BY <2>1, <2>2, <4>1, <4>2
    <3>3. QED
      BY <3>2
  <2>4. Sent(w) <= 3 + N
    BY DEF SInv, TypeOK, MasterLoops, Sent
  <2>5. CASE w \notin fd_master
    <3>1. Got(w) = 0 /\ wpc[w] = "spin"
      BY <2>5 DEF Got, SInv, WorkerStage
    <3>2. Package(Got(w) + 1) = "XGREQT"
      BY <3>1 DEF Package
    <3>3. Expected(w) = <<"XGREQT">>
      BY <2>5, <3>1 DEF Expected
    <3>4. QED
      BY <2>2, <3>2, <3>3, Zenon
  <2>6. CASE w \in fd_master /\ wpc[w] \in {"spin", "schedule"}
    <3>1. Got(w) = 1
      BY <2>6 DEF Got, Early
    <3>2. Times(SchedulePieces, "XGREQS") = <<"XGREQS">>
      BY TimesFacts
    <3>3. Expected(w) = Times(SchedulePieces, "XGREQS")
      BY <2>6 DEF Expected
    <3>4. Package(Got(w) + 1) = "XGREQS"
      BY <3>1 DEF Package
    <3>5. QED
      BY <2>2, <3>2, <3>3, <3>4, Zenon
  <2>7. CASE w \in fd_master /\ wpc[w] = "wait"
    <3>1. Got(w) = 2 + begun[w] /\ begun[w] < N
      BY <2>7 DEF Got, Early, SInv, WorkerStage
    <3>2. Package(Got(w) + 1) = "tbegin"
      BY <2>1, <3>1 DEF Package
    <3>3. Expected(w) = <<"tbegin">>
      BY <2>7 DEF Expected
    <3>4. QED
      BY <2>2, <3>2, <3>3
  <2>8. CASE w \in fd_master /\ wpc[w] = "final"
    <3>1. Got(w) = 2 + N
      BY <2>8 DEF Got, Early, SInv, WorkerStage
    <3>2. Package(Got(w) + 1) = "XGREQF"
      BY <3>1 DEF Package
    <3>3. Expected(w) = <<"XGREQF">>
      BY <2>8 DEF Expected
    <3>4. QED
      BY <2>2, <3>2, <3>3
  <2>9. ~ (w \in fd_master /\ wpc[w] \in {"load", "computing", "exchanging", "output"})
    <3> SUFFICES ASSUME w \in fd_master,
                        wpc[w] \in {"load", "computing", "exchanging", "output"}
                 PROVE  FALSE
      OBVIOUS
    <3>1. Got(w) = 2 + begun[w]
      BY DEF Got, Early
    <3>2. CASE wpc[w] # "output"
      <4>1. Answers(w) = 2 + begun[w]
        BY <3>2 DEF Answers, Early
      <4>2. QED
        BY <2>1, <2>3, <3>1, <4>1
    <3>3. CASE wpc[w] = "output"
      <4>1. Answers(w) = 3 + N /\ Got(w) = 2 + N
        BY <3>1, <3>3 DEF Answers, Early, SInv, WorkerStage
      <4>2. Sent(w) = 3 + N /\ w \in Worker
        BY <2>2, <2>3, <4>1
      <4>3. Taken(w) = 4 + N
        BY <4>2 DEF SInv, TypeOK, MasterLoops, Sent, Taken
      <4>4. QED
        BY <2>1, <4>1, <4>3
    <3>4. QED
      BY <3>2, <3>3
  <2>10. ~ (w \in fd_master /\ wpc[w] = "ended")
    <3>1. w \in fd_master /\ wpc[w] = "ended" => Got(w) = 3 + N
      BY DEF Got, Early
    <3>2. QED
      BY <2>2, <2>4, <3>1
  <2>11. ~ (w \in fd_master /\ wpc[w] = "failed")
    <3>1. w \in fd_master /\ wpc[w] = "failed" => Got(w) = 1 /\ w \notin Worker
      BY DEF Got, Early, SInv, WorkerStage
    <3>2. w \notin Worker => Sent(w) <= 1
      BY DEF Sent
    <3>3. QED
      BY <2>1, <2>2, <3>1, <3>2
  <2>12. wpc[w] \in {"spin", "schedule", "load", "output", "final", "ended", "failed"}
                    \cup {"wait", "computing", "exchanging"}
    BY DEF SInv, TypeOK, InLoop
  <2>13. QED
    BY <2>5, <2>6, <2>7, <2>8, <2>9, <2>10, <2>11, <2>12
<1>2. QED
  BY <1>1, SessionInductive, PTL

\* No worker begins to compute before all have reported that they have loaded their
\* subgraphs, whatever acknowledgements the master's reads have joined.
THEOREM LoadedBeforeBeginHolds ==
  ASSUME SchedulePieces = 1
  PROVE  Spec => []LoadedBeforeBegin
<1>1. SInv => LoadedBeforeBegin
  <2> SUFFICES ASSUME SInv, NEW w \in Worker, begun[w] > 0, NEW j \in Worker
               PROVE  wpc[j] \notin {"spin", "schedule", "load"}
    BY DEF LoadedBeforeBegin
  <2>1. w \in Host /\ j \in Host
    BY DEF Worker, Host
  <2>2. Got(w) >= 3
    BY <2>1 DEF SInv, TypeOK, WorkerStage, Got, Early
  <2>3. Answers(j) >= 3
    <3>1. Sent(w) >= 3 /\ Sent(w) \in Nat
      BY <2>1, <2>2, Order
    <3>2. Sent(w) <= Taken(j)
      BY <3>1, Ahead DEF SInv
    <3>3. QED
      BY <2>1, <3>1, <3>2, Order
  <2>4. QED
    BY <2>1, <2>3 DEF SInv, WorkerStage, Answers, Early
<1>2. QED
  BY <1>1, SessionInductive, PTL

\* The master dismisses nobody before it has read something of every top list.
THEOREM DismissedLastHolds ==
  ASSUME SchedulePieces = 1
  PROVE  Spec => []DismissedLast
<1>1. SInv => DismissedLast
  <2> SUFFICES ASSUME SInv, NEW w \in Worker, wpc[w] = "ended", NEW j \in Worker
               PROVE  list[j] > 0
    BY DEF DismissedLast
  <2>1. w \in Host
    BY DEF Worker, Host
  <2>2. Got(w) = 3 + N
    BY <2>1 DEF SInv, WorkerStage, Got, Early
  <2>3. Sent(w) >= 3 + N
    BY <2>1, <2>2, Order
  <2>4. mpc \in {"finish", "close", "exit"}
    BY <2>3 DEF SInv, TypeOK, MasterLoops, Sent
  <2>5. QED
    BY <2>4 DEF SInv, ListsRead
<1>2. QED
  BY <1>1, SessionInductive, PTL

\* Every step of the session is a step of the supersteps or leaves them alone.
LEMMA SessionRefines ==
  ASSUME SInv, [Next]_vars
  PROVE  [Abstract!Next]_(Abstract!vars)
<1> DEFINE rd == [w \in Worker |-> Left(w)]
           st == [w \in Worker |->
                    IF wpc[w] \in {"computing", "exchanging"} THEN wpc[w] ELSE "idle"]
<1> USE DEF Abstract!Worker
<1>1. Worker \subseteq Host
  BY DEF Worker, Host
<1>2. ASSUME \A w \in Worker : Left(w)' = Left(w) /\ (st'[w] = st[w])
      PROVE  UNCHANGED Abstract!vars
  <2>1. rd' = rd
    BY <1>2
  <2>2. st' = st
    BY <1>2
  <2>3. QED
    BY <2>1, <2>2 DEF Abstract!vars, Worker
<1>3. ASSUME UNCHANGED <<wpc, begun>> PROVE UNCHANGED Abstract!vars
  BY <1>2, <1>3 DEF Left
<1>4. ASSUME NEW w \in Host, NEW pc, wpc' = [wpc EXCEPT ![w] = pc], UNCHANGED begun,
             wpc[w] \notin {"computing", "exchanging"}, pc \notin {"computing", "exchanging"}
      PROVE  UNCHANGED Abstract!vars
  <2>1. \A j \in Host : wpc'[j] = IF j = w THEN pc ELSE wpc[j]
    BY <1>4, StageUpdate
  <2>2. QED
    BY <1>1, <1>2, <1>4, <2>1 DEF Left
<1>5. ASSUME NEW w \in Host, ReadBegin(w) PROVE Abstract!Next
  <2>1. w \in Worker /\ wpc[w] = "wait" /\ begun[w] \in 0 .. N - 1 /\ Sent(w) = 3 + begun[w]
    BY <1>5, BeginFacts
  <2>2. \A j \in Host : /\ wpc'[j] = IF j = w THEN "computing" ELSE wpc[j]
                        /\ begun'[j] = IF j = w THEN begun[j] + 1 ELSE begun[j]
    BY <1>5 DEF ReadBegin, SInv, TypeOK
  <2>3. ASSUME NEW j \in Worker PROVE Left(j) = Left(w)
    <3>1. Left(w) = begun[w] /\ Done(w) = begun[w]
      BY <2>1 DEF Left, Done
    <3>2. Left(j) <= begun[w] /\ Left(j) \in Int
      <4>1. Left(j) <= Done(w)
        BY <2>1, Zenon DEF SInv, Together
      <4>2. begun[j] \in Int
        BY <1>1 DEF SInv, TypeOK
      <4>3. QED
        BY <3>1, <4>1, <4>2 DEF Left
    <3>3. Answers(j) >= 3 + begun[w]
      <4>1. Sent(w) <= Taken(j)
        BY <2>1, Ahead DEF SInv
      <4>2. QED
        BY <1>1, <2>1, <4>1, Order
    <3>4. Left(j) >= begun[w]
      <4>1. /\ begun[j] \in Nat /\ begun[w] \in 0 .. N - 1
            /\ wpc[j] \in {"output", "final", "ended"} => begun[j] = N
            /\ wpc[j] \in {"load"} => begun[j] = 0
        BY <1>1, <2>1 DEF SInv, TypeOK, WorkerStage
      <4>2. wpc[j] \in {"spin", "schedule", "load", "output", "final", "ended", "failed"}
                         \cup {"wait", "computing", "exchanging"}
        BY <1>1 DEF SInv, TypeOK, InLoop
      <4>3. QED
        BY <3>3, <4>1, <4>2 DEF Answers, Left, Early
    <3>5. QED
      BY <2>1, <3>1, <3>2, <3>4
  <2>4. rd' = rd /\ rd[w] = Left(w) /\ Left(w) < N
    BY <1>1, <2>1, <2>2 DEF Left
  <2>5. st' = [st EXCEPT ![w] = "computing"] /\ st[w] = "idle"
    BY <1>1, <2>1, <2>2
  <2>6. Abstract!Begin(w)
    BY <2>1, <2>3, <2>4, <2>5 DEF Abstract!Begin, Worker
  <2>7. QED
    BY <2>1, <2>6 DEF Abstract!Next, Worker
<1>6. ASSUME NEW w \in Host, Computed(w) PROVE Abstract!Next
  <2>1. w \in Worker /\ wpc[w] = "computing" /\ begun' = begun
    BY <1>6 DEF Computed, SInv, WorkerStage, Early
  <2>2. \A j \in Host : wpc'[j] = IF j = w THEN "exchanging" ELSE wpc[j]
    BY <1>6, StageUpdate DEF Computed
  <2>3. rd' = rd
    BY <1>1, <2>1, <2>2 DEF Left
  <2>4. st' = [st EXCEPT ![w] = "exchanging"] /\ st[w] = "computing"
    BY <1>1, <2>1, <2>2
  <2>5. Abstract!Computed(w)
    BY <2>1, <2>3, <2>4 DEF Abstract!Computed, Worker
  <2>6. QED
    BY <2>1, <2>5 DEF Abstract!Next, Worker
<1>7. ASSUME NEW w \in Host, Leave(w) PROVE Abstract!Next
  <2> DEFINE pc == IF begun[w] = N THEN "output" ELSE "wait"
  <2>1. w \in Worker /\ wpc[w] = "exchanging" /\ begun' = begun /\ begun[w] \in 1 .. N
    <3>1. wpc[w] = "exchanging" /\ begun' = begun
      BY <1>7 DEF Leave
    <3>2. w \in Worker /\ begun[w] \in 0 .. N /\ begun[w] > 0
      BY <3>1 DEF SInv, TypeOK, WorkerStage, Early
    <3>3. QED
      BY <3>1, <3>2
  <2>2. \A j \in Host : wpc'[j] = IF j = w THEN pc ELSE wpc[j]
    <3>1. wpc' = [wpc EXCEPT ![w] = pc]
      BY <1>7 DEF Leave
    <3> HIDE DEF pc
    <3>2. QED
      BY <3>1, StageUpdate
  <2>3. rd' = [rd EXCEPT ![w] = rd[w] + 1]
    <3>1. \A j \in Worker : Left(j)' = IF j = w THEN Left(j) + 1 ELSE Left(j)
      BY <1>1, <2>1, <2>2 DEF Left
    <3>2. QED
      BY <2>1, <3>1
  <2>4. st' = [st EXCEPT ![w] = "idle"] /\ st[w] = "exchanging"
    BY <1>1, <2>1, <2>2
  <2>5. ASSUME NEW j \in Worker
        PROVE  rd[j] = rd[w] + 1 \/ (rd[j] = rd[w] /\ st[j] = "exchanging")
    <3>1. begun[j] \in Nat /\ (begun[j] > begun[w] \/ (begun[j] = begun[w] /\ wpc[j] # "computing"))
      BY <1>1, <1>7 DEF Leave, Exchanged, SInv, TypeOK
    <3>2. ~ begun[j] > begun[w]
      <4> SUFFICES ASSUME begun[j] > begun[w] PROVE FALSE
        OBVIOUS
      <4>1. Got(j) >= 3 + begun[w]
        BY <1>1, <2>1, <3>1 DEF SInv, TypeOK, WorkerStage, Got, Early
      <4>2. Sent(j) >= 3 + begun[w] /\ Sent(j) \in Nat
        BY <1>1, <2>1, <4>1, Order
      <4>3. Sent(j) <= Taken(w)
        BY <2>1, <4>2, Ahead DEF SInv
      <4>4. Answers(w) = 2 + begun[w]
        BY <1>1, <2>1 DEF SInv, WorkerStage, Answers, Early
      <4>5. QED
        BY <1>1, <2>1, <4>2, <4>3, <4>4, Order
    <3>3. rd[w] = begun[w] - 1
      BY <2>1 DEF Left
    <3>4. QED
      BY <2>1, <3>1, <3>2, <3>3 DEF Left
  <2>6. Abstract!Leave(w)
    BY <2>1, <2>3, <2>4, <2>5 DEF Abstract!Leave, Worker
  <2>7. QED
    BY <2>1, <2>6 DEF Abstract!Next, Worker
<1>8. CASE Master
  BY <1>3, <1>8 DEF Master, workervars, Greet, Answered, SendSchedule, Scheduled, Barrier,
     SendBegin, Merge, SendFinish, CloseNext
<1>9. ASSUME NEW w \in Host, MasterThread(w) PROVE UNCHANGED Abstract!vars
  BY <1>3, <1>9 DEF MasterThread, ReadAck, ReadList, workervars
<1>10. ASSUME NEW w \in Host, Welcome(w) PROVE UNCHANGED Abstract!vars
  BY <1>3, <1>10 DEF Welcome
<1>11. ASSUME NEW w \in Host, Main(w) PROVE [Abstract!Next]_(Abstract!vars)
  <2>1. CASE Adopt(w) \/ ReadSchedule(w) \/ ReadClosed(w) \/ Report(w)
               \/ SendList(w) \/ ReadFinish(w)
    <3>1. UNCHANGED begun /\ wpc[w] \notin {"computing", "exchanging"}
      BY <2>1 DEF Adopt, ReadSchedule, ReadClosed, Report, SendList, ReadFinish
    <3>2. \E pc \in {"schedule", "load", "failed", "wait", "final", "ended"} :
            wpc' = [wpc EXCEPT ![w] = pc]
      BY <2>1 DEF Adopt, ReadSchedule, ReadClosed, Report, SendList, ReadFinish
    <3>3. UNCHANGED Abstract!vars
      BY <1>4, <3>1, <3>2
    <3>4. QED
      BY <3>3
  <2>2. CASE ReadBegin(w) \/ Computed(w) \/ Leave(w)
    BY <1>5, <1>6, <1>7, <2>2
  <2>3. QED
    BY <1>11, <2>1, <2>2, Zenon DEF Main
<1>12. CASE UNCHANGED vars
  BY <1>3, <1>12 DEF vars, workervars
<1>13. QED
  BY <1>8, <1>9, <1>10, <1>11, <1>12 DEF Next

\* The control connection makes the workers go through the supersteps of module
\* Superstep: a "tbegin" is read only when all have left the iteration before.
THEOREM SessionRefinement ==
  ASSUME SchedulePieces = 1
  PROVE  Spec => ImplementsSuperstep
<1>1. Init => Abstract!Init
  BY DEF Init, Abstract!Init, Abstract!Worker, Worker, Host, Left
<1>2. SInv /\ [Next]_vars => [Abstract!Next]_(Abstract!vars)
  BY SessionRefines
<1>3. QED
  BY <1>1, <1>2, SessionInductive, PTL DEF Spec, ImplementsSuperstep, Abstract!Spec

=============================================================================
