---------------------------- MODULE ExchangeProofs ----------------------------
(***************************************************************************)
(* Theorems about module Exchange, for every number of workers, of          *)
(* iterations and every size of the blocks: first type correctness and the  *)
(* loops of the master and the workers, then that IInv is an inductive      *)
(* invariant, and the safety properties that follow from it.                *)
(***************************************************************************)
EXTENDS ExchangeInv, FiniteSetTheorems, TLAPS

USE ExchangeAssumption

\* Facts about the heads and tails of the sequences in flight.
LEMMA PieceFacts ==
  ASSUME NEW c \in Seq(Nat), c # <<>>
  PROVE  /\ Head(c) \in Nat /\ Tail(c) \in Seq(Nat)
         /\ Head(c) = c[1] /\ Len(c) \in Nat \ {0} /\ Len(Tail(c)) = Len(c) - 1
         /\ \A k \in 1 .. Len(Tail(c)) : Tail(c)[k] = c[k + 1]
  OBVIOUS

\* Facts about a sequence in flight to which a piece is appended.
LEMMA AppendFacts ==
  ASSUME NEW c \in Seq(Nat), NEW x \in Nat
  PROVE  /\ Len(c) \in Nat /\ Len(Append(c, x)) = Len(c) + 1 /\ Append(c, x) # <<>>
         /\ \A k \in 1 .. Len(c) : Append(c, x)[k] = c[k]
         /\ Append(c, x)[Len(c) + 1] = x
<1>1. Len(c) \in Nat
  OBVIOUS
<1>2. Append(c, x) \in Seq(Nat) /\ Len(Append(c, x)) = Len(c) + 1
  OBVIOUS
<1>3. Append(c, x) # <<>>
  <2>1. Len(<<>>) = 0
    OBVIOUS
  <2>2. Len(Append(c, x)) # 0
    BY <1>1, <1>2
  <2>3. QED
    BY <2>1, <2>2, Zenon
<1>4. \A k \in 1 .. Len(c) : Append(c, x)[k] = c[k]
  OBVIOUS
<1>5. Append(c, x)[Len(c) + 1] = x
  OBVIOUS
<1>6. QED
  BY <1>1, <1>2, <1>3, <1>4, <1>5, Zenon

\* The in-blocks after piece k of the one that w has from j is set to x.
PieceWritten(w, j, k, x) ==
  /\ DOMAIN inbuf' = Worker /\ \A v \in Worker : DOMAIN inbuf'[v] = Worker
  /\ \A v, i \in Worker : inbuf'[v][i] \in [1 .. OLen[i][v] -> Nat]
  /\ \A v, i \in Worker : \A l \in 1 .. OLen[i][v] :
       inbuf'[v][i][l] = IF v = w /\ i = j /\ l = k THEN x ELSE inbuf[v][i][l]

\* An in-block after one of its pieces is written.
LEMMA BlockUpdate ==
  ASSUME BlockType, NEW w \in Worker, NEW j \in Worker, NEW k \in Int, NEW x \in Nat,
         inbuf' = [inbuf EXCEPT ![w][j][k] = x]
  PROVE  PieceWritten(w, j, k, x)
<1> DEFINE b == [inbuf[w][j] EXCEPT ![k] = x]
<1>1. b \in [1 .. OLen[j][w] -> Nat]
  BY DEF BlockType
<1>2. \A l \in 1 .. OLen[j][w] : b[l] = IF l = k THEN x ELSE inbuf[w][j][l]
  BY DEF BlockType
<1>3. inbuf' = [inbuf EXCEPT ![w] = [inbuf[w] EXCEPT ![j] = b]]
  OBVIOUS
<1>4. DOMAIN inbuf' = Worker /\ \A v \in Worker : DOMAIN inbuf'[v] = Worker
  BY DEF BlockType
<1> HIDE DEF b
<1>5. ASSUME NEW v \in Worker, NEW i \in Worker
      PROVE  inbuf'[v][i] = IF v = w /\ i = j THEN b ELSE inbuf[v][i]
  <2>1. inbuf'[v] = IF v = w THEN [inbuf[w] EXCEPT ![j] = b] ELSE inbuf[v]
    BY <1>3 DEF BlockType
  <2>2. [inbuf[w] EXCEPT ![j] = b][i] = IF i = j THEN b ELSE inbuf[w][i]
    BY DEF BlockType
  <2>3. QED
    BY <2>1, <2>2
<1>6. QED
  BY ZenonT(60), <1>1, <1>2, <1>4, <1>5 DEF BlockType, PieceWritten

\* A type is kept by a step that leaves its variables alone.
LEMMA TypeFrame ==
  /\ MasterType /\ UNCHANGED mvars => MasterType'
  /\ SocketType /\ UNCHANGED sockvars => SocketType'
  /\ MainType /\ UNCHANGED mainvars => MainType'
  /\ CounterType /\ UNCHANGED <<recv_job_num, send_job_num>> => CounterType'
  /\ JobType /\ UNCHANGED jobvars => JobType'
  /\ ChanType /\ UNCHANGED chan => ChanType'
  /\ ServerType /\ UNCHANGED srvvars => ServerType'
  /\ BlockType /\ UNCHANGED <<inbuf, obuf, shadow>> => BlockType'
  BY DEF MasterType, SocketType, MainType, CounterType, JobType, ChanType, ServerType,
         BlockType, mvars, sockvars, mainvars, jobvars, srvvars

\* The types hold at the start of the iterations.
LEMMA InitType == Init => TypeOK
<1> SUFFICES ASSUME Init PROVE TypeOK
  OBVIOUS
<1>1. MasterType /\ SocketType /\ MainType /\ CounterType /\ JobType
  BY DEF Init, MasterType, SocketType, MainType, CounterType, JobType
<1>2. ChanType /\ ServerType /\ BlockType
  BY DEF Init, ChanType, ServerType, BlockType
<1>3. QED
  BY <1>1, <1>2 DEF TypeOK

\* Every action of master, main threads, senders and servers keeps the types.
LEMMA NextType == TypeOK /\ LoopInv /\ [Next]_vars => TypeOK'
<1> SUFFICES ASSUME TypeOK, LoopInv, [Next]_vars PROVE TypeOK'
  OBVIOUS
<1> USE DEF TypeOK
<1>1. CASE SendBegin
  <2>1. MasterType'
    BY <1>1 DEF SendBegin, MasterType, mvars, LoopInv, MasterInv
  <2>2. SocketType'
    <3>1. told \in Worker
      BY <1>1 DEF SendBegin, MasterType, LoopInv, MasterInv, Worker
    <3>2. QED
      BY <1>1, <3>1 DEF SendBegin, SocketType
  <2>3. QED
    BY <1>1, <2>1, <2>2, TypeFrame DEF SendBegin
<1>2. ASSUME NEW w \in Worker, CollectAck(w) PROVE TypeOK'
  <2>1. MasterType'
    BY <1>2 DEF CollectAck, MasterType, mvars
  <2>2. SocketType'
    BY <1>2 DEF CollectAck, SocketType, sockvars
  <2>3. QED
    BY <1>2, <2>1, <2>2, TypeFrame DEF CollectAck
<1>3. CASE NextIteration
  <2>1. MasterType'
    BY <1>3 DEF NextIteration, MasterType, CountRestarted, LoopInv, MasterInv
  <2>2. QED
    BY <1>3, <2>1, TypeFrame DEF NextIteration, CountRestarted
<1>4. ASSUME NEW w \in Worker, ReadBegin(w) PROVE TypeOK'
  <2>1. SocketType'
    BY <1>4 DEF ReadBegin, SocketType
  <2>2. MainType'
    BY <1>4 DEF ReadBegin, MainType
  <2>3. QED
    BY <1>4, <2>1, <2>2, TypeFrame DEF ReadBegin
<1>5. ASSUME NEW w \in Worker, NEW k \in 1 .. OLen[w][w], UpdateInPlace(w, k) PROVE TypeOK'
  <2>1. BlockType'
    <3>1. inbuf' = [inbuf EXCEPT ![w][w][k] = iter[w] + 1] /\ UNCHANGED <<obuf, shadow>>
      BY <1>5 DEF UpdateInPlace
    <3>2. iter[w] + 1 \in Nat /\ k \in Int
      BY DEF MainType
    <3>3. DOMAIN inbuf' = Worker /\ \A v \in Worker : DOMAIN inbuf'[v] = Worker
      BY <3>1, <3>2, BlockUpdate DEF PieceWritten
    <3>4. \A v, i \in Worker : inbuf'[v][i] \in [1 .. OLen[i][v] -> Nat]
      BY <3>1, <3>2, BlockUpdate DEF PieceWritten
    <3>5. QED
      BY <3>1, <3>3, <3>4 DEF BlockType
  <2>2. QED
    BY <1>5, <2>1, TypeFrame DEF UpdateInPlace
<1>6. ASSUME NEW w \in Worker, Compute(w) PROVE TypeOK'
  <2>1. BlockType'
    BY SMTT(60), <1>6 DEF Compute, BlockType, MainType
  <2>2. JobType'
    BY <1>6 DEF Compute, JobType, Peers
  <2>3. MainType'
    BY <1>6 DEF Compute, MainType
  <2>4. QED
    BY <1>6, <2>1, <2>2, <2>3, TypeFrame DEF Compute
<1>7. ASSUME NEW w \in Worker, AllReceived(w) PROVE TypeOK'
  <2>1. MainType'
    BY <1>7 DEF AllReceived, MainType
  <2>2. QED
    BY <1>7, <2>1, TypeFrame DEF AllReceived
<1>8. ASSUME NEW w \in Worker, AllSent(w) PROVE TypeOK'
  <2>1. MainType'
    BY <1>8 DEF AllSent, MainType
  <2>2. CounterType'
    BY <1>8 DEF AllSent, CounterType, Rearm
  <2>3. QED
    BY <1>8, <2>1, <2>2, TypeFrame DEF AllSent, Rearm
<1>9. ASSUME NEW w \in Worker, Report(w) PROVE TypeOK'
  <2>1. SocketType'
    BY <1>9 DEF Report, SocketType
  <2>2. MainType'
    BY <1>9 DEF Report, MainType, LoopInv
  <2>3. BlockType'
    BY <1>9 DEF Report, BlockType, CopyOwnBlock
  <2>4. QED
    BY <1>9, <2>1, <2>2, <2>3, TypeFrame DEF Report
<1>10. ASSUME NEW w \in Worker, NEW j \in Worker, SendPiece(w, j) PROVE TypeOK'
  <2>1. JobType'
    BY <1>10 DEF SendPiece, JobType
  <2>2. ChanType'
    BY SMTT(60), <1>10 DEF SendPiece, ChanType, BlockType
  <2>3. QED
    BY <1>10, <2>1, <2>2, TypeFrame DEF SendPiece
<1>11. ASSUME NEW w \in Worker, NEW j \in Worker, SendDone(w, j) PROVE TypeOK'
  <2>1. JobType'
    BY <1>11 DEF SendDone, JobType
  <2>2. CounterType'
    BY <1>11 DEF SendDone, CounterType
  <2>3. QED
    BY <1>11, <2>1, <2>2, TypeFrame DEF SendDone
<1>12. ASSUME NEW w \in Worker, NEW j \in Worker, BlockEvent(w, j) PROVE TypeOK'
  <2>1. ServerType'
    BY <1>12 DEF BlockEvent, ServerType, srvvars
  <2>2. QED
    BY <1>12, <2>1, TypeFrame DEF BlockEvent
<1>13. ASSUME NEW w \in Worker, RecvPiece(w) PROVE TypeOK'
  <2>1. ChanType'
    BY SMTT(60), <1>13, PieceFacts DEF RecvPiece, ChanType
  <2>2. BlockType'
    <3> PICK j \in Worker : RecvPiece(w)!(j)
      BY <1>13 DEF RecvPiece
    <3>1. offset[w][j] + ptr[w] + 1 \in Int /\ Head(chan[j][w]) \in Nat
      <4>1. offset[w][j] \in Nat /\ ptr[w] \in Nat
        BY DEF ServerType
      <4> DEFINE c == chan[j][w]
      <4>2. c \in Seq(Nat) /\ c # <<>>
        BY DEF ChanType
      <4>3. offset[w][j] + ptr[w] + 1 \in Int
        BY <4>1
      <4> HIDE DEF c
      <4>4. Head(c) \in Nat
        BY <4>2, PieceFacts, Zenon
      <4>5. QED
        BY <4>3, <4>4, Zenon DEF c
    <3>2. DOMAIN inbuf' = Worker /\ \A v \in Worker : DOMAIN inbuf'[v] = Worker
      BY <3>1, BlockUpdate DEF PieceWritten
    <3>3. \A v, i \in Worker : inbuf'[v][i] \in [1 .. OLen[i][v] -> Nat]
      BY <3>1, BlockUpdate DEF PieceWritten
    <3>4. QED
      BY <3>2, <3>3 DEF BlockType
  <2>3. ServerType'
    BY SMTT(60), <1>13 DEF RecvPiece, ServerType
  <2>4. QED
    BY <1>13, <2>1, <2>2, <2>3, TypeFrame DEF RecvPiece
<1>14. ASSUME NEW w \in Worker, EndEvent(w) PROVE TypeOK'
  <2>1. ServerType'
    <3> PICK j \in Worker : EndEvent(w)!(j)
      BY <1>14 DEF EndEvent
    <3>1. srv' \in [Worker -> Worker \cup {NoEvent}] /\ ptr' \in [Worker -> Nat]
      BY DEF ServerType
    <3>2. got' \in [Worker -> [Worker -> Nat]]
      <4>1. CASE CountBlock(w, j)
        BY SMTT(60), <4>1 DEF CountBlock, ServerType
      <4>2. CASE UNCHANGED got
        BY <4>2 DEF ServerType
      <4>3. QED
        BY <4>1, <4>2
    <3>3. offset' \in [Worker -> [Worker -> Nat]]
      <4>1. CASE CountBlock(w, j)
        BY <4>1 DEF CountBlock, ServerType
      <4>2. CASE offset' = [offset EXCEPT ![w][j] = @ + ptr[w]]
        BY SMTT(60), <4>2 DEF ServerType
      <4>3. QED
        BY <4>1, <4>2
    <3>4. QED
      BY <3>1, <3>2, <3>3 DEF ServerType
  <2>2. CounterType'
    BY SMTT(60), <1>14 DEF EndEvent, CounterType, CountBlock
  <2>3. QED
    BY <1>14, <2>1, <2>2, TypeFrame DEF EndEvent, CountBlock
<1>15. CASE UNCHANGED vars
  BY <1>15, TypeFrame DEF vars
<1>16. QED
  BY <1>1, <1>2, <1>3, <1>4, <1>5, <1>6, <1>7, <1>8, <1>9, <1>10, <1>11, <1>12, <1>13,
     <1>14, <1>15
  DEF Next, Master, Main, Sender, Server, Finished

\* The bounds of the two kinds of loops hold at the start ...
LEMMA InitLoop == Init => LoopInv
  BY DEF Init, LoopInv, MasterInv

\* ... and no step of a loop goes beyond them.
LEMMA NextLoop == TypeOK /\ LoopInv /\ [Next]_vars => LoopInv'
<1> SUFFICES ASSUME TypeOK, LoopInv, [Next]_vars PROVE LoopInv'
  OBVIOUS
<1> USE DEF LoopInv, MasterInv
<1>1. UNCHANGED <<mvars, mainvars>> => LoopInv'
  BY DEF mvars, mainvars
<1>2. CASE SendBegin
  BY <1>2 DEF SendBegin, mainvars, TypeOK, MasterType
<1>3. ASSUME NEW w \in Worker, CollectAck(w) PROVE LoopInv'
  BY <1>3 DEF CollectAck, mainvars
<1>4. CASE NextIteration
  BY <1>4 DEF NextIteration, CountRestarted, mainvars, TypeOK, MasterType
<1>5. ASSUME NEW w \in Worker, Main(w) PROVE LoopInv'
  <2>1. UNCHANGED mvars
    BY <1>5 DEF Main, ReadBegin, Compute, UpdateInPlace, AllReceived, AllSent, Report
  <2>2. CASE UNCHANGED mainvars
    BY <1>1, <2>1, <2>2
  <2>3. CASE Report(w)
    BY <2>1, <2>3 DEF Report, mvars, TypeOK, MainType
  <2>4. CASE ReadBegin(w) \/ Compute(w) \/ AllReceived(w) \/ AllSent(w)
    BY <2>1, <2>4 DEF ReadBegin, Compute, AllReceived, AllSent, mvars, TypeOK, MainType
  <2>5. QED
    BY <1>5, <2>2, <2>3, <2>4 DEF Main, UpdateInPlace
<1>6. ASSUME NEW w \in Worker, NEW j \in Worker, Sender(w, j) PROVE LoopInv'
  BY <1>1, <1>6 DEF Sender, SendPiece, SendDone
<1>7. ASSUME NEW w \in Worker, Server(w) PROVE LoopInv'
  BY <1>1, <1>7 DEF Server, RecvPiece, EndEvent, BlockEvent
<1>8. CASE UNCHANGED vars
  BY <1>1, <1>8 DEF vars
<1>9. QED
  BY <1>2, <1>3, <1>4, <1>5, <1>6, <1>7, <1>8 DEF Next, Master, Finished

\* The variables of the exchange always keep their types.
THEOREM TypeCorrect == Spec => []TypeOK
<1>1. Init => TypeOK /\ LoopInv
  BY InitType, InitLoop
<1>2. TypeOK /\ LoopInv /\ [Next]_vars => (TypeOK /\ LoopInv)'
  BY NextType, NextLoop
<1>3. QED
  BY <1>1, <1>2, PTL DEF Spec

-----------------------------------------------------------------------------
(* Facts about the workers and the predicates of the invariant *)

\* The peers of a worker are M - 1, the value the job counters are set to.
LEMMA PeersFacts ==
  ASSUME NEW w \in Worker
  PROVE  /\ Peers(w) \subseteq Worker /\ w \notin Peers(w) /\ NoEvent \notin Worker
         /\ IsFiniteSet(Peers(w)) /\ Cardinality(Peers(w)) = M - 1
<1>1. IsFiniteSet(Worker) /\ Cardinality(Worker) = M
  <2>1. 0 \in Int /\ M - 1 \in Int
    OBVIOUS
  <2>2. IsFiniteSet(0 .. M - 1) /\ Cardinality(0 .. M - 1) = IF 0 > M - 1 THEN 0 ELSE M - 1 - 0 + 1
    BY <2>1, FS_Interval
  <2>3. QED
    BY <2>2 DEF Worker
<1>2. IsFiniteSet(Worker \ {w}) /\ Cardinality(Worker \ {w}) = M - 1
  BY <1>1, FS_RemoveElement
<1>3. NoEvent \notin Worker
  BY DEF NoEvent, Worker
<1>4. QED
  BY <1>2, <1>3 DEF Peers

\* The peers whose blocks are missing are finitely many.
LEMMA UncountedFinite ==
  ASSUME NEW w \in Worker
  PROVE  IsFiniteSet(Uncounted(w)) /\ Cardinality(Uncounted(w)) \in Nat
<1>1. Uncounted(w) \in SUBSET Peers(w)
  BY DEF Uncounted
<1>2. IsFiniteSet(Uncounted(w))
  BY <1>1, PeersFacts, FS_Subset
<1>3. QED
  BY <1>2, FS_CardinalityType

\* A predicate about a worker is kept by a step that leaves what it reads alone.
LEMMA BarrierFrame ==
  ASSUME NEW w \in Worker, BarrierInv(w), UNCHANGED mvars, tbegin'[w] = tbegin[w],
         acks'[w] = acks[w], pc'[w] = pc[w], iter'[w] = iter[w]
  PROVE  BarrierInv(w)'
  BY DEF BarrierInv, Told, Rest, Active, Exchanging, mvars

LEMMA RecvFrame ==
  ASSUME NEW w \in Worker, RecvInv(w), got'[w] = got[w], srv'[w] = srv[w],
         recv_job_num'[w] = recv_job_num[w], pc'[w] = pc[w], iter'[w] = iter[w]
  PROVE  RecvInv(w)'
  BY DEF RecvInv, Uncounted, Rearmed

LEMMA SendFrame ==
  ASSUME NEW w \in Worker, SendInv(w), jobs'[w] = jobs[w], sent'[w] = sent[w],
         send_job_num'[w] = send_job_num[w], pc'[w] = pc[w], iter'[w] = iter[w]
  PROVE  SendInv(w)'
  BY DEF SendInv, Pushed, Exchanging

LEMMA OwnFrame ==
  ASSUME NEW w \in Worker, OwnInv(w), obuf'[w] = obuf[w], shadow'[w] = shadow[w],
         inbuf'[w][w] = inbuf[w][w], pc'[w] = pc[w], iter'[w] = iter[w]
  PROVE  OwnInv(w)'
  BY DEF OwnInv, Pushed, Exchanging

LEMMA FlowFrame ==
  ASSUME NEW w \in Worker, NEW j \in Worker, FlowInv(w, j), Pushed(w)' = Pushed(w),
         got'[j][w] = got[j][w], chan'[w][j] = chan[w][j], sent'[w][j] = sent[w][j],
         offset'[j][w] = offset[j][w], srv'[j] = srv[j], ptr'[j] = ptr[j]
  PROVE  FlowInv(w, j)'
  BY DEF FlowInv, Read

LEMMA DataFrame ==
  ASSUME NEW w \in Worker, NEW j \in Worker, DataInv(w, j), Pushed(w)' = Pushed(w),
         got'[j][w] = got[j][w], chan'[w][j] = chan[w][j],
         \A k \in 1 .. OLen[w][j] : inbuf'[j][w][k] = inbuf[j][w][k],
         Read(j, w)' = Read(j, w)
  PROVE  DataInv(w, j)'
  BY DEF DataInv

\* Nothing about the connections changes.
LEMMA LinkFrame ==
  ASSUME LinkInv, UNCHANGED <<mainvars, jobvars, chan, srvvars>>,
         \A w \in Worker : \A j \in Peers(w) : \A k \in 1 .. OLen[w][j] :
            inbuf'[j][w][k] = inbuf[j][w][k]
  PROVE  LinkInv'
<1> SUFFICES ASSUME NEW w \in Worker, NEW j \in Peers(w)
             PROVE  FlowInv(w, j)' /\ DataInv(w, j)'
  BY DEF LinkInv
<1>1. j \in Worker /\ FlowInv(w, j) /\ DataInv(w, j)
  BY PeersFacts DEF LinkInv
<1>2. Pushed(w)' = Pushed(w) /\ Read(j, w)' = Read(j, w)
  BY DEF Pushed, Read, mainvars, srvvars
<1>3. QED
  BY <1>1, <1>2, FlowFrame, DataFrame DEF srvvars, jobvars

-----------------------------------------------------------------------------
(* What the invariant says together: the argument of the exchange *)

\* Iterations of two workers differ by at most one, and a worker that is at work
\* is never ahead of another.
LEMMA ActiveBehind ==
  ASSUME TypeOK, WorkerInv, NEW w \in Worker, NEW j \in Worker
  PROVE  /\ iter[w] \in {miter, miter + 1} /\ iter[w] \in Nat /\ miter \in Nat
         /\ pc[w] \in Active => iter[w] = miter /\ iter[w] <= iter[j]
<1> USE DEF WorkerInv, TypeOK, MasterType, MainType
<1>1. /\ iter[w] \in {miter, miter + 1} /\ iter[j] \in {miter, miter + 1}
      /\ miter \in Nat /\ iter[w] \in Nat /\ iter[j] \in Nat
  BY DEF BarrierInv
<1>2. pc[w] \in Active => iter[w] = miter
  BY DEF BarrierInv, Active, Exchanging, Rest
<1>3. QED
  BY <1>1, <1>2

\* While w computes, every peer has counted all the blocks w has pushed, so
\* nothing of w is in flight and all workers are in the same iteration.
LEMMA ComputeAlone ==
  ASSUME TypeOK, WorkerInv, LinkInv, NEW w \in Worker, NEW j \in Peers(w),
         pc[w] = "compute"
  PROVE  /\ Pushed(w) = iter[w] /\ iter[j] = iter[w] /\ got[j][w] = Pushed(w)
         /\ chan[w][j] = <<>> /\ srv[j] # w /\ offset[j][w] = 0
<1>1. j \in Worker /\ w \in Peers(j)
  BY DEF Peers
<1>2. iter[w] <= iter[j] /\ iter[w] \in Nat /\ iter[j] \in Nat /\ Pushed(w) = iter[w]
  BY <1>1, ActiveBehind DEF Active, Pushed, Exchanging
<1>3. got[j][w] \in {iter[j], iter[j] + 1} /\ FlowInv(w, j)
  BY <1>1 DEF WorkerInv, RecvInv, LinkInv
<1>4. QED
  BY <1>2, <1>3 DEF FlowInv

\* A block that arrives whole is one of the receiver's current iteration, which
\* the receiver still waits for: its decrement is never lost.
LEMMA ArrivalAwaited ==
  ASSUME TypeOK, WorkerInv, LinkInv, NEW w \in Worker, NEW j \in Peers(w),
         got[w][j] + 1 = Pushed(j)
  PROVE  got[w][j] = iter[w] /\ j \in Uncounted(w) /\ pc[w] \notin {"spinSend", "report"}
<1>1. j \in Worker
  BY DEF Peers
<1>2. /\ iter[w] \in {miter, miter + 1} /\ iter[j] \in {miter, miter + 1}
      /\ miter \in Nat /\ iter[w] \in Nat /\ iter[j] \in Nat
      /\ pc[j] \in Active => iter[j] = miter
  BY <1>1, ActiveBehind
<1>3. Pushed(j) <= iter[j] + 1 /\ (Pushed(j) = iter[j] + 1 => pc[j] \in Active)
  BY <1>2 DEF Pushed, Active, Exchanging
<1>4. /\ got[w][j] \in {iter[w], iter[w] + 1}
      /\ pc[w] \in {"spinSend", "report"} => got[w][j] = iter[w] + 1
  BY DEF WorkerInv, RecvInv
<1>5. Pushed(j) \in Nat
  BY <1>2 DEF Pushed
<1>6. got[w][j] = iter[w]
  BY <1>2, <1>3, <1>4, <1>5
<1>7. pc[w] \notin {"spinSend", "report"}
  BY <1>2, <1>4, <1>6
<1>8. QED
  BY <1>2, <1>6, <1>7 DEF Uncounted, Rearmed

-----------------------------------------------------------------------------
(* The invariant is inductive: one lemma per actor *)

LEMMA InitInv == Init => IInv
<1> SUFFICES ASSUME Init PROVE IInv
  OBVIOUS
<1>1. ASSUME NEW w \in Worker PROVE BarrierInv(w)
  BY <1>1 DEF Init, BarrierInv, Told, Rest, Worker
<1>2. ASSUME NEW w \in Worker PROVE RecvInv(w)
  <2>1. Uncounted(w) = Peers(w)
    BY PeersFacts DEF Init, Uncounted, Rearmed
  <2>2. srv[w] # w
    BY PeersFacts DEF Init
  <2>3. QED
    BY <2>1, <2>2, PeersFacts DEF Init, RecvInv
<1>3. ASSUME NEW w \in Worker PROVE SendInv(w) /\ OwnInv(w)
  BY DEF Init, SendInv, OwnInv, Pushed, Exchanging
<1>4. ASSUME NEW w \in Worker, NEW j \in Peers(w) PROVE FlowInv(w, j) /\ DataInv(w, j)
  <2>1. j \in Worker /\ NoEvent # w
    BY PeersFacts
  <2>2. FlowInv(w, j)
    BY <2>1 DEF Init, FlowInv, Pushed, Exchanging
  <2>3. Read(j, w) = 0 /\ chan[w][j] = <<>> /\ got[j][w] = 0
    BY <2>1 DEF Init, Read
  <2>4. \A k \in 1 .. OLen[w][j] : inbuf[j][w][k] = 0
    BY <2>1 DEF Init
  <2>5. QED
    BY <2>2, <2>3, <2>4 DEF DataInv
<1>5. QED
  BY <1>1, <1>2, <1>3, <1>4, InitType, InitLoop DEF IInv, WorkerInv, LinkInv

\* The master moves the workers through the stages of its barrier only.
LEMMA MasterStep ==
  ASSUME IInv, Master
  PROVE  WorkerInv' /\ LinkInv'
<1> USE DEF IInv
<1>1. UNCHANGED <<mainvars, recv_job_num, send_job_num, jobvars, chan, srvvars, inbuf,
                  obuf, shadow>>
  BY DEF Master, SendBegin, NextIteration, CollectAck
<1>2. LinkInv'
  BY <1>1, LinkFrame
<1>3. ASSUME NEW w \in Worker PROVE RecvInv(w)' /\ SendInv(w)' /\ OwnInv(w)'
  BY <1>1, RecvFrame, SendFrame, OwnFrame DEF WorkerInv, mainvars, jobvars, srvvars
<1>4. ASSUME NEW w \in Worker PROVE BarrierInv(w)'
  <2> USE DEF TypeOK, MasterType, SocketType, MainType, LoopInv, MasterInv
  <2>1. BarrierInv(w)
    BY DEF WorkerInv
  <2>2. UNCHANGED mainvars
    BY <1>1
  <2>3. CASE SendBegin
    <3>1. told \in Worker /\ told # M
      BY <2>3 DEF SendBegin, Worker
    <3>2. tbegin'[w] = IF w = told THEN tbegin[w] + 1 ELSE tbegin[w]
      BY <2>3, <3>1 DEF SendBegin
    <3>3. (Told(w)' <=> w <= told) /\ (Told(w) <=> w < told)
      <4>1. Told(w) <=> w < told
        BY <2>3 DEF SendBegin, Told
      <4>2. mpc' = "collect" <=> told + 1 = M
        BY <2>3 DEF SendBegin
      <4>3. Told(w)' <=> told + 1 = M \/ w < told + 1
        BY <2>3, <4>2 DEF SendBegin, Told
      <4>4. w \in 0 .. M - 1 /\ told \in 0 .. M - 1
        BY <3>1 DEF Worker
      <4>5. QED
        BY <4>1, <4>3, <4>4
    <3>4. /\ UNCHANGED <<miter, collected>> /\ acks'[w] = acks[w] /\ pc'[w] = pc[w]
          /\ iter'[w] = iter[w]
      BY <2>2, <2>3 DEF SendBegin, mainvars
    <3>5. CASE w = told
      <4>1. ~Told(w) /\ Told(w)' /\ tbegin'[w] = tbegin[w] + 1
        BY <3>1, <3>2, <3>3, <3>5 DEF Worker
      <4>2. iter[w] = miter /\ tbegin[w] = 0 /\ acks[w] = 0 /\ pc[w] = "wait"
        BY <2>1, <2>3, <4>1 DEF SendBegin, BarrierInv, Rest
      <4>3. w \notin collected
        BY <2>3 DEF SendBegin
      <4>4. QED
        BY <3>4, <4>1, <4>2, <4>3 DEF BarrierInv
    <3>6. CASE w # told
      <4>1. Told(w)' <=> Told(w)
        <5>1. w <= told <=> w < told
          BY <3>1, <3>6 DEF Worker
        <5>2. QED
          BY <3>3, <5>1, Zenon
      <4>2. tbegin'[w] = tbegin[w]
        BY <3>2, <3>6
      <4>3. QED
        BY <2>1, <3>4, <4>1, <4>2 DEF BarrierInv
    <3>7. QED
      BY <3>5, <3>6
  <2>4. ASSUME NEW v \in Worker, CollectAck(v) PROVE BarrierInv(w)'
    BY <2>1, <2>2, <2>4 DEF CollectAck, BarrierInv, Told, mainvars
  <2>5. CASE NextIteration
    <3>1. w \in collected /\ ~Told(w)' /\ Told(w)
      BY <2>5 DEF NextIteration, BarrierFull, CountRestarted, Told, Worker
    <3>2. QED
      BY <2>1, <2>2, <2>5, <3>1 DEF NextIteration, CountRestarted, BarrierInv, mainvars,
         sockvars
  <2>6. QED
    BY <2>3, <2>4, <2>5 DEF Master
<1>5. QED
  BY <1>2, <1>3, <1>4 DEF WorkerInv

\* What a step of w's main thread leaves alone at the other workers.
LEMMA MainFrame ==
  ASSUME IInv, NEW w \in Worker, Main(w), NEW v \in Worker, v # w
  PROVE  BarrierInv(v)' /\ RecvInv(v)' /\ SendInv(v)' /\ OwnInv(v)'
<1> USE DEF IInv, TypeOK, SocketType, MainType, CounterType, JobType, BlockType
<1>1. /\ UNCHANGED <<mvars, chan, srvvars>> /\ tbegin'[v] = tbegin[v] /\ acks'[v] = acks[v]
      /\ pc'[v] = pc[v] /\ iter'[v] = iter[v]
  BY DEF Main, ReadBegin, Compute, UpdateInPlace, AllReceived, AllSent, Report, sockvars,
     mainvars
<1>2. recv_job_num'[v] = recv_job_num[v] /\ send_job_num'[v] = send_job_num[v]
  BY DEF Main, ReadBegin, Compute, UpdateInPlace, AllReceived, AllSent, Report, Rearm
<1>3. jobs'[v] = jobs[v] /\ sent'[v] = sent[v]
  BY DEF Main, ReadBegin, Compute, UpdateInPlace, AllReceived, AllSent, Report, jobvars
<1>4. obuf'[v] = obuf[v] /\ shadow'[v] = shadow[v]
  <2>1. CASE Compute(w)
    BY <2>1 DEF Compute
  <2>2. CASE ~Compute(w)
    BY <2>2 DEF Main, ReadBegin, UpdateInPlace, AllReceived, AllSent, Report
  <2>3. QED
    BY <2>1, <2>2
<1>5. inbuf'[v][v] = inbuf[v][v]
  <2>1. CASE Report(w)
    BY <2>1 DEF Report, CopyOwnBlock
  <2>2. ASSUME NEW k \in 1 .. OLen[w][w], UpdateInPlace(w, k) PROVE inbuf'[v][v] = inbuf[v][v]
    BY <2>2 DEF UpdateInPlace
  <2>3. CASE UNCHANGED inbuf
    BY <2>3
  <2>4. QED
    BY <2>1, <2>2, <2>3 DEF Main, ReadBegin, Compute, AllReceived, AllSent
<1>6. QED
  BY <1>1, <1>2, <1>3, <1>4, <1>5, BarrierFrame, RecvFrame, SendFrame, OwnFrame
  DEF WorkerInv, srvvars

\* The main thread reads "tbegin".
LEMMA ReadBeginStep ==
  ASSUME IInv, NEW w \in Worker, ReadBegin(w)
  PROVE  WorkerInv' /\ LinkInv'
<1> USE DEF IInv
<1>1. /\ pc[w] = "wait" /\ pc'[w] = "compute" /\ tbegin[w] > 0 /\ tbegin'[w] = 0
      /\ acks'[w] = acks[w]
      /\ UNCHANGED <<mvars, iter, recv_job_num, send_job_num, jobvars, chan, srvvars,
                     inbuf, obuf, shadow>>
  BY DEF ReadBegin, TypeOK, MainType, SocketType
<1>2. /\ BarrierInv(w) /\ RecvInv(w) /\ SendInv(w) /\ OwnInv(w)
      /\ iter[w] \in Nat /\ Pushed(w)' = Pushed(w) /\ Pushed(w) = iter[w]
  BY <1>1 DEF WorkerInv, Pushed, Exchanging, TypeOK, MainType
<1>3. BarrierInv(w)'
  BY <1>1, <1>2 DEF BarrierInv, Told, Active, mvars
<1>4. RecvInv(w)' /\ SendInv(w)'
  BY <1>1, <1>2 DEF RecvInv, SendInv, Uncounted, Rearmed, srvvars, jobvars
<1>5. OwnInv(w)'
  BY <1>1, <1>2 DEF OwnInv
<1>6. WorkerInv'
  BY <1>3, <1>4, <1>5, MainFrame DEF WorkerInv, Main
<1>7. ASSUME NEW v \in Worker, NEW j \in Peers(v) PROVE FlowInv(v, j)' /\ DataInv(v, j)'
  <2>1. Pushed(v)' = Pushed(v) /\ Read(j, v)' = Read(j, v)
    BY <1>1, <1>2 DEF Pushed, Read, srvvars, ReadBegin, TypeOK, MainType
  <2>2. QED
    BY <1>1, <2>1, FlowFrame, DataFrame, PeersFacts DEF LinkInv, jobvars, srvvars
<1>8. QED
  BY <1>6, <1>7 DEF LinkInv

\* A vertex function writes an edge of the own block in place (asyn = 1).
LEMMA UpdateInPlaceStep ==
  ASSUME IInv, NEW w \in Worker, NEW k \in 1 .. OLen[w][w], UpdateInPlace(w, k)
  PROVE  WorkerInv' /\ LinkInv'
<1> USE DEF IInv
<1>1. /\ Asyn /\ pc[w] = "compute"
      /\ UNCHANGED <<mvars, sockvars, mainvars, recv_job_num, send_job_num, jobvars, chan,
                     srvvars, obuf, shadow>>
  BY DEF UpdateInPlace
<1>2. \A v, i \in Worker : \A l \in 1 .. OLen[i][v] :
        inbuf'[v][i][l] = IF v = w /\ i = w /\ l = k THEN iter[w] + 1 ELSE inbuf[v][i][l]
  <2> DEFINE x == iter[w] + 1
  <2>1. x \in Nat /\ k \in Int
    BY DEF TypeOK, MainType
  <2>2. BlockType /\ inbuf' = [inbuf EXCEPT ![w][w][k] = x]
    BY DEF UpdateInPlace, TypeOK
  <2> HIDE DEF x
  <2>3. \A v, i \in Worker : \A l \in 1 .. OLen[i][v] :
          inbuf'[v][i][l] = IF v = w /\ i = w /\ l = k THEN x ELSE inbuf[v][i][l]
    <3>1. PieceWritten(w, w, k, x)
      BY <2>1, <2>2, BlockUpdate, Zenon
    <3>2. QED
      BY <3>1, Zenon DEF PieceWritten
  <2>4. QED
    BY <2>3 DEF x
<1>3. BarrierInv(w)' /\ RecvInv(w)' /\ SendInv(w)'
  BY <1>1, BarrierFrame, RecvFrame, SendFrame
  DEF WorkerInv, mvars, sockvars, mainvars, jobvars, srvvars
<1>4. OwnInv(w)'
  <2>1. \A l \in 1 .. OLen[w][w] : inbuf[w][w][l] \in {iter[w], iter[w] + 1}
    BY <1>1 DEF WorkerInv, OwnInv
  <2>2. \A l \in 1 .. OLen[w][w] : inbuf'[w][w][l] \in {iter[w], iter[w] + 1}
    BY <1>2, <2>1
  <2>3. /\ obuf'[w] = obuf[w] /\ shadow'[w] = shadow[w] /\ pc'[w] = "compute"
        /\ iter'[w] = iter[w] /\ Pushed(w)' = Pushed(w) /\ OwnInv(w)
    BY <1>1 DEF WorkerInv, mainvars, Pushed
  <2>4. QED
    BY <1>1, <2>2, <2>3 DEF OwnInv
<1>5. \A v \in Worker : \A j \in Peers(v) : \A l \in 1 .. OLen[v][j] :
        inbuf'[j][v][l] = inbuf[j][v][l]
  BY <1>2 DEF Peers
<1>6. LinkInv'
  BY <1>1, <1>5, LinkFrame
<1>7. WorkerInv'
  BY <1>3, <1>4, MainFrame DEF WorkerInv, Main
<1>8. QED
  BY <1>6, <1>7

\* crucial_updates ends and the jobs are pushed.
LEMMA ComputeStep ==
  ASSUME IInv, NEW w \in Worker, Compute(w)
  PROVE  WorkerInv' /\ LinkInv'
<1> USE DEF IInv
<1>1. /\ pc[w] = "compute" /\ pc'[w] = "spinRecv" /\ obuf'[w] = iter[w] + 1
      /\ jobs'[w] = Peers(w) /\ sent'[w] = [j \in Worker |-> 0]
      /\ UNCHANGED <<mvars, sockvars, iter, recv_job_num, send_job_num, chan, srvvars,
                     inbuf>>
  BY DEF Compute, TypeOK, MainType, BlockType, JobType
<1>2. /\ BarrierInv(w) /\ RecvInv(w) /\ SendInv(w) /\ OwnInv(w) /\ iter[w] \in Nat
      /\ Pushed(w) = iter[w] /\ Pushed(w)' = iter[w] + 1
  BY <1>1 DEF WorkerInv, Pushed, Exchanging, TypeOK, MainType
<1>3. BarrierInv(w)'
  BY <1>1, <1>2 DEF BarrierInv, Told, Rest, Active, Exchanging, mvars, sockvars
<1>4. RecvInv(w)'
  BY <1>1, <1>2 DEF RecvInv, Uncounted, Rearmed, srvvars
<1>5. SendInv(w)'
  BY <1>1, <1>2, PeersFacts DEF SendInv
<1>6. OwnInv(w)'
  <2>1. CASE Asyn
    <3>1. \A k \in 1 .. OLen[w][w] : inbuf'[w][w][k] = iter[w] + 1
      BY <1>1, <2>1 DEF Compute
    <3>2. QED
      BY <1>1, <1>2, <2>1, <3>1 DEF OwnInv
  <2>2. CASE ~Asyn
    <3>1. shadow'[w] = iter[w] + 1
      BY <2>2 DEF Compute, TypeOK, BlockType
    <3>2. QED
      BY <1>1, <1>2, <2>2, <3>1 DEF OwnInv
  <2>3. QED
    BY <2>1, <2>2
<1>7. WorkerInv'
  BY <1>3, <1>4, <1>5, <1>6, MainFrame DEF WorkerInv, Main
<1>8. ASSUME NEW v \in Worker, NEW j \in Peers(v) PROVE FlowInv(v, j)' /\ DataInv(v, j)'
  <2>1. j \in Worker /\ FlowInv(v, j) /\ DataInv(v, j) /\ Read(j, v)' = Read(j, v)
    BY <1>1, PeersFacts DEF LinkInv, Read, srvvars
  <2>2. CASE v = w
    <3>1. /\ Pushed(w) = iter[w] /\ got[j][w] = Pushed(w) /\ chan[w][j] = <<>>
          /\ srv[j] # w /\ offset[j][w] = 0
      BY <1>1, <2>2, ComputeAlone
    <3>2. Read(j, w)' = 0 /\ Len(chan'[w][j]) = 0 /\ sent'[w][j] = 0 /\ OLen[w][j] \in Nat
      BY <1>1, <2>1, <2>2, <3>1 DEF Read
    <3>3. FlowInv(w, j)'
      BY SMTT(60), <1>1, <1>2, <3>1, <3>2 DEF FlowInv, srvvars
    <3>4. DataInv(w, j)'
      BY <1>1, <1>2, <2>1, <2>2, <3>1, <3>2 DEF DataInv, srvvars
    <3>5. QED
      BY <2>2, <3>3, <3>4
  <2>3. CASE v # w
    <3>1. Pushed(v)' = Pushed(v) /\ sent'[v] = sent[v]
      BY <1>1, <2>3 DEF Pushed, Compute, TypeOK, MainType, JobType
    <3>2. QED
      BY <1>1, <2>1, <3>1, FlowFrame, DataFrame DEF srvvars
  <2>4. QED
    BY <2>2, <2>3
<1>9. QED
  BY <1>7, <1>8 DEF LinkInv

\* The main thread stops spinning on recv_job_num: every block has been counted.
LEMMA AllReceivedStep ==
  ASSUME IInv, NEW w \in Worker, AllReceived(w)
  PROVE  WorkerInv' /\ LinkInv'
<1> USE DEF IInv
<1>1. /\ pc[w] = "spinRecv" /\ pc'[w] = "spinSend" /\ recv_job_num[w] = 0
      /\ UNCHANGED <<mvars, sockvars, iter, recv_job_num, send_job_num, jobvars, chan,
                     srvvars, inbuf, obuf, shadow>>
  BY DEF AllReceived, BlocksReceived, TypeOK, MainType
<1>2. /\ BarrierInv(w) /\ RecvInv(w) /\ SendInv(w) /\ OwnInv(w) /\ iter[w] \in Nat
      /\ \A v \in Worker : Pushed(v)' = Pushed(v)
  BY <1>1 DEF WorkerInv, Pushed, Exchanging, TypeOK, MainType, AllReceived
<1>3. BarrierInv(w)'
  BY <1>1, <1>2 DEF BarrierInv, Told, Rest, Active, Exchanging, mvars, sockvars
<1>4. RecvInv(w)'
  <2>1. Cardinality(Uncounted(w)) = 0
    BY <1>1, <1>2 DEF RecvInv
  <2>2. Uncounted(w) = {}
    BY <2>1, UncountedFinite, FS_EmptySet
  <2>3. \A j \in Peers(w) : got[w][j] = iter[w] + 1
    BY <1>1, <1>2, <2>2 DEF RecvInv, Uncounted, Rearmed
  <2>4. Uncounted(w)' = Uncounted(w)
    BY <1>1, <1>2 DEF Uncounted, Rearmed, srvvars
  <2>5. QED
    BY <1>1, <1>2, <2>3, <2>4 DEF RecvInv, srvvars
<1>5. SendInv(w)' /\ OwnInv(w)'
  BY <1>1, <1>2 DEF SendInv, OwnInv, jobvars
<1>6. WorkerInv'
  BY <1>3, <1>4, <1>5, MainFrame DEF WorkerInv, Main
<1>7. ASSUME NEW v \in Worker, NEW j \in Peers(v) PROVE FlowInv(v, j)' /\ DataInv(v, j)'
  <2>1. Read(j, v)' = Read(j, v)
    BY <1>1 DEF Read, srvvars
  <2>2. QED
    BY <1>1, <1>2, <2>1, FlowFrame, DataFrame, PeersFacts DEF LinkInv, jobvars, srvvars
<1>8. QED
  BY <1>6, <1>7 DEF LinkInv

\* The main thread stops spinning on send_job_num and sets both counters again.
LEMMA AllSentStep ==
  ASSUME IInv, NEW w \in Worker, AllSent(w)
  PROVE  WorkerInv' /\ LinkInv'
<1> USE DEF IInv
<1>1. /\ pc[w] = "spinSend" /\ pc'[w] = "report" /\ send_job_num[w] = 0
      /\ send_job_num'[w] = M - 1 /\ recv_job_num'[w] = M - 1
      /\ UNCHANGED <<mvars, sockvars, iter, jobvars, chan, srvvars, inbuf, obuf, shadow>>
  BY DEF AllSent, JobsDone, Rearm, TypeOK, MainType, CounterType
<1>2. /\ BarrierInv(w) /\ RecvInv(w) /\ SendInv(w) /\ OwnInv(w) /\ iter[w] \in Nat
      /\ \A v \in Worker : Pushed(v)' = Pushed(v)
  BY <1>1 DEF WorkerInv, Pushed, Exchanging, TypeOK, MainType, AllSent
<1>3. BarrierInv(w)'
  BY <1>1, <1>2 DEF BarrierInv, Told, Rest, Active, Exchanging, mvars, sockvars
<1>4. RecvInv(w)'
  <2>1. \A j \in Peers(w) : got[w][j] = iter[w] + 1
    BY <1>1, <1>2 DEF RecvInv
  <2>2. Rearmed(w)' = iter[w] + 1
    BY <1>1 DEF Rearmed
  <2>3. Uncounted(w)' = Peers(w)
    BY <1>1, <2>1, <2>2 DEF Uncounted, srvvars
  <2>4. QED
    BY <1>1, <1>2, <2>1, <2>3, PeersFacts DEF RecvInv, srvvars
<1>5. SendInv(w)'
  <2>1. Cardinality(jobs[w]) = 0 /\ jobs[w] \subseteq Peers(w)
    BY <1>1, <1>2 DEF SendInv
  <2>2. IsFiniteSet(jobs[w])
    BY <2>1, PeersFacts, FS_Subset
  <2>3. jobs[w] = {}
    BY <2>1, <2>2, FS_EmptySet
  <2>4. QED
    BY <1>1, <1>2, <2>3 DEF SendInv, jobvars
<1>6. OwnInv(w)'
  BY <1>1, <1>2 DEF OwnInv
<1>7. WorkerInv'
  BY <1>3, <1>4, <1>5, <1>6, MainFrame DEF WorkerInv, Main
<1>8. ASSUME NEW v \in Worker, NEW j \in Peers(v) PROVE FlowInv(v, j)' /\ DataInv(v, j)'
  <2>1. Read(j, v)' = Read(j, v)
    BY <1>1 DEF Read, srvvars
  <2>2. QED
    BY <1>1, <1>2, <2>1, FlowFrame, DataFrame, PeersFacts DEF LinkInv, jobvars, srvvars
<1>9. QED
  BY <1>7, <1>8 DEF LinkInv

\* The main thread copies the shadow of its own block and reports the iteration.
LEMMA ReportStep ==
  ASSUME IInv, NEW w \in Worker, Report(w)
  PROVE  WorkerInv' /\ LinkInv'
<1> USE DEF IInv
<1>1. /\ pc[w] = "report" /\ pc'[w] = Rest(iter[w] + 1) /\ iter'[w] = iter[w] + 1
      /\ acks'[w] = acks[w] + 1
      /\ UNCHANGED <<mvars, tbegin, recv_job_num, send_job_num, jobvars, chan, srvvars,
                     obuf, shadow>>
  BY DEF Report, Rest, TypeOK, MainType, SocketType
<1>2. /\ BarrierInv(w) /\ RecvInv(w) /\ SendInv(w) /\ OwnInv(w) /\ iter[w] \in Nat
      /\ Pushed(w) = iter[w] + 1 /\ pc'[w] \in {"wait", "done"}
  BY <1>1 DEF WorkerInv, Pushed, Exchanging, Rest, TypeOK, MainType
<1>3. Pushed(w)' = iter[w] + 1
  BY <1>1, <1>2 DEF Pushed, Exchanging
<1>4. \A v, i \in Worker : v # i => inbuf'[v][i] = inbuf[v][i]
  BY DEF Report, CopyOwnBlock, TypeOK, BlockType
<1>5. BarrierInv(w)'
  <2>1. /\ Told(w) /\ w \notin collected /\ iter[w] = miter /\ acks[w] = 0
        /\ tbegin[w] = 0
    BY <1>1, <1>2 DEF BarrierInv, Active, Exchanging, Rest
  <2>2. /\ Told(w)' /\ w \notin collected' /\ iter'[w] = miter' + 1 /\ acks'[w] = 1
        /\ tbegin'[w] = 0 /\ pc'[w] = Rest(miter' + 1)
    BY <1>1, <2>1 DEF Told, mvars
  <2>3. QED
    BY <2>2 DEF BarrierInv, Rest
<1>6. RecvInv(w)'
  <2>1. Rearmed(w)' = iter[w] + 1 /\ Rearmed(w) = iter[w] + 1
    BY <1>1, <1>2 DEF Rearmed
  <2>2. Uncounted(w)' = Uncounted(w)
    BY <1>1, <2>1 DEF Uncounted, srvvars
  <2>3. QED
    BY <1>1, <1>2, <2>2 DEF RecvInv, srvvars
<1>7. SendInv(w)'
  BY <1>1, <1>2, <1>3 DEF SendInv, jobvars
<1>8. OwnInv(w)'
  <2>1. obuf[w] = iter[w] + 1 /\ (~Asyn => shadow[w] = iter[w] + 1)
    BY <1>2 DEF OwnInv
  <2>2. \A k \in 1 .. OLen[w][w] : inbuf'[w][w][k] = iter[w] + 1
    <3>1. CASE Asyn
      <4>1. inbuf' = inbuf
        BY <3>1 DEF Report, CopyOwnBlock
      <4>2. QED
        BY <1>1, <1>2, <3>1, <4>1 DEF OwnInv
    <3>2. CASE ~Asyn
      <4>1. inbuf'[w][w] = [k \in 1 .. OLen[w][w] |-> shadow[w]]
        BY <3>2 DEF Report, CopyOwnBlock, TypeOK, BlockType
      <4>2. QED
        BY <2>1, <3>2, <4>1
    <3>3. QED
      BY <3>1, <3>2
  <2>3. QED
    BY <1>1, <1>2, <1>3, <2>1, <2>2 DEF OwnInv
<1>9. WorkerInv'
  BY <1>5, <1>6, <1>7, <1>8, MainFrame DEF WorkerInv, Main
<1>10. ASSUME NEW v \in Worker, NEW j \in Peers(v) PROVE FlowInv(v, j)' /\ DataInv(v, j)'
  <2>1. j \in Worker /\ FlowInv(v, j) /\ DataInv(v, j) /\ j # v
    BY PeersFacts DEF LinkInv
  <2>2. Pushed(v)' = Pushed(v)
    <3>1. CASE v = w
      BY <1>2, <1>3, <3>1
    <3>2. CASE v # w
      BY <3>2 DEF Pushed, Report, TypeOK, MainType
    <3>3. QED
      BY <3>1, <3>2
  <2>3. inbuf'[j][v] = inbuf[j][v] /\ Read(j, v)' = Read(j, v)
    BY <1>1, <1>4, <2>1 DEF Read, srvvars
  <2>4. QED
    BY <1>1, <2>1, <2>2, <2>3, FlowFrame, DataFrame DEF jobvars, srvvars
<1>11. QED
  BY <1>9, <1>10 DEF LinkInv

\* A thread of the send pool writes a piece.
LEMMA SendPieceStep ==
  ASSUME IInv, NEW w \in Worker, NEW j \in Worker, SendPiece(w, j)
  PROVE  WorkerInv' /\ LinkInv'
<1> USE DEF IInv
<1>1. /\ j \in jobs[w] /\ sent[w][j] < OLen[w][j]
      /\ UNCHANGED <<mvars, sockvars, mainvars, recv_job_num, send_job_num, jobs, srvvars,
                     inbuf, obuf, shadow>>
  BY DEF SendPiece
<1>2. /\ \A v, i \in Worker : chan'[v][i] = IF v = w /\ i = j THEN Append(chan[w][j], obuf[w])
                                            ELSE chan[v][i]
      /\ \A v, i \in Worker : sent'[v][i] = IF v = w /\ i = j THEN sent[w][j] + 1
                                            ELSE sent[v][i]
  BY DEF SendPiece, TypeOK, ChanType, JobType
<1>3. /\ j \in Peers(w) /\ chan[w][j] \in Seq(Nat) /\ obuf[w] \in Nat /\ sent[w][j] \in Nat
      /\ SendInv(w) /\ OwnInv(w)
  BY SMTT(60), <1>1 DEF WorkerInv, SendInv, TypeOK, ChanType, JobType, BlockType
<1>4. pc[w] \in {"spinRecv", "spinSend"} /\ Pushed(w) = iter[w] + 1 /\ obuf[w] = Pushed(w)
  BY <1>1, <1>3 DEF SendInv, OwnInv, Pushed, Exchanging
<1>5. \A v \in Worker : Pushed(v)' = Pushed(v)
  BY <1>1 DEF Pushed, mainvars
<1>6. ASSUME NEW v \in Worker PROVE BarrierInv(v)' /\ RecvInv(v)' /\ OwnInv(v)'
  BY <1>1, BarrierFrame, RecvFrame, OwnFrame DEF WorkerInv, mvars, sockvars, mainvars, srvvars
<1>7. ASSUME NEW v \in Worker PROVE SendInv(v)'
  <2>1. SendInv(v) /\ jobs'[v] = jobs[v] /\ send_job_num'[v] = send_job_num[v]
        /\ pc'[v] = pc[v] /\ Pushed(v)' = Pushed(v) /\ jobs[v] \subseteq Worker
    BY <1>1, <1>5 DEF WorkerInv, mainvars, TypeOK, JobType
  <2>2. \A i \in Peers(v) \ jobs[v] : sent'[v][i] = sent[v][i]
    BY <1>1, <1>2, PeersFacts
  <2>3. QED
    BY <2>1, <2>2 DEF SendInv
<1>8. FlowInv(w, j)' /\ DataInv(w, j)'
  <2>1. FlowInv(w, j) /\ DataInv(w, j)
    BY <1>3 DEF LinkInv
  <2>2. /\ got[j][w] + 1 = Pushed(w) /\ sent[w][j] = Read(j, w) + Len(chan[w][j])
        /\ srv[j] = w => ptr[j] > 0 \/ chan[w][j] # <<>>
    BY <1>1, <1>3, <1>4, <2>1 DEF FlowInv, TypeOK, MainType
  <2>3. chan'[w][j] = Append(chan[w][j], obuf[w])
    BY <1>2, <1>3
  <2> DEFINE c == chan[w][j]
             d == chan'[w][j]
  <2>4. c \in Seq(Nat) /\ obuf[w] \in Nat /\ d = Append(c, obuf[w])
    BY <1>3, <2>3
  <2> HIDE DEF c, d
  <2>5. /\ Len(c) \in Nat /\ Len(d) = Len(c) + 1 /\ d # <<>>
        /\ \A k \in 1 .. Len(c) : d[k] = c[k]
        /\ d[Len(c) + 1] = obuf[w]
    BY ZenonT(60), <2>4, AppendFacts
  <2>6. Read(j, w)' = Read(j, w) /\ Read(j, w) \in Nat
    BY <1>1 DEF Read, srvvars, TypeOK, ServerType
  <2>7. sent'[w][j] = Read(j, w)' + Len(d) /\ sent'[w][j] <= OLen[w][j]
    <3>1. sent'[w][j] = sent[w][j] + 1 /\ sent[w][j] = Read(j, w) + Len(c)
      BY <1>2, <1>3, <2>2 DEF c
    <3>2. OLen[w][j] \in Nat
      OBVIOUS
    <3>3. QED
      BY SMTT(60), <1>1, <1>3, <2>5, <2>6, <3>1, <3>2
  <2>8. FlowInv(w, j)'
    BY <1>1, <1>5, <2>2, <2>5, <2>7 DEF FlowInv, d, srvvars
  <2>9. \A k \in 1 .. Len(d) : d[k] = Pushed(w)
    <3>1. \A k \in 1 .. Len(c) : c[k] = Pushed(w)
      BY <2>1 DEF DataInv, c
    <3>2. ASSUME NEW k \in 1 .. Len(d) PROVE k \in 1 .. Len(c) \/ k = Len(c) + 1
      BY <2>5
    <3>3. QED
      BY <1>4, <2>5, <3>1, <3>2
  <2>10. DataInv(w, j)'
    BY <1>1, <1>5, <2>1, <2>6, <2>9 DEF DataInv, d, srvvars
  <2>11. QED
    BY <2>8, <2>10
<1>9. ASSUME NEW v \in Worker, NEW i \in Peers(v), v # w \/ i # j
      PROVE  FlowInv(v, i)' /\ DataInv(v, i)'
  <2>1. i \in Worker /\ chan'[v][i] = chan[v][i] /\ sent'[v][i] = sent[v][i]
    BY <1>2, <1>9, PeersFacts
  <2>2. Read(i, v)' = Read(i, v)
    BY <1>1 DEF Read, srvvars
  <2>3. QED
    BY <1>1, <1>5, <2>1, <2>2, FlowFrame, DataFrame DEF LinkInv, srvvars
<1>10. QED
  BY <1>6, <1>7, <1>8, <1>9 DEF WorkerInv, LinkInv

\* A job is done and counts itself down.
LEMMA SendDoneStep ==
  ASSUME IInv, NEW w \in Worker, NEW j \in Worker, SendDone(w, j)
  PROVE  WorkerInv' /\ LinkInv'
<1> USE DEF IInv
<1>1. /\ j \in jobs[w] /\ sent[w][j] = OLen[w][j]
      /\ jobs'[w] = jobs[w] \ {j} /\ send_job_num'[w] = send_job_num[w] - 1
      /\ UNCHANGED <<mvars, sockvars, mainvars, recv_job_num, sent, chan, srvvars, inbuf,
                     obuf, shadow>>
  BY DEF SendDone, TypeOK, JobType, CounterType
<1>2. \A v \in Worker : v # w => jobs'[v] = jobs[v] /\ send_job_num'[v] = send_job_num[v]
  BY DEF SendDone, TypeOK, JobType, CounterType
<1>3. ASSUME NEW v \in Worker PROVE BarrierInv(v)' /\ RecvInv(v)' /\ OwnInv(v)'
  BY <1>1, BarrierFrame, RecvFrame, OwnFrame DEF WorkerInv, mvars, sockvars, mainvars, srvvars
<1>4. ASSUME NEW v \in Worker, v # w PROVE SendInv(v)'
  BY <1>1, <1>2, <1>4, SendFrame DEF WorkerInv, mainvars
<1>5. SendInv(w)'
  <2>1. SendInv(w) /\ jobs[w] \subseteq Peers(w) /\ pc[w] \in {"spinRecv", "spinSend"}
        /\ send_job_num[w] = Cardinality(jobs[w])
    BY <1>1 DEF WorkerInv, SendInv
  <2>2. IsFiniteSet(jobs[w])
    BY <2>1, PeersFacts, FS_Subset
  <2>3. Cardinality(jobs[w] \ {j}) = Cardinality(jobs[w]) - 1
    BY <1>1, <2>2, FS_RemoveElement
  <2>4. send_job_num'[w] = Cardinality(jobs'[w]) /\ jobs'[w] \subseteq Peers(w)
        /\ pc'[w] = pc[w] /\ Pushed(w)' = Pushed(w)
    BY <1>1, <2>1, <2>3 DEF mainvars, Pushed
  <2>5. Pushed(w) > 0 => \A i \in Peers(w) \ jobs'[w] : sent'[w][i] = OLen[w][i]
    BY <1>1, <2>1 DEF SendInv
  <2>6. QED
    BY <2>1, <2>4, <2>5 DEF SendInv
<1>6. ASSUME NEW v \in Worker, NEW i \in Peers(v) PROVE FlowInv(v, i)' /\ DataInv(v, i)'
  <2>1. Pushed(v)' = Pushed(v) /\ Read(i, v)' = Read(i, v)
    BY <1>1 DEF Pushed, Read, mainvars, srvvars
  <2>2. QED
    BY <1>1, <2>1, FlowFrame, DataFrame, PeersFacts DEF LinkInv, srvvars
<1>7. QED
  BY <1>3, <1>4, <1>5, <1>6 DEF WorkerInv, LinkInv

\* epoll reports a socket with something to read.
LEMMA BlockEventStep ==
  ASSUME IInv, NEW w \in Worker, NEW j \in Worker, BlockEvent(w, j)
  PROVE  WorkerInv' /\ LinkInv'
<1> USE DEF IInv
<1>1. /\ srv[w] = NoEvent /\ j # w /\ chan[j][w] # <<>> /\ srv'[w] = j /\ ptr'[w] = 0
      /\ UNCHANGED <<mvars, sockvars, mainvars, recv_job_num, send_job_num, jobvars, chan,
                     offset, got, inbuf, obuf, shadow>>
  BY DEF BlockEvent, TypeOK, ServerType
<1>2. \A v \in Worker : v # w => srv'[v] = srv[v] /\ ptr'[v] = ptr[v]
  BY DEF BlockEvent, TypeOK, ServerType
<1>3. ASSUME NEW v \in Worker PROVE RecvInv(v)'
  <2>1. /\ RecvInv(v) /\ Uncounted(v)' = Uncounted(v) /\ srv'[v] # v
        /\ UNCHANGED <<got, iter, pc, recv_job_num>>
    <3>1. Uncounted(v)' = Uncounted(v)
      BY <1>1 DEF Uncounted, Rearmed, mainvars
    <3>2. srv'[v] # v
      BY <1>1, <1>2 DEF WorkerInv, RecvInv
    <3>3. QED
      BY <1>1, <3>1, <3>2 DEF WorkerInv, mainvars
  <2>2. QED
    BY <2>1 DEF RecvInv
<1>3a. WorkerInv'
  BY <1>1, <1>3, BarrierFrame, SendFrame, OwnFrame
  DEF WorkerInv, mvars, sockvars, mainvars, jobvars
<1>4. ASSUME NEW v \in Worker, NEW i \in Peers(v) PROVE FlowInv(v, i)' /\ DataInv(v, i)'
  <2>1. i \in Worker /\ v # NoEvent /\ FlowInv(v, i) /\ DataInv(v, i)
        /\ Pushed(v)' = Pushed(v) /\ offset[i][v] \in Nat
    BY <1>1, PeersFacts DEF LinkInv, Pushed, mainvars, TypeOK, ServerType
  <2>2. Read(i, v)' = Read(i, v)
    BY <1>1, <1>2, <2>1 DEF Read
  <2>3. DataInv(v, i)'
    BY <1>1, <2>1, <2>2, DataFrame
  <2> /\ got'[i][v] = got[i][v] /\ chan'[v][i] = chan[v][i] /\ sent'[v][i] = sent[v][i]
      /\ offset'[i][v] = offset[i][v]
    BY <1>1 DEF jobvars
  <2>4. CASE i # w
    BY <1>2, <2>1, <2>3, <2>4, FlowFrame
  <2>5. CASE i = w
    <3>1. srv[i] # v /\ ptr'[i] = 0 /\ srv'[i] = j
      BY <1>1, <1>2, <2>1, <2>5
    <3>2. CASE v = j
      BY <1>1, <2>1, <2>2, <2>3, <2>5, <3>1, <3>2 DEF FlowInv
    <3>3. CASE v # j
      BY <2>1, <2>2, <2>3, <3>1, <3>3 DEF FlowInv
    <3>4. QED
      BY <3>2, <3>3
  <2>6. QED
    BY <2>3, <2>4, <2>5
<1>5. QED
  BY <1>3a, <1>4 DEF LinkInv

\* recvfrom puts a piece into the in-block.
LEMMA RecvPieceStep ==
  ASSUME IInv, NEW w \in Worker, RecvPiece(w)
  PROVE  WorkerInv' /\ LinkInv'
<1> USE DEF IInv
<1>0. PICK j \in Worker : RecvPiece(w)!(j)
  BY DEF RecvPiece
<1>1. /\ srv[w] = j /\ chan[j][w] # <<>> /\ j # w
      /\ UNCHANGED <<mvars, sockvars, mainvars, recv_job_num, send_job_num, jobvars, srv,
                     offset, got, obuf, shadow>>
  BY <1>0 DEF WorkerInv, RecvInv
<1>2. /\ \A v, i \in Worker : chan'[v][i] = IF v = j /\ i = w THEN Tail(chan[j][w])
                                            ELSE chan[v][i]
      /\ \A v \in Worker : ptr'[v] = IF v = w THEN ptr[w] + 1 ELSE ptr[v]
  BY <1>0 DEF TypeOK, ChanType, ServerType
<1>3. offset[w][j] \in Nat /\ ptr[w] \in Nat /\ chan[j][w] \in Seq(Nat) /\ w \in Peers(j)
  BY <1>1 DEF TypeOK, ServerType, ChanType, Peers
<1>4. /\ Read(w, j) = offset[w][j] + ptr[w] /\ Read(w, j)' = Read(w, j) + 1
      /\ Read(w, j) \in Nat
  <2>1. /\ ptr'[w] = ptr[w] + 1 /\ srv'[w] = j /\ offset'[w][j] = offset[w][j]
    BY <1>1, <1>2
  <2>2. Read(w, j) = offset[w][j] + ptr[w]
    BY <1>1 DEF Read
  <2>3. Read(w, j)' = offset'[w][j] + ptr'[w]
    BY <2>1 DEF Read
  <2>4. Read(w, j)' = offset[w][j] + (ptr[w] + 1)
    BY <2>1, <2>3, Zenon
  <2>5. offset[w][j] + (ptr[w] + 1) = (offset[w][j] + ptr[w]) + 1
        /\ offset[w][j] + ptr[w] \in Nat
    <3> DEFINE a == offset[w][j]
               b == ptr[w]
    <3>1. a \in Nat /\ b \in Nat
      BY <1>3
    <3> HIDE DEF a, b
    <3>2. a + (b + 1) = (a + b) + 1 /\ a + b \in Nat
      BY <3>1
    <3>3. QED
      BY <3>2, Zenon DEF a, b
  <2>6. QED
    BY <2>2, <2>4, <2>5, Zenon
<1>5. \A v, i \in Worker : \A l \in 1 .. OLen[i][v] :
        /\ v # w \/ i # j => inbuf'[v][i][l] = inbuf[v][i][l]
        /\ v = w /\ i = j =>
             inbuf'[v][i][l] = IF l = Read(w, j) + 1 THEN Head(chan[j][w])
                               ELSE inbuf[v][i][l]
  <2> DEFINE x == Head(chan[j][w])
             p == Read(w, j) + 1
  <2>1. x \in Nat /\ p \in Int /\ BlockType
    BY SMTT(60), <1>1, <1>3, <1>4, PieceFacts DEF TypeOK
  <2>2. inbuf' = [inbuf EXCEPT ![w][j][p] = x]
    BY <1>0, <1>4
  <2> HIDE DEF x, p
  <2>3. \A v, i \in Worker : \A l \in 1 .. OLen[i][v] :
          inbuf'[v][i][l] = IF v = w /\ i = j /\ l = p THEN x ELSE inbuf[v][i][l]
    <3>1. PieceWritten(w, j, p, x)
      BY <2>1, <2>2, BlockUpdate, Zenon
    <3>2. QED
      BY <3>1, Zenon DEF PieceWritten
  <2>4. \A v, i \in Worker : \A l \in 1 .. OLen[i][v] :
          /\ v # w \/ i # j => inbuf'[v][i][l] = inbuf[v][i][l]
          /\ v = w /\ i = j => inbuf'[v][i][l] = IF l = p THEN x ELSE inbuf[v][i][l]
    BY <2>3
  <2>5. QED
    BY <2>4, Zenon DEF x, p
<1>6. \A v \in Worker : Pushed(v)' = Pushed(v)
  BY <1>1 DEF Pushed, mainvars
<1>7. ASSUME NEW v \in Worker PROVE BarrierInv(v)' /\ RecvInv(v)' /\ SendInv(v)' /\ OwnInv(v)'
  <2>1. OwnInv(v)'
    <3>1. \A l \in 1 .. OLen[v][v] : inbuf'[v][v][l] = inbuf[v][v][l]
      <4>1. v # w \/ v # j
        BY <1>1
      <4>2. QED
        BY <1>5, <4>1, Zenon
    <3>2. /\ obuf'[v] = obuf[v] /\ shadow'[v] = shadow[v] /\ pc'[v] = pc[v]
          /\ iter'[v] = iter[v] /\ Pushed(v)' = Pushed(v) /\ OwnInv(v)
      BY <1>1, <1>6 DEF WorkerInv, mainvars
    <3>3. QED
      BY <3>1, <3>2 DEF OwnInv
  <2>2. QED
    BY <1>1, <2>1, BarrierFrame, SendFrame, RecvFrame
    DEF WorkerInv, mvars, sockvars, mainvars, jobvars
<1>8. FlowInv(j, w)' /\ DataInv(j, w)'
  <2>1. FlowInv(j, w) /\ DataInv(j, w)
    BY <1>3 DEF LinkInv
  <2>2. /\ got[w][j] + 1 = Pushed(j) /\ sent[j][w] = Read(w, j) + Len(chan[j][w])
        /\ sent[j][w] <= OLen[j][w]
    BY <1>1, <2>1 DEF FlowInv
  <2>3. /\ Head(chan[j][w]) = chan[j][w][1] /\ Len(chan[j][w]) \in Nat \ {0}
        /\ Len(chan'[j][w]) = Len(chan[j][w]) - 1
        /\ \A k \in 1 .. Len(chan'[j][w]) : chan'[j][w][k] = chan[j][w][k + 1]
    <3>1. chan'[j][w] = Tail(chan[j][w])
      BY <1>2, <1>3
    <3> HIDE DEF IInv
    <3>2. QED
      BY <1>1, <1>3, <3>1, PieceFacts
  <2>4. FlowInv(j, w)'
    <3>1. sent'[j][w] = Read(w, j)' + Len(chan'[j][w]) /\ sent'[j][w] <= OLen[j][w]
      <4> DEFINE a == Read(w, j)
                 n == Len(chan[j][w])
      <4>1. /\ a \in Nat /\ n \in Nat /\ sent[j][w] = a + n /\ sent[j][w] <= OLen[j][w]
            /\ sent'[j][w] = sent[j][w] /\ Read(w, j)' = a + 1 /\ Len(chan'[j][w]) = n - 1
        BY <1>1, <1>4, <2>2, <2>3 DEF jobvars
      <4> HIDE DEF a, n
      <4>2. a + n = (a + 1) + (n - 1)
        BY <4>1
      <4>3. QED
        BY <4>1, <4>2, Zenon
    <3>2. got'[w][j] + 1 = Pushed(j)' /\ ptr'[w] > 0
      BY SMTT(60), <1>1, <1>2, <1>3, <1>6, <2>2
    <3>3. QED
      BY <3>1, <3>2 DEF FlowInv
  <2>5. Head(chan[j][w]) = got[w][j] + 1
    BY <2>1, <2>2, <2>3 DEF DataInv
  <2>6. \A k \in 1 .. Len(chan'[j][w]) : chan'[j][w][k] = Pushed(j)
    <3>1. ASSUME NEW k \in 1 .. Len(chan'[j][w]) PROVE k + 1 \in 1 .. Len(chan[j][w])
      BY <2>3
    <3>2. QED
      BY <2>1, <2>3, <3>1 DEF DataInv
  <2>7. \A k \in 1 .. OLen[j][w] :
          inbuf'[w][j][k] = IF k <= Read(w, j)' THEN got[w][j] + 1 ELSE got[w][j]
    BY <1>4, <1>5, <2>1, <2>5 DEF DataInv
  <2>8. DataInv(j, w)'
    BY <1>1, <1>6, <2>6, <2>7 DEF DataInv
  <2>9. QED
    BY <2>4, <2>8
<1>9. ASSUME NEW v \in Worker, NEW i \in Peers(v), v # j \/ i # w
      PROVE  FlowInv(v, i)' /\ DataInv(v, i)'
  <2>1. i \in Worker /\ FlowInv(v, i) /\ DataInv(v, i) /\ chan'[v][i] = chan[v][i]
        /\ \A k \in 1 .. OLen[v][i] : inbuf'[i][v][k] = inbuf[i][v][k]
    BY <1>2, <1>5, <1>9, PeersFacts DEF LinkInv
  <2>2. Read(i, v)' = Read(i, v)
    BY <1>1, <1>2, <1>9, <2>1 DEF Read
  <2>3. DataInv(v, i)'
    BY <1>1, <1>6, <2>1, <2>2, DataFrame
  <2> /\ got'[i][v] = got[i][v] /\ sent'[v][i] = sent[v][i] /\ srv'[i] = srv[i]
      /\ offset'[i][v] = offset[i][v] /\ Pushed(v)' = Pushed(v)
    BY <1>1, <1>6 DEF jobvars
  <2>4. CASE i # w
    BY <1>2, <2>1, <2>3, <2>4, FlowFrame
  <2>5. CASE i = w
    <3>1. srv[i] # v
      BY <1>1, <1>9, <2>5
    <3>2. QED
      BY <2>1, <2>2, <2>3, <3>1 DEF FlowInv
  <2>6. QED
    BY <2>3, <2>4, <2>5
<1>10. QED
  BY <1>7, <1>8, <1>9 DEF WorkerInv, LinkInv

\* recvfrom has nothing more: the event ends, and a whole block is counted.
LEMMA EndEventStep ==
  ASSUME IInv, NEW w \in Worker, EndEvent(w)
  PROVE  WorkerInv' /\ LinkInv'
<1> USE DEF IInv
<1>0. PICK j \in Worker : EndEvent(w)!(j)
  BY DEF EndEvent
<1>1. /\ srv[w] = j /\ chan[j][w] = <<>> /\ j # w /\ w \in Peers(j) /\ j \in Peers(w)
      /\ UNCHANGED <<mvars, sockvars, mainvars, send_job_num, jobvars, chan, inbuf, obuf,
                     shadow>>
  BY <1>0 DEF WorkerInv, RecvInv, Peers
<1>2. /\ \A v \in Worker : v # w => srv'[v] = srv[v] /\ ptr'[v] = ptr[v]
      /\ srv'[w] = NoEvent /\ ptr'[w] = 0
  BY <1>0 DEF TypeOK, ServerType
<1>3. /\ got[w][j] + 1 = Pushed(j) /\ sent[j][w] = Read(w, j) /\ DataInv(j, w)
      /\ sent[j][w] <= OLen[j][w] /\ Read(w, j) = offset[w][j] + ptr[w]
  <2>1. FlowInv(j, w) /\ DataInv(j, w)
    BY <1>1 DEF LinkInv
  <2>2. Read(w, j) = offset[w][j] + ptr[w]
    BY <1>1 DEF Read
  <2>3. sent[j][w] \in Nat /\ offset[w][j] \in Nat /\ ptr[w] \in Nat /\ Len(chan[j][w]) = 0
    BY <1>1 DEF TypeOK, JobType, ServerType
  <2>4. got[w][j] + 1 = Pushed(j) /\ sent[j][w] = Read(w, j) + 0 /\ sent[j][w] <= OLen[j][w]
    BY <1>1, <2>1, <2>3 DEF FlowInv
  <2>5. QED
    BY <2>1, <2>2, <2>3, <2>4
<1>4. offset[w][j] \in Nat /\ ptr[w] \in Nat /\ got[w][j] \in Nat /\ OLen[j][w] \in Nat
  BY DEF TypeOK, ServerType
<1>5. \A v \in Worker : Pushed(v)' = Pushed(v) /\ Rearmed(v)' = Rearmed(v)
  BY <1>1 DEF Pushed, Rearmed, mainvars
<1>6. /\ \A v, i \in Worker : v # w \/ i # j =>
           got'[v][i] = got[v][i] /\ offset'[v][i] = offset[v][i]
      /\ \A v \in Worker : v # w => got'[v] = got[v] /\ recv_job_num'[v] = recv_job_num[v]
  <2>1. CASE CountBlock(w, j)
    BY <2>1 DEF CountBlock, TypeOK, ServerType, CounterType
  <2>2. CASE offset' = [offset EXCEPT ![w][j] = @ + ptr[w]] /\ UNCHANGED <<recv_job_num, got>>
    BY <2>2 DEF TypeOK, ServerType
  <2>3. QED
    BY <1>0, <2>1, <2>2
<1>7. ASSUME NEW v \in Worker PROVE BarrierInv(v)' /\ SendInv(v)' /\ OwnInv(v)'
  BY <1>1, BarrierFrame, SendFrame, OwnFrame DEF WorkerInv, mvars, sockvars, mainvars, jobvars
<1>8. ASSUME NEW v \in Worker, v # w PROVE RecvInv(v)'
  BY <1>1, <1>2, <1>6, <1>8, RecvFrame DEF WorkerInv, mainvars
<1>9. ASSUME NEW v \in Worker, NEW i \in Peers(v), v # j \/ i # w
      PROVE  FlowInv(v, i)' /\ DataInv(v, i)'
  <2>1. /\ i \in Worker /\ v # NoEvent /\ FlowInv(v, i) /\ DataInv(v, i)
        /\ got'[i][v] = got[i][v] /\ offset'[i][v] = offset[i][v]
        /\ sent'[v][i] = sent[v][i] /\ Pushed(v)' = Pushed(v)
    BY SMTT(60), <1>1, <1>5, <1>6, <1>9, PeersFacts DEF LinkInv, jobvars
  <2>2. Read(i, v)' = Read(i, v)
    BY <1>1, <1>2, <1>9, <2>1 DEF Read
  <2>3. DataInv(v, i)'
    BY <1>1, <2>1, <2>2, DataFrame
  <2>4. CASE i # w
    BY <1>1, <1>2, <2>1, <2>3, <2>4, FlowFrame
  <2>5. CASE i = w
    <3>1. srv[i] # v /\ srv'[i] # v
      BY <1>1, <1>2, <1>9, <2>1, <2>5
    <3>2. QED
      BY <1>1, <2>1, <2>2, <2>3, <3>1 DEF FlowInv
  <2>6. QED
    BY <2>4, <2>5
<1>10. CASE Read(w, j) = OLen[j][w]
  <2>1. CountBlock(w, j)
    BY <1>0, <1>3, <1>10
  <2>2. /\ got'[w][j] = got[w][j] + 1 /\ offset'[w][j] = 0
        /\ recv_job_num'[w] = recv_job_num[w] - 1
    BY <2>1 DEF CountBlock, TypeOK, ServerType, CounterType
  <2>3. got[w][j] = iter[w] /\ j \in Uncounted(w) /\ pc[w] \notin {"spinSend", "report"}
    BY <1>1, <1>3, ArrivalAwaited
  <2>4. RecvInv(w)'
    <3>1. Rearmed(w) = iter[w] /\ iter[w] \in Nat
      BY <2>3 DEF Rearmed, TypeOK, MainType
    <3>2. Uncounted(w)' = Uncounted(w) \ {j}
      BY <1>5, <1>6, <2>2, <2>3, <3>1, PeersFacts DEF Uncounted
    <3>3. Cardinality(Uncounted(w)') = Cardinality(Uncounted(w)) - 1
      <4> DEFINE u == Uncounted(w)
      <4>1. IsFiniteSet(u) /\ j \in u
        BY <2>3, UncountedFinite
      <4> HIDE DEF u
      <4>2. Cardinality(u \ {j}) = Cardinality(u) - 1
        BY <4>1, FS_RemoveElement
      <4>3. QED
        BY <3>2, <4>2 DEF u
    <3>4. recv_job_num'[w] = Cardinality(Uncounted(w)')
      BY <2>2, <3>3 DEF WorkerInv, RecvInv
    <3>5. \A i \in Peers(w) : got'[w][i] \in {iter[w], iter[w] + 1}
      BY <1>6, <2>2, <2>3, PeersFacts DEF WorkerInv, RecvInv
    <3>6. iter'[w] = iter[w] /\ pc'[w] = pc[w] /\ srv'[w] # w
      BY <1>1, <1>2, PeersFacts DEF mainvars
    <3>7. QED
      BY <2>3, <3>4, <3>5, <3>6 DEF RecvInv
  <2>5. Read(w, j)' = 0
    BY <1>2, <2>2, PeersFacts DEF Read
  <2>6. FlowInv(j, w)'
    BY <1>1, <1>2, <1>3, <1>5, <1>10, <2>2, PeersFacts DEF FlowInv, jobvars
  <2>7. DataInv(j, w)'
    <3>1. \A k \in 1 .. OLen[j][w] : inbuf[w][j][k] = got[w][j] + 1
      BY <1>3, <1>4, <1>10 DEF DataInv
    <3>2. QED
      BY <1>1, <1>5, <2>2, <2>5, <3>1 DEF DataInv
  <2>8. QED
    BY <1>7, <1>8, <1>9, <2>4, <2>6, <2>7 DEF WorkerInv, LinkInv
<1>11. CASE Read(w, j) # OLen[j][w]
  <2>1. /\ offset' = [offset EXCEPT ![w][j] = @ + ptr[w]] /\ UNCHANGED <<recv_job_num, got>>
    BY <1>0, <1>3, <1>11
  <2>2. offset'[w][j] = Read(w, j)
    BY <1>3, <2>1 DEF TypeOK, ServerType
  <2>3. RecvInv(w)'
    <3>1. Uncounted(w)' = Uncounted(w) /\ UNCHANGED <<got, iter, pc, recv_job_num>>
      BY <1>1, <1>5, <2>1 DEF Uncounted, mainvars
    <3>2. srv'[w] # w
      BY <1>2, PeersFacts
    <3>3. QED
      BY <3>1, <3>2 DEF WorkerInv, RecvInv
  <2>4. Read(w, j)' = Read(w, j)
    BY <1>2, <1>3, <1>4, <2>2, PeersFacts DEF Read
  <2>5. FlowInv(j, w)'
    <3>1. got'[w][j] + 1 = Pushed(j)' /\ srv'[w] # j
      BY <1>2, <1>3, <1>5, <2>1, PeersFacts
    <3>2. /\ sent'[j][w] = Read(w, j)' + Len(chan'[j][w]) /\ sent'[j][w] <= OLen[j][w]
      <4>1. Len(chan'[j][w]) = 0 /\ sent'[j][w] = sent[j][w] /\ Read(w, j) \in Nat
        BY <1>1, <1>3, <1>4 DEF jobvars
      <4>2. QED
        BY <1>3, <2>4, <4>1
    <3>3. QED
      BY <3>1, <3>2 DEF FlowInv
  <2>6. DataInv(j, w)'
    BY <1>1, <1>3, <1>5, <2>1, <2>4, DataFrame
  <2>7. QED
    BY <1>7, <1>8, <1>9, <2>3, <2>5, <2>6 DEF WorkerInv, LinkInv
<1>12. QED
  BY <1>10, <1>11

LEMMA NextInv == IInv /\ [Next]_vars => IInv'
<1> SUFFICES ASSUME IInv, [Next]_vars PROVE IInv'
  OBVIOUS
<1>1. TypeOK' /\ LoopInv'
  BY NextType, NextLoop DEF IInv
<1>2. CASE Master
  BY <1>1, <1>2, MasterStep DEF IInv
<1>3. ASSUME NEW w \in Worker, Main(w) PROVE IInv'
  BY <1>1, <1>3, ReadBeginStep, UpdateInPlaceStep, ComputeStep, AllReceivedStep,
     AllSentStep, ReportStep DEF Main, IInv
<1>4. ASSUME NEW w \in Worker, NEW j \in Worker, Sender(w, j) PROVE IInv'
  BY <1>1, <1>4, SendPieceStep, SendDoneStep DEF Sender, IInv
<1>5. ASSUME NEW w \in Worker, Server(w) PROVE IInv'
  BY <1>1, <1>5, BlockEventStep, RecvPieceStep, EndEventStep DEF Server, IInv
<1>6. CASE UNCHANGED vars
  <2>1. UNCHANGED <<mvars, sockvars, mainvars, recv_job_num, send_job_num, jobvars, chan,
                    srvvars, inbuf, obuf, shadow>>
    BY <1>6 DEF vars
  <2>2. LinkInv'
    BY <2>1, LinkFrame DEF IInv
  <2>3. ASSUME NEW w \in Worker
        PROVE  BarrierInv(w)' /\ RecvInv(w)' /\ SendInv(w)' /\ OwnInv(w)'
    BY <2>1, BarrierFrame, RecvFrame, SendFrame, OwnFrame
    DEF IInv, WorkerInv, mvars, sockvars, mainvars, jobvars, srvvars
  <2>4. QED
    BY <1>1, <2>2, <2>3 DEF IInv, WorkerInv
<1>7. QED
  BY <1>2, <1>3, <1>4, <1>5, <1>6 DEF Next, Finished

\* The barrier, the job counters and the framing of blocks keep IInv.
THEOREM Inductive == Spec => []IInv
  BY InitInv, NextInv, PTL DEF Spec

-----------------------------------------------------------------------------
(* The safety properties follow *)

LEMMA InvLockstep == IInv => Lockstep
<1> SUFFICES ASSUME IInv, NEW w \in Worker, pc[w] = "compute", NEW j \in Worker
             PROVE  iter[j] = iter[w]
  BY DEF Lockstep
<1>1. CASE j = w
  BY <1>1
<1>2. CASE j # w
  BY <1>2, ComputeAlone DEF IInv, Peers
<1>3. QED
  BY <1>1, <1>2

\* While a worker runs crucial_updates of iteration i, all workers are in i.
THEOREM LockstepHolds == Spec => []Lockstep
  BY InvLockstep, Inductive, PTL

\* After while(recv_job_num){} every in-block is whole and of this iteration.
THEOREM BlocksCompleteHolds == Spec => []BlocksComplete
<1>1. IInv => BlocksComplete
  <2> SUFFICES ASSUME IInv, NEW w \in Worker, pc[w] \in {"spinSend", "report"},
                      NEW j \in Peers(w), NEW k \in 1 .. OLen[j][w]
               PROVE  inbuf[w][j][k] = iter[w] + 1
    BY DEF BlocksComplete
  <2>1. j \in Worker /\ w \in Peers(j)
    BY DEF Peers
  <2>2. got[w][j] = iter[w] + 1 /\ FlowInv(j, w) /\ DataInv(j, w)
    BY <2>1 DEF IInv, WorkerInv, RecvInv, LinkInv
  <2>3. got[w][j] + 1 # Pushed(j)
    BY ArrivalAwaited DEF IInv
  <2>4. got[w][j] = Pushed(j) /\ Read(w, j) = 0
    BY <2>2, <2>3 DEF FlowInv, Read
  <2>5. ~ (k <= 0)
    OBVIOUS
  <2>6. QED
    BY <2>2, <2>4, <2>5 DEF DataInv
<1>2. QED
  BY <1>1, Inductive, PTL

\* What is read and in flight of a block never exceeds it, so recvfrom stays
\* inside inbuf and the end of every block is seen.
THEOREM NoOverrunHolds == Spec => []NoOverrun
<1>1. IInv => NoOverrun
  <2> SUFFICES ASSUME IInv, NEW w \in Worker, NEW j \in Peers(w)
               PROVE  Read(w, j) + Len(chan[j][w]) <= OLen[j][w]
    BY DEF NoOverrun, Read
  <2>1. j \in Worker /\ w \in Peers(j)
    BY DEF Peers
  <2>2. FlowInv(j, w) /\ OLen[j][w] \in Nat
    BY <2>1 DEF IInv, LinkInv
  <2>3. CASE chan[j][w] = <<>> /\ srv[w] # j /\ offset[w][j] = 0
    <3>1. Read(w, j) = 0 /\ Len(chan[j][w]) = 0
      BY <2>3 DEF Read
    <3>2. QED
      BY <2>2, <3>1
  <2>4. CASE sent[j][w] = Read(w, j) + Len(chan[j][w]) /\ sent[j][w] <= OLen[j][w]
    BY <2>4
  <2>5. QED
    BY <2>2, <2>3, <2>4 DEF FlowInv
<1>2. QED
  BY <1>1, Inductive, PTL

\* recv_job_num is exact in every state: no arrival is lost to its reset.
THEOREM RecvCountExactHolds == Spec => []RecvCountExact
<1>1. IInv => RecvCountExact
  BY DEF IInv, WorkerInv, RecvInv, RecvCountExact
<1>2. QED
  BY <1>1, Inductive, PTL

\* No thread of the send pool is left when crucial_updates writes the out-blocks.
THEOREM OutBlockQuietHolds == Spec => []OutBlockQuiet
<1>1. IInv => OutBlockQuiet
  BY DEF IInv, WorkerInv, SendInv, OutBlockQuiet
<1>2. QED
  BY <1>1, Inductive, PTL

\* The master passes its barrier only when every worker has left the iteration.
THEOREM BarrierExactHolds == Spec => []BarrierExact
<1>1. IInv => BarrierExact
  <2> SUFFICES ASSUME IInv, mpc = "collect", collected = Worker, NEW w \in Worker
               PROVE  iter[w] = miter + 1 /\ tbegin[w] = 0 /\ acks[w] = 0
    BY DEF BarrierExact
  <2>1. BarrierInv(w) /\ Told(w)
    BY DEF IInv, WorkerInv, Told
  <2>2. QED
    BY <2>1 DEF BarrierInv
<1>2. QED
  BY <1>1, Inductive, PTL

\* A computing worker reads values of this iteration or the one before.
THEOREM BoundedStalenessHolds == Spec => []BoundedStaleness
<1>1. IInv => BoundedStaleness
  <2> SUFFICES ASSUME IInv, NEW w \in Worker, pc[w] = "compute"
               PROVE  /\ \A j \in Worker : \A k \in 1 .. OLen[j][w] :
                           inbuf[w][j][k] \in {iter[w], iter[w] + 1}
                      /\ ~Asyn => \A k \in 1 .. OLen[w][w] : inbuf[w][w][k] = iter[w]
    BY DEF BoundedStaleness
  <2>1. OwnInv(w) /\ Pushed(w) = iter[w]
    BY DEF IInv, WorkerInv, Pushed, Exchanging, TypeOK, MainType
  <2>2. \A k \in 1 .. OLen[w][w] : inbuf[w][w][k] \in {iter[w], iter[w] + 1}
    BY <2>1 DEF OwnInv
  <2>3. ~Asyn => \A k \in 1 .. OLen[w][w] : inbuf[w][w][k] = iter[w]
    BY <2>1 DEF OwnInv
  <2>4. ASSUME NEW j \in Peers(w), NEW k \in 1 .. OLen[j][w]
        PROVE  inbuf[w][j][k] \in {iter[w], iter[w] + 1}
    <3>1. j \in Worker /\ w \in Peers(j)
      BY DEF Peers
    <3>2. FlowInv(j, w) /\ DataInv(j, w) /\ got[w][j] \in {iter[w], iter[w] + 1}
      BY <3>1 DEF IInv, LinkInv, WorkerInv, RecvInv
    <3>3. CASE got[w][j] + 1 = Pushed(j)
      <4>1. got[w][j] = iter[w]
        BY <3>3, ArrivalAwaited DEF IInv
      <4>2. QED
        BY <3>2, <4>1 DEF DataInv
    <3>4. CASE got[w][j] + 1 # Pushed(j)
      <4>1. Read(w, j) = 0
        BY <3>2, <3>4 DEF FlowInv, Read
      <4>2. ~ (k <= 0)
        OBVIOUS
      <4>3. QED
        BY <3>2, <4>1, <4>2 DEF DataInv
    <3>5. QED
      BY <3>3, <3>4
  <2>5. QED
    BY <2>2, <2>3, <2>4 DEF Peers
<1>2. QED
  BY <1>1, Inductive, PTL

-----------------------------------------------------------------------------
(* The exchange implements the supersteps *)

\* A worker about to report has the blocks of all its peers: each of them has
\* computed this iteration, and is still exchanging or has left it.
LEMMA ReportAfterAll ==
  ASSUME IInv, NEW w \in Worker, pc[w] = "report", NEW j \in Peers(w)
  PROVE  iter[j] = iter[w] + 1 \/ (iter[j] = iter[w] /\ pc[j] \in Exchanging)
<1>1. j \in Worker /\ w \in Peers(j)
  BY DEF Peers
<1>2. got[w][j] = iter[w] + 1 /\ FlowInv(j, w) /\ iter[w] \in Nat /\ iter[j] \in Nat
  BY <1>1 DEF IInv, WorkerInv, RecvInv, LinkInv, TypeOK, MainType
<1>3. got[w][j] + 1 # Pushed(j)
  BY ArrivalAwaited DEF IInv
<1>4. Pushed(j) = iter[w] + 1
  BY <1>2, <1>3 DEF FlowInv
<1>5. CASE pc[j] \in Exchanging
  <2>1. Pushed(j) = iter[j] + 1
    BY <1>5 DEF Pushed
  <2>2. iter[j] = iter[w]
    <3> DEFINE a == iter[j]
               b == iter[w]
    <3>1. a \in Nat /\ b \in Nat /\ a + 1 = b + 1
      BY <1>2, <1>4, <2>1
    <3> HIDE DEF a, b
    <3>2. a = b
      BY <3>1
    <3>3. QED
      BY <3>2 DEF a, b
  <2>3. QED
    BY <1>5, <2>2
<1>6. CASE pc[j] \notin Exchanging
  <2>1. Pushed(j) = iter[j]
    BY <1>2, <1>6 DEF Pushed
  <2>2. QED
    BY <1>4, <2>1
<1>7. QED
  BY <1>5, <1>6

\* Every step of the exchange is a step of the supersteps or leaves them alone.
LEMMA StepRefines ==
  ASSUME IInv, IInv', [Next]_vars
  PROVE  [Abstract!Next]_(Abstract!vars)
<1> DEFINE st == [w \in Worker |-> Stage(w)]
<1>1. UNCHANGED mainvars => UNCHANGED Abstract!vars
  BY DEF mainvars, Abstract!vars, Stage
<1>2. ASSUME NEW w \in Worker, ReadBegin(w) PROVE Abstract!Begin(w)
  <2>1. /\ pc[w] = "wait" /\ pc' = [pc EXCEPT ![w] = "compute"] /\ iter' = iter
        /\ pc'[w] = "compute"
    BY <1>2 DEF ReadBegin, IInv, TypeOK, MainType
  <2>2. \A j \in Worker : iter[j] = iter[w]
    <3>1. Lockstep'
      BY InvLockstep, PTL
    <3>2. QED
      BY <2>1, <3>1 DEF Lockstep
  <2>3. iter[w] < N
    BY <2>1 DEF IInv, LoopInv
  <2>4. st' = [st EXCEPT ![w] = "computing"] /\ st[w] = "idle"
    BY <2>1 DEF Stage, IInv, TypeOK, MainType
  <2>5. QED
    BY <2>1, <2>2, <2>3, <2>4 DEF Abstract!Begin, Abstract!Worker, Worker
<1>3. ASSUME NEW w \in Worker, Compute(w) PROVE Abstract!Computed(w)
  <2>1. pc[w] = "compute" /\ pc' = [pc EXCEPT ![w] = "spinRecv"] /\ iter' = iter
    BY <1>3 DEF Compute
  <2>2. st' = [st EXCEPT ![w] = "exchanging"] /\ st[w] = "computing"
    BY <2>1 DEF Stage, IInv, TypeOK, MainType
  <2>3. QED
    BY <2>1, <2>2 DEF Abstract!Computed, Abstract!Worker, Worker
<1>4. ASSUME NEW w \in Worker, AllReceived(w) \/ AllSent(w) PROVE UNCHANGED Abstract!vars
  <2>1. /\ pc[w] \in Exchanging /\ iter' = iter
        /\ \E p \in Exchanging : pc' = [pc EXCEPT ![w] = p]
    BY <1>4 DEF AllReceived, AllSent, Exchanging
  <2>2. st' = st
    BY <2>1 DEF Stage, IInv, TypeOK, MainType, Exchanging
  <2>3. QED
    BY <2>1, <2>2 DEF Abstract!vars
<1>5. ASSUME NEW w \in Worker, Report(w) PROVE Abstract!Leave(w)
  <2>1. /\ pc[w] = "report" /\ iter' = [iter EXCEPT ![w] = @ + 1]
        /\ \E p \in {"wait", "done"} : pc' = [pc EXCEPT ![w] = p]
    BY <1>5 DEF Report
  <2>2. st' = [st EXCEPT ![w] = "idle"] /\ st[w] = "exchanging"
    BY <2>1 DEF Stage, IInv, TypeOK, MainType
  <2>3. ASSUME NEW j \in Worker
        PROVE  iter[j] = iter[w] + 1 \/ (iter[j] = iter[w] /\ st[j] = "exchanging")
    <3>1. CASE j = w
      BY <2>2, <3>1
    <3>2. CASE j # w
      BY <2>1, <3>2, ReportAfterAll DEF Peers, Stage, Exchanging
    <3>3. QED
      BY <3>1, <3>2
  <2>4. QED
    BY <2>1, <2>2, <2>3 DEF Abstract!Leave, Abstract!Worker, Worker
<1>6. ASSUME NEW w \in Worker, NEW k \in 1 .. OLen[w][w], UpdateInPlace(w, k)
      PROVE  UNCHANGED mainvars
  BY <1>6 DEF UpdateInPlace
<1>7. CASE Master
  BY <1>1, <1>7 DEF Master, SendBegin, NextIteration, CollectAck
<1>8. ASSUME NEW w \in Worker, Main(w) PROVE [Abstract!Next]_(Abstract!vars)
  BY <1>1, <1>2, <1>3, <1>4, <1>5, <1>6, <1>8 DEF Main, Abstract!Next, Abstract!Worker, Worker
<1>9. ASSUME NEW w \in Worker, NEW j \in Worker, Sender(w, j) PROVE UNCHANGED mainvars
  BY <1>9 DEF Sender, SendPiece, SendDone
<1>10. ASSUME NEW w \in Worker, Server(w) PROVE UNCHANGED mainvars
  BY <1>10 DEF Server, RecvPiece, EndEvent, BlockEvent
<1>11. CASE UNCHANGED vars
  BY <1>1, <1>11 DEF vars
<1>12. QED
  BY <1>1, <1>7, <1>8, <1>9, <1>10, <1>11 DEF Next, Finished

\* The main loops of the workers go through the supersteps of module Superstep:
\* nobody begins an iteration before all have left the last one, and nobody
\* leaves one before all have computed it.
THEOREM Refinement == Spec => Abstract!Spec
<1>1. Init => Abstract!Init
  BY DEF Init, Abstract!Init, Abstract!Worker, Worker, Stage
<1>2. IInv /\ IInv' /\ [Next]_vars => [Abstract!Next]_(Abstract!vars)
  BY StepRefines
<1>3. QED
  BY <1>1, <1>2, Inductive, PTL DEF Spec, Abstract!Spec

=============================================================================
