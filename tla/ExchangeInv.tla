----------------------------- MODULE ExchangeInv -----------------------------
(***************************************************************************)
(* The inductive invariant of module Exchange.  None of its properties is   *)
(* inductive alone: that a worker computes only when its peers have left    *)
(* the previous iteration (Lockstep) needs the counters to be exact, which  *)
(* needs every block to be delimited exactly, which needs a block never to  *)
(* follow another one on a connection, which is Lockstep again.             *)
(***************************************************************************)
EXTENDS Exchange

Exchanging == {"spinRecv", "spinSend", "report"}
Active == {"compute"} \cup Exchanging

\* Iterations whose blocks w has pushed to its send pool.
Pushed(w) == iter[w] + (IF pc[w] \in Exchanging THEN 1 ELSE 0)

\* Pieces of the current block from w that j has read.
Read(j, w) == offset[j][w] + (IF srv[j] = w THEN ptr[j] ELSE 0)

Rest(i) == IF i < N THEN "wait" ELSE "done"

\* The master's loop.
MasterInv ==
  /\ mpc = "begin" => miter < N /\ told < M /\ collected = {}
  /\ mpc = "collect" => miter < N /\ told = M
  /\ mpc = "merge" => miter = N /\ told = 0 /\ collected = {}

\* The loops of master and workers stop after N iterations.
LoopInv == MasterInv /\ \A w \in Worker : pc[w] # "done" => iter[w] < N

Told(w) == mpc = "collect" \/ w < told

\* Where worker w is in the master's iteration: not told yet, told, at work,
\* acknowledged, or collected.
BarrierInv(w) ==
  \/ /\ ~Told(w) /\ iter[w] = miter /\ tbegin[w] = 0 /\ acks[w] = 0
     /\ pc[w] = Rest(miter)
  \/ /\ Told(w) /\ w \notin collected /\ iter[w] = miter /\ acks[w] = 0
     /\ \/ tbegin[w] = 1 /\ pc[w] = "wait"
        \/ tbegin[w] = 0 /\ pc[w] \in Active
  \/ /\ Told(w) /\ iter[w] = miter + 1 /\ tbegin[w] = 0 /\ pc[w] = Rest(miter + 1)
     /\ acks[w] = IF w \in collected THEN 0 ELSE 1

\* Worker j's count of the blocks it has received from its peers.
RecvInv(j) ==
  /\ srv[j] # j
  /\ \A w \in Peers(j) :
       /\ got[j][w] \in {iter[j], iter[j] + 1}
       /\ pc[j] \in {"spinSend", "report"} => got[j][w] = iter[j] + 1
  /\ recv_job_num[j] = Cardinality(Uncounted(j))

\* Worker w's count of its send jobs.
SendInv(w) ==
  /\ jobs[w] \subseteq Peers(w)
  /\ IF pc[w] \in {"spinRecv", "spinSend"}
     THEN send_job_num[w] = Cardinality(jobs[w])
     ELSE jobs[w] = {} /\ send_job_num[w] = M - 1
  /\ Pushed(w) > 0 => \A j \in Peers(w) \ jobs[w] : sent[w][j] = OLen[w][j]

\* The connection from w to j: j has counted all the blocks w has pushed, or the
\* last one is partly unsent, in flight and read.
FlowInv(w, j) ==
  \/ /\ got[j][w] = Pushed(w) /\ chan[w][j] = <<>> /\ srv[j] # w /\ offset[j][w] = 0
     /\ Pushed(w) > 0 => sent[w][j] = OLen[w][j]
  \/ /\ got[j][w] + 1 = Pushed(w)
     /\ sent[w][j] = Read(j, w) + Len(chan[w][j]) /\ sent[w][j] <= OLen[w][j]
     /\ srv[j] = w => ptr[j] > 0 \/ chan[w][j] # <<>>

\* The values in flight and in the in-block that j has from w.
DataInv(w, j) ==
  /\ \A k \in 1 .. Len(chan[w][j]) : chan[w][j][k] = Pushed(w)
  /\ \A k \in 1 .. OLen[w][j] :
       inbuf[j][w][k] = IF k <= Read(j, w) THEN got[j][w] + 1 ELSE got[j][w]

\* The blocks that w alone writes.
OwnInv(w) ==
  /\ obuf[w] = Pushed(w)
  /\ ~Asyn => shadow[w] = Pushed(w)
  /\ \A k \in 1 .. OLen[w][w] :
       IF Asyn THEN CASE pc[w] = "compute" -> inbuf[w][w][k] \in {iter[w], iter[w] + 1}
                      [] OTHER -> inbuf[w][w][k] = Pushed(w)
               ELSE inbuf[w][w][k] = iter[w]

WorkerInv == \A w \in Worker : BarrierInv(w) /\ RecvInv(w) /\ SendInv(w) /\ OwnInv(w)

LinkInv == \A w \in Worker : \A j \in Peers(w) : FlowInv(w, j) /\ DataInv(w, j)

\* The inductive invariant: what the master's barrier, the two job counters and
\* the framing of blocks establish together.
IInv == TypeOK /\ LoopInv /\ WorkerInv /\ LinkInv

=============================================================================
