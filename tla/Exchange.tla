------------------------------- MODULE Exchange -------------------------------
(***************************************************************************)
(* The iterations of one synchronous run over TCP (rdma = 0): the master's  *)
(* loop (ceMaster.cpp), the main loop of every worker                       *)
(* (engine/CE_Graph_engine.hpp), the threads of its send pool               *)
(* (m_send_to_worker) and its dpdk_server thread (dpdk_block_event).        *)
(*                                                                          *)
(* The model starts where the main loop starts, with every worker at the    *)
(* read of its first "tbegin", all block connections set up and both job    *)
(* counters set; how a worker gets there is module Handshake.               *)
(*                                                                          *)
(* A block is a sequence of pieces, a piece being what one recvfrom returns *)
(* of one send; its data is abstracted to a stamp, the number of iterations *)
(* that went into the values of the piece (0: as loaded from disk).         *)
(***************************************************************************)
EXTENDS Integers, Sequences, FiniteSets

CONSTANTS M,     (* number of workers: worker w runs interval w              *)
          N,     (* number of iterations, the option niters                  *)
          OLen,  (* OLen[w][j]: pieces in the block from w to j; for w = j   *)
                 (* the block of the edges inside interval w                 *)
          Asyn   (* the option asyn, FALSE for 0, "synchronization"          *)

Worker == 0 .. M - 1

ASSUME ExchangeAssumption ==
  /\ M \in Nat \ {0} /\ N \in Nat \ {0}
  /\ OLen \in [Worker -> [Worker -> Nat]]
  /\ Asyn \in BOOLEAN

Peers(w) == Worker \ {w}

NoEvent == -1

VARIABLES
  mpc,        (* master: "begin" sends signals, "collect" reads, "merge" after the loop *)
  miter,      (* master: i, the iteration it is in                        *)
  told,       (* master: workers 0 .. told-1 have been sent "tbegin"       *)
  collected,  (* master: the workers counted in cc                         *)
  tbegin,     (* tbegin[w]: unread "tbegin" signals on w's master socket   *)
  acks,       (* acks[w]: unread "XGACKS" packages of w at the master      *)
  pc,         (* pc[w]: where w's main thread is                           *)
  iter,       (* iter[w]: i of the main loop                               *)
  recv_job_num, send_job_num,
  jobs,       (* jobs[w]: destinations with an unfinished send job         *)
  sent,       (* sent[w][j]: pieces of the last job of w to j written      *)
  chan,       (* chan[w][j]: pieces in flight from w to j                  *)
  srv,        (* srv[w]: the peer whose event w's dpdk_server is handling  *)
  ptr,        (* ptr[w]: pieces read in that event                         *)
  offset,     (* offset[w][j]: in_infos[j].offset at w                     *)
  inbuf,      (* inbuf[w][j]: stamps of the pieces of w's in-block from j  *)
  obuf,       (* obuf[w]: stamp of w's out-blocks                          *)
  shadow,     (* shadow[w]: stamp of main_to_main_buf                      *)
  got         (* history: got[w][j], in-blocks from j that w has counted   *)

mvars    == <<mpc, miter, told, collected>>
sockvars == <<tbegin, acks>>
mainvars == <<pc, iter>>
jobvars  == <<jobs, sent>>
srvvars  == <<srv, ptr, offset, got>>
vars     == <<mvars, sockvars, mainvars, recv_job_num, send_job_num, jobvars,
              chan, srvvars, inbuf, obuf, shadow>>

Init ==
  /\ mpc = "begin" /\ miter = 0 /\ told = 0 /\ collected = {}
  /\ tbegin = [w \in Worker |-> 0]
  /\ acks = [w \in Worker |-> 0]
  /\ pc = [w \in Worker |-> "wait"]
  /\ iter = [w \in Worker |-> 0]
  /\ recv_job_num = [w \in Worker |-> M - 1]
  /\ send_job_num = [w \in Worker |-> M - 1]
  /\ jobs = [w \in Worker |-> {}]
  /\ sent = [w \in Worker |-> [j \in Worker |-> 0]]
  /\ chan = [w \in Worker |-> [j \in Worker |-> <<>>]]
  /\ srv = [w \in Worker |-> NoEvent]
  /\ ptr = [w \in Worker |-> 0]
  /\ offset = [w \in Worker |-> [j \in Worker |-> 0]]
  /\ inbuf = [w \in Worker |-> [j \in Worker |-> [k \in 1 .. OLen[j][w] |-> 0]]]
  /\ obuf = [w \in Worker |-> 0]
  /\ shadow = [w \in Worker |-> 0]
  /\ got = [w \in Worker |-> [j \in Worker |-> 0]]

-----------------------------------------------------------------------------
(* The master *)

\* Send "tbegin" to the next worker, in the order of the hosts list.
SendBegin ==
  /\ mpc = "begin"
  /\ tbegin' = [tbegin EXCEPT ![told] = @ + 1]
  /\ told' = told + 1
  /\ mpc' = IF told + 1 = M THEN "collect" ELSE "begin"
  /\ UNCHANGED <<miter, collected, acks, mainvars, recv_job_num, send_job_num,
                 jobvars, chan, srvvars, inbuf, obuf, shadow>>

\* The thread of worker w in the parallel loop: one read takes all that is there.
CollectAck(w) ==
  /\ mpc = "collect" /\ w \notin collected /\ acks[w] > 0
  /\ acks' = [acks EXCEPT ![w] = 0]
  /\ collected' = collected \cup {w}
  /\ UNCHANGED <<mpc, miter, told, tbegin, mainvars, recv_job_num, send_job_num,
                 jobvars, chan, srvvars, inbuf, obuf, shadow>>

\* while(cc < M) falls through.
BarrierOneShort == Cardinality(collected) >= M - 1
BarrierFull == collected = Worker

\* cc and the cursor of the sends are declared again in every iteration.
CountKept == told' = 0 /\ UNCHANGED collected
CursorKept == UNCHANGED told /\ collected' = {}
CountRestarted == told' = 0 /\ collected' = {}

\* The barrier is passed: the next iteration, or the end of the loop.
NextIteration ==
  /\ mpc = "collect" /\ BarrierFull
  /\ miter' = miter + 1
  /\ CountRestarted
  /\ mpc' = IF miter + 1 < N THEN "begin" ELSE "merge"
  /\ UNCHANGED <<sockvars, mainvars, recv_job_num, send_job_num,
                 jobvars, chan, srvvars, inbuf, obuf, shadow>>

-----------------------------------------------------------------------------
(* The main thread of worker w *)

\* The read of the "tbegin" signal returns.
ReadBegin(w) ==
  /\ pc[w] = "wait" /\ tbegin[w] > 0
  /\ tbegin' = [tbegin EXCEPT ![w] = 0]
  /\ pc' = [pc EXCEPT ![w] = "compute"]
  /\ UNCHANGED <<mvars, acks, iter, recv_job_num, send_job_num, jobvars, chan,
                 srvvars, inbuf, obuf, shadow>>

\* asyn = 1: a vertex function writes an edge inside the interval in place.
UpdateInPlace(w, k) ==
  /\ Asyn /\ pc[w] = "compute" /\ k \in 1 .. OLen[w][w]
  /\ inbuf' = [inbuf EXCEPT ![w][w][k] = iter[w] + 1]
  /\ UNCHANGED <<mvars, sockvars, mainvars, recv_job_num, send_job_num, jobvars,
                 chan, srvvars, obuf, shadow>>

\* crucial_updates ends and the send jobs are pushed.  While pc[w] = "compute"
\* the vertex functions read every inbuf[w][j] and write obuf[w]; edges inside
\* the interval are written to the shadow when asyn = 0, else in place.
Compute(w) ==
  /\ pc[w] = "compute"
  /\ obuf' = [obuf EXCEPT ![w] = iter[w] + 1]
  /\ IF Asyn
     THEN /\ \A k \in 1 .. OLen[w][w] : inbuf[w][w][k] = iter[w] + 1
          /\ UNCHANGED shadow
     ELSE shadow' = [shadow EXCEPT ![w] = iter[w] + 1]
  /\ jobs' = [jobs EXCEPT ![w] = Peers(w)]
  /\ sent' = [sent EXCEPT ![w] = [j \in Worker |-> 0]]
  /\ pc' = [pc EXCEPT ![w] = "spinRecv"]
  /\ UNCHANGED <<mvars, sockvars, iter, recv_job_num, send_job_num, chan, srvvars,
                 inbuf>>

\* The two conditions the main thread spins on.
NoWaitForBlocks(w) == TRUE
BlocksReceived(w) == recv_job_num[w] = 0
NoWaitForSends(w) == TRUE
JobsDone(w) == send_job_num[w] = 0

\* while(recv_job_num){} falls through.
AllReceived(w) ==
  /\ pc[w] = "spinRecv" /\ BlocksReceived(w)
  /\ pc' = [pc EXCEPT ![w] = "spinSend"]
  /\ UNCHANGED <<mvars, sockvars, iter, recv_job_num, send_job_num, jobvars, chan,
                 srvvars, inbuf, obuf, shadow>>

\* The counters of the next iteration, set before the barrier is entered.
RearmSendOnly(w) ==
  /\ send_job_num' = [send_job_num EXCEPT ![w] = M - 1]
  /\ UNCHANGED recv_job_num
Rearm(w) ==
  /\ send_job_num' = [send_job_num EXCEPT ![w] = M - 1]
  /\ recv_job_num' = [recv_job_num EXCEPT ![w] = M - 1]

\* while(send_job_num){} falls through and both counters are set again.
AllSent(w) ==
  /\ pc[w] = "spinSend" /\ JobsDone(w)
  /\ Rearm(w)
  /\ pc' = [pc EXCEPT ![w] = "report"]
  /\ UNCHANGED <<mvars, sockvars, iter, jobvars, chan, srvvars, inbuf, obuf, shadow>>

\* The memcpy of main_to_main_buf when asyn = 0.
OwnBlockKept(w) == UNCHANGED inbuf
CopyOwnBlock(w) ==
  inbuf' = IF Asyn THEN inbuf
           ELSE [inbuf EXCEPT ![w][w] = [k \in 1 .. OLen[w][w] |-> shadow[w]]]

\* Copy the shadow of the own block and send "XGACKS" to the master.
Report(w) ==
  /\ pc[w] = "report"
  /\ CopyOwnBlock(w)
  /\ acks' = [acks EXCEPT ![w] = @ + 1]
  /\ iter' = [iter EXCEPT ![w] = @ + 1]
  /\ pc' = [pc EXCEPT ![w] = IF iter[w] + 1 < N THEN "wait" ELSE "done"]
  /\ UNCHANGED <<mvars, tbegin, recv_job_num, send_job_num, jobvars, chan, srvvars,
                 obuf, shadow>>

-----------------------------------------------------------------------------
(* The send pool of worker w: as many threads as jobs, so every job has one *)

\* One turn of the loop of dpdk_write_all (a turn that meets EAGAIN stutters).
SendPiece(w, j) ==
  /\ j \in jobs[w] /\ sent[w][j] < OLen[w][j]
  /\ chan' = [chan EXCEPT ![w][j] = Append(@, obuf[w])]
  /\ sent' = [sent EXCEPT ![w][j] = @ + 1]
  /\ UNCHANGED <<mvars, sockvars, mainvars, recv_job_num, send_job_num, jobs,
                 srvvars, inbuf, obuf, shadow>>

\* The block is written: the job counts itself down.
SendDone(w, j) ==
  /\ j \in jobs[w] /\ sent[w][j] = OLen[w][j]
  /\ jobs' = [jobs EXCEPT ![w] = @ \ {j}]
  /\ send_job_num' = [send_job_num EXCEPT ![w] = @ - 1]
  /\ UNCHANGED <<mvars, sockvars, mainvars, recv_job_num, sent, chan, srvvars,
                 inbuf, obuf, shadow>>

-----------------------------------------------------------------------------
(* The dpdk_server thread of worker w *)

\* epoll_wait reports the socket of peer j and dpdk_block_event looks it up.
BlockEvent(w, j) ==
  /\ srv[w] = NoEvent /\ j # w /\ chan[j][w] # <<>>
  /\ srv' = [srv EXCEPT ![w] = j]
  /\ ptr' = [ptr EXCEPT ![w] = 0]
  /\ UNCHANGED <<mvars, sockvars, mainvars, recv_job_num, send_job_num, jobvars,
                 chan, offset, got, inbuf, obuf, shadow>>

\* One recvfrom, straight into the in-block.
RecvPiece(w) ==
  \E j \in Worker :
    /\ srv[w] = j /\ chan[j][w] # <<>>
    /\ inbuf' = [inbuf EXCEPT ![w][j][offset[w][j] + ptr[w] + 1] = Head(chan[j][w])]
    /\ chan' = [chan EXCEPT ![j][w] = Tail(@)]
    /\ ptr' = [ptr EXCEPT ![w] = @ + 1]
    /\ UNCHANGED <<mvars, sockvars, mainvars, recv_job_num, send_job_num, jobvars,
                   srv, offset, got, obuf, shadow>>

\* A whole block has arrived: it is counted and the next one starts at 0.
OffsetKept(w, j) ==
  /\ recv_job_num' = [recv_job_num EXCEPT ![w] = @ - 1]
  /\ offset' = [offset EXCEPT ![w][j] = @ + ptr[w]]
  /\ got' = [got EXCEPT ![w][j] = @ + 1]
NotCounted(w, j) ==
  /\ offset' = [offset EXCEPT ![w][j] = 0]
  /\ got' = [got EXCEPT ![w][j] = @ + 1]
  /\ UNCHANGED recv_job_num
CountBlock(w, j) ==
  /\ recv_job_num' = [recv_job_num EXCEPT ![w] = @ - 1]
  /\ offset' = [offset EXCEPT ![w][j] = 0]
  /\ got' = [got EXCEPT ![w][j] = @ + 1]

\* recvfrom says EAGAIN: the event ends, and a whole block counts as received.
EndEvent(w) ==
  \E j \in Worker :
    /\ srv[w] = j /\ chan[j][w] = <<>>
    /\ srv' = [srv EXCEPT ![w] = NoEvent]
    /\ ptr' = [ptr EXCEPT ![w] = 0]
    /\ IF offset[w][j] + ptr[w] = OLen[j][w]
       THEN CountBlock(w, j)
       ELSE /\ offset' = [offset EXCEPT ![w][j] = @ + ptr[w]]
            /\ UNCHANGED <<recv_job_num, got>>
    /\ UNCHANGED <<mvars, sockvars, mainvars, send_job_num, jobvars, chan, inbuf,
                   obuf, shadow>>

-----------------------------------------------------------------------------

Master == SendBegin \/ NextIteration \/ \E w \in Worker : CollectAck(w)

Main(w) ==
  \/ ReadBegin(w) \/ Compute(w) \/ \E k \in 1 .. OLen[w][w] : UpdateInPlace(w, k)
  \/ AllReceived(w) \/ AllSent(w) \/ Report(w)

Sender(w, j) == SendPiece(w, j) \/ SendDone(w, j)

Server(w) == RecvPiece(w) \/ EndEvent(w) \/ \E j \in Worker : BlockEvent(w, j)

\* The loops are over: module MasterSession has what follows.
Finished ==
  /\ mpc = "merge" /\ \A w \in Worker : pc[w] = "done"
  /\ UNCHANGED vars

Next ==
  \/ Master
  \/ \E w \in Worker : Main(w)
  \/ \E w, j \in Worker : Sender(w, j)
  \/ \E w \in Worker : Server(w)
  \/ Finished

Spec == Init /\ [][Next]_vars

\* Every thread is scheduled again and again while it can move; so is the
\* delivery of what is in flight, which epoll reports until it is read.
FairSpec ==
  /\ Spec
  /\ WF_vars(Master)
  /\ \A w \in Worker : WF_vars(Main(w)) /\ WF_vars(Server(w))
  /\ \A w, j \in Worker : WF_vars(Sender(w, j))

-----------------------------------------------------------------------------
(* Properties *)

MasterType ==
  /\ mpc \in {"begin", "collect", "merge"} /\ miter \in 0 .. N
  /\ told \in 0 .. M /\ collected \in SUBSET Worker
SocketType == tbegin \in [Worker -> Nat] /\ acks \in [Worker -> Nat]
MainType ==
  /\ pc \in [Worker -> {"wait", "compute", "spinRecv", "spinSend", "report", "done"}]
  /\ iter \in [Worker -> 0 .. N]
CounterType == recv_job_num \in [Worker -> Int] /\ send_job_num \in [Worker -> Int]
JobType == jobs \in [Worker -> SUBSET Worker] /\ sent \in [Worker -> [Worker -> Nat]]
ChanType == chan \in [Worker -> [Worker -> Seq(Nat)]]
ServerType ==
  /\ srv \in [Worker -> Worker \cup {NoEvent}] /\ ptr \in [Worker -> Nat]
  /\ offset \in [Worker -> [Worker -> Nat]] /\ got \in [Worker -> [Worker -> Nat]]
BlockType ==
  /\ DOMAIN inbuf = Worker /\ \A w \in Worker : DOMAIN inbuf[w] = Worker
  /\ \A w, j \in Worker : inbuf[w][j] \in [1 .. OLen[j][w] -> Nat]
  /\ obuf \in [Worker -> Nat] /\ shadow \in [Worker -> Nat]

\* Every variable keeps its type; the bounds of the counters are other properties.
TypeOK ==
  /\ MasterType /\ SocketType /\ MainType /\ CounterType
  /\ JobType /\ ChanType /\ ServerType /\ BlockType

\* While a worker computes iteration i (crucial_updates), every worker is in
\* iteration i: nobody is left behind and nobody has gone on.
Lockstep ==
  \A w \in Worker : pc[w] = "compute" => \A j \in Worker : iter[j] = iter[w]

\* A worker that has left while(recv_job_num){} in iteration i holds, in every
\* piece of every in-block, the values its peers computed in iteration i.
BlocksComplete ==
  \A w \in Worker : pc[w] \in {"spinSend", "report"} =>
    \A j \in Peers(w) : \A k \in 1 .. OLen[j][w] : inbuf[w][j][k] = iter[w] + 1

\* What the vertex functions can read while iteration i is computed: values of
\* iteration i-1 or i of a peer, never older, and of its own block exactly
\* those of i-1 (the copy at the end of the iteration is neither lost nor early).
BoundedStaleness ==
  \A w \in Worker : pc[w] = "compute" =>
    /\ \A j \in Worker : \A k \in 1 .. OLen[j][w] : inbuf[w][j][k] \in {iter[w], iter[w] + 1}
    /\ ~Asyn => \A k \in 1 .. OLen[w][w] : inbuf[w][w][k] = iter[w]

\* recvfrom is never given room beyond the block it fills: what has been read of
\* a block and what is still in flight fit into it, so the test for its end
\* (offset == len, made only after EAGAIN) is exact.
NoOverrun ==
  \A w \in Worker : \A j \in Peers(w) :
    offset[w][j] + (IF srv[w] = j THEN ptr[w] ELSE 0) + Len(chan[j][w]) <= OLen[j][w]

\* Iterations for which w has set its counters again.
Rearmed(w) == iter[w] + (IF pc[w] = "report" THEN 1 ELSE 0)

\* The peers of w whose block of its current iteration it has not counted.
Uncounted(w) == {j \in Peers(w) : got[w][j] = Rearmed(w)}

\* recv_job_num is the number of peers whose block of this iteration has not
\* been counted: the blocks of peers that are ahead of the reset of the counter
\* (main loop) or arrive before the worker starts to compute are never lost.
RecvCountExact ==
  \A w \in Worker : recv_job_num[w] = Cardinality(Uncounted(w))

\* The out-blocks are not rewritten by crucial_updates while a thread of the
\* send pool is still writing one of them to its socket.
OutBlockQuiet == \A w \in Worker : pc[w] = "compute" => jobs[w] = {}

\* The master's count of an iteration is about that iteration: when the loop
\* over cc ends, no worker is still computing, exchanging, or told to begin.
BarrierExact ==
  mpc = "collect" /\ collected = Worker =>
    \A w \in Worker : iter[w] = miter + 1 /\ tbegin[w] = 0 /\ acks[w] = 0

\* The run ends: the master leaves its loop and so does every worker.
RunEnds == <>(mpc = "merge" /\ \A w \in Worker : pc[w] = "done")

-----------------------------------------------------------------------------
(* The exchange implements the supersteps *)

Stage(w) == CASE pc[w] \in {"wait", "done"} -> "idle"
              [] pc[w] = "compute" -> "computing"
              [] OTHER -> "exchanging"

Abstract == INSTANCE Superstep WITH round <- iter, stage <- [w \in Worker |-> Stage(w)]

\* Every worker's main loop goes through the supersteps of module Superstep: the
\* "tbegin"/"XGACKS" barrier and the two counters give the abstract barrier.
ImplementsSuperstep == Abstract!FairSpec

=============================================================================
