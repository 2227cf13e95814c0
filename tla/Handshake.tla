------------------------------ MODULE Handshake ------------------------------
(***************************************************************************)
(* From the schedule package to the end of the first exchange: a worker     *)
(* loads its subgraph, reports to the master, connects to every peer and    *)
(* announces the length of its block (engine/CE_Graph_engine.hpp, run),     *)
(* while its dpdk_server thread, which has been running since the engine    *)
(* was constructed, takes what arrives for a handshake or for a block       *)
(* according to recv_fd (dpdk/dpdk-tcp.hpp).                                *)
(*                                                                          *)
(* The master's barrier before the first "tbegin" is about loading only,    *)
(* so all of this overlaps with the first iteration of faster workers.      *)
(* A block is one item here; module Exchange has it piece by piece.         *)
(***************************************************************************)
EXTENDS Integers, Sequences, FiniteSets

CONSTANT M    (* number of workers: worker w runs interval w *)

ASSUME HandshakeAssumption == M \in Nat \ {0}

Worker == 0 .. M - 1
Peers(w) == Worker \ {w}

NoEvent == -1
Closed == -999  (* recv_fd once all peers have connected *)

VARIABLES
  mpc,          (* master: "schedule", "init" (collects reports), "begin"     *)
  told,         (* master: workers sent the package of its current section    *)
  inited,       (* master: workers whose report of the end of loading is read *)
  reported,     (* workers whose report is sent                               *)
  pc,           (* pc[w]: where w's main thread is                            *)
  loaded,       (* loaded[w]: inlength[j] of w is set for j < loaded[w]       *)
  connected,    (* connected[w]: w's loop over its peers has reached this one *)
  listening,    (* workers whose dpdk_server listens on its port              *)
  recv_fd,      (* recv_fd[w]: handshakes w has accepted, or Closed           *)
  known,        (* known[w]: peers whose entry of in_infos is filled in       *)
  recv_job_num,
  jobs,         (* jobs[w]: destinations with an unfinished send job          *)
  chan,         (* chan[w][j]: unread items from w to j, "hello" or "block"   *)
  srv,          (* srv[w]: the peer whose event w's dpdk_server handles       *)
  handler,      (* handler[w]: the handler chosen for that event              *)
  got,          (* history: got[w], peers whose block w has counted           *)
  failed        (* the assertion that has ended a worker, "none" if none has  *)

mastervars == <<mpc, told, inited>>
mainvars   == <<reported, pc, loaded, connected>>
srvvars    == <<listening, known, srv, handler, got>>
vars == <<mastervars, mainvars, srvvars, recv_fd, recv_job_num, jobs, chan, failed>>

Init ==
  /\ mpc = "schedule" /\ told = 0 /\ inited = {} /\ reported = {}
  /\ pc = [w \in Worker |-> "start"]
  /\ loaded = [w \in Worker |-> 0]
  /\ connected = [w \in Worker |-> 0]
  /\ listening = {}
  /\ recv_fd = [w \in Worker |-> 0]
  /\ known = [w \in Worker |-> {}]
  /\ recv_job_num = [w \in Worker |-> 0]
  /\ jobs = [w \in Worker |-> {}]
  /\ chan = [w \in Worker |-> [j \in Worker |-> <<>>]]
  /\ srv = [w \in Worker |-> NoEvent]
  /\ handler = [w \in Worker |-> "none"]
  /\ got = [w \in Worker |-> {}]
  /\ failed = "none"

\* A failed assertion ends its worker, and with it the run.
Running == failed = "none"

-----------------------------------------------------------------------------
(* The master *)

\* Send the schedule package to the next worker and wait for its XGACKS.
Schedule ==
  /\ Running /\ mpc = "schedule"
  /\ pc' = [pc EXCEPT ![told] = "load"]
  /\ told' = IF told + 1 = M THEN 0 ELSE told + 1
  /\ mpc' = IF told + 1 = M THEN "init" ELSE mpc
  /\ UNCHANGED <<inited, reported, loaded, connected, srvvars, recv_fd, recv_job_num,
                 jobs, chan, failed>>

\* A thread of the parallel loop reads the report of worker w.
ReadReport(w) ==
  /\ Running /\ mpc = "init" /\ w \in reported \ inited
  /\ inited' = inited \cup {w}
  /\ UNCHANGED <<mpc, told, mainvars, srvvars, recv_fd, recv_job_num, jobs, chan, failed>>

\* while(cc < M) falls through.
ReportsFull == inited = Worker

InitBarrier ==
  /\ Running /\ mpc = "init" /\ ReportsFull
  /\ mpc' = "begin"
  /\ UNCHANGED <<told, inited, mainvars, srvvars, recv_fd, recv_job_num, jobs, chan, failed>>

\* "tbegin" to the next worker.
SendBegin ==
  /\ Running /\ mpc = "begin" /\ told < M
  /\ told' = told + 1
  /\ UNCHANGED <<mpc, inited, mainvars, srvvars, recv_fd, recv_job_num, jobs, chan, failed>>

-----------------------------------------------------------------------------
(* The main thread of worker w *)

\* load_edata_XG sets the length of the next in-block.
LoadBlock(w) ==
  /\ Running /\ pc[w] = "load" /\ loaded[w] < M
  /\ loaded' = [loaded EXCEPT ![w] = @ + 1]
  /\ UNCHANGED <<mastervars, reported, pc, connected, srvvars, recv_fd, recv_job_num,
                 jobs, chan, failed>>

\* load_edata_XG has been through all blocks.
LastNotLoaded(w) == loaded[w] >= M - 1
AllLoaded(w) == loaded[w] = M

\* The subgraph is loaded: XGACKS to the master, without waiting for an answer.
Report(w) ==
  /\ Running /\ pc[w] = "load" /\ AllLoaded(w)
  /\ reported' = reported \cup {w}
  /\ pc' = [pc EXCEPT ![w] = "connect"]
  /\ UNCHANGED <<mastervars, loaded, connected, srvvars, recv_fd, recv_job_num, jobs,
                 chan, failed>>

\* The next turn of the loop over the peers: connect, then send the handshake;
\* a refused connection fails an assertion.
Connect(w) ==
  /\ Running /\ pc[w] = "connect" /\ connected[w] < M
  /\ LET j == connected[w] IN
       IF j = w \/ j \in listening
       THEN /\ connected' = [connected EXCEPT ![w] = @ + 1]
            /\ chan' = IF j = w THEN chan ELSE [chan EXCEPT ![w][j] = Append(@, "hello")]
            /\ UNCHANGED failed
       ELSE /\ failed' = "connect"
            /\ UNCHANGED <<connected, chan>>
  /\ UNCHANGED <<mastervars, reported, pc, loaded, srvvars, recv_fd, recv_job_num, jobs>>

\* The condition that ends while(recv_fd < M-1){}.
OneHelloShort(w) == recv_fd[w] >= M - 2
OwnHelloToo(w) == recv_fd[w] >= M
AllHellos(w) == recv_fd[w] >= M - 1

\* All peers have connected: from here on what arrives is a block.
Close(w) ==
  /\ Running /\ pc[w] = "connect" /\ connected[w] = M /\ AllHellos(w)
  /\ recv_fd' = [recv_fd EXCEPT ![w] = Closed]
  /\ pc' = [pc EXCEPT ![w] = "arm"]
  /\ UNCHANGED <<mastervars, reported, loaded, connected, srvvars, recv_job_num, jobs,
                 chan, failed>>

\* The job counter before the main loop, set after the pools have been created.
NotArmed(w) == UNCHANGED recv_job_num
SetCounter(w) == recv_job_num' = [recv_job_num EXCEPT ![w] = M - 1]

Arm(w) ==
  /\ Running /\ pc[w] = "arm"
  /\ SetCounter(w)
  /\ pc' = [pc EXCEPT ![w] = "wait"]
  /\ UNCHANGED <<mastervars, reported, loaded, connected, srvvars, recv_fd, jobs, chan,
                 failed>>

\* The read of "tbegin" returns.
ReadBegin(w) ==
  /\ Running /\ pc[w] = "wait" /\ mpc = "begin" /\ w < told
  /\ pc' = [pc EXCEPT ![w] = "compute"]
  /\ UNCHANGED <<mastervars, reported, loaded, connected, srvvars, recv_fd, recv_job_num,
                 jobs, chan, failed>>

\* crucial_updates returns and the send jobs are pushed.
PushJobs(w) ==
  /\ Running /\ pc[w] = "compute"
  /\ jobs' = [jobs EXCEPT ![w] = Peers(w)]
  /\ pc' = [pc EXCEPT ![w] = "spin"]
  /\ UNCHANGED <<mastervars, reported, loaded, connected, srvvars, recv_fd, recv_job_num,
                 chan, failed>>

\* Both spins fall through: the first exchange of w is over.
Exchanged(w) ==
  /\ Running /\ pc[w] = "spin" /\ recv_job_num[w] = 0 /\ jobs[w] = {}
  /\ pc' = [pc EXCEPT ![w] = "done"]
  /\ UNCHANGED <<mastervars, reported, loaded, connected, srvvars, recv_fd, recv_job_num,
                 jobs, chan, failed>>

\* A thread of the send pool writes the block for j.
SendBlock(w, j) ==
  /\ Running /\ j \in jobs[w]
  /\ chan' = [chan EXCEPT ![w][j] = Append(@, "block")]
  /\ jobs' = [jobs EXCEPT ![w] = @ \ {j}]
  /\ UNCHANGED <<mastervars, mainvars, srvvars, recv_fd, recv_job_num, failed>>

-----------------------------------------------------------------------------
(* The dpdk_server thread of worker w *)

Listen(w) ==
  /\ Running /\ w \notin listening
  /\ listening' = listening \cup {w}
  /\ UNCHANGED <<mastervars, mainvars, recv_fd, known, recv_job_num, jobs, chan, srv,
                 handler, got, failed>>

\* epoll_wait reports the connection of j; recv_fd decides who handles it.
Dispatch(w, j) ==
  /\ Running /\ w \in listening /\ srv[w] = NoEvent /\ chan[j][w] # <<>>
  /\ srv' = [srv EXCEPT ![w] = j]
  /\ handler' = [handler EXCEPT ![w] = IF recv_fd[w] > -1 THEN "handshake" ELSE "block"]
  /\ UNCHANGED <<mastervars, mainvars, listening, recv_fd, known, recv_job_num, jobs,
                 chan, got, failed>>

\* The event of j is over and what it read is consumed.
EndEvent(w, j) ==
  /\ srv[w] = j
  /\ srv' = [srv EXCEPT ![w] = NoEvent]
  /\ handler' = [handler EXCEPT ![w] = "none"]
  /\ chan' = [chan EXCEPT ![j][w] = Tail(@)]

\* The entry of in_infos is filled in and the handshake counted, here and not when
\* the connection is accepted, or else both times.
CountedTwice(w, j) ==
  /\ known' = [known EXCEPT ![w] = @ \cup {j}]
  /\ recv_fd' = [recv_fd EXCEPT ![w] = @ + 2]
Accept(w, j) ==
  /\ known' = [known EXCEPT ![w] = @ \cup {j}]
  /\ recv_fd' = [recv_fd EXCEPT ![w] = @ + 1]

\* dpdk_handle_event reads two integers: those of a handshake are checked
\* against the length loaded for that peer, those of a block are edge values
\* and fail the check (or index in_infos out of bounds).
HandleHello(w, j) ==
  /\ Running /\ handler[w] = "handshake" /\ EndEvent(w, j)
  /\ IF Head(chan[j][w]) = "hello" /\ j < loaded[w]
     THEN Accept(w, j) /\ UNCHANGED failed
     ELSE /\ failed' = IF Head(chan[j][w]) = "hello" THEN "length" ELSE "misread"
          /\ UNCHANGED <<known, recv_fd>>
  /\ UNCHANGED <<mastervars, mainvars, listening, recv_job_num, jobs, got>>

\* dpdk_block_event: the entry of in_infos is looked up, the block is read into
\* its in-block and counted.
HandleBlock(w, j) ==
  /\ Running /\ handler[w] = "block" /\ EndEvent(w, j)
  /\ IF j \in known[w]
     THEN /\ recv_job_num' = [recv_job_num EXCEPT ![w] = @ - 1]
          /\ got' = [got EXCEPT ![w] = @ \cup {j}]
          /\ UNCHANGED failed
     ELSE /\ failed' = "unknown"
          /\ UNCHANGED <<recv_job_num, got>>
  /\ UNCHANGED <<mastervars, mainvars, listening, recv_fd, known, jobs>>

-----------------------------------------------------------------------------

Master == Schedule \/ InitBarrier \/ SendBegin \/ \E w \in Worker : ReadReport(w)

Main(w) ==
  \/ LoadBlock(w) \/ Report(w) \/ Connect(w) \/ Close(w) \/ Arm(w)
  \/ ReadBegin(w) \/ PushJobs(w) \/ Exchanged(w)

Server(w) ==
  Listen(w) \/ \E j \in Worker : Dispatch(w, j) \/ HandleHello(w, j) \/ HandleBlock(w, j)

Next ==
  \/ Master
  \/ \E w \in Worker : Main(w) \/ Server(w)
  \/ \E w, j \in Worker : SendBlock(w, j)

Spec == Init /\ [][Next]_vars

\* Every thread is scheduled again and again while it can move.
FairSpec ==
  /\ Spec /\ WF_vars(Master)
  /\ \A w \in Worker :
       /\ WF_vars(Main(w)) /\ WF_vars(Server(w))
       /\ \A j \in Worker : WF_vars(SendBlock(w, j))

-----------------------------------------------------------------------------
(* Properties *)

Ready == {"wait", "compute", "spin", "done"}

TypeOK ==
  /\ mpc \in {"schedule", "init", "begin"} /\ told \in 0 .. M
  /\ inited \subseteq reported /\ reported \subseteq Worker
  /\ pc \in [Worker -> {"start", "load", "connect", "arm"} \cup Ready]
  /\ loaded \in [Worker -> 0 .. M] /\ connected \in [Worker -> 0 .. M]
  /\ listening \subseteq Worker
  /\ recv_fd \in [Worker -> (0 .. M - 1) \cup {Closed}]
  /\ recv_job_num \in [Worker -> 1 - M .. M - 1]
  /\ known \in [Worker -> SUBSET Worker] /\ got \in [Worker -> SUBSET Worker]
  /\ jobs \in [Worker -> SUBSET Worker]
  /\ chan \in [Worker -> [Worker -> Seq({"hello", "block"})]]
  /\ srv \in [Worker -> Worker \cup {NoEvent}]
  /\ handler \in [Worker -> {"none", "handshake", "block"}]
  /\ failed \in {"none", "connect", "length", "misread", "unknown"}

\* Once recv_fd is closed, in_infos has an entry for every peer, so that
\* dpdk_block_event finds the block information of whatever arrives.
PeersKnown ==
  /\ \A w \in Worker : recv_fd[w] = Closed => known[w] = Peers(w)
  /\ failed # "unknown"

\* No worker computes before every worker has loaded its subgraph: the barrier
\* on the reports that end the initialisation.
LoadedBeforeCompute ==
  \A w \in Worker : pc[w] \in {"compute", "spin", "done"} =>
    \A j \in Worker : loaded[j] = M

\* A worker leaves its first exchange with the blocks of all its peers, also
\* when some of them arrived before its counter was set.
LeavesWithBlocks == \A w \in Worker : pc[w] = "done" => got[w] = Peers(w)

\* w counted a block before it set recv_job_num, which forgot it.
Forgotten(w) == pc[w] \in Ready /\ recv_job_num[w] # M - 1 - Cardinality(got[w])

AllExchanged == \A w \in Worker : pc[w] = "done"

\* The first exchange ends, unless an assertion fails (a refused connection, a
\* handshake that comes before the length it is compared with, a block that is
\* dispatched as a handshake) or a block is forgotten: nothing else can go wrong
\* between the schedule package and there.
OnlyKnownObstacles ==
  <>(AllExchanged \/ failed # "none" \/ \E w \in Worker : Forgotten(w))

\* assert(false) of dpdk_handle_event, "Incoming out-edge data block is invalid":
\* the length a peer announces is the one loaded for its block.
LengthsAgree == failed # "length"

=============================================================================
