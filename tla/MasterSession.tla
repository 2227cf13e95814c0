---------------------------- MODULE MasterSession ----------------------------
(***************************************************************************)
(* The control connection between the master and every worker, from the     *)
(* discovery of the hosts to the end of the run: comm/machine.hpp and       *)
(* ceMaster.cpp on one side, server1 (comm/xgworker.hpp) and run()          *)
(* (engine/CE_Graph_engine.hpp) on the other.                               *)
(*                                                                          *)
(* A connection is two byte streams.  What is written is a package, a       *)
(* schedule package or a top list being several pieces, and one read takes  *)
(* any nonempty prefix of what has arrived: neither side looks for the end  *)
(* of a package.  Computing and exchanging blocks is one step each of the   *)
(* iteration, with the promise of module Superstep, which module Exchange   *)
(* implements.                                                              *)
(***************************************************************************)
EXTENDS Integers, Sequences, FiniteSets

CONSTANTS
  H,             (* hosts that have answered                                *)
  M,             (* nshards, the hosts that get an interval                 *)
  N,             (* niters                                                  *)
  SchedulePieces, ListPieces   (* pieces a schedule package, a top list travels in *)

ASSUME SessionAssumption ==
  /\ H \in Nat \ {0} /\ M \in 1 .. H /\ N \in Nat \ {0}
  /\ SchedulePieces \in Nat \ {0} /\ ListPieces \in Nat \ {0}

Host == 0 .. H - 1
Worker == 0 .. M - 1

VARIABLES
  mpc,        (* master: the part of main it is in                           *)
  at,         (* master: next host of the serial loop it is in               *)
  miter,      (* master: i of the iteration loop                             *)
  arrived,    (* master: workers whose turn of the parallel loop is over     *)
  list,       (* list[w]: pieces of w's top list that recv has put in topbuf *)
  toMaster,   (* toMaster[w]: unread at the master from w                    *)
  toWorker,   (* toWorker[w]: unread at w from the master                    *)
  open,       (* open[w]: the master has not closed its connection to w      *)
  wpc,        (* wpc[w]: where w's main thread is                            *)
  fd_master,  (* the workers whose fd_master server1 has set                 *)
  begun,      (* begun[w]: turns of the main loop w has begun                *)
  swallowed,  (* history: swallowed[w], packages of w taken whole or in part *)
              (* by a read that was waiting for an earlier one               *)
  stray,      (* history: workers that took something else for a "tbegin"    *)
  failed      (* workers ended by assert(ret > 0)                            *)

mastervars == <<mpc, at, miter, arrived, list, open>>
workervars == <<wpc, fd_master, begun, stray, failed>>
vars == <<mastervars, workervars, toMaster, toWorker, swallowed>>

Times(n, x) == [i \in 1 .. n |-> x]

Init ==
  /\ mpc = "discover" /\ at = 0 /\ miter = 0 /\ arrived = {}
  /\ list = [w \in Host |-> 0]
  /\ toMaster = [w \in Host |-> <<>>] /\ toWorker = [w \in Host |-> <<>>]
  /\ open = [w \in Host |-> TRUE]
  /\ wpc = [w \in Host |-> "spin"]
  /\ fd_master = {}
  /\ begun = [w \in Host |-> 0]
  /\ swallowed = [w \in Host |-> {}]
  /\ stray = {} /\ failed = {}

-----------------------------------------------------------------------------
(* Streams *)

\* A read at the master from w takes the first k unread pieces.
MasterTakes(w, k) ==
  /\ k \in 1 .. Len(toMaster[w])
  /\ toMaster' = [toMaster EXCEPT ![w] = SubSeq(@, k + 1, Len(@))]
  /\ UNCHANGED toWorker

\* The master waits for one acknowledgement; whatever else the read takes is
\* overwritten by the next one.
MasterTakesAck(w, k) ==
  /\ MasterTakes(w, k)
  /\ swallowed' = [swallowed EXCEPT ![w] = @ \cup {toMaster[w][i] : i \in 2 .. k}]

WorkerTakes(w, k) ==
  /\ k \in 1 .. Len(toWorker[w])
  /\ toWorker' = [toWorker EXCEPT ![w] = SubSeq(@, k + 1, Len(@))]

MasterSends(w, package) ==
  /\ toWorker' = [toWorker EXCEPT ![w] = @ \o package]
  /\ UNCHANGED toMaster

WorkerSends(w, package) == toMaster' = [toMaster EXCEPT ![w] = @ \o package]

-----------------------------------------------------------------------------
(* The master *)

\* The next host of a serial loop over n hosts; after the last one, part next.
GoOn(n, part, next) == at' = at + 1 /\ mpc' = IF at + 1 >= n THEN next ELSE part
Advance(n, part, next) ==
  /\ at' = IF at + 1 = n THEN 0 ELSE at + 1
  /\ mpc' = IF at + 1 = n THEN next ELSE part

\* testhost: XGREQT, and wait for the answer.
Greet ==
  /\ mpc = "discover"
  /\ MasterSends(at, <<"XGREQT">>)
  /\ mpc' = "answer"
  /\ UNCHANGED <<at, miter, arrived, list, open, workervars, swallowed>>

Answered ==
  /\ mpc = "answer"
  /\ \E k \in 1 .. Len(toMaster[at]) : MasterTakes(at, k)
  /\ Advance(H, "discover", "schedule")
  /\ UNCHANGED <<miter, arrived, list, open, workervars, swallowed>>

\* The schedule package for the next worker, and wait for its XGACKS.
SendSchedule ==
  /\ mpc = "schedule"
  /\ MasterSends(at, Times(SchedulePieces, "XGREQS"))
  /\ mpc' = "scheduled"
  /\ UNCHANGED <<at, miter, arrived, list, open, workervars, swallowed>>

Scheduled ==
  /\ mpc = "scheduled"
  /\ \E k \in 1 .. Len(toMaster[at]) : MasterTakesAck(at, k)
  /\ Advance(M, "schedule", "init")
  /\ UNCHANGED <<miter, arrived, list, open, workervars>>

\* A turn of the parallel loop that reads one XGACKS of every worker, after the
\* initialisation and after every iteration.
ReadAck(w) ==
  /\ mpc \in {"init", "collect"} /\ w \in Worker \ arrived
  /\ \E k \in 1 .. Len(toMaster[w]) : MasterTakesAck(w, k)
  /\ arrived' = arrived \cup {w}
  /\ UNCHANGED <<mpc, at, miter, list, open, workervars>>

\* while(cc < M) falls through.
CountOneShort == Cardinality(arrived) >= M - 1
CountFull == arrived = Worker

\* The condition of the iteration loop.
OneFewer(i) == i = N - 1
LoopOver(i) == i = N

\* The barrier after an iteration, or after the initialisation, and the next turn
\* of the iteration loop.
Barrier ==
  /\ mpc \in {"init", "collect"} /\ CountFull
  /\ arrived' = {}
  /\ miter' = IF mpc = "init" THEN 0 ELSE miter + 1
  /\ mpc' = IF LoopOver(miter') THEN "results" ELSE "begin"
  /\ UNCHANGED <<at, list, open, workervars, toMaster, toWorker, swallowed>>

SendBegin ==
  /\ mpc = "begin"
  /\ MasterSends(at, <<"tbegin">>)
  /\ Advance(M, "begin", "collect")
  /\ UNCHANGED <<miter, arrived, list, open, workervars, swallowed>>

\* One recv for the whole top list of w.
ReadList(w) ==
  /\ mpc = "results" /\ w \in Worker \ arrived
  /\ \E k \in 1 .. Len(toMaster[w]) : MasterTakes(w, k) /\ list' = [list EXCEPT ![w] = k]
  /\ arrived' = arrived \cup {w}
  /\ UNCHANGED <<mpc, at, miter, open, workervars, swallowed>>

\* while(done < M), then the merge of the lists.
Merge ==
  /\ mpc = "results" /\ CountFull
  /\ mpc' = "finish"
  /\ UNCHANGED <<at, miter, arrived, list, open, workervars, toMaster, toWorker, swallowed>>

SendFinish ==
  /\ mpc = "finish"
  /\ MasterSends(at, <<"XGREQF">>)
  /\ Advance(M, "finish", "close")
  /\ UNCHANGED <<miter, arrived, list, open, workervars, swallowed>>

\* All connections are closed, those of hosts without an interval too.
CloseNext ==
  /\ mpc = "close"
  /\ open' = [open EXCEPT ![at] = FALSE]
  /\ Advance(H, "close", "exit")
  /\ UNCHANGED <<miter, arrived, list, workervars, toMaster, toWorker, swallowed>>

-----------------------------------------------------------------------------
(* Worker w *)

\* server1, for its first connection: it reads the request and answers; then
\* it hands the connection to the main thread.
Welcome(w) ==
  /\ w \notin fd_master /\ \E k \in 1 .. Len(toWorker[w]) : WorkerTakes(w, k)
  /\ WorkerSends(w, <<"XGACKT">>)
  /\ fd_master' = fd_master \cup {w}
  /\ UNCHANGED <<mastervars, wpc, begun, stray, failed, swallowed>>

Adopt(w) ==
  /\ wpc[w] = "spin" /\ w \in fd_master
  /\ wpc' = [wpc EXCEPT ![w] = "schedule"]
  /\ UNCHANGED <<mastervars, fd_master, begun, stray, failed, toMaster, toWorker, swallowed>>

\* The schedule package, from which all parameters of the run are copied, and the
\* XGACKS that answers it.
ReadSchedule(w) ==
  /\ wpc[w] = "schedule" /\ \E k \in 1 .. Len(toWorker[w]) : WorkerTakes(w, k)
  /\ WorkerSends(w, <<"XGACKS">>)
  /\ wpc' = [wpc EXCEPT ![w] = "load"]
  /\ UNCHANGED <<mastervars, fd_master, begun, stray, failed, swallowed>>

\* The master has closed the connection: read returns 0 and assert(ret > 0) fails.
ReadClosed(w) ==
  /\ wpc[w] = "schedule" /\ toWorker[w] = <<>> /\ ~open[w]
  /\ failed' = failed \cup {w}
  /\ wpc' = [wpc EXCEPT ![w] = "failed"]
  /\ UNCHANGED <<mastervars, fd_master, begun, stray, toMaster, toWorker, swallowed>>

\* The subgraph is loaded.
Report(w) ==
  /\ wpc[w] = "load"
  /\ WorkerSends(w, <<"XGACKS">>)
  /\ wpc' = [wpc EXCEPT ![w] = "wait"]
  /\ UNCHANGED <<mastervars, fd_master, begun, stray, failed, toWorker, swallowed>>

\* The read that waits for "tbegin": what it returns is not looked at.
ReadBegin(w) ==
  /\ wpc[w] = "wait"
  /\ \E k \in 1 .. Len(toWorker[w]) :
       /\ WorkerTakes(w, k)
       /\ stray' = IF SubSeq(toWorker[w], 1, k) = <<"tbegin">> THEN stray ELSE stray \cup {w}
  /\ begun' = [begun EXCEPT ![w] = @ + 1]
  /\ wpc' = [wpc EXCEPT ![w] = "computing"]
  /\ UNCHANGED <<mastervars, fd_master, failed, toMaster, swallowed>>

Computed(w) ==
  /\ wpc[w] = "computing"
  /\ wpc' = [wpc EXCEPT ![w] = "exchanging"]
  /\ UNCHANGED <<mastervars, fd_master, begun, stray, failed, toMaster, toWorker, swallowed>>

\* w has the blocks of all workers for its iteration: they have computed it.
Exchanged(w) ==
  \A j \in Worker : begun[j] > begun[w] \/ (begun[j] = begun[w] /\ wpc[j] # "computing")

\* The acknowledgement of an iteration, which the last of them is too.
Leave(w) ==
  /\ wpc[w] = "exchanging" /\ Exchanged(w)
  /\ WorkerSends(w, <<"XGACKS">>)
  /\ wpc' = [wpc EXCEPT ![w] = IF begun[w] = N THEN "output" ELSE "wait"]
  /\ UNCHANGED <<mastervars, fd_master, begun, stray, failed, toWorker, swallowed>>

\* The vertices are saved and the top list is sent.
SendList(w) ==
  /\ wpc[w] = "output"
  /\ WorkerSends(w, Times(ListPieces, "list"))
  /\ wpc' = [wpc EXCEPT ![w] = "final"]
  /\ UNCHANGED <<mastervars, fd_master, begun, stray, failed, toWorker, swallowed>>

\* The last recv, which nothing is done with, and the end.
ReadFinish(w) ==
  /\ wpc[w] = "final" /\ \E k \in 1 .. Len(toWorker[w]) : WorkerTakes(w, k)
  /\ wpc' = [wpc EXCEPT ![w] = "ended"]
  /\ UNCHANGED <<mastervars, fd_master, begun, stray, failed, toMaster, swallowed>>

-----------------------------------------------------------------------------

Master ==
  \/ Greet \/ Answered \/ SendSchedule \/ Scheduled
  \/ Barrier \/ SendBegin \/ Merge \/ SendFinish \/ CloseNext

MasterThread(w) == ReadAck(w) \/ ReadList(w)

Main(w) ==
  \/ Adopt(w) \/ ReadSchedule(w) \/ ReadClosed(w) \/ Report(w) \/ ReadBegin(w)
  \/ Computed(w) \/ Leave(w) \/ SendList(w) \/ ReadFinish(w)

Next == Master \/ \E w \in Host : MasterThread(w) \/ Welcome(w) \/ Main(w)

Spec == Init /\ [][Next]_vars

\* Every thread is scheduled again and again while it can move.
FairSpec ==
  /\ Spec /\ WF_vars(Master)
  /\ \A w \in Host : WF_vars(MasterThread(w)) /\ WF_vars(Welcome(w)) /\ WF_vars(Main(w))

-----------------------------------------------------------------------------
(* Properties *)

InLoop == {"wait", "computing", "exchanging"}

TypeOK ==
  /\ mpc \in {"discover", "answer", "schedule", "scheduled", "init", "begin", "collect",
             "results", "finish", "close", "exit"}
  /\ at \in 0 .. H - 1 /\ miter \in 0 .. N /\ arrived \subseteq Worker
  /\ list \in [Host -> 0 .. ListPieces] /\ open \in [Host -> BOOLEAN]
  /\ toMaster \in [Host -> Seq({"XGACKT", "XGACKS", "list"})]
  /\ toWorker \in [Host -> Seq({"XGREQT", "XGREQS", "tbegin", "XGREQF"})]
  /\ wpc \in [Host -> {"spin", "schedule", "load", "output", "final", "ended", "failed"}
                      \cup InLoop]
  /\ fd_master \subseteq Host /\ stray \subseteq Host /\ failed \subseteq Host
  /\ begun \in [Host -> 0 .. N]
  /\ swallowed \in [Host -> SUBSET {"XGACKS", "list"}]

Expected(w) ==
  CASE w \notin fd_master                  -> <<"XGREQT">>
    [] w \in fd_master /\ wpc[w] \in {"spin", "schedule"} -> Times(SchedulePieces, "XGREQS")
    [] wpc[w] = "wait"                     -> <<"tbegin">>
    [] wpc[w] = "final"                    -> <<"XGREQF">>
    [] OTHER                               -> <<>>

\* What is under way to a worker is the one package it is about to read: although a
\* worker never looks at what it has read, its reads cannot join two packages, and
\* what begins an iteration is a "tbegin".
InTurn == stray = {} /\ \A w \in Host : toWorker[w] \in {<<>>, Expected(w)}

\* No worker begins its first iteration before all have loaded their subgraphs,
\* whatever the reads at the master have joined.
LoadedBeforeBegin ==
  (\E w \in Worker : begun[w] > 0) => \A j \in Worker : wpc[j] \notin {"spin", "schedule", "load"}

\* A worker is dismissed only when something of every worker's top list has been read.
DismissedLast == (\E w \in Worker : wpc[w] = "ended") => \A j \in Worker : list[j] > 0

Left(w) == IF wpc[w] \in {"computing", "exchanging"} THEN begun[w] - 1 ELSE begun[w]

Abstract == INSTANCE Superstep
  WITH round <- [w \in Worker |-> Left(w)],
       stage <- [w \in Worker |->
                   IF wpc[w] \in {"computing", "exchanging"} THEN wpc[w] ELSE "idle"]

\* The acknowledgements the master counts make the workers go through the
\* supersteps of module Superstep.
ImplementsSuperstep == Abstract!Spec

Ended == mpc = "exit" /\ \A w \in Worker : wpc[w] = "ended"

\* The session ends unless a read at the master has taken a package it was not
\* waiting for.
EndsUnlessSwallowed == <>(Ended \/ \E w \in Worker : swallowed[w] # {})

\* assert(ret > 0) after the read of the schedule package holds.
ScheduleRead == failed = {}

=============================================================================
