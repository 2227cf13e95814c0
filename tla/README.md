# DPDK-Graph: formal models

DPDK-Graph runs a graph program on a cluster of hosts. The vertices are split
into M intervals, one worker owns one interval, and in every iteration a worker
runs the vertex functions of its interval and then sends each other worker the
block of edge values between the two intervals. A master starts the workers,
keeps them in step and merges their results. The exchange goes over a
user-space TCP stack on DPDK (netdp/opendp), the control messages over kernel
sockets.

Before a run, a preprocessing program has sorted the edges into the files of the
intervals, and each worker has loaded its own.

This directory holds TLA+ models of that system, TLC configurations that check
small instances, and TLAPS proofs for the exchange of blocks in the iterations, the
start-up, the control connections, the send pool, the asynchronous I/O, the files that the
preprocessing writes, their loading and the top list. All paths below are relative to
`src/dpdk-graph/exec/src/` unless they begin with `src/`.

## 1. Inventory

### 1.1 Components of the distributed run

| Component | Source | State | Operations |
|---|---|---|---|
| Master | `ceMaster.cpp` | the hosts list, `M`, the loop counter `i`, the counts `cc` and `done`, queues `q[]` of received top lists | discover hosts, send schedule packages, wait for the reports of loading, N times (send `tbegin`, read one acknowledgement of each), read top lists, merge, send `XGREQF`, close |
| Host discovery | `comm/machine.hpp` | list of hosts with their socket | `determine_machines` connects to each host of `conf/hosts.slave`; `testhost` sends `XGREQT` and waits for `XGACKT` |
| Master connection of a worker | `comm/xgworker.hpp`, `server1` | `fd_master` | answers the first request and hands the connection to the main thread |
| Main thread of a worker | `engine/CE_Graph_engine.hpp`, `run` | `iter`, the in-blocks and out-blocks, `recv_fd`, `recv_job_num`, `send_job_num` | read the schedule package, load the subgraph, report, connect to the peers, main loop, output and top list |
| Send pool | `comm/threadpool.hpp`, `m_send_to_worker` in `dpdk/dpdk-tcp.hpp` | a queue, a mutex, a semaphore; a thread's job | push a job, pop a job, write one block to one peer and decrement `send_job_num` |
| Block server of a worker | `dpdk/dpdk-tcp.hpp`, `dpdk_server`, `dpdk_handle_event`, `dpdk_block_event` | the epoll set, `in_infos[]` (peer, connection, length, offset) | accept, handshake (who is connecting, how long its block is), receive a block into the in-block and decrement `recv_job_num` |
| Asynchronous I/O of a worker | `io/stripedio.hpp`, `util/synchronized_queue.hpp` | of each I/O thread three queues and two counters; of each request a reference count and a `doneptr` | queue a read or a write as chunks, wait for all reads or writes, transfer a chunk, stop |
| Loader of a worker | `shards/memoryshard.hpp`, `shards/slidingshard.hpp`, `load_before_updates` of the engine | a cursor in an adjacency file and one in the blocks; the edges of the vertices | read a row, give both ends of an edge a pointer into a block |
| Reshard, the last pass of the preprocessing | `src/dpdk-graph/preprocessing/src/CE_Graph_sharder/preprocessing/sharder.hpp` | the sorted edges of an interval, `current_sliding_shard`, `current_memory_shard`, `wsl[]`: a cursor for each file it writes | one turn for each edge: value to a block, target to a row of an adjacency file |
| Top list | `util/toplist.hpp`, `util/merge.hpp`, end of `ceMaster.cpp` | window, `topbuf`, `buffer_idxs` | scan, prune, sort, merge; k-way merge in the master |

### 1.2 How they interact

* master ⇄ worker: one TCP connection, request and acknowledgement packages
  without framing. Each side calls `read` with a large buffer and takes what it
  gets for the package it expects.
* worker ⇄ worker: one connection per ordered pair, opened by the sender. On it
  travels first a handshake (two integers: the interval of the sender and the
  length of its block) and then one block per iteration, with no header. The
  receiver knows the end of a block from its length alone.
* preprocessing ⇄ worker: files. Of every pair of intervals there is an adjacency
  and the block of the edges between them, the block twice: what the worker of
  the sources sends and the worker of the targets receives. The exchange copies
  one over the other, without a look at what is in it.
* inside a worker, while it loads: a thread for the main part and one for each
  sliding part queue requests to the I/O threads; the main thread waits for all of
  them before it goes on.
* inside a worker: the main thread, the threads of the send pool, `server1` and
  `dpdk_server` share `recv_fd`, `recv_job_num` and `send_job_num`, which the
  main thread spins on. The blocks are shared too: `dpdk_server` writes the
  in-blocks that vertex functions read, and the send pool reads the out-blocks
  that vertex functions write.

### 1.3 What is hard, and what makes it correct

| Component | Hard behaviour | What has to hold |
|---|---|---|
| Iteration exchange | the counters are set again while peers may already be in the next iteration; blocks without framing; computing overlaps with receiving; sending overlaps with the end of the iteration | nobody computes before all have left the previous iteration; nobody leaves before it has all blocks, complete; no count is lost; no block runs into the next; out-blocks do not change under a sender; the run ends |
| Barriers in the master | they count reads and not messages | a barrier is passed exactly when all workers have reached it |
| Start-up | loading, connecting, listening and dispatching are not ordered among workers; the first iteration of a fast worker overlaps with the handshakes of a slow one | no one computes on a subgraph that is not loaded; the peer of every block is known; the first exchange ends with all blocks |
| Control connection | messages may be joined or split by the stream | every package is read by the step it is meant for; the session ends |
| Send pool | queue, semaphore and mutex; main thread pushes while threads pop | every job is run exactly once; `send_job_num` counts the ones that are not |
| Asynchronous I/O | counters raised before the chunk is queued; a request in chunks on several threads, freed by the last; waits that look at one counter after the other | counters are exact; nothing is used after it is freed; what has been waited for is transferred; calls return and writes are served |
| Files of a subgraph | one pass interleaves the rows of in-edges and of out-edges to every interval; two passes write the two copies of a block; the loader reconstructs vertices from lengths and runs of zeros | both ends of an edge point to the same place of the same block, and that is where its value is |
| Top list | pruning against the last kept value, a reused buffer, a merge that looks beyond its input, a k-way merge without tests for emptiness | what is printed are the greatest values, in order |

The full list of hazards, each at its line and with the properties that watch
over it, is in `PROJECT.json`, `hazards`.

### 1.4 Components that take no part in these models

| Component | Source | Why |
|---|---|---|
| Bitset scheduler | `engine/bitset_scheduler.hpp`, `util/dense_bitset.hpp` | `initialize_scheduler` adds a task for every vertex and nothing on the path of the distributed run removes one |
| Locks and atomics | `util/pthread_tools.hpp`, `util/atomic.hpp` | thin wrappers; a locked section is one step of the models |
| The rest of the sharder | `preprocessing/`, `src/dpdk-graph/preprocessing/` | reading the input, the choice of the intervals and its refinement are sequential and hold no protocol; the delivery of shovels between machines: section 7 |
| The tasks of the schedule package | `ceMaster.cpp` 84-96 | sent, and read by no worker |
| Degree and vertex data, output | `engine/auxdata/`, `output/` | sequential windowed file access by one caller |
| RDMA exchange | `rmda/` | the thread of its server is commented out in the engine (line 174), so that `rdma = 1` does not run as the code stands |
| Older servers | `comm/masterserver.hpp`, `comm/wgworker.hpp`, `comm/workserver.hpp`, ... | earlier generations of the exchange; no build target includes them |
| Dynamic and functional engines | `engine/dynamic_graphs/`, `engine/functional/` | single-machine engines inherited from GraphChi |
| Metrics, logging, HTTP administration | `metrics/`, `logger/`, `httpadmin/` | reporting only |
| Applications and toolkits, test programs | `example_apps/`, `toolkits/`, `test/` | user programs |
| User-space TCP stack, vendored libraries | `src/dpdk-odp-master/`, `rdmalib/`, `external/` | third party; the models use its sockets as reliable byte streams with level-triggered epoll |

## 2. Modules

| Module | Models | Used with |
|---|---|---|
| `Superstep` | abstract specification: what the framework promises of an iteration | implemented by `Exchange` and by `MasterSession` |
| `Exchange` | the iterations: master's loop, workers' main loops, send pool, block server; blocks piece by piece | |
| `ExchangeInv` | the inductive invariant of `Exchange` | extends `Exchange` |
| `ExchangeProofs` | type correctness, the inductive invariant, the safety properties, the refinement | extends `ExchangeInv` |
| `MCExchange` | block sizes for TLC | extends `ExchangeInv` |
| `Handshake` | from the schedule package to the end of the first exchange | |
| `HandshakeProofs` | the start-up's inductive invariant and its properties | extends `Handshake` |
| `MasterSession` | the control connection, from discovery to the end | instantiates `Superstep` |
| `MasterSessionProofs` | the session's inductive invariant, its properties, the refinement | extends `MasterSession` |
| `ThreadPool` | the pool of the send jobs | |
| `ThreadPoolProofs` | the pool's inductive invariant and its properties | extends `ThreadPool` |
| `StripedIO` | asynchronous I/O: callers, I/O threads, waits, destructor | |
| `StripedIOProofs` | the inductive invariant of the I/O and its properties | extends `StripedIO` |
| `MCStripedIO` | what each caller uses, for TLC | extends `StripedIO` |
| `Reshard` | one pass over the sorted edges of an interval that writes the files of its subgraph | |
| `Subgraph` | the workers' loading of what `Reshard` wrote | extends `Reshard` |
| `SubgraphProofs` | the two inductive invariants of `Reshard`: its loop and its blocks, and the rows of its files | extends `Subgraph` |
| `LoadingProofs` | the loading's inductive invariant and its properties | extends `SubgraphProofs` |
| `MCSubgraph` | families of graphs for TLC | extends `Subgraph` |
| `TopList` | top list of a worker and merge in the master | |
| `TopListProofs` | the top list's inductive invariant and its properties | extends `TopList` |
| `MCTopList` | interval sizes and values for TLC | extends `TopList` |

The modules share their boundaries. `Exchange` begins where `Handshake` ends:
all connections set up, both counters set, every worker at the read of its first
`tbegin`. `Exchange` takes its pool to have a thread for every job, which the
code does (`M - 1` threads), and `ThreadPool` shows what the pool does with any
number of them. `MasterSession` has computing and exchanging as one step each,
with the promise of `Superstep`, which `Exchange` implements; in turn `Exchange`
has one acknowledgement per iteration on the control connection, which
`MasterSession` splits and joins. `Exchange` takes it that the block a worker
sends is the one its peer's edges point into: that the two are written alike is
`BlocksAgree` of `Reshard`, and that the edges point into them `PointersRight` of
`Subgraph`, which composes the preprocessing with the loading of all workers. The
main thread goes on when `wait_for_reads` returns, and `StripedIO` says what it
then has. `TopList` starts where the last iteration of
`MasterSession` ends.

### 2.1 Superstep

`round[w]` is the number of iterations w has left, `stage[w]` is idle, computing
or exchanging. A worker begins when all are in the same round, and leaves when
every worker is exchanging in this round or has left it already.

### 2.2 Exchange

| Variables | In the code |
|---|---|
| `mpc`, `miter`, `told`, `collected` | `ceMaster.cpp` 183-209: `i`, the loop that sends `tbegin`, the parallel loop that reads, `cc` |
| `tbegin`, `acks` | what is unread on a worker's master connection, in either direction |
| `pc`, `iter` | where the main loop of `run` is, 1126-1249, and its `i` |
| `recv_job_num`, `send_job_num` | the two shared counters |
| `jobs`, `sent` | unfinished jobs of `m_send_to_worker` and how far `dpdk_write_all` has come |
| `chan` | bytes in flight between two workers, in pieces |
| `srv`, `ptr`, `offset` | the event `dpdk_block_event` is handling, what it has read of it, `in_infos[].offset` |
| `inbuf`, `obuf`, `shadow` | in-blocks, out-blocks, `main_to_main_buf` |
| `got` | history: blocks counted |

A block is a sequence of pieces, a piece being what one `recvfrom` returns of
one send. The data of a piece is abstracted to a stamp, the number of iterations
that went into it: the properties ask from which iteration a value is, and not
which value it is. One action is one step of one thread between two accesses to
shared state. `UpdateInPlace` is there for the option `asyn` only: with
`asyn = 1` the vertex functions write the edges inside the interval in place
while other vertex functions read them.

### 2.3 Handshake

The same threads before the first iteration. A block is one item here. The
variable `recv_fd` counts the handshakes and is set to `Closed` (-999 in the
code) by the main thread; `Dispatch` reads it to choose the handler of an event,
and the handler runs in a later step, as in the code. A failed assertion sets
`failed` and ends the run. What a handshake misread from a block does is one of
the outcomes, "misread".

### 2.4 MasterSession

A connection is two streams of pieces. `MasterTakes` and `WorkerTakes` read any
nonempty prefix of what has arrived: neither side delimits packages. A schedule
package has `SchedulePieces` pieces and a top list `ListPieces`; all other
packages are a few bytes and are one piece. `swallowed` and `stray` are history:
packages taken by a read that was waiting for an earlier one, and workers that
took something else for a `tbegin`.

### 2.5 ThreadPool

`ManageFuction` (sic) with the semaphore, the mutex, the copy of the front, the
pop and the run as one step each; `PushWorkQue` likewise; the user is the main
loop, which pushes the jobs of an iteration and waits for `send_job_num`.

### 2.6 StripedIO

| Variables | In the code |
|---|---|
| `pending_reads`, `pending_writes` | the counters of each `thrinfo` |
| `prioqueue`, `readqueue`, `commitqueue` | the queues of each I/O thread |
| `tpc`, `task` | where `io_thread_loop` is and the chunk it has |
| `cpc`, `mine`, `left`, `at` | where a call is: `preada_now`, `preada_async`, `pwritea_async` queue one chunk after the other; a wait looks at one thread after the other |
| `kind`, `size`, `count`, `freed`, `done` | of a request: its chunks, the count of its `refcountptr`, whether that is freed, its `*doneptr` |
| `due`, `moved`, `waited` | history |

A caller may make any request it is listed for, wait, or (`main`) destroy the
manager. The stripes of a request go to consecutive disks, each to any thread of
its disk. Raising a counter, pushing, popping, transferring, counting down and
releasing are steps of their own.

The module allows any number of callers. In the program, the threads of the
parallel loop in `load_before_updates` (`CE_Graph_engine.hpp:442`) queue reads
side by side, but `wait_for_reads` is called at line 480, after that loop, by the
main thread alone. A caller that waits while another one queues is therefore more
general than the code; what `WaitedIsMoved` guards against in the code is the
main thread going on before the I/O threads have finished.

### 2.7 Reshard and Subgraph

`Reshard` is the loop over the edges of `reshard`, split where one turn changes
the file it writes: `EdgeIn` and `EdgeOut` write the value, `Turn` is one round of
the inner while, `LeaveInterval` and `NextSource` are the two branches after it,
`Stopper` is the last turn. A file is a sequence of fields; the value of an edge
is the edge itself, so that a pointer can be asked whose value it finds. `Esc` and
`MaxRun` are the 255 and the 254 of the byte-sized counts. `IsGraph` says what the
preprocessing has made sure of by then: `set_intervals` puts the intervals one after
the other from vertex 0, and `reshovel` asserts that they hold both ends of every edge.

`Subgraph` then loads each worker: `Main` is `load_vertices_XG`, the sliding part
p is `read_next_vertices_XG(p)`. `edges[w]` are the pointers that `add_inedge` and
`add_outedge` receive: the block, the place in it, and the place in
`main_to_main_buf` for the edges inside the interval. Opening the main part fails
if a block is empty, which is the assertion on the stripes of a compressed
session in `preada_async`.

### 2.8 TopList

`Scan` is one window of `get_top_vertices`. `buffer` models `buffer_idxs` with
what earlier windows left in it, because `merge` looks at the first entry of its
second input even when it is told to merge none. `Sorted` is `quickSort`, which puts
equal values in any order. `Merge` is a recursive function
that follows `util/merge.hpp` step by step; the property is stated with a
reference definition (`IsTop`) that shares nothing with it. `PrintNext` is one
turn of the master's loop that prints.

## 3. What the runs check

Every run finishes in about two minutes or less with two TLC workers. The largest,
`subgraph`, has 910 068 distinct states.

| Run | Instance | Properties | Shows |
|---|---|---|---|
| `exchange_pair` | M=2, N=3, `asyn` = 1, blocks of 1 to 3 pieces | `IInv`, `RunEnds`, `ImplementsSuperstep` | the inductive invariant with the own block updated in place, the end of the run and the refinement of `Superstep` with its fairness |
| `exchange_three` | M=3, N=2, `asyn` = 0, blocks of 1 piece | `Lockstep`, `BlocksComplete`, `BoundedStaleness`, `NoOverrun`, `RecvCountExact`, `OutBlockQuiet`, `BarrierExact` | the safety properties with two peers each, whose blocks overlap |
| `handshake` | M=3 | `TypeOK`, `PeersKnown`, `LoadedBeforeCompute`, `LeavesWithBlocks`, `OnlyKnownObstacles` | start-up in every order; what can keep it from ending is exactly what 6.2 and 6.8 list |
| `session` | 4 hosts, 3 workers, 2 iterations, top lists of 2 pieces | `TypeOK`, `InTurn`, `LoadedBeforeBegin`, `DismissedLast`, `ImplementsSuperstep`, `EndsUnlessSwallowed` | the control connection when reads join or split what was sent |
| `pool` | 3 threads, 4 jobs, 2 iterations | `FrontThere`, `EachOnce`, `CountExact`, `AllRun` | fewer threads than jobs, so that threads come back for more |
| `toplist` | intervals of 5 and 2 vertices, top 2, windows of 2, values 0..2 | `TypeOK`, `TopSoFar`, `FrontsThere`, `PrintedTop` | every assignment of values to vertices, ties included |
| `striped_io` | 2 disks with a thread each, 2 callers, 2 requests of 1 or 2 stripes | `TypeOK`, `PendingExact`, `FreedAtTheEnd`, `WaitedIsMoved`, `CallsReturn`, `AllServed` | every interleaving of two callers' requests, waits and the destructor with the I/O threads |
| `subgraph` | all 4096 graphs on 4 vertices in 2 intervals, 5832 graphs on 6 vertices in 3 | `TypeOK`, `FailsOnlyIfKnown`, `FailsOnlyAtZero`, `BlocksAgree`, `PointersRight` | from the sorted edges to the pointers of every worker; a graph is loaded if and only if it is not of the two kinds of 6.1 and 6.5 |
| `reshard_vertex_zero` | as `subgraph` | `TargetsOfTheFile` | violated, see 6.1 |
| `handshake_lengths` | M=2 | `LengthsAgree` | violated, see 6.2 |
| `session_surplus` | 2 hosts, 1 worker | `ScheduleRead` | violated, see 6.3 |
| `toplist_vertices` | as `toplist` | `PrintedVertices` | violated, see 6.4 |

The type invariant of `Exchange` is the first conjunct of `IInv`, and the one of
`ThreadPool` is proved (4.2); its counters are what `CountExact` and `EachOnce` are about.

### 3.1 The bounds

* Workers. With two workers every interaction of a pair occurs. With three, a
  worker has two peers: blocks of one peer arrive while those of the other are
  being received, the master's count has an intermediate value, and a job of one
  destination ends before or after another. The code treats all peers alike, and
  for `Exchange`, `Handshake` and `MasterSession` the proofs cover every M.
* Iterations. Counters and offsets are set again in every iteration, so that
  what one iteration leaves behind for the next shows with two; three gives a
  worker that is in the middle.
* Pieces. Blocks of one, two and three pieces have a first, a middle and a last
  one, and the two directions of a connection have different lengths.
  `NoOverrun` and the framing for every length are proved.
* `LoadedBeforeCompute` is guarded twice in the code, by the master's start barrier
  and, among workers, by the handshakes, which a peer sends only after it has
  loaded: no worker enters its loop without both.
* `handshake` needs no iterations beyond the first exchange: `recv_fd` and the
  initialisation of the counter are never touched later.
* `session`: with H > M one host is greeted and never scheduled. `SchedulePieces`
  is 1: with 2, `InTurn` fails (6.7).
* `striped_io`: a request of two stripes has its chunks on different threads, one
  of one stripe leaves a thread without work; with two requests at a time one can
  be freed, waited for or queued while the other is at any stage. The safety
  properties hold with three requests of two stripes as well (3.5 million states).
* `subgraph`: with `Esc` = 2 and `MaxRun` = 1, a row of two edges and two vertices
  without edges cross the boundaries that lie at 255 in the code. Two intervals
  have a first and a last one; with three there is one between, and a shard that
  is neither the one before nor the one after. The graphs with three intervals
  join, for each pair, the first vertices, the last ones or all, so that every
  block begins or ends with any vertex. Edges from a vertex to itself and repeated
  edges are not among them: `add_inedge` asserts that the first do not occur.
* `toplist`: 5 vertices are three windows, the last of them not full; 2 vertices
  are exactly one. Three values are enough for less, equal and greater.

Nothing else is bounded. The counters stay inside their bounds because of the
protocol: `RecvCountExact` and the invariants of `ExchangeInv` say why, and the
type invariants of the other modules state them. No state constraint and no
symmetry is used.

### 3.2 Fairness

`FairSpec` asks for weak fairness of every thread: a thread that can move
continuously moves. The threads are kernel threads of their own on hosts of
their own, and none waits for another except by spinning or by a blocking call,
which are modelled as guards. Delivery needs no fairness of its own: a piece in
`chan` is reported by level-triggered epoll until it is read, and the server
thread is fair. A thread of the pool waits for a semaphore and a mutex; which
waiter gets them is left open, and weak fairness of each thread is enough, since
every holder lets go. The
I/O threads poll, and a caller of `preada_now` or of a wait spins; nothing they
wait for needs more than that the threads run. `RunEnds`, `OnlyKnownObstacles`,
`EndsUnlessSwallowed`, `AllRun`, `CallsReturn` and `AllServed` depend on fairness;
no safety property does.

### 3.3 Deadlock

`Exchange` and `Subgraph` have an explicit final step (`Finished`, `Ended`), and
deadlock is checked. `Handshake`, `MasterSession`, `ThreadPool`, `StripedIO` and
`TopList` are processes that do stop: at the
end of the run, after a failed assertion, or in a start-up that cannot go on.
There `CHECK_DEADLOCK FALSE` is set, and the liveness properties say where they
may stop.

## 4. What is proved

### 4.1 The exchange

The proofs are in `ExchangeProofs`, from
`ExchangeAssumption` only: M and N are positive, block lengths are natural
numbers (zero included), `Asyn` is a Boolean. They hold for any number of
workers, iterations and pieces.

| Theorem | States |
|---|---|
| `TypeCorrect` | `Spec => []TypeOK`, with the bounds of the loops |
| `Inductive` | `Spec => []IInv` |
| `LockstepHolds` | nobody computes while another worker is in another iteration |
| `BlocksCompleteHolds` | who has waited for its blocks has them, every piece |
| `NoOverrunHolds` | a block never runs into the next, `recvfrom` stays in the in-block |
| `RecvCountExactHolds` | `recv_job_num` is exact in every state |
| `OutBlockQuietHolds` | no out-block is rewritten while it is sent |
| `BarrierExactHolds` | the master's barrier is about the iteration it closes |
| `BoundedStalenessHolds` | what a vertex function reads is of this iteration or the one before |
| `Refinement` | `Exchange` implements `Superstep`, safety part |

The argument. None of the properties is inductive alone. That a worker computes
only when its peers have left the previous iteration (`Lockstep`) follows from
the master's barrier if every acknowledgement stands for a finished iteration,
for which `recv_job_num` has to be exact. It is exact if each block ends where
the server sees it end, that is, if no byte of a following block is in the
connection by then (`NoOverrun`). And no block follows before the receiver has
counted the last one because the sender cannot compute the next iteration before
the receiver has left this one, which is `Lockstep` again. `IInv` states all of
it together:

* `LoopInv`, `BarrierInv`: where each worker is relative to the master's
  iteration: not told, told, at work, acknowledged or collected;
* `RecvInv`, `SendInv`: what the two counters count;
* `FlowInv`: of every connection, that either all pushed blocks are counted and
  the connection is empty, or the last one is partly unsent, in flight and read,
  and these add up;
* `DataInv`, `OwnInv`: the stamps in flight, in the in-blocks and out-blocks.

The module proves type correctness action by action and `LoopInv`, then that each action
keeps each part of `IInv`, with one lemma per action, and derives the properties and the
refinement.

### 4.2 The send pool

`ThreadPoolProofs`, from `PoolAssumption`: finitely many threads, at least one, none
of them the main thread; any number of jobs in an iteration (none included) and
of iterations.

| Theorem | States |
|---|---|
| `PoolInductive` | `Spec => []PInv` |
| `PoolTypeCorrect` | `send_job_num` never falls below 0, no job runs twice |
| `FrontThereHolds` | `front()` and `pop()` find a job |
| `EachOnceHolds` | a pushed job is in one place, once |
| `CountExactHolds` | `send_job_num` counts the jobs not run; the loop ends only when all have been |

`EachOnce` is not inductive: that a thread pops the job it has copied needs the
mutex (`HeldByOne`, `FrontCopied`), that there is one to copy needs the semaphore
to count the queue less the threads already admitted (`SemExact`, with the one job
that is queued and not posted yet). `Places` says where a job is with sets and
not with counts, so that each step moves one job from one place to the next;
`EachOnce` then follows from the cardinality of singletons. That the counter is
exact needs in turn that a job with a thread is of the current iteration, which is
`Places` and the first half of `Counter`, and that an iteration has J jobs
(`IterationSize`, by a bijection).

### 4.3 The master's session

`MasterSessionProofs`, from `SessionAssumption` and, as a hypothesis of every
theorem, `SchedulePieces = 1`: the schedule package arrives in one piece (6.7 shows
that this is needed). Any number of hosts, of workers among them, of iterations and
of pieces of a top list.

| Theorem | States |
|---|---|
| `SessionInductive` | `Spec => []SInv` |
| `SessionTypeCorrect` | no loop of the master or of a worker runs over |
| `InTurnHolds` | what is under way to a worker is the package it expects |
| `LoadedBeforeBeginHolds` | nobody begins before all have loaded |
| `DismissedLastHolds` | nobody is dismissed before something of all top lists has been read |
| `SessionRefinement` | `MasterSession` implements `Superstep` |

Neither side looks at what it reads, so the proof counts: `Sent(w)` and `Taken(w)`
are the packages sent to w and the reads from it, as functions of the part of
`main` the master is in; `Got(w)` and `Answers(w)` are what w has read and sent, as
functions of where its main thread is. `ToWorkerExact` says that `Sent` is `Got`
or one more, and which package that one is; `ToMasterBounded` says that the reads
and what is unread are at most `Answers`. A read at the master that takes too much
makes `Taken` fall behind and never run ahead, which is why the barrier stays sound
while the end may not be reached (`EndsUnlessSwallowed`). The lemma `Ahead` closes the
circle: a worker is sent the package of an iteration only after every worker's
answer to the one before has been taken. `Together` adds what the exchange of
blocks contributes to the refinement.

### 4.4 The start-up

`HandshakeProofs`, from `HandshakeAssumption`: any number of workers, of which there
is at least one.

| Theorem | States |
|---|---|
| `HandshakeInductive` | `Spec => []HInv` |
| `HandshakeTypeCorrect` | `recv_fd` stays a count of peers until it is closed, `recv_job_num` stays within one block of every peer |
| `PeersKnownHolds` | a block that arrives finds its peer in `in_infos` |
| `LoadedBeforeComputeHolds` | nobody computes before all have loaded |
| `LeavesWithBlocksHolds` | nobody leaves the first exchange without the blocks of all peers |

`recv_fd` is compared with a number, and `PeersKnown` is about a set: `Counted` says that
the number is the cardinality of the peers known. That it grows by one with every
handshake accepted needs that no peer is accepted twice, and that is a matter of what
is unread: `Link` says of every connection which of `<<>>`, hello, hello and block,
block it can hold, as far as its sender has got (`connected`, `pc`, `jobs`) and its
receiver has read (`known`, `got`). Whatever is dispatched after `recv_fd` is closed is
then a block, and one not yet counted. `JobCount` gives both sides of the
counter: before it is set it is the negative of the blocks counted, afterwards it is at least
M - 1 less those. At least and not exactly, because what came before is forgotten
(6.8), so a worker may wait for ever and cannot leave early.

### 4.5 The asynchronous I/O

`StripedIOProofs`, from `StripedIOAssumption`: any number of disks, of threads per disk, of
callers (finitely many), of requests, and of chunks of a request, none included.

| Theorem | States |
|---|---|
| `IOInductive` | `Spec => []IOInv` |
| `IOTypeOK` | the types of all variables |
| `CountersExact` | `pending_reads` and `pending_writes` count the chunks of a thread |
| `FreedByTheLast` | a buffer is freed once, and not before every thread and caller that uses it is through |
| `WaitsAreTrue` | what a wait has waited for is transferred |

The counters of a thread say how many chunks it has and not of which requests, and
the reference count of a request says how many of its chunks are not released and not where
they are. `IOInv` counts, for each request, the chunks at each thread (in a queue or in
hand) and those its caller has not queued yet, and sums over threads and callers:

* `MovedExact`: what has been transferred and what is still to be is the size;
* `CountExact`: the reference count is the chunks not released, and one more for
  the caller of `preada_now`, who gives back a reference of its own;
* `DoneExact`: `*doneptr` is the chunks a thread is not through with;
* `FreedExact`: freed exactly if the count is 0.

A thread releases a chunk after it has transferred it, so a request with count 0 has
nothing to transfer. `Kinded` says that what is in hand is a chunk of the kind
the thread's position implies, without which the thread would lower the other
counter. `Waiting` is the loop invariant of a wait: of what it waits for, nothing is
left at the threads it has been through, and no caller will queue more of it. It
needs `CountersExact` to conclude from a counter of 0, and holds although other
callers go on queueing, because a wait is for what was completely queued when it began. The sums are cardinalities of sets of pairs (`Units`), so that they need no recursion,
and a step changes one summand (`SumChange`).

### 4.6 The top list

`TopListProofs`, from `TopListAssumption`: any number of workers, intervals of any
lengths, any length of the list, windows no shorter than the list, any integers as
values and as left-over values.

| Theorem | States |
|---|---|
| `TopInductive` | `Spec => []TopInv` |
| `TopListTypeOK` | the lengths of windows, lists and queues, and what an entry can be |
| `FrontsThereHolds` | the master never calls `front()` on an empty queue |
| `TopSoFarHolds` | after every window a list has the greatest values of what is scanned |
| `PrintedTopHolds` | what is printed are the greatest values of all workers, in order |

The last one has the hypothesis `Ordinary`: no value is below 0, and every interval has at
least as many vertices as the list entries. Section 6.10 shows that the code needs
both; the other theorems do without.

`IsTop` counts: as many entries reach any x as vertices do. Counts say nothing about
which vertex an entry stands for, so the invariant is about lists instead. `Lists(s, U)`
says that s is a list of the members of U, descending, each of them once, and `TopOf(s, A)`
that no other member of A is above any of s. `TopCounts` derives the counts from
that, with an injection from the entries to the vertices.

* `MergeLists`: the merge of two lists of disjoint sets is a list of their union.
  `Merge` is defined by recursion, so that first such a function has to exist
  (`MergeExists`); what it gives is proved for the pair of positions with the fewest
  entries left for which it could be wrong (`LeastNumber`). With n = 0 `merge` still looks at
  the first entry of the buffer, and the lemma needs that it is not above the first of the
  list. It never is: an entry in the buffer has been scanned, so the list is at
  least as high as it (`ListInv`, `TopOf`).
* `MergeTop`: what a window leaves out is not above the last entry of the list so far, and
  the last entry of the new list is not below that one, since the old list alone has
  enough entries as high (`EntryReaches`). If more entries are found than fit, the
  same holds with the last one that is merged.
* `QueueInv`: a queue holds what is not yet printed of the list. At most `Len(out)` entries
  of `NTop` have been taken from any, so that none is empty while the loop goes on.
* `PrintInv`: nothing left is above anything printed, nor is the last entry of any list,
  which stands for the vertices that are on no list. `ChosenIsTop` shows that a turn
  takes the greatest front; it is here that a value below 0 would be passed over.

### 4.7 The files of the subgraphs

`SubgraphProofs`, from `ReshardAssumption`: any graph without repeated edges, any intervals
that are not empty, follow one another from vertex 0 and hold both ends of every edge, and
any `Esc` and `MaxRun`.

| Theorem | States |
|---|---|
| `ReshardInductive` | `Spec => []ReshardInv` |
| `FailsOnlyAtZeroHolds` | the assertion on the targets of a row fails for the graphs of 6.1 only |
| `BlocksAgreeHolds` | the two copies of a block, from two passes, are the same edges in the same order, and none is lost |
| `FilesInductive` | `Spec => []FilesInv`: the adjacencies are the rows of the edges |

* `BlocksInv`: a block is the ascending list of those of its edges that have been seen
  (`SeenBy`). A pass goes through its shovel in ascending order, so that what it appends is
  greater than all before (`OneMoreSeen`, `AscendingAppend`); at the stopper it has
  seen its whole shovel, which holds every edge of its blocks (`StopperBlocks`). That an
  ascending list of a set is the only one (`AscendingSorted`) makes the copy of
  the pass over the sources equal to that of the pass over the targets. The rank of an
  edge is the number of smaller ones, and `SortedAscending` shows that the ranks
  are all the places, so that `Sorted` is such a list: there is no recursion in it.
* `RowInv`: why the assertion holds. The pending edges are all into the interval of
  `current_memory_shard` (`PendingIn`), and as long as the edges come from before the
  pass's own interval, that is the pass's own shard. The exception is the
  beginning, where `current_memory_shard` and `curvid` are 0 and mean nothing: there all
  edges so far come from vertex 0 (`OnlyZeros`). A second source mends it, since its
  row begins with `current_memory_shard` set (`NextSourceLoop`). If an own edge comes
  first, `ZeroFirst` holds, and with the order of the edges that is `OnlyZeroBefore`
  (`TurnFails`).
* The loading only reads the files: the last case of `ReshardStep`.

`FilesInv` is about what `ReshardInv` leaves open, the fields of the adjacency files.
A reader needs to find the rows without being told where they begin, so the invariant
says of a file that there is a set R of places (`Rows`): the beginning and the end are in
it, each with the vertex that is next and the number of edges before; and from every
place of R, the field there leads to another one, as a run of zeros (`Skips`) or as a row
whose targets are the next edges of the list (`Lists`). No induction over the fields is needed
with it: appending a row or runs of zeros adds the places that begin in them (`AppendRow`,
`AppendZeros`), and the reader goes from place to place. How many edges a file has is a
matter of counting those of an ascending list that are in a set (`PrefixCount`).

* `WriteInv`, for a pass of a subgraph that can be loaded: the rows of each file are the
  edges up to `istart` (`FilesRight`), the ones from there are one more row, all of one
  source and into one interval (`RowPending`), and no cursor is beyond the edges
  to come (`Cursor`), so that a run of zeros never has to go back. `Control` is what
  `willout`, `index` and the program counter say of the edge at hand.
* `CurInv` gives the source of the edge before; `DoomInv` follows a pass in which
  `OnlyZeroBefore` holds to its failed assertion, unless the subgraph has no edge between
  own vertices and then cannot be loaded.
* `FilesAre`: when the pass is over, every file is whole and ends before the
  vertex after the last of the interval.

### 4.8 The loading

`LoadingProofs`, from the same assumption. It uses `ReshardInv` for the blocks and
`FilesInv` for the adjacencies: both hold when the loading begins (`AllWritten`, `ToRead`).

| Theorem | States |
|---|---|
| `LoadInductive` | `Spec => []LoadInv` |
| `TypeOKHolds` | the variables of both modules keep their types |
| `FailsOnlyIfKnownHolds` | an assertion of either fails only for the graphs of 6.1 and 6.5, and these are never loaded |
| `PointersRightHolds` | a worker ends its loading with exactly its edges, each pointing to its own value |

* `LoadRows`: the loader is at a place of R (`AtRow`) or has some edges of the row at
  one to go (`InRow`). `RowSkips`, `RowLists` and `RowEdge` say what it reads there. The
  sliding part has two conditions to end, and `PartIsRead` shows that they come true
  together.
* `MainAt`: the main part walks through all in-blocks at once, and only counts edges.
  The edges into an interval, ascending, are the in-blocks one after the other
  (`OwnersAscend`, `NextBlock`), so that the block changes where `brange` says and the place in it
  is the rank of the edge (`PlaceOfEdge`). The place in `main_to_main_buf` is the
  number of own edges so far, which is the rank in the own block (`CountOwn`).
* `LoadEdges`: the pointers so far are those of the edges that have been read and of the
  parts before (`PointersOf`). All parts together give every edge at either end
  (`PointersNext`, `PointersAll`).
* `LoadControl`: a worker that reads rows could open all its blocks, and that no pass
  failed its assertion rules out `OnlyZeroBefore` (`FilesAre`).
* `ValuesRight`: a pointer finds the value of its edge in the block, since both copies of
  the block are the sorted list of its edges (`WrittenBlocks`) and the place is the rank.

### 4.9 Only model-checked

All liveness (`RunEnds`, `OnlyKnownObstacles`, `EndsUnlessSwallowed`, `AllRun`,
`CallsReturn`, `AllServed` and the fairness part of `ImplementsSuperstep` of `Exchange`;
the proof system does not do fairness). Every other property of a passing run is a
theorem. The properties that are violated are counterexamples of TLC's: `TargetsOfTheFile`
(6.1), `LengthsAgree` (6.2), `ScheduleRead` (6.3) and `PrintedVertices` (6.4). Of the
inductive invariants, `FilesInv` and `LoadInv` are proved but not model-checked: that there is
a set R of places is not something TLC can enumerate.

## 5. Assumptions and abstractions

* TCP delivers bytes in order and exactly once, on both stacks. What is sent
  arrives in any split.
* Writes of a few bytes of control packages are not split. Schedule packages and
  top lists can be.
* `m_send_to_worker` returns, although it is declared `int` and has no return
  statement.
* Vertex functions write all of the blocks they may write. That is the strongest
  case for staleness: a value that is not written keeps an older stamp for
  reasons that are the program's own.
* Workers do not die except by the assertions that are modelled. The code has no
  recovery: a dead worker leaves the others spinning.
* The decrements of the shared counters are atomic (`__sync_fetch_and_sub` in the
  code), spinning reads are reads of
  the current value.
* An I/O thread transfers a chunk in one step; `pread` and `pwrite` of the code
  repeat until all is done, and fail an assertion otherwise.
* The parts of a worker's loading (`load_before_updates`) run in parallel and are
  modelled one after the other. They write to different blocks; what they share
  are the edge counts of a vertex, which only one of them (in) or atomic
  increments (out) change.
* `Reshard` starts from a shovel that is complete and sorted. Which machine runs
  which pass makes no difference to it, as a pass reads nothing that another one
  writes.
* The copy of the own block to `main_to_main_buf` while its asynchronous read is
  under way (`memoryshard.hpp:358`) is not modelled: `Subgraph` has the places of
  values in the shadow, not the values.
* `TopList` takes the file that is scanned for the one that was written.

## 6. Where code and documentation disagree

Each of the first four has a run that ends in a counterexample; `PROJECT.json`,
`findings`, quotes the lines.

1. `TargetsOfTheFile`. `reshard` begins with `current_memory_shard` and `curvid`
   0, so that it takes a first source 0 from another interval for one whose row
   has begun. If the edges into an interval come, as far as intervals before it
   are concerned, from vertex 0 only, the row is written to the file towards
   interval 0 and the assertion on its targets (sharder.hpp:3168) fails. Whenever
   a second source precedes the interval, the row is written as it should be:
   `FailsOnlyAtZero`, which is proved, says that no other graph fails the assertion.
2. `LengthsAgree`. A worker connects as soon as it has loaded. A peer that has
   not loaded the corresponding block yet compares the announced length with -1
   and fails an assertion.
3. `ScheduleRead`. With more hosts than intervals, the surplus workers end with
   a failed assertion when the master closes their connection.
4. `PrintedVertices`. The numbers of vertices in a top list count from the
   beginning of the interval, and the master prints them as they are.

These the models show as well, without a run of their own:

5. A block without edges cannot be loaded: `preada_async` asserts that it is one
   stripe (`FailsOnlyIfKnown`). It could not be exchanged either: `recv_job_num` is
   decremented by an event that completes a block, and a block of length 0 never
   causes one; with such a block in `OLen`, `RunEnds` of `Exchange` fails.
6. `asyn = 0` is documented as "synchronization" (`ceMaster.cpp:69`), but only the
   block inside the interval has a shadow. The blocks of peers are received
   straight into the in-blocks, while slower vertex functions still read them.
   What does hold is `BoundedStaleness`, which is proved: of this iteration or of
   the one before.
7. With `SchedulePieces = 2`, `InTurn` is violated: a worker takes the rest of
   its schedule package for the `tbegin` of an iteration.
8. In `Handshake`, a block that is counted after `recv_fd` was closed and before
   `recv_job_num` is set before the loop is forgotten, and the worker waits for
   ever (`Forgotten`); and a block that arrives before `recv_fd` is closed is
   taken for a handshake ("misread"). A connection to a worker that does not
   listen yet fails an assertion ("connect").
9. In `MasterSession`, two acknowledgements that one read takes together count
   once, and the start barrier is never passed; the read of the last one may take
   the top list with it (`swallowed`). A top list that arrives in two parts is
   merged from the first.
10. In `TopList`, with values that are not positive (`Values = {-1, 0}`) the merge
   prints them in the wrong order, and with an interval smaller than the option
   `top` it prints entries that were never written.

## 7. What is left

The exchange with its proofs, the start-up, the control session, the send pool, the
asynchronous I/O, the files of the subgraphs and their loading, and the top list
are modelled. What could be added, in the order of importance:

1. `Delivery`: how the preprocessing machines send each other the edges of their
   shovels (`sharder.hpp`, `buffsend_run`, `set_duties`, `write_shovel_data`,
   `finish_receive`): packages of which some are waited for and some are not, a
   failed send that counts as done.
2. The values of `main_to_main_buf` in a composition of `Subgraph` and
   `StripedIO`, for the race at `memoryshard.hpp:358`.

Not modelled, and why: section 1.4 has the parts that take no part in the
distributed run, and `PROJECT.json`, `components`, has for each part what its
model leaves out. What the vertex functions compute belongs to the user's program.

## 8. How to run

    tlc -workers 2 -config handshake.cfg Handshake
    tlc -workers 2 -config exchange_pair.cfg MCExchange
    tlc -workers 2 -config subgraph.cfg MCSubgraph
    tlapm ExchangeProofs.tla
    tlapm ThreadPoolProofs.tla
    tlapm MasterSessionProofs.tla
    tlapm HandshakeProofs.tla
    tlapm StripedIOProofs.tla
    tlapm SubgraphProofs.tla
    tlapm LoadingProofs.tla
    tlapm TopListProofs.tla

`PROJECT.json`, `runs`, names the module of every configuration, `map` the source
lines of every definition, and `mutants`, for every property, a change of the
code's model that breaks it.
