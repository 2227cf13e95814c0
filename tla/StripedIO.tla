------------------------------ MODULE StripedIO ------------------------------
(***************************************************************************)
(* The I/O manager (io/stripedio.hpp): a request on a file is cut into      *)
(* stripes, one chunk each, and every chunk is queued with one of the I/O   *)
(* threads.  The threads of the loader (an OpenMP loop) and the main thread *)
(* call it at the same time.                                                *)
(*                                                                          *)
(* A chunk carries its request only; a file and its data are abstracted to  *)
(* how many chunks of the request have been transferred.  A request whose   *)
(* last chunk closes its session does so where its buffer is freed.         *)
(***************************************************************************)
EXTENDS Integers, Sequences, FiniteSets

CONSTANTS multiplex, niothreads,  (* the options of these names              *)
          Caller,                 (* the threads that call the manager       *)
          Uses,                   (* Uses[c]: the calls that c makes         *)
          Sizes,                  (* how many stripes a request may touch    *)
          MaxReq                  (* bound: requests of one behaviour        *)

\* "writefree" is a write with free_after.
Kinds == {"read", "now", "write", "writefree"}
Reads == {"read", "now"}
NoKind == "none"
Waits == {"wait_for_reads", "wait_for_writes"}

ASSUME StripedIOAssumption ==
  /\ Uses \in [Caller -> SUBSET (Kinds \cup Waits)]
  /\ multiplex \in Nat \ {0} /\ niothreads \in Nat \ {0}
  /\ Sizes \subseteq Nat /\ MaxReq \in Nat /\ IsFiniteSet(Caller)

K == multiplex * niothreads
Thread == 0 .. K - 1
Req == 1 .. MaxReq
NoReq == 0

\* stripe_offsets: consecutive stripes lie on consecutive disks, and each goes to
\* any of the threads of its disk.
Stripes ==
  UNION {{s \in [1 .. n -> Thread] : \E start \in 0 .. multiplex - 1 :
             \A x \in 1 .. n : s[x] \div niothreads = (start + x) % multiplex}
         : n \in Sizes}

VARIABLES
  pending_reads, pending_writes,       (* of every I/O thread                *)
  prioqueue, readqueue, commitqueue,   (* its queues, of chunks              *)
  running,                             (* FALSE once the destructor has begun *)
  tpc, task,   (* where I/O thread k is in io_thread_loop, and its chunk     *)
  cpc, mine,   (* where caller c is, and the request it makes                *)
  left,        (* its chunks still to be queued                              *)
  at, due,     (* a wait: the thread it looks at, and (history) the requests *)
               (* that were wholly queued when it began                      *)
  kind, size,  (* of every request: what it is, its number of chunks         *)
  count,       (* its refcountptr's count                                    *)
  freed,       (* how often its refcountptr (and with it the buffer) was freed *)
  done,        (* its *doneptr, 1 until the chunk is read                    *)
  moved,       (* history: chunks transferred                                *)
  waited       (* history: requests whose end a caller has waited for        *)

counters == <<pending_reads, pending_writes>>
queues   == <<prioqueue, readqueue, commitqueue>>
tvars    == <<tpc, task>>
cvars    == <<cpc, mine, left, at, due, waited>>
rvars    == <<kind, size, count, freed, done, moved>>
vars     == <<counters, queues, running, tvars, cvars, rvars>>

Init ==
  /\ pending_reads = [k \in Thread |-> 0] /\ pending_writes = [k \in Thread |-> 0]
  /\ prioqueue = [k \in Thread |-> <<>>]
  /\ readqueue = [k \in Thread |-> <<>>]
  /\ commitqueue = [k \in Thread |-> <<>>]
  /\ running = TRUE
  /\ tpc = [k \in Thread |-> "loop"] /\ task = [k \in Thread |-> NoReq]
  /\ cpc = [c \in Caller |-> "idle"] /\ mine = [c \in Caller |-> NoReq]
  /\ left = [c \in Caller |-> <<>>]
  /\ at = [c \in Caller |-> 0] /\ due = [c \in Caller |-> {}]
  /\ kind = [r \in Req |-> NoKind] /\ size = [r \in Req |-> 0]
  /\ count = [r \in Req |-> 0] /\ freed = [r \in Req |-> 0]
  /\ done = [r \in Req |-> 1] /\ moved = [r \in Req |-> 0]
  /\ waited = {}

-----------------------------------------------------------------------------
(* The callers *)

\* A request has a reference for every chunk, and one that preada_now keeps to spin on.
CountOfChunks(knd, n) == n
CountWithOwn(knd, n) == IF knd = "now" THEN n + 1 ELSE n

\* Where a call goes on when its chunks are queued.
AfterQueueing(knd) == IF knd = "now" THEN "spin" ELSE "idle"

\* preada_async, pwritea_async and preada_now up to the loop over the chunks.
\* preada_now has threads read only when there are several disks.
Issue(c, r, knd, s) ==
  /\ running /\ cpc[c] = "idle" /\ knd \in Uses[c]
  /\ kind[r] = NoKind /\ \A q \in Req : q < r => kind[q] # NoKind
  /\ knd = "now" => multiplex > 1
  /\ kind' = [kind EXCEPT ![r] = knd]
  /\ size' = [size EXCEPT ![r] = Len(s)]
  /\ count' = [count EXCEPT ![r] = CountWithOwn(knd, Len(s))]
  /\ mine' = [mine EXCEPT ![c] = r]
  /\ left' = [left EXCEPT ![c] = s]
  /\ cpc' = [cpc EXCEPT ![c] = IF s = <<>> THEN AfterQueueing(knd) ELSE "raise"]
  /\ UNCHANGED <<counters, queues, running, tvars, at, due, waited, freed, done, moved>>

\* The counter of the chunk's thread is raised before the chunk is pushed.
FirstThread(c) == 0
ThreadOf(c) == Head(left[c])

Raise(c) ==
  /\ cpc[c] = "raise"
  /\ LET k == ThreadOf(c) IN
       IF kind[mine[c]] \in Reads
       THEN pending_reads' = [pending_reads EXCEPT ![k] = @ + 1] /\ UNCHANGED pending_writes
       ELSE pending_writes' = [pending_writes EXCEPT ![k] = @ + 1] /\ UNCHANGED pending_reads
  /\ cpc' = [cpc EXCEPT ![c] = "push"]
  /\ UNCHANGED <<queues, running, tvars, mine, left, at, due, waited, rvars>>

PushOn(knd, queue, k, r) ==
  IF kind[r] \in knd THEN queue' = [queue EXCEPT ![k] = Append(@, r)] ELSE UNCHANGED queue

Push(c) ==
  /\ cpc[c] = "push"
  /\ LET k == Head(left[c])  r == mine[c] IN
       /\ PushOn({"now"}, prioqueue, k, r)
       /\ PushOn({"read"}, readqueue, k, r)
       /\ PushOn({"write", "writefree"}, commitqueue, k, r)
       /\ cpc' = [cpc EXCEPT ![c] = IF Len(left[c]) > 1 THEN "raise" ELSE AfterQueueing(kind[r])]
  /\ left' = [left EXCEPT ![c] = Tail(@)]
  /\ UNCHANGED <<counters, running, tvars, mine, at, due, waited, rvars>>

\* preada_now: while(refptr->count>1) falls through; the caller deletes the count.
SpinNow(c) ==
  /\ cpc[c] = "spin" /\ count[mine[c]] <= 1
  /\ freed' = [freed EXCEPT ![mine[c]] = @ + 1]
  /\ count' = [count EXCEPT ![mine[c]] = 0]
  /\ waited' = waited \cup {mine[c]}
  /\ cpc' = [cpc EXCEPT ![c] = "idle"]
  /\ UNCHANGED <<counters, queues, running, tvars, mine, left, at, due, kind, size, done, moved>>

BeingQueued == {mine[c] : c \in {b \in Caller : left[b] # <<>>}}
Queued(knds) == {r \in Req : kind[r] \in knds} \ BeingQueued

WaitFor(c, pc, knds) ==
  /\ running /\ cpc[c] = "idle"
  /\ cpc' = [cpc EXCEPT ![c] = pc]
  /\ at' = [at EXCEPT ![c] = 0]
  /\ due' = [due EXCEPT ![c] = Queued(knds)]
  /\ UNCHANGED <<counters, queues, running, tvars, mine, left, waited, rvars>>

wait_for_reads(c) == "wait_for_reads" \in Uses[c] /\ WaitFor(c, "reads", Reads)
wait_for_writes(c) == "wait_for_writes" \in Uses[c] /\ WaitFor(c, "writes", Kinds \ Reads)

NothingQueued(k, pending) == prioqueue[k] = <<>> /\ readqueue[k] = <<>>
NothingPending(k, pending) == pending[k] = 0

\* One thread after the other, each until its counter is seen at 0.
WaitStep(c, pc, pending) ==
  /\ cpc[c] = pc /\ NothingPending(at[c], pending)
  /\ IF at[c] + 1 < K
     THEN at' = [at EXCEPT ![c] = @ + 1] /\ UNCHANGED <<cpc, due, waited>>
     ELSE /\ at' = [at EXCEPT ![c] = 0]
          /\ cpc' = [cpc EXCEPT ![c] = "idle"]
          /\ waited' = waited \cup due[c]
          /\ due' = [due EXCEPT ![c] = {}]
  /\ UNCHANGED <<counters, queues, running, tvars, mine, left, rvars>>

WaitReadsStep(c) == WaitStep(c, "reads", pending_reads)
WaitWritesStep(c) == WaitStep(c, "writes", pending_writes)

\* The destructor, called by the owner when no other call is in progress: it tells
\* the threads to stop and joins them, whatever is still queued.
Destroy ==
  /\ running /\ \A c \in Caller : cpc[c] = "idle"
  /\ running' = FALSE
  /\ UNCHANGED <<counters, queues, tvars, cvars, rvars>>

-----------------------------------------------------------------------------
(* I/O thread k: io_thread_loop *)

Goto(k, pc) == tpc' = [tpc EXCEPT ![k] = pc]

\* while(info->running) { if (info->pending_reads>0)
Look(k) ==
  /\ tpc[k] = "loop"
  /\ Goto(k, IF ~running THEN "exit" ELSE IF pending_reads[k] > 0 THEN "prio" ELSE "commit")
  /\ UNCHANGED <<counters, queues, running, task, cvars, rvars>>

\* Only a read of one chunk is given a doneptr (the blocks of memoryshard.hpp).
HasDone(r) == kind[r] = "read" /\ size[r] = 1

\* What a thread does with a chunk: a read leaves the thread's counter before it
\* releases its request, a write after.
AfterTransfer(r) == IF kind[r] = "writefree" THEN "release" ELSE "uncount"
AfterUncount(r) == IF kind[r] \in Reads THEN "release" ELSE "loop"
AfterRelease(r) ==
  IF kind[r] = "writefree" THEN "uncount" ELSE IF HasDone(r) THEN "done" ELSE "loop"

\* safepop: the front, or nothing to do there.
Pop(k, pc, queue, otherwise) ==
  /\ tpc[k] = pc
  /\ IF queue[k] = <<>>
     THEN Goto(k, otherwise) /\ UNCHANGED <<queue, task>>
     ELSE /\ task' = [task EXCEPT ![k] = Head(queue[k])]
          /\ queue' = [queue EXCEPT ![k] = Tail(@)]
          /\ Goto(k, "transfer")
  /\ UNCHANGED <<counters, running, cvars, rvars>>

PopPrio(k) == Pop(k, "prio", prioqueue, "read") /\ UNCHANGED <<readqueue, commitqueue>>
PopRead(k) == Pop(k, "read", readqueue, "loop") /\ UNCHANGED <<prioqueue, commitqueue>>
PopCommit(k) == Pop(k, "commit", commitqueue, "loop") /\ UNCHANGED <<prioqueue, readqueue>>

\* Go on with the chunk in hand, or look for the next one.
GoOn(k, pc) ==
  /\ Goto(k, pc)
  /\ task' = [task EXCEPT ![k] = IF pc = "loop" THEN NoReq ELSE @]

\* preada, or pwritea: one chunk.
Transfer(k) ==
  /\ tpc[k] = "transfer"
  /\ moved' = [moved EXCEPT ![task[k]] = @ + 1]
  /\ GoOn(k, AfterTransfer(task[k]))
  /\ UNCHANGED <<counters, queues, running, cvars, kind, size, count, freed, done>>

OncePerRequest(r) == IF count[r] = 1 THEN 1 ELSE 0
OncePerChunk(r) == 1

Uncount(k) ==
  /\ tpc[k] = "uncount"
  /\ IF kind[task[k]] \in Reads
     THEN pending_reads' = [pending_reads EXCEPT ![k] = @ - OncePerChunk(task[k])] /\ UNCHANGED pending_writes
     ELSE pending_writes' = [pending_writes EXCEPT ![k] = @ - OncePerChunk(task[k])] /\ UNCHANGED pending_reads
  /\ GoOn(k, AfterUncount(task[k]))
  /\ UNCHANGED <<queues, running, cvars, rvars>>

\* The last reference frees the count, and after a write its buffer.
Any(r) == TRUE
Last(r) == count[r] = 1

Release(k) ==
  /\ tpc[k] = "release"
  /\ LET r == task[k] IN
       /\ count' = [count EXCEPT ![r] = @ - 1]
       /\ freed' = [freed EXCEPT ![r] = IF Last(r) THEN @ + 1 ELSE @]
  /\ GoOn(k, AfterRelease(task[k]))
  /\ UNCHANGED <<counters, queues, running, cvars, kind, size, done, moved>>

Done(k) ==
  /\ tpc[k] = "done"
  /\ done' = [done EXCEPT ![task[k]] = @ - 1]
  /\ GoOn(k, "loop")
  /\ UNCHANGED <<counters, queues, running, cvars, kind, size, count, freed, moved>>

-----------------------------------------------------------------------------

io_thread_loop(k) ==
  \/ Look(k) \/ PopPrio(k) \/ PopRead(k) \/ PopCommit(k)
  \/ Transfer(k) \/ Uncount(k) \/ Release(k) \/ Done(k)

\* The steps of a call that has begun.
Call(c) == Raise(c) \/ Push(c) \/ SpinNow(c) \/ WaitReadsStep(c) \/ WaitWritesStep(c)

Next ==
  \/ \E c \in Caller, r \in Req, knd \in Kinds, s \in Stripes : Issue(c, r, knd, s)
  \/ \E c \in Caller : wait_for_reads(c) \/ wait_for_writes(c) \/ Call(c)
  \/ Destroy
  \/ \E k \in Thread : io_thread_loop(k)

Spec == Init /\ [][Next]_vars

\* The operating system runs every thread; a call once begun goes on.  Nothing
\* says that a caller calls, waits or destroys.
FairSpec ==
  /\ Spec
  /\ \A c \in Caller : WF_vars(Call(c))
  /\ \A k \in Thread : WF_vars(io_thread_loop(k))

-----------------------------------------------------------------------------
(* Properties *)

\* Types; the counters of a thread and of a request are never negative.
TypeOK ==
  /\ pending_reads \in [Thread -> Nat] /\ pending_writes \in [Thread -> Nat]
  /\ prioqueue \in [Thread -> Seq(Req)]
  /\ readqueue \in [Thread -> Seq(Req)]
  /\ commitqueue \in [Thread -> Seq(Req)]
  /\ running \in BOOLEAN
  /\ tpc \in [Thread -> {"loop", "prio", "read", "commit", "transfer", "uncount",
                         "release", "done", "exit"}]
  /\ task \in [Thread -> Req \cup {NoReq}]
  /\ cpc \in [Caller -> {"idle", "raise", "push", "spin", "reads", "writes"}]
  /\ mine \in [Caller -> Req \cup {NoReq}]
  /\ left \in [Caller -> Seq(Thread)]
  /\ at \in [Caller -> Thread] /\ due \in [Caller -> SUBSET Req] /\ waited \subseteq Req
  /\ kind \in [Req -> Kinds \cup {NoKind}] /\ size \in [Req -> Nat]
  /\ count \in [Req -> Nat] /\ freed \in [Req -> {0, 1}]
  /\ done \in [Req -> {0, 1}] /\ moved \in [Req -> Nat]

\* The counters the waits and the threads go by are exact: a thread's counter is the
\* number of its chunks announced, queued, or in hand and not yet uncounted.
Announced(k, knds) ==
  {c \in Caller : cpc[c] = "push" /\ Head(left[c]) = k /\ kind[mine[c]] \in knds}

InHand(k, knds) ==
  IF task[k] # NoReq /\ kind[task[k]] \in knds
     /\ \/ tpc[k] \in {"transfer", "uncount"}
        \/ tpc[k] = "release" /\ kind[task[k]] \notin Reads
  THEN 1 ELSE 0

PendingExact ==
  \A k \in Thread :
    /\ pending_reads[k] = Len(prioqueue[k]) + Len(readqueue[k])
                            + InHand(k, Reads) + Cardinality(Announced(k, Reads))
    /\ pending_writes[k] = Len(commitqueue[k])
                            + InHand(k, Kinds \ Reads) + Cardinality(Announced(k, Kinds \ Reads))

\* Whoever will still touch request r's count or its buffer: a chunk queued or to be
\* queued, a thread that has one in hand and has not released it, a caller that spins.
Touched(r) ==
  \/ \E k \in Thread :
       \/ \E queue \in {prioqueue[k], readqueue[k], commitqueue[k]} :
            \E x \in 1 .. Len(queue) : queue[x] = r
       \/ task[k] = r /\ \/ tpc[k] \in {"transfer", "release"}
                         \/ tpc[k] = "uncount" /\ kind[r] \in Reads
  \/ \E c \in Caller : mine[c] = r /\ (left[c] # <<>> \/ cpc[c] = "spin")

\* The count of a request, shared by threads and a spinning caller, is freed when the
\* last of them is through with it and not before; so is the buffer of a write with
\* free_after.  (A write without free_after never frees its count, and a request of no
\* chunk has nobody to free it.)
FreedAtTheEnd ==
  \A r \in Req :
    kind[r] \in {"read", "now", "writefree"} /\ (size[r] > 0 \/ kind[r] = "now")
      => freed[r] = IF Touched(r) THEN 0 ELSE 1

\* What a caller relies on after wait_for_reads, wait_for_writes or preada_now, or when
\* it sees *doneptr at 0: all chunks have been transferred, though the waits look at one
\* thread after the other while other callers go on queueing.  So the destructor,
\* which drops what is queued, drops nothing that was waited for.
WaitedIsMoved ==
  /\ \A r \in waited : moved[r] = size[r]
  /\ \A r \in Req : done[r] = 0 => moved[r] = size[r]

\* A call returns, whatever the others queue meanwhile.
CallsReturn == \A c \in Caller : cpc[c] # "idle" ~> cpc[c] = "idle"

\* Every request is carried out unless the manager is destroyed, the writes too, which
\* a thread looks at only when no read is pending.
AllServed == \A r \in Req : kind[r] # NoKind ~> moved[r] = size[r] \/ ~running

=============================================================================
