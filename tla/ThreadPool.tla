----------------------------- MODULE ThreadPool -----------------------------
(***************************************************************************)
(* The pool of threads that sends the blocks (comm/threadpool.hpp): a queue *)
(* of jobs under a mutex and a semaphore that counts them.  Its user is the *)
(* main loop of the worker, which pushes the jobs of an iteration, spins    *)
(* until send_job_num is 0, and sets it for the next iteration.             *)
(*                                                                          *)
(* A job here is a pair of its iteration and its destination.  Running one  *)
(* is writing a block and decrementing send_job_num; module Exchange takes  *)
(* its pool to have a thread for every job of an iteration.                 *)
(***************************************************************************)
EXTENDS Integers, Sequences, FiniteSets

CONSTANTS Thread,  (* the threads of the pool *)
          J,       (* jobs of an iteration    *)
          N        (* iterations              *)

ASSUME PoolAssumption ==
  /\ IsFiniteSet(Thread) /\ Thread # {} /\ {"main", "free"} \cap Thread = {}
  /\ J \in Nat /\ N \in Nat \ {0}

VARIABLES
  m_queWork,
  m_sem,
  m_mutex,       (* who holds the mutex                                        *)
  tpc,           (* tpc[t]: where thread t is in ManageFuction                 *)
  nWork,         (* nWork[t]: the job t has popped                             *)
  ppc,           (* where the main thread is                                   *)
  next,          (* next job of the iteration it pushes                        *)
  i,             (* its iteration                                              *)
  send_job_num,
  ran            (* history: ran[j], how often job j has been run              *)

vars == <<m_queWork, m_sem, m_mutex, tpc, nWork, ppc, next, i, send_job_num, ran>>

Main == "main"
Free == "free"
Job == (0 .. N - 1) \X (1 .. J)
NoJob == <<-1, -1>>

\* The value the semaphore is created with.
OneAtFirst == 1
NoneAtFirst == 0

Init ==
  /\ m_queWork = <<>> /\ m_sem = NoneAtFirst /\ m_mutex = Free
  /\ tpc = [t \in Thread |-> "sem"] /\ nWork = [t \in Thread |-> NoJob]
  /\ ppc = "push" /\ next = 1 /\ i = 0
  /\ send_job_num = J
  /\ ran = [j \in Job |-> 0]

-----------------------------------------------------------------------------
(* A thread of the pool *)

WaitSem(t) ==
  /\ tpc[t] = "sem" /\ m_sem > 0
  /\ m_sem' = m_sem - 1
  /\ tpc' = [tpc EXCEPT ![t] = "lock"]
  /\ UNCHANGED <<m_queWork, m_mutex, nWork, ppc, next, i, send_job_num, ran>>

NoMutex(t) == UNCHANGED m_mutex
LockMutex(t) == m_mutex = Free /\ m_mutex' = t

Lock(t) ==
  /\ tpc[t] = "lock" /\ LockMutex(t)
  /\ tpc' = [tpc EXCEPT ![t] = "front"]
  /\ UNCHANGED <<m_queWork, m_sem, nWork, ppc, next, i, send_job_num, ran>>

\* PopWorkQue copies the front of the queue and then pops it; neither asks whether
\* there is one (FrontThere).
CopyFront(t) ==
  /\ tpc[t] = "front"
  /\ nWork' = [nWork EXCEPT ![t] = Head(m_queWork)]
  /\ tpc' = [tpc EXCEPT ![t] = "pop"]
  /\ UNCHANGED <<m_queWork, m_sem, m_mutex, ppc, next, i, send_job_num, ran>>

Pop(t) ==
  /\ tpc[t] = "pop"
  /\ m_queWork' = Tail(m_queWork)
  /\ tpc' = [tpc EXCEPT ![t] = "unlock"]
  /\ UNCHANGED <<m_sem, m_mutex, nWork, ppc, next, i, send_job_num, ran>>

Unlock(t) ==
  /\ tpc[t] = "unlock"
  /\ m_mutex' = Free
  /\ tpc' = [tpc EXCEPT ![t] = "run"]
  /\ UNCHANGED <<m_queWork, m_sem, nWork, ppc, next, i, send_job_num, ran>>

\* RunThreadFunction, to the end of m_send_to_worker.
Run(t) ==
  /\ tpc[t] = "run"
  /\ ran' = [ran EXCEPT ![nWork[t]] = @ + 1]
  /\ send_job_num' = send_job_num - 1
  /\ nWork' = [nWork EXCEPT ![t] = NoJob]
  /\ tpc' = [tpc EXCEPT ![t] = "sem"]
  /\ UNCHANGED <<m_queWork, m_sem, m_mutex, ppc, next, i>>

-----------------------------------------------------------------------------
(* The main thread *)

\* PushWorkQue: the queue and the semaphore under the mutex.
PushLock ==
  /\ ppc = "push" /\ next <= J /\ m_mutex = Free
  /\ m_mutex' = Main
  /\ ppc' = "queue"
  /\ UNCHANGED <<m_queWork, m_sem, tpc, nWork, next, i, send_job_num, ran>>

PushQueue ==
  /\ ppc = "queue"
  /\ m_queWork' = Append(m_queWork, <<i, next>>)
  /\ ppc' = "post"
  /\ UNCHANGED <<m_sem, m_mutex, tpc, nWork, next, i, send_job_num, ran>>

NoPost == IF next = J THEN UNCHANGED m_sem ELSE m_sem' = m_sem + 1
PostSem == m_sem' = m_sem + 1

PushPost ==
  /\ ppc = "post"
  /\ PostSem
  /\ ppc' = "unlock"
  /\ UNCHANGED <<m_queWork, m_mutex, tpc, nWork, next, i, send_job_num, ran>>

PushUnlock ==
  /\ ppc = "unlock"
  /\ m_mutex' = Free
  /\ next' = next + 1
  /\ ppc' = "push"
  /\ UNCHANGED <<m_queWork, m_sem, tpc, nWork, i, send_job_num, ran>>

\* while(send_job_num){} falls through, and the counter is set again.
NotWaited == TRUE
AllJobsRun == send_job_num = 0

NextIteration ==
  /\ ppc = "push" /\ next > J /\ AllJobsRun
  /\ send_job_num' = J
  /\ next' = 1 /\ i' = i + 1
  /\ ppc' = IF i + 1 = N THEN "done" ELSE "push"
  /\ UNCHANGED <<m_queWork, m_sem, m_mutex, tpc, nWork, ran>>

-----------------------------------------------------------------------------

ManageFuction(t) ==
  WaitSem(t) \/ Lock(t) \/ CopyFront(t) \/ Pop(t) \/ Unlock(t) \/ Run(t)

MainThread == PushLock \/ PushQueue \/ PushPost \/ PushUnlock \/ NextIteration

Next == MainThread \/ \E t \in Thread : ManageFuction(t)

Spec == Init /\ [][Next]_vars

\* Every thread is scheduled while it can move; which of several waiters gets the
\* mutex or the semaphore is left open.
FairSpec ==
  /\ Spec
  /\ WF_vars(MainThread)
  /\ \A t \in Thread : WF_vars(ManageFuction(t))

-----------------------------------------------------------------------------
(* Properties *)

TypeOK ==
  /\ m_queWork \in Seq(Job) /\ m_sem \in Nat
  /\ m_mutex \in Thread \cup {Main, Free}
  /\ tpc \in [Thread -> {"sem", "lock", "front", "pop", "unlock", "run"}]
  /\ nWork \in [Thread -> Job \cup {NoJob}]
  /\ ppc \in {"push", "queue", "post", "unlock", "done"}
  /\ next \in 1 .. J + 1 /\ i \in 0 .. N
  /\ send_job_num \in 0 .. J
  /\ ran \in [Job -> {0, 1}]

Popped(t) == tpc[t] \in {"unlock", "run"}

\* A thread that has passed the semaphore finds a job: front() and pop() are never
\* called on an empty queue.
FrontThere ==
  /\ \A t \in Thread : tpc[t] \in {"front", "pop"} => m_queWork # <<>>
  /\ m_sem + Cardinality({t \in Thread : tpc[t] \in {"lock", "front", "pop"}})
       <= Len(m_queWork)

\* No job is lost or taken twice: every job pushed is once in the queue, with a
\* thread or run.
Pushed(j) == j[1] < i \/ (j[1] = i /\ (j[2] < next \/ (j[2] = next /\ ppc \in {"post", "unlock"})))

EachOnce ==
  \A j \in Job :
    Cardinality({n \in 1 .. Len(m_queWork) : m_queWork[n] = j})
      + Cardinality({t \in Thread : Popped(t) /\ nWork[t] = j}) + ran[j]
    = IF Pushed(j) THEN 1 ELSE 0

\* The counter that the main thread waits for is exact, and it goes on only when all
\* jobs of the iterations before have been run.
CountExact ==
  /\ \A j \in Job : j[1] < i => ran[j] = 1
  /\ i < N => send_job_num = J - Cardinality({j \in Job : j[1] = i /\ ran[j] = 1})

\* Every iteration's jobs are run, whichever threads take them.
AllRun == <>(\A j \in Job : ran[j] = 1)

=============================================================================
