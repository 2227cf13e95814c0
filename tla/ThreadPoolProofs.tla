-------------------------- MODULE ThreadPoolProofs --------------------------
(***************************************************************************)
(* Theorems about module ThreadPool, for any number of threads, of jobs in  *)
(* an iteration and of iterations.                                          *)
(***************************************************************************)
EXTENDS ThreadPool, FiniteSetTheorems, TLAPS

USE PoolAssumption

-----------------------------------------------------------------------------
(* The inductive invariant *)

\* The mutex is held by the thread, or by the main thread, that is between its
\* lock and its unlock.
HeldByOne ==
  /\ \A t \in Thread : tpc[t] \in {"front", "pop", "unlock"} => m_mutex = t
  /\ ppc \in {"queue", "post", "unlock"} => m_mutex = Main

\* The main thread pushes only jobs there are.
MainStage ==
  /\ ppc \in {"queue", "post", "unlock"} => next <= J
  /\ IF ppc = "done" THEN i = N /\ next = 1 ELSE i < N

\* A thread between front() and pop() has a copy of the job that is still in front.
FrontCopied ==
  \A t \in Thread : tpc[t] = "pop" => m_queWork # <<>> /\ nWork[t] = m_queWork[1]

\* Where a pushed job can be.
Queued(j) == \E n \in 1 .. Len(m_queWork) : m_queWork[n] = j
HeldBy(t, j) == Popped(t) /\ nWork[t] = j
Held(j) == \E t \in Thread : HeldBy(t, j)
HasRun(j) == ran[j] = 1

\* A pushed job is in exactly one place, once.
Places ==
  /\ \A m, n \in 1 .. Len(m_queWork) : m_queWork[m] = m_queWork[n] => m = n
  /\ \A t \in Thread : Popped(t) => nWork[t] \in Job
  /\ \A j \in Job : \A t, u \in Thread : HeldBy(t, j) /\ HeldBy(u, j) => t = u
  /\ \A j \in Job : ~ (Queued(j) /\ Held(j)) /\ ~ (Queued(j) /\ HasRun(j))
                      /\ ~ (Held(j) /\ HasRun(j))
  /\ \A j \in Job : Pushed(j) <=> Queued(j) \/ Held(j) \/ HasRun(j)

\* The threads that have passed the semaphore for a job that is still in the queue.
Admitted == {t \in Thread : tpc[t] \in {"lock", "front", "pop"}}

\* The semaphore counts the jobs of the queue that no thread has been admitted for;
\* the last job pushed is not counted before its post.
SemExact ==
  m_sem + Cardinality(Admitted) = IF ppc = "post" THEN Len(m_queWork) - 1 ELSE Len(m_queWork)

\* The jobs of iteration k that have been run.
RunOf(k) == {j \in Job : j[1] = k /\ HasRun(j)}

\* The counter the main thread waits for.
Counter ==
  /\ \A j \in Job : j[1] < i => HasRun(j)
  /\ send_job_num = J - Cardinality(RunOf(i))

PInv == TypeOK /\ HeldByOne /\ MainStage /\ FrontCopied /\ Places /\ SemExact /\ Counter

-----------------------------------------------------------------------------
(* Lemmas *)

\* The jobs of one iteration are J, and the ones run a part of them.
LEMMA IterationSize ==
  ASSUME NEW k \in 0 .. N - 1
  PROVE  /\ IsFiniteSet({j \in Job : j[1] = k})
         /\ Cardinality({j \in Job : j[1] = k}) = J
<1> DEFINE S == {j \in Job : j[1] = k}
           f == [n \in 1 .. J |-> <<k, n>>]
<1>1. f \in Bijection(1 .. J, S)
  <2>1. f \in [1 .. J -> S]
    BY DEF Job
  <2>2. \A m, n \in 1 .. J : f[m] = f[n] => m = n
    OBVIOUS
  <2>3. ASSUME NEW j \in S PROVE \E n \in 1 .. J : f[n] = j
    <3>1. j[2] \in 1 .. J /\ j = <<k, j[2]>>
      BY DEF Job
    <3>2. f[j[2]] = j
      BY <3>1
    <3>3. QED
      BY <3>1, <3>2
  <2>4. QED
    BY <2>1, <2>2, <2>3 DEF Bijection, Injection, Surjection, IsInjective
<1>2. IsFiniteSet(1 .. J) /\ Cardinality(1 .. J) = J
  BY FS_Interval
<1>3. QED
  BY <1>1, <1>2, FS_Bijection DEF ExistsBijection

\* The jobs of an iteration that have been run are at most J, and J only if all have.
LEMMA RunOfSize ==
  ASSUME NEW k \in 0 .. N - 1
  PROVE  /\ IsFiniteSet(RunOf(k)) /\ Cardinality(RunOf(k)) \in 0 .. J
         /\ Cardinality(RunOf(k)) = J => \A j \in Job : j[1] = k => HasRun(j)
<1> DEFINE S == {j \in Job : j[1] = k}
<1>1. RunOf(k) \in SUBSET S
  BY DEF RunOf
<1>2. IsFiniteSet(S) /\ Cardinality(S) = J
  BY IterationSize
<1> HIDE DEF S
<1>3. /\ IsFiniteSet(RunOf(k)) /\ Cardinality(RunOf(k)) <= J
      /\ Cardinality(RunOf(k)) = J => S = RunOf(k)
  BY <1>1, <1>2, FS_Subset
<1>4. Cardinality(RunOf(k)) \in Nat
  BY <1>3, FS_CardinalityType
<1>5. S = RunOf(k) => \A j \in Job : j[1] = k => HasRun(j)
  BY DEF RunOf, S
<1>6. QED
  BY <1>3, <1>4, <1>5

\* The admitted threads are finitely many.
LEMMA AdmittedSize == IsFiniteSet(Admitted) /\ Cardinality(Admitted) \in Nat
<1>1. Admitted \in SUBSET Thread
  BY DEF Admitted
<1>2. IsFiniteSet(Admitted)
  BY <1>1, FS_Subset
<1>3. QED
  BY <1>2, FS_CardinalityType

\* The queue after its front is popped.
LEMMA TailFacts ==
  ASSUME NEW q \in Seq(Job), q # <<>>
  PROVE  /\ Tail(q) \in Seq(Job) /\ Head(q) = q[1] /\ Head(q) \in Job
         /\ Len(q) \in Nat \ {0} /\ Len(Tail(q)) = Len(q) - 1
         /\ \A n \in 1 .. Len(Tail(q)) : Tail(q)[n] = q[n + 1]
<1> HIDE DEF Job
<1>1. QED
  OBVIOUS

\* The queue after a job is pushed.
LEMMA PushFacts ==
  ASSUME NEW q \in Seq(Job), NEW j \in Job
  PROVE  /\ Len(q) \in Nat
         /\ Append(q, j) \in Seq(Job) /\ Len(Append(q, j)) = Len(q) + 1
         /\ \A n \in 1 .. Len(q) : Append(q, j)[n] = q[n]
         /\ Append(q, j)[Len(q) + 1] = j
<1> HIDE DEF Job
<1>1. QED
  OBVIOUS

\* An admitted thread finds a job in front, whatever the main thread is doing.
LEMMA FrontFacts ==
  ASSUME PInv, NEW t \in Thread, tpc[t] \in {"front", "pop"}
  PROVE  m_queWork # <<>> /\ ppc # "post"
<1>1. ppc # "post"
  BY DEF PInv, HeldByOne, Main
<1>2. Cardinality(Admitted) # 0
  BY AdmittedSize, FS_EmptySet DEF Admitted
<1>3. Len(m_queWork) # 0
  BY <1>1, <1>2, AdmittedSize DEF PInv, SemExact, TypeOK
<1>4. QED
  BY <1>1, <1>3

-----------------------------------------------------------------------------
(* What a step leaves alone *)

\* The jobs stay where they are when no job is pushed, popped or run.
LEMMA PlacesFrame ==
  ASSUME Places, UNCHANGED <<m_queWork, ran>>,
         \A j \in Job : Pushed(j)' <=> Pushed(j),
         \A t \in Thread : Popped(t)' <=> Popped(t),
         \A t \in Thread : Popped(t) => nWork'[t] = nWork[t]
  PROVE  Places'
<1>1. \A t \in Thread : \A j \in Job : HeldBy(t, j)' <=> HeldBy(t, j)
  BY DEF HeldBy
<1>2. \A j \in Job : (Held(j)' <=> Held(j)) /\ (Queued(j)' <=> Queued(j))
                       /\ (HasRun(j)' <=> HasRun(j))
  BY <1>1 DEF Held, Queued, HasRun
<1> HIDE DEF Job
<1>3. QED
  BY <1>1, <1>2 DEF Places

\* The semaphore stays exact when neither it, the queue nor the admitted threads change.
LEMMA SemFrame ==
  ASSUME SemExact, UNCHANGED <<m_sem, m_queWork>>, (ppc' = "post") <=> (ppc = "post"),
         \A t \in Thread : tpc'[t] \in {"lock", "front", "pop"}
                             <=> tpc[t] \in {"lock", "front", "pop"}
  PROVE  SemExact'
<1>1. Admitted' = Admitted
  BY DEF Admitted
<1>2. QED
  BY <1>1 DEF SemExact

\* The counter stays exact when no job is run and the iteration stays.
LEMMA CounterFrame ==
  ASSUME Counter, UNCHANGED <<i, ran, send_job_num>>
  PROVE  Counter'
<1>1. RunOf(i)' = RunOf(i)
  BY DEF RunOf, HasRun
<1>2. QED
  BY <1>1 DEF Counter, HasRun

\* The main thread's stage is its own.
LEMMA StageFrame ==
  ASSUME MainStage, UNCHANGED <<ppc, next, i>>
  PROVE  MainStage' /\ \A j \in Job : Pushed(j)' <=> Pushed(j)
  BY DEF MainStage, Pushed

-----------------------------------------------------------------------------
(* The steps of a thread of the pool *)

\* A thread that is admitted takes one from the semaphore.
LEMMA WaitSemStep ==
  ASSUME PInv, NEW t \in Thread, WaitSem(t)
  PROVE  PInv'
<1> USE DEF PInv
<1>1. TypeOK'
  BY DEF WaitSem, TypeOK
<1>2. HeldByOne' /\ FrontCopied'
  BY DEF WaitSem, TypeOK, HeldByOne, FrontCopied
<1>3. MainStage' /\ \A j \in Job : Pushed(j)' <=> Pushed(j)
  BY StageFrame DEF WaitSem
<1>4. Places'
  BY <1>3, PlacesFrame DEF WaitSem, TypeOK, Popped
<1>5. SemExact'
  <2>1. Admitted' = Admitted \cup {t} /\ t \notin Admitted
    BY DEF WaitSem, TypeOK, Admitted
  <2>2. Cardinality(Admitted') = Cardinality(Admitted) + 1
    BY <2>1, AdmittedSize, FS_AddElement
  <2>3. QED
    BY <2>2, AdmittedSize DEF WaitSem, TypeOK, SemExact
<1>6. Counter'
  BY CounterFrame DEF WaitSem
<1>7. QED
  BY <1>1, <1>2, <1>3, <1>4, <1>5, <1>6

\* A thread that locks the mutex finds it free.
LEMMA LockStep ==
  ASSUME PInv, NEW t \in Thread, Lock(t)
  PROVE  PInv'
<1> USE DEF PInv, LockMutex
<1>1. TypeOK'
  BY DEF Lock, TypeOK
<1>2. HeldByOne' /\ FrontCopied'
  BY DEF Lock, TypeOK, HeldByOne, FrontCopied, Free, Main
<1>3. MainStage' /\ \A j \in Job : Pushed(j)' <=> Pushed(j)
  BY StageFrame DEF Lock
<1>4. Places'
  BY <1>3, PlacesFrame DEF Lock, TypeOK, Popped
<1>5. SemExact'
  BY SemFrame DEF Lock, TypeOK
<1>6. Counter'
  BY CounterFrame DEF Lock
<1>7. QED
  BY <1>1, <1>2, <1>3, <1>4, <1>5, <1>6

\* A thread copies the front, which is there.
LEMMA CopyFrontStep ==
  ASSUME PInv, NEW t \in Thread, CopyFront(t)
  PROVE  PInv'
<1> USE DEF PInv
<1>1. m_queWork # <<>> /\ Head(m_queWork) = m_queWork[1] /\ Head(m_queWork) \in Job
  BY FrontFacts, TailFacts DEF CopyFront, TypeOK
<1>2. TypeOK'
  BY <1>1 DEF CopyFront, TypeOK
<1>3. HeldByOne' /\ FrontCopied'
  BY <1>1 DEF CopyFront, TypeOK, HeldByOne, FrontCopied
<1>4. MainStage' /\ \A j \in Job : Pushed(j)' <=> Pushed(j)
  BY StageFrame DEF CopyFront
<1>5. Places'
  BY <1>4, PlacesFrame DEF CopyFront, TypeOK, Popped
<1>6. SemExact'
  BY SemFrame DEF CopyFront, TypeOK
<1>7. Counter'
  BY CounterFrame DEF CopyFront
<1>8. QED
  BY <1>2, <1>3, <1>4, <1>5, <1>6, <1>7

\* A thread that releases the mutex keeps its job.
LEMMA UnlockStep ==
  ASSUME PInv, NEW t \in Thread, Unlock(t)
  PROVE  PInv'
<1> USE DEF PInv
<1>1. TypeOK'
  BY DEF Unlock, TypeOK
<1>2. HeldByOne' /\ FrontCopied'
  BY DEF Unlock, TypeOK, HeldByOne, FrontCopied, Main
<1>3. MainStage' /\ \A j \in Job : Pushed(j)' <=> Pushed(j)
  BY StageFrame DEF Unlock
<1>4. Places'
  BY <1>3, PlacesFrame DEF Unlock, TypeOK, Popped
<1>5. SemExact'
  BY SemFrame DEF Unlock, TypeOK
<1>6. Counter'
  BY CounterFrame DEF Unlock
<1>7. QED
  BY <1>1, <1>2, <1>3, <1>4, <1>5, <1>6

\* A thread that pops takes the job it has copied out of the queue, into its hands.
LEMMA PopStep ==
  ASSUME PInv, NEW t \in Thread, Pop(t)
  PROVE  PInv'
<1> USE DEF PInv
<1>1. m_queWork # <<>> /\ ppc # "post" /\ nWork[t] = m_queWork[1] /\ m_mutex = t
  BY FrontFacts DEF Pop, HeldByOne, FrontCopied
<1>2. /\ Tail(m_queWork) \in Seq(Job) /\ m_queWork[1] \in Job
      /\ Len(m_queWork) \in Nat \ {0} /\ Len(Tail(m_queWork)) = Len(m_queWork) - 1
      /\ \A n \in 1 .. Len(Tail(m_queWork)) : Tail(m_queWork)[n] = m_queWork[n + 1]
  BY <1>1, TailFacts DEF TypeOK
<1>3. TypeOK'
  BY <1>2 DEF Pop, TypeOK
<1>4. HeldByOne'
  BY DEF Pop, TypeOK, HeldByOne
<1>5. FrontCopied'
  BY <1>1 DEF Pop, TypeOK, FrontCopied, HeldByOne
<1>6. MainStage' /\ \A j \in Job : Pushed(j)' <=> Pushed(j)
  BY StageFrame DEF Pop
<1>7. Places'
  <2> HIDE DEF Job
  <2>1. \A u \in Thread : \A j \in Job :
          HeldBy(u, j)' <=> HeldBy(u, j) \/ (u = t /\ j = m_queWork[1])
    BY <1>1 DEF Pop, TypeOK, HeldBy, Popped
  <2>2. \A j \in Job : Held(j)' <=> Held(j) \/ j = m_queWork[1]
    BY <2>1 DEF Held
  <2>3. \A j \in Job : Queued(j)' <=> Queued(j) /\ j # m_queWork[1]
    <3> TAKE j \in Job
    <3>1. ASSUME Queued(j)' PROVE Queued(j) /\ j # m_queWork[1]
      <4>1. PICK n \in 1 .. Len(Tail(m_queWork)) : Tail(m_queWork)[n] = j
        BY <3>1 DEF Queued, Pop
      <4>2. n + 1 \in 1 .. Len(m_queWork) /\ m_queWork[n + 1] = j /\ n + 1 # 1
              /\ 1 \in 1 .. Len(m_queWork)
        BY <1>2, <4>1
      <4>3. QED
        BY <4>2 DEF Queued, Places
    <3>2. ASSUME Queued(j), j # m_queWork[1] PROVE Queued(j)'
      <4>1. PICK n \in 1 .. Len(m_queWork) : m_queWork[n] = j
        BY <3>2 DEF Queued
      <4>2. n - 1 \in 1 .. Len(Tail(m_queWork)) /\ Tail(m_queWork)[n - 1] = j
        BY <1>2, <3>2, <4>1
      <4>3. QED
        BY <4>2 DEF Queued, Pop
    <3>3. QED
      BY <3>1, <3>2
  <2>4. Queued(m_queWork[1])
    BY <1>2 DEF Queued
  <2>5. \A m, n \in 1 .. Len(m_queWork') : m_queWork'[m] = m_queWork'[n] => m = n
    BY <1>2 DEF Pop, Places
  <2>6. \A j \in Job : HasRun(j)' <=> HasRun(j)
    BY DEF Pop, HasRun
  <2>7. \A u \in Thread : Popped(u)' => nWork'[u] \in Job
    BY <1>1, <1>2 DEF Pop, Popped, Places, TypeOK
  <2>8. \A j \in Job : \A u, v \in Thread : HeldBy(u, j)' /\ HeldBy(v, j)' => u = v
    BY <1>2, <2>1, <2>4 DEF Places, Held
  <2>9. QED
    BY <1>2, <1>6, <2>2, <2>3, <2>4, <2>5, <2>6, <2>7, <2>8 DEF Places
<1>8. SemExact'
  <2>1. Admitted' = Admitted \ {t} /\ t \in Admitted
    BY DEF Pop, TypeOK, Admitted
  <2>2. Cardinality(Admitted') = Cardinality(Admitted) - 1
    BY <2>1, AdmittedSize, FS_RemoveElement
  <2>3. QED
    BY <1>1, <1>2, <2>2, AdmittedSize DEF Pop, TypeOK, SemExact
<1>9. Counter'
  BY CounterFrame DEF Pop
<1>10. QED
  BY <1>3, <1>4, <1>5, <1>6, <1>7, <1>8, <1>9

\* A thread that runs its job is the only one that does, and the job is one of the
\* iteration whose end the main thread waits for.
LEMMA RunStep ==
  ASSUME PInv, NEW t \in Thread, Run(t)
  PROVE  PInv'
<1> USE DEF PInv
<1> DEFINE job == nWork[t]
<1>1. job \in Job /\ HeldBy(t, job) /\ Held(job) /\ ~ HasRun(job) /\ ~ Queued(job)
  BY DEF Run, Places, Popped, HeldBy, Held
<1>2. Pushed(job)
  BY <1>1 DEF Places
<1>3. job[1] = i /\ i \in 0 .. N - 1
  BY <1>1, <1>2 DEF Pushed, Counter, MainStage, Job, TypeOK
<1> HIDE DEF job
<1>4. \A j \in Job : ran'[j] = IF j = job THEN 1 ELSE ran[j]
  BY <1>1 DEF Run, TypeOK, HasRun, job
<1>5. \A j \in Job : HasRun(j)' <=> HasRun(j) \/ j = job
  BY <1>4 DEF HasRun
<1>6. RunOf(i)' = RunOf(i) \cup {job} /\ job \notin RunOf(i)
  BY <1>1, <1>3, <1>5 DEF RunOf, Run
<1>7. Cardinality(RunOf(i)') = Cardinality(RunOf(i)) + 1
  BY <1>3, <1>6, RunOfSize, FS_AddElement
<1>8. send_job_num' = J - Cardinality(RunOf(i)') /\ send_job_num' \in 0 .. J
  <2>1. Cardinality(RunOf(i)) # J
    BY <1>1, <1>3, RunOfSize
  <2>2. Cardinality(RunOf(i)) \in 0 .. J
    BY <1>3, RunOfSize
  <2>3. send_job_num' = send_job_num - 1
    BY DEF Run
  <2>4. QED
    BY <1>7, <2>1, <2>2, <2>3 DEF Counter
<1>9. TypeOK'
  BY <1>1, <1>8 DEF Run, TypeOK, HasRun, job
<1>10. HeldByOne' /\ FrontCopied'
  BY DEF Run, TypeOK, HeldByOne, FrontCopied
<1>11. MainStage' /\ \A j \in Job : Pushed(j)' <=> Pushed(j)
  BY StageFrame DEF Run
<1>12. Places'
  <2> HIDE DEF Job
  <2>1. \A u \in Thread : \A j \in Job : HeldBy(u, j)' <=> HeldBy(u, j) /\ u # t
    BY DEF Run, TypeOK, HeldBy, Popped
  <2>2. \A j \in Job : HeldBy(t, j) <=> j = job
    BY <1>1 DEF HeldBy, job
  <2>3. \A j \in Job : Held(j)' <=> Held(j) /\ j # job
    BY <1>1, <2>1, <2>2 DEF Held, Places
  <2>4. \A j \in Job : Queued(j)' <=> Queued(j)
    BY DEF Run, Queued
  <2>5. \A u \in Thread : Popped(u)' => nWork'[u] \in Job
    BY DEF Run, Popped, Places, TypeOK
  <2>6. \A m, n \in 1 .. Len(m_queWork') : m_queWork'[m] = m_queWork'[n] => m = n
    BY DEF Run, Places
  <2>7. \A j \in Job : \A u, v \in Thread : HeldBy(u, j)' /\ HeldBy(v, j)' => u = v
    BY <2>1 DEF Places
  <2>8. QED
    BY <1>1, <1>5, <1>11, <2>3, <2>4, <2>5, <2>6, <2>7 DEF Places
<1>13. SemExact'
  BY SemFrame DEF Run, TypeOK
<1>14. Counter'
  BY <1>5, <1>8 DEF Counter, Run
<1>15. QED
  BY <1>9, <1>10, <1>11, <1>12, <1>13, <1>14

-----------------------------------------------------------------------------
(* The steps of the main thread *)

\* The main thread locks the mutex only when no thread of the pool is at the queue.
LEMMA PushLockStep ==
  ASSUME PInv, PushLock
  PROVE  PInv'
<1> USE DEF PInv
<1>1. TypeOK'
  BY DEF PushLock, TypeOK
<1>2. HeldByOne' /\ FrontCopied' /\ MainStage'
  BY DEF PushLock, TypeOK, HeldByOne, FrontCopied, MainStage, Free, Main
<1>3. \A j \in Job : Pushed(j)' <=> Pushed(j)
  BY DEF PushLock, Pushed
<1>4. Places'
  BY <1>3, PlacesFrame DEF PushLock, Popped
<1>5. SemExact'
  BY SemFrame DEF PushLock
<1>6. Counter'
  BY CounterFrame DEF PushLock
<1>7. QED
  BY <1>1, <1>2, <1>4, <1>5, <1>6

\* The job pushed was nowhere before, and is at the end of the queue.
LEMMA PushQueueStep ==
  ASSUME PInv, PushQueue
  PROVE  PInv'
<1> USE DEF PInv
<1> DEFINE job == <<i, next>>
<1>1. job \in Job /\ job[1] = i /\ job[2] = next /\ ~ Pushed(job)
  BY DEF PushQueue, TypeOK, MainStage, Job, Pushed
<1>2. \A j \in Job : Pushed(j)' <=> Pushed(j) \/ j = job
  BY DEF PushQueue, Pushed, Job, TypeOK
<1>3. m_queWork' = Append(m_queWork, job)
  BY DEF PushQueue
<1> HIDE DEF job
<1>4. /\ Len(m_queWork) \in Nat /\ m_queWork' \in Seq(Job)
      /\ Len(m_queWork') = Len(m_queWork) + 1
      /\ \A n \in 1 .. Len(m_queWork) : m_queWork'[n] = m_queWork[n]
      /\ m_queWork'[Len(m_queWork) + 1] = job
  BY <1>1, <1>3, PushFacts DEF TypeOK
<1>5. TypeOK'
  BY <1>4 DEF PushQueue, TypeOK
<1>6. HeldByOne' /\ MainStage'
  BY DEF PushQueue, HeldByOne, MainStage
<1>7. FrontCopied'
  BY DEF PushQueue, FrontCopied, HeldByOne, TypeOK, Main
<1>8. Places'
  <2> HIDE DEF Job
  <2>1. ~ Queued(job) /\ ~ Held(job) /\ ~ HasRun(job)
    BY <1>1 DEF Places
  <2>2. \A j \in Job : Queued(j)' <=> Queued(j) \/ j = job
    BY <1>4 DEF Queued
  <2>3. \A t \in Thread : \A j \in Job : HeldBy(t, j)' <=> HeldBy(t, j)
    BY DEF PushQueue, HeldBy, Popped
  <2>4. \A j \in Job : (Held(j)' <=> Held(j)) /\ (HasRun(j)' <=> HasRun(j))
    BY <2>3 DEF PushQueue, Held, HasRun
  <2>5. \A m, n \in 1 .. Len(m_queWork') : m_queWork'[m] = m_queWork'[n] => m = n
    BY <1>4, <2>1 DEF Places, Queued
  <2>6. \A t \in Thread : Popped(t)' => nWork'[t] \in Job
    BY DEF PushQueue, Popped, Places
  <2>7. \A j \in Job : \A u, v \in Thread : HeldBy(u, j)' /\ HeldBy(v, j)' => u = v
    BY <2>3 DEF Places
  <2>8. QED
    BY <1>2, <2>1, <2>2, <2>4, <2>5, <2>6, <2>7 DEF Places
<1>9. SemExact'
  <2>1. Admitted' = Admitted
    BY DEF PushQueue, Admitted
  <2>2. QED
    BY <1>4, <2>1 DEF PushQueue, SemExact
<1>10. Counter'
  BY CounterFrame DEF PushQueue
<1>11. QED
  BY <1>5, <1>6, <1>7, <1>8, <1>9, <1>10

\* The post counts the job that was pushed.
LEMMA PushPostStep ==
  ASSUME PInv, PushPost
  PROVE  PInv'
<1> USE DEF PInv, PostSem
<1>1. TypeOK'
  BY DEF PushPost, TypeOK
<1>2. HeldByOne' /\ FrontCopied' /\ MainStage'
  BY DEF PushPost, HeldByOne, FrontCopied, MainStage
<1>3. \A j \in Job : Pushed(j)' <=> Pushed(j)
  BY DEF PushPost, Pushed
<1>4. Places'
  BY <1>3, PlacesFrame DEF PushPost, Popped
<1>5. SemExact'
  <2>1. Admitted' = Admitted
    BY DEF PushPost, Admitted
  <2>2. QED
    BY <2>1, AdmittedSize DEF PushPost, SemExact, TypeOK
<1>6. Counter'
  BY CounterFrame DEF PushPost
<1>7. QED
  BY <1>1, <1>2, <1>4, <1>5, <1>6

\* The job pushed is the last one before next.
LEMMA PushUnlockStep ==
  ASSUME PInv, PushUnlock
  PROVE  PInv'
<1> USE DEF PInv
<1>1. TypeOK'
  BY DEF PushUnlock, TypeOK, MainStage
<1>2. HeldByOne' /\ FrontCopied' /\ MainStage'
  BY DEF PushUnlock, HeldByOne, FrontCopied, MainStage, Main
<1>3. \A j \in Job : Pushed(j)' <=> Pushed(j)
  BY DEF PushUnlock, Pushed, Job, TypeOK
<1>4. Places'
  BY <1>3, PlacesFrame DEF PushUnlock, Popped
<1>5. SemExact'
  BY SemFrame DEF PushUnlock
<1>6. Counter'
  BY CounterFrame DEF PushUnlock
<1>7. QED
  BY <1>1, <1>2, <1>4, <1>5, <1>6

\* The counter is 0 only when every job of the iteration has been run, and nothing of
\* the next one has.
LEMMA NextIterationStep ==
  ASSUME PInv, NextIteration
  PROVE  PInv'
<1> USE DEF PInv, AllJobsRun
<1>1. i \in 0 .. N - 1 /\ i' = i + 1 /\ next = J + 1 /\ next' = 1 /\ ppc = "push"
  BY DEF NextIteration, MainStage, TypeOK
<1>2. TypeOK'
  BY <1>1 DEF NextIteration, TypeOK
<1>3. HeldByOne' /\ FrontCopied' /\ MainStage'
  BY <1>1 DEF NextIteration, HeldByOne, FrontCopied, MainStage
<1>4. \A j \in Job : Pushed(j)' <=> Pushed(j)
  BY <1>1 DEF NextIteration, Pushed, Job
<1>5. Places'
  BY <1>4, PlacesFrame DEF NextIteration, Popped
<1>6. SemExact'
  BY <1>1, SemFrame DEF NextIteration
<1>7. Counter'
  <2>1. Cardinality(RunOf(i)) = J
    <3>1. send_job_num = J - Cardinality(RunOf(i)) /\ send_job_num = 0
      BY DEF Counter, NextIteration
    <3>2. Cardinality(RunOf(i)) \in 0 .. J
      BY <1>1, RunOfSize
    <3>3. QED
      BY <3>1, <3>2
  <2>2. \A j \in Job : j[1] = i => HasRun(j)
    BY <1>1, <2>1, RunOfSize
  <2>3. \A j \in Job : j[1] < i' => HasRun(j)'
    BY <1>1, <2>2 DEF Counter, HasRun, NextIteration, Job
  <2>4. \A j \in Job : j[1] = i + 1 => ~ HasRun(j)
    BY <1>1 DEF Places, Pushed
  <2>5. RunOf(i)' = {}
    BY <1>1, <2>4 DEF RunOf, HasRun, NextIteration
  <2>6. send_job_num' = J - Cardinality(RunOf(i)')
    <3>1. Cardinality(RunOf(i)') = 0
      BY <2>5, FS_EmptySet
    <3>2. send_job_num' = J
      BY DEF NextIteration
    <3>3. QED
      BY <3>1, <3>2
  <2>7. QED
    BY <2>3, <2>6 DEF Counter
<1>8. QED
  BY <1>2, <1>3, <1>5, <1>6, <1>7

-----------------------------------------------------------------------------
(* Theorems *)

\* The invariant holds before anything is pushed: nothing is queued, held or run.
LEMMA InitInv == Init => PInv
<1> SUFFICES ASSUME Init PROVE PInv
  OBVIOUS
<1>1. Len(m_queWork) = 0 /\ m_queWork \in Seq(Job)
  BY DEF Init
<1>2. TypeOK
  BY <1>1 DEF Init, TypeOK, NoneAtFirst, Free
<1>3. HeldByOne /\ MainStage /\ FrontCopied
  BY DEF Init, HeldByOne, MainStage, FrontCopied
<1>4. Places
  <2>1. \A j \in Job : ~ Queued(j) /\ ~ Held(j) /\ ~ HasRun(j)
    BY <1>1 DEF Init, Queued, Held, HeldBy, Popped, HasRun
  <2>2. \A j \in Job : ~ Pushed(j)
    BY DEF Init, Pushed, Job
  <2>3. QED
    BY <1>1, <2>1, <2>2 DEF Init, Places, HeldBy, Popped
<1>5. SemExact
  <2>1. Admitted = {}
    BY DEF Init, Admitted
  <2>2. Cardinality(Admitted) = 0
    BY <2>1, FS_EmptySet
  <2>3. QED
    BY <1>1, <2>2 DEF Init, SemExact, NoneAtFirst
<1>6. Counter
  <2>1. RunOf(i) = {}
    BY DEF Init, RunOf, HasRun
  <2>2. Cardinality(RunOf(i)) = 0
    BY <2>1, FS_EmptySet
  <2>3. send_job_num = J /\ \A j \in Job : ~ j[1] < i
    BY DEF Init, Job
  <2>4. QED
    BY <2>2, <2>3 DEF Counter
<1>7. QED
  BY <1>2, <1>3, <1>4, <1>5, <1>6 DEF PInv

\* Every step of the main thread and of the pool keeps the invariant.
LEMMA NextInv == PInv /\ [Next]_vars => PInv'
<1> SUFFICES ASSUME PInv, [Next]_vars PROVE PInv'
  OBVIOUS
<1>1. CASE MainThread
  BY <1>1, PushLockStep, PushQueueStep, PushPostStep, PushUnlockStep, NextIterationStep
     DEF MainThread
<1>2. ASSUME NEW t \in Thread, ManageFuction(t) PROVE PInv'
  BY <1>2, WaitSemStep, LockStep, CopyFrontStep, PopStep, UnlockStep, RunStep
     DEF ManageFuction
<1>3. CASE UNCHANGED vars
  <2> USE <1>3 DEF vars, PInv
  <2>1. TypeOK' /\ HeldByOne' /\ FrontCopied'
    BY DEF TypeOK, HeldByOne, FrontCopied
  <2>2. MainStage' /\ \A j \in Job : Pushed(j)' <=> Pushed(j)
    BY StageFrame
  <2>3. Places'
    BY <2>2, PlacesFrame DEF Popped
  <2>4. SemExact' /\ Counter'
    BY SemFrame, CounterFrame
  <2>5. QED
    BY <2>1, <2>2, <2>3, <2>4
<1>4. QED
  BY <1>1, <1>2, <1>3 DEF Next

\* PInv is an invariant of the pool: what it says of the mutex, of the places of the
\* jobs, of the semaphore and of the counter holds whatever the threads do.
THEOREM PoolInductive == Spec => []PInv
<1>1. QED
  BY InitInv, NextInv, PTL DEF Spec

\* The variables of the pool keep their types: in particular send_job_num never goes
\* below 0, and no job is run twice.
THEOREM PoolTypeCorrect == Spec => []TypeOK
<1>1. PInv => TypeOK
  BY DEF PInv
<1>2. QED
  BY <1>1, PoolInductive, PTL

\* PopWorkQue calls front() and pop() on a queue that has a job.
THEOREM FrontThereHolds == Spec => []FrontThere
<1>1. PInv => FrontThere
  <2> SUFFICES ASSUME PInv PROVE FrontThere
    OBVIOUS
  <2>1. \A t \in Thread : tpc[t] \in {"front", "pop"} => m_queWork # <<>>
    BY FrontFacts
  <2>2. m_sem + Cardinality(Admitted) <= Len(m_queWork)
    BY AdmittedSize DEF PInv, TypeOK, SemExact
  <2>3. QED
    BY <2>1, <2>2 DEF FrontThere, Admitted
<1>2. QED
  BY <1>1, PoolInductive, PTL

\* A job that PushWorkQue has put in the queue is there, with one thread, or run, and
\* once: none is lost and none is taken by two threads.
THEOREM EachOnceHolds == Spec => []EachOnce
<1>1. PInv => EachOnce
  <2> SUFFICES ASSUME PInv, NEW j \in Job
               PROVE  Cardinality({n \in 1 .. Len(m_queWork) : m_queWork[n] = j})
                        + Cardinality({t \in Thread : Popped(t) /\ nWork[t] = j}) + ran[j]
                      = IF Pushed(j) THEN 1 ELSE 0
    BY DEF EachOnce
  <2> DEFINE A == {n \in 1 .. Len(m_queWork) : m_queWork[n] = j}
             B == {t \in Thread : Popped(t) /\ nWork[t] = j}
  <2> HIDE DEF Job
  <2>1. Cardinality(A) = IF Queued(j) THEN 1 ELSE 0
    <3>1. CASE Queued(j)
      <4>1. \E n : A = {n}
        BY <3>1 DEF Queued, PInv, Places
      <4>2. QED
        BY <3>1, <4>1, FS_Singleton
    <3>2. CASE ~ Queued(j)
      <4>1. A = {}
        BY <3>2 DEF Queued
      <4>2. QED
        BY <3>2, <4>1, FS_EmptySet
    <3>3. QED
      BY <3>1, <3>2
  <2>2. Cardinality(B) = IF Held(j) THEN 1 ELSE 0
    <3>1. CASE Held(j)
      <4>1. \E t : B = {t}
        BY <3>1 DEF Held, HeldBy, PInv, Places
      <4>2. QED
        BY <3>1, <4>1, FS_Singleton
    <3>2. CASE ~ Held(j)
      <4>1. B = {}
        BY <3>2 DEF Held, HeldBy
      <4>2. QED
        BY <3>2, <4>1, FS_EmptySet
    <3>3. QED
      BY <3>1, <3>2
  <2>3. ran[j] = IF HasRun(j) THEN 1 ELSE 0
    BY DEF HasRun, PInv, TypeOK
  <2> HIDE DEF A, B
  <2>4. Cardinality(A) + Cardinality(B) + ran[j] = IF Pushed(j) THEN 1 ELSE 0
    BY <2>1, <2>2, <2>3 DEF PInv, Places
  <2>5. QED
    BY <2>4 DEF A, B
<1>2. QED
  BY <1>1, PoolInductive, PTL

\* The counter of the loop while(send_job_num) is J less the jobs run of this
\* iteration, and all the jobs of the earlier ones have been run.
THEOREM CountExactHolds == Spec => []CountExact
<1>1. PInv => CountExact
  BY DEF PInv, Counter, CountExact, RunOf, HasRun
<1>2. QED
  BY <1>1, PoolInductive, PTL

=============================================================================
