--------------------------- MODULE HandshakeProofs ---------------------------
(***************************************************************************)
(* Theorems about module Handshake, for any number of workers.              *)
(***************************************************************************)
EXTENDS Handshake, FiniteSetTheorems, TLAPS

USE HandshakeAssumption

-----------------------------------------------------------------------------
(* The inductive invariant *)

Sending == {"spin", "done"}

\* The master sends "tbegin" only when all reports are read, and a report is sent only
\* when everything is loaded.
Reports ==
  /\ mpc = "schedule" => told < M /\ \A w \in Worker : w >= told => pc[w] = "start"
  /\ mpc = "init" => told = 0
  /\ mpc = "begin" => inited = Worker
  /\ \A w \in reported : loaded[w] = M
  /\ \A w \in Worker : pc[w] \in {"compute"} \cup Sending => mpc = "begin"

\* How far the main thread of each worker is.
Progress ==
  \A w \in Worker :
    /\ pc[w] \in {"start", "load"} => connected[w] = 0
    /\ pc[w] \in {"arm"} \cup Ready => connected[w] = M
    /\ recv_fd[w] = Closed <=> pc[w] \in {"arm"} \cup Ready
    /\ jobs[w] \subseteq Peers(w)
    /\ pc[w] # "spin" => jobs[w] = {}

\* recv_fd counts the peers known, and is closed when it has counted all of them.
Counted ==
  \A w \in Worker :
    /\ known[w] \subseteq Peers(w)
    /\ IF recv_fd[w] = Closed THEN known[w] = Peers(w)
                              ELSE recv_fd[w] = Cardinality(known[w])

\* What can be unread on a connection.
Unread == {<<>>, <<"hello">>, <<"hello", "block">>, <<"block">>}
HelloUnread(j, w) == chan[j][w] \in {<<"hello">>, <<"hello", "block">>}
BlockUnread(j, w) == chan[j][w] \in {<<"block">>, <<"hello", "block">>}

\* A connection carries one handshake and after it one block: unread, or counted.
Link(j, w) ==
  /\ chan[j][w] \in Unread
  /\ j = w \/ connected[j] <= w => chan[j][w] = <<>>
  /\ HelloUnread(j, w) \/ connected[j] <= w => j \notin known[w]
  /\ BlockUnread(j, w) => j \notin got[w]
  /\ pc[j] \notin Sending \/ w \in jobs[j] => ~ BlockUnread(j, w) /\ j \notin got[w]
  /\ j \in got[w] => j # w

Links == \A j, w \in Worker : Link(j, w)

\* The event that dpdk_server handles has something to read, and is taken for a block
\* only when all handshakes are over.
Events ==
  \A w \in Worker :
    /\ srv[w] # NoEvent => chan[srv[w]][w] # <<>>
    /\ handler[w] = "block" => recv_fd[w] = Closed

\* The job counter before and after it is set: what arrived before is forgotten.
JobCount ==
  \A w \in Worker :
    IF pc[w] \in Ready THEN recv_job_num[w] >= M - 1 - Cardinality(got[w])
                            /\ recv_job_num[w] <= M - 1
                       ELSE recv_job_num[w] = -Cardinality(got[w])

HInv ==
  /\ TypeOK /\ Reports /\ Progress /\ Counted /\ Links /\ Events /\ JobCount
  /\ LeavesWithBlocks /\ failed # "unknown"

-----------------------------------------------------------------------------
(* Lemmas *)

\* A worker has M - 1 peers.
LEMMA PeerCount ==
  ASSUME NEW w \in Worker
  PROVE  /\ IsFiniteSet(Peers(w)) /\ Cardinality(Peers(w)) = M - 1
         /\ \A S \in SUBSET Peers(w) :
              /\ IsFiniteSet(S) /\ Cardinality(S) \in 0 .. M - 1
              /\ Cardinality(S) >= M - 1 => S = Peers(w)
<1>1. IsFiniteSet(Worker) /\ Cardinality(Worker) = M
  <2>1. Cardinality(0 .. M - 1) = IF 0 > M - 1 THEN 0 ELSE M - 1 - 0 + 1
    BY FS_Interval
  <2>2. IsFiniteSet(0 .. M - 1)
    BY FS_Interval
  <2>3. QED
    BY <2>1, <2>2 DEF Worker
<1>2. IsFiniteSet(Peers(w)) /\ Cardinality(Peers(w)) = M - 1
  BY <1>1, FS_RemoveElement DEF Peers
<1>3. ASSUME NEW S \in SUBSET Peers(w)
      PROVE  /\ IsFiniteSet(S) /\ Cardinality(S) \in 0 .. M - 1
             /\ Cardinality(S) >= M - 1 => S = Peers(w)
  <2>1. /\ IsFiniteSet(S) /\ Cardinality(S) <= M - 1
        /\ Cardinality(S) = M - 1 => S = Peers(w)
    BY <1>2, FS_Subset
  <2>2. Cardinality(S) \in Nat
    BY <2>1, FS_CardinalityType
  <2>3. QED
    BY <2>1, <2>2
<1>4. QED
  BY <1>2, <1>3

\* One more peer.
LEMMA OneMore ==
  ASSUME NEW w \in Worker, NEW S \in SUBSET Peers(w), NEW j \in Peers(w), j \notin S
  PROVE  /\ S \cup {j} \in SUBSET Peers(w)
         /\ Cardinality(S \cup {j}) = Cardinality(S) + 1
         /\ Cardinality(S) \in 0 .. M - 1 /\ Cardinality(S) + 1 <= M - 1
<1>1. IsFiniteSet(S) /\ Cardinality(S) \in 0 .. M - 1
  BY PeerCount
<1>2. Cardinality(S \cup {j}) = Cardinality(S) + 1
  BY <1>1, FS_AddElement
<1>3. Cardinality(S \cup {j}) \in 0 .. M - 1
  BY PeerCount
<1>4. QED
  BY <1>1, <1>2, <1>3

\* What becomes of a connection when a handshake or a block is written, or read.
LEMMA UnreadFacts ==
  /\ Append(<<>>, "hello") = <<"hello">> /\ Append(<<>>, "block") = <<"block">>
  /\ Append(<<"hello">>, "block") = <<"hello", "block">>
  /\ Tail(<<"hello">>) = <<>> /\ Tail(<<"block">>) = <<>>
  /\ Tail(<<"hello", "block">>) = <<"block">>
  /\ Head(<<"hello">>) = "hello" /\ Head(<<"block">>) = "block"
  /\ Head(<<"hello", "block">>) = "hello"
<1>1. Append(<<>>, "hello") = <<"hello">> /\ Append(<<>>, "block") = <<"block">>
  OBVIOUS
<1>2. Append(<<"hello">>, "block") = <<"hello", "block">>
  <2> DEFINE q == Append(<<"hello">>, "block")
             r == <<"hello", "block">>
             both == [n \in 1 .. 2 |-> IF n = 1 THEN "hello" ELSE "block"]
  <2>1. <<"hello">> \in Seq({"hello", "block"}) /\ Len(<<"hello">>) = 1 /\ <<"hello">>[1] = "hello"
    OBVIOUS
  <2>2. q \in Seq({"hello", "block"}) /\ Len(q) = 2 /\ q[1] = "hello" /\ q[2] = "block"
    BY <2>1
  <2>3. r \in Seq({"hello", "block"}) /\ Len(r) = 2 /\ r[1] = "hello" /\ r[2] = "block"
    OBVIOUS
  <2> HIDE DEF q, r
  <2>4. q = both
    BY <2>2
  <2>5. r = both
    BY <2>3
  <2>6. QED
    BY <2>4, <2>5, Zenon DEF q, r
<1>3. Tail(<<"hello">>) = <<>> /\ Tail(<<"block">>) = <<>>
  OBVIOUS
<1>4. Tail(<<"hello", "block">>) = <<"block">>
  OBVIOUS
<1>5. Head(<<"hello">>) = "hello" /\ Head(<<"block">>) = "block"
        /\ Head(<<"hello", "block">>) = "hello"
  OBVIOUS
<1>6. QED
  BY <1>1, <1>2, <1>3, <1>4, <1>5

\* The four contents of a connection are different ones.
LEMMA UnreadDistinct ==
  /\ <<>> # <<"hello">> /\ <<>> # <<"block">> /\ <<>> # <<"hello", "block">>
  /\ <<"hello">> # <<"block">> /\ <<"hello">> # <<"hello", "block">>
  /\ <<"block">> # <<"hello", "block">>
  /\ Unread \subseteq Seq({"hello", "block"})
<1>1. Unread \subseteq Seq({"hello", "block"})
  BY DEF Unread
<1>2. QED
  BY <1>1

\* Something is written to, or read from, the connection from j to w.
LEMMA ChanUpdate ==
  ASSUME TypeOK, NEW j \in Worker, NEW w \in Worker, NEW x \in Unread,
         chan' = [chan EXCEPT ![j][w] = x]
  PROVE  /\ chan' \in [Worker -> [Worker -> Seq({"hello", "block"})]]
         /\ \A a, b \in Worker : chan'[a][b] = IF a = j /\ b = w THEN x ELSE chan[a][b]
<1>1. x \in Seq({"hello", "block"})
  BY UnreadDistinct
<1> DEFINE row == [chan[j] EXCEPT ![w] = x]
<1>2. row \in [Worker -> Seq({"hello", "block"})]
  BY <1>1 DEF TypeOK
<1>3. \A b \in Worker : row[b] = IF b = w THEN x ELSE chan[j][b]
  BY DEF TypeOK
<1>4. chan' = [chan EXCEPT ![j] = row]
  OBVIOUS
<1> HIDE DEF row
<1>5. chan' \in [Worker -> [Worker -> Seq({"hello", "block"})]]
  BY <1>2, <1>4 DEF TypeOK
<1>6. \A a \in Worker : chan'[a] = IF a = j THEN row ELSE chan[a]
  BY <1>4 DEF TypeOK
<1>7. QED
  BY <1>3, <1>5, <1>6

-----------------------------------------------------------------------------
(* What a step leaves alone *)

LEMMA LinkFrame ==
  ASSUME NEW j \in Worker, NEW w \in Worker, Link(j, w),
         chan'[j][w] = chan[j][w], known'[w] = known[w], got'[w] = got[w],
         connected'[j] = connected[j],
         pc'[j] \in Sending <=> pc[j] \in Sending,
         w \in jobs'[j] <=> w \in jobs[j]
  PROVE  Link(j, w)'
  BY DEF Link, HelloUnread, BlockUnread

LEMMA LinksFrame ==
  ASSUME Links, UNCHANGED <<chan, known, got, connected, jobs>>,
         \A w \in Worker : pc'[w] \in Sending <=> pc[w] \in Sending
  PROVE  Links'
  BY LinkFrame DEF Links

LEMMA ProgressFrame ==
  ASSUME Progress, UNCHANGED <<pc, connected, recv_fd, jobs>>
  PROVE  Progress'
  BY DEF Progress

LEMMA CountedFrame ==
  ASSUME Counted, UNCHANGED <<known, recv_fd>>
  PROVE  Counted'
  BY DEF Counted

LEMMA EventsFrame ==
  ASSUME Events, UNCHANGED <<srv, chan, handler, recv_fd>>
  PROVE  Events'
  BY DEF Events

LEMMA JobCountFrame ==
  ASSUME JobCount, UNCHANGED <<recv_job_num, got>>,
         \A w \in Worker : pc'[w] \in Ready <=> pc[w] \in Ready
  PROVE  JobCount'
<1>1. ASSUME NEW w \in Worker
      PROVE  IF pc'[w] \in Ready THEN recv_job_num'[w] >= M - 1 - Cardinality(got'[w])
                                        /\ recv_job_num'[w] <= M - 1
                                   ELSE recv_job_num'[w] = -Cardinality(got'[w])
  BY DEF JobCount
<1>2. QED
  BY <1>1 DEF JobCount

\* A worker's main thread moves on.
LEMMA PcUpdate ==
  ASSUME TypeOK, NEW w \in Worker, NEW x, pc' = [pc EXCEPT ![w] = x]
  PROVE  \A j \in Worker : pc'[j] = IF j = w THEN x ELSE pc[j]
  BY DEF TypeOK

-----------------------------------------------------------------------------
(* The steps of the master *)

LEMMA ScheduleStep ==
  ASSUME HInv, Schedule
  PROVE  HInv'
<1> USE DEF HInv, srvvars
<1>1. told \in Worker /\ mpc = "schedule" /\ pc[told] = "start"
  BY DEF Schedule, TypeOK, Reports, Worker
<1>2. \A j \in Worker : pc'[j] = IF j = told THEN "load" ELSE pc[j]
  BY <1>1, PcUpdate DEF Schedule
<1>3. TypeOK'
  <2>1. mpc' \in {"schedule", "init", "begin"} /\ told' \in 0 .. M
    BY <1>1 DEF Schedule, TypeOK, Worker
  <2>2. pc' \in [Worker -> {"start", "load", "connect", "arm"} \cup Ready]
    BY <1>1 DEF Schedule, TypeOK
  <2>3. QED
    BY <2>1, <2>2 DEF Schedule, TypeOK
<1>4. Reports'
  <2>1. CASE told + 1 = M
    <3>1. mpc' = "init" /\ told' = 0 /\ inited' = inited /\ loaded' = loaded /\ reported' = reported
      BY <2>1 DEF Schedule
    <3>2. \A j \in Worker : pc'[j] \notin {"compute"} \cup Sending
      BY <1>1, <1>2 DEF Reports, Sending
    <3>3. QED
      BY <3>1, <3>2 DEF Reports
  <2>2. CASE told + 1 # M
    <3>1. mpc' = "schedule" /\ told' = told + 1 /\ loaded' = loaded /\ reported' = reported
      BY <1>1, <2>2 DEF Schedule
    <3>2. \A j \in Worker : pc'[j] \notin {"compute"} \cup Sending
      BY <1>1, <1>2 DEF Reports, Sending
    <3>3. told + 1 < M /\ \A j \in Worker : j >= told + 1 => pc'[j] = "start"
      BY <1>1, <1>2, <2>2 DEF Reports, Worker
    <3>4. QED
      BY <3>1, <3>2, <3>3 DEF Reports
  <2>3. QED
    BY <2>1, <2>2
<1>5. Progress'
  BY <1>1, <1>2 DEF Schedule, Progress, Ready
<1>6. Counted' /\ Events'
  BY CountedFrame, EventsFrame DEF Schedule
<1>7. Links'
  BY <1>1, <1>2, LinksFrame DEF Schedule, Sending
<1>8. JobCount'
  BY <1>1, <1>2, JobCountFrame DEF Schedule, Ready
<1>9. LeavesWithBlocks' /\ failed' # "unknown"
  BY <1>1, <1>2 DEF Schedule, LeavesWithBlocks
<1>10. QED
  BY <1>3, <1>4, <1>5, <1>6, <1>7, <1>8, <1>9

\* The rest of the master only reads reports and counts.
LEMMA MasterRest ==
  ASSUME HInv, InitBarrier \/ SendBegin \/ \E w \in Worker : ReadReport(w)
  PROVE  HInv'
<1> USE DEF HInv
<1>1. UNCHANGED <<mainvars, srvvars, recv_fd, recv_job_num, jobs, chan, failed>>
  BY DEF InitBarrier, SendBegin, ReadReport
<1>2. TypeOK'
  <2>1. mpc' \in {"schedule", "init", "begin"} /\ told' \in 0 .. M /\ inited' \subseteq reported
    BY DEF InitBarrier, SendBegin, ReadReport, TypeOK
  <2>2. QED
    BY <1>1, <2>1 DEF TypeOK, mainvars, srvvars
<1>3. Reports'
  BY <1>1 DEF InitBarrier, SendBegin, ReadReport, ReportsFull, Reports, TypeOK, mainvars
<1>4. Progress' /\ Counted' /\ Events'
  BY <1>1, ProgressFrame, CountedFrame, EventsFrame DEF mainvars, srvvars
<1>5. Links' /\ JobCount'
  BY <1>1, LinksFrame, JobCountFrame DEF mainvars, srvvars
<1>6. LeavesWithBlocks' /\ failed' # "unknown"
  BY <1>1 DEF LeavesWithBlocks, mainvars, srvvars
<1>7. QED
  BY <1>2, <1>3, <1>4, <1>5, <1>6

-----------------------------------------------------------------------------
(* The steps of a main thread *)

LEMMA LoadBlockStep ==
  ASSUME HInv, NEW w \in Worker, LoadBlock(w)
  PROVE  HInv'
<1> USE DEF HInv
<1>1. /\ UNCHANGED <<mpc, told, inited, reported, pc, connected, listening, known, srv, handler,
                      got, recv_fd, recv_job_num, jobs, chan, failed>>
      /\ pc[w] = "load" /\ loaded[w] \in 0 .. M /\ loaded[w] < M
      /\ loaded' = [loaded EXCEPT ![w] = @ + 1]
  BY DEF LoadBlock, TypeOK, mastervars, srvvars
<1>2. TypeOK'
  <2>1. loaded' \in [Worker -> 0 .. M]
    BY <1>1 DEF TypeOK
  <2>2. QED
    BY <1>1, <2>1 DEF TypeOK
<1>3. Reports'
  <2>1. w \notin reported
    BY <1>1 DEF Reports
  <2>2. \A j \in reported : loaded'[j] = M
    BY <1>1, <2>1 DEF Reports, TypeOK
  <2>3. QED
    BY <1>1, <2>2 DEF Reports
<1>4. Progress' /\ Counted' /\ Events'
  BY <1>1, ProgressFrame, CountedFrame, EventsFrame
<1>5. Links' /\ JobCount'
  BY <1>1, LinksFrame, JobCountFrame
<1>6. LeavesWithBlocks' /\ failed' # "unknown"
  BY <1>1 DEF LeavesWithBlocks
<1>7. QED
  BY <1>2, <1>3, <1>4, <1>5, <1>6

LEMMA ReportStep ==
  ASSUME HInv, NEW w \in Worker, Report(w)
  PROVE  HInv'
<1> USE DEF HInv
<1>1. /\ UNCHANGED <<mpc, told, inited, loaded, connected, listening, known, srv, handler,
                      got, recv_fd, recv_job_num, jobs, chan, failed>>
      /\ pc[w] = "load" /\ loaded[w] = M
      /\ reported' = reported \cup {w}
      /\ pc' = [pc EXCEPT ![w] = "connect"]
  BY DEF Report, AllLoaded, mastervars, srvvars
<1>2. \A j \in Worker : pc'[j] = IF j = w THEN "connect" ELSE pc[j]
  BY <1>1, PcUpdate
<1>3. TypeOK'
  <2>1. pc' \in [Worker -> {"start", "load", "connect", "arm"} \cup Ready]
    BY <1>1 DEF TypeOK
  <2>2. inited' \subseteq reported' /\ reported' \subseteq Worker
    BY <1>1 DEF TypeOK
  <2>3. QED
    BY <1>1, <2>1, <2>2 DEF TypeOK
<1>4. Reports'
  BY <1>1, <1>2 DEF Reports, Sending
<1>5. Progress'
  BY <1>1, <1>2 DEF Progress, Ready
<1>6. Counted' /\ Events'
  BY <1>1, CountedFrame, EventsFrame
<1>7. Links'
  BY <1>1, <1>2, LinksFrame DEF Sending
<1>8. JobCount'
  BY <1>1, <1>2, JobCountFrame DEF Ready
<1>9. LeavesWithBlocks' /\ failed' # "unknown"
  BY <1>1, <1>2 DEF LeavesWithBlocks
<1>10. QED
  BY <1>3, <1>4, <1>5, <1>6, <1>7, <1>8, <1>9

\* The handshake is the first thing written to a connection.
LEMMA ConnectStep ==
  ASSUME HInv, NEW w \in Worker, Connect(w)
  PROVE  HInv'
<1> USE DEF HInv
<1> DEFINE j == connected[w]
<1>1. /\ UNCHANGED <<mpc, told, inited, reported, pc, loaded, listening, known, srv, handler,
                      got, recv_fd, recv_job_num, jobs>>
      /\ pc[w] = "connect" /\ j \in Worker
  BY DEF Connect, TypeOK, Worker, mastervars, srvvars
<1>2. Reports' /\ Counted' /\ JobCount' /\ LeavesWithBlocks'
  BY <1>1, CountedFrame, JobCountFrame DEF Reports, LeavesWithBlocks
<1>3. CASE UNCHANGED <<connected, chan>> /\ failed' = "connect"
  <2>1. TypeOK' /\ failed' # "unknown"
    BY <1>1, <1>3 DEF TypeOK
  <2>2. Progress' /\ Events' /\ Links'
    BY <1>1, <1>3, ProgressFrame, EventsFrame, LinksFrame
  <2>3. QED
    BY <1>2, <2>1, <2>2
<1>4. CASE /\ connected' = [connected EXCEPT ![w] = @ + 1]
           /\ chan' = IF j = w THEN chan ELSE [chan EXCEPT ![w][j] = Append(@, "hello")]
           /\ UNCHANGED failed
  <2>1. /\ connected' \in [Worker -> 0 .. M]
        /\ \A a \in Worker : connected'[a] = IF a = w THEN connected[a] + 1 ELSE connected[a]
    <3>1. connected[w] \in 0 .. M - 1
      BY <1>1 DEF Worker
    <3>2. connected' = [connected EXCEPT ![w] = connected[w] + 1]
      BY <1>4
    <3> HIDE DEF j
    <3>3. QED
      BY <3>1, <3>2 DEF TypeOK
  <2>2. Progress'
    <3>1. \A a \in Worker : pc[a] # "connect" => connected'[a] = connected[a]
      BY <1>1, <2>1
    <3> HIDE DEF j
    <3>2. UNCHANGED <<pc, recv_fd, jobs>>
      BY <1>1
    <3>3. QED
      BY <3>1, <3>2 DEF Progress, Ready
  <2>3. \A a \in Worker : connected[a] \in 0 .. M
    BY DEF TypeOK
  <2>4. CASE j = w
    <3>1. chan' = chan /\ failed' = failed
      BY <1>4, <2>4
    <3>2. TypeOK'
      BY <1>1, <2>1, <3>1 DEF TypeOK
    <3>3. Events'
      BY <1>1, <3>1, EventsFrame
    <3>4. ASSUME NEW a \in Worker, NEW b \in Worker
          PROVE  Link(a, b)'
      <4>1. Link(a, b)
        BY DEF Links
      <4>2. connected'[a] <= b => connected[a] <= b
        BY <2>1, <2>3 DEF Worker
      <4>3. QED
        BY <1>1, <3>1, <4>1, <4>2 DEF Link, HelloUnread, BlockUnread
    <3>5. Links'
      BY <3>4 DEF Links
    <3>6. QED
      BY <1>2, <2>2, <3>1, <3>2, <3>3, <3>5
  <2>5. CASE j # w
    <3>1. Link(w, j) /\ chan[w][j] = <<>> /\ w \notin known[j]
      BY <1>1, <2>3 DEF Links, Link, Worker
    <3>2. chan' = [chan EXCEPT ![w][j] = <<"hello">>]
      <4>1. chan' = [chan EXCEPT ![w][j] = Append(chan[w][j], "hello")]
        BY <1>4, <2>5
      <4>2. QED
        BY <3>1, <4>1, UnreadFacts
    <3> HIDE DEF j
    <3>3. /\ chan' \in [Worker -> [Worker -> Seq({"hello", "block"})]]
          /\ \A a, b \in Worker :
               chan'[a][b] = IF a = w /\ b = j THEN <<"hello">> ELSE chan[a][b]
      <4>1. <<"hello">> \in Unread
        BY DEF Unread
      <4>2. TypeOK /\ j \in Worker
        BY <1>1
      <4> HIDE DEF HInv
      <4>3. QED
        BY <3>2, <4>1, <4>2, ChanUpdate
    <3>4. TypeOK' /\ failed' # "unknown"
      BY <1>1, <1>4, <2>1, <3>3 DEF TypeOK
    <3>5. Events'
      <4>1. ASSUME NEW b \in Worker, srv[b] # NoEvent
            PROVE  chan'[srv[b]][b] # <<>>
        BY <3>3, <4>1, UnreadDistinct DEF Events, TypeOK
      <4>2. QED
        BY <1>1, <4>1 DEF Events
    <3>6. ASSUME NEW a \in Worker, NEW b \in Worker
          PROVE  Link(a, b)'
      <4>1. Link(a, b)
        BY DEF Links
      <4>2. connected'[a] <= b => connected[a] <= b
        BY <2>1, <2>3 DEF Worker
      <4>3. CASE a = w /\ b = j
        <5>1. chan'[a][b] = <<"hello">> /\ ~ (connected'[a] <= b) /\ a # b
          BY <1>1, <2>1, <2>3, <2>5, <3>3, <4>3 DEF Worker, j
        <5>2. ~ BlockUnread(a, b)'
          BY <5>1, UnreadDistinct DEF BlockUnread
        <5>3. QED
          BY <1>1, <3>1, <4>1, <4>3, <5>1, <5>2 DEF Link, Unread
      <4>4. CASE ~ (a = w /\ b = j)
        <5>1. chan'[a][b] = chan[a][b]
          BY <3>3, <4>4
        <5>2. QED
          BY <1>1, <4>1, <4>2, <5>1 DEF Link, HelloUnread, BlockUnread
      <4>5. QED
        BY <4>3, <4>4
    <3>7. Links'
      BY <3>6 DEF Links
    <3>8. QED
      BY <1>2, <2>2, <3>4, <3>5, <3>7
  <2>6. QED
    BY <2>4, <2>5
<1>5. QED
  BY <1>3, <1>4 DEF Connect

\* All peers are known when the handshakes are counted.
LEMMA CloseStep ==
  ASSUME HInv, NEW w \in Worker, Close(w)
  PROVE  HInv'
<1> USE DEF HInv
<1>1. /\ UNCHANGED <<mpc, told, inited, reported, loaded, connected, listening, known, srv,
                      handler, got, recv_job_num, jobs, chan, failed>>
      /\ pc[w] = "connect" /\ connected[w] = M /\ recv_fd[w] >= M - 1
      /\ recv_fd' = [recv_fd EXCEPT ![w] = Closed]
      /\ pc' = [pc EXCEPT ![w] = "arm"]
  BY DEF Close, AllHellos, mastervars, srvvars
<1>2. \A j \in Worker : pc'[j] = IF j = w THEN "arm" ELSE pc[j]
  BY <1>1, PcUpdate
<1>3. \A j \in Worker : recv_fd'[j] = IF j = w THEN Closed ELSE recv_fd[j]
  BY <1>1 DEF TypeOK
<1>4. TypeOK'
  <2>1. pc' \in [Worker -> {"start", "load", "connect", "arm"} \cup Ready]
    BY <1>1 DEF TypeOK
  <2>2. recv_fd' \in [Worker -> (0 .. M - 1) \cup {Closed}]
    BY <1>1 DEF TypeOK
  <2>3. QED
    BY <1>1, <2>1, <2>2 DEF TypeOK
<1>5. Reports'
  BY <1>1, <1>2 DEF Reports, Sending
<1>6. Progress'
  BY <1>1, <1>2, <1>3 DEF Progress, Ready
<1>7. Counted'
  <2>1. recv_fd[w] # Closed
    BY <1>1 DEF Progress, Ready
  <2>2. known[w] \subseteq Peers(w) /\ recv_fd[w] = Cardinality(known[w])
    BY <2>1 DEF Counted
  <2>3. known[w] = Peers(w)
    BY <1>1, <2>2, PeerCount
  <2>4. QED
    BY <1>1, <1>3, <2>3 DEF Counted
<1>8. Events'
  BY <1>1, <1>3 DEF Events
<1>9. Links'
  BY <1>1, <1>2, LinksFrame DEF Sending
<1>10. JobCount'
  BY <1>1, <1>2, JobCountFrame DEF Ready
<1>11. LeavesWithBlocks' /\ failed' # "unknown"
  BY <1>1, <1>2 DEF LeavesWithBlocks
<1>12. QED
  BY <1>4, <1>5, <1>6, <1>7, <1>8, <1>9, <1>10, <1>11

\* What came before the counter is set is no longer counted.
LEMMA ArmStep ==
  ASSUME HInv, NEW w \in Worker, Arm(w)
  PROVE  HInv'
<1> USE DEF HInv
<1>1. /\ UNCHANGED <<mpc, told, inited, reported, loaded, connected, listening, known, srv,
                      handler, got, recv_fd, jobs, chan, failed>>
      /\ pc[w] = "arm"
      /\ recv_job_num' = [recv_job_num EXCEPT ![w] = M - 1]
      /\ pc' = [pc EXCEPT ![w] = "wait"]
  BY DEF Arm, SetCounter, mastervars, srvvars
<1>2. \A j \in Worker : pc'[j] = IF j = w THEN "wait" ELSE pc[j]
  BY <1>1, PcUpdate
<1>3. TypeOK'
  <2>1. pc' \in [Worker -> {"start", "load", "connect", "arm"} \cup Ready]
    BY <1>1 DEF TypeOK, Ready
  <2>2. recv_job_num' \in [Worker -> 1 - M .. M - 1]
    BY <1>1 DEF TypeOK
  <2>3. QED
    BY <1>1, <2>1, <2>2 DEF TypeOK
<1>4. Reports'
  BY <1>1, <1>2 DEF Reports, Sending
<1>5. Progress'
  BY <1>1, <1>2 DEF Progress, Ready
<1>6. Counted' /\ Events'
  BY <1>1, CountedFrame, EventsFrame
<1>7. Links'
  BY <1>1, <1>2, LinksFrame DEF Sending
<1>8. JobCount'
  <2>1. got[w] \subseteq Peers(w)
    BY DEF Links, Link, Peers, TypeOK
  <2>2. Cardinality(got[w]) \in 0 .. M - 1
    BY <2>1, PeerCount
  <2>3. recv_job_num'[w] = M - 1 /\ \A j \in Worker \ {w} : recv_job_num'[j] = recv_job_num[j]
    BY <1>1 DEF TypeOK
  <2>4. recv_job_num'[w] >= M - 1 - Cardinality(got'[w]) /\ recv_job_num'[w] <= M - 1
    BY <1>1, <2>2, <2>3
  <2>5. QED
    BY <1>1, <1>2, <2>3, <2>4 DEF JobCount, Ready
<1>9. LeavesWithBlocks' /\ failed' # "unknown"
  BY <1>1, <1>2 DEF LeavesWithBlocks
<1>10. QED
  BY <1>3, <1>4, <1>5, <1>6, <1>7, <1>8, <1>9

LEMMA ReadBeginStep ==
  ASSUME HInv, NEW w \in Worker, ReadBegin(w)
  PROVE  HInv'
<1> USE DEF HInv
<1>1. /\ UNCHANGED <<mpc, told, inited, reported, loaded, connected, listening, known, srv,
                      handler, got, recv_fd, recv_job_num, jobs, chan, failed>>
      /\ pc[w] = "wait" /\ mpc = "begin"
      /\ pc' = [pc EXCEPT ![w] = "compute"]
  BY DEF ReadBegin, mastervars, srvvars
<1>2. \A j \in Worker : pc'[j] = IF j = w THEN "compute" ELSE pc[j]
  BY <1>1, PcUpdate
<1>3. TypeOK'
  <2>1. pc' \in [Worker -> {"start", "load", "connect", "arm"} \cup Ready]
    BY <1>1 DEF TypeOK, Ready
  <2>2. QED
    BY <1>1, <2>1 DEF TypeOK
<1>4. Reports'
  BY <1>1, <1>2 DEF Reports, Sending
<1>5. Progress'
  BY <1>1, <1>2 DEF Progress, Ready
<1>6. Counted' /\ Events'
  BY <1>1, CountedFrame, EventsFrame
<1>7. Links'
  BY <1>1, <1>2, LinksFrame DEF Sending
<1>8. JobCount'
  BY <1>1, <1>2, JobCountFrame DEF Ready
<1>9. LeavesWithBlocks' /\ failed' # "unknown"
  BY <1>1, <1>2 DEF LeavesWithBlocks
<1>10. QED
  BY <1>3, <1>4, <1>5, <1>6, <1>7, <1>8, <1>9

LEMMA PushJobsStep ==
  ASSUME HInv, NEW w \in Worker, PushJobs(w)
  PROVE  HInv'
<1> USE DEF HInv
<1>1. /\ UNCHANGED <<mpc, told, inited, reported, loaded, connected, listening, known, srv,
                      handler, got, recv_fd, recv_job_num, chan, failed>>
      /\ pc[w] = "compute"
      /\ jobs' = [jobs EXCEPT ![w] = Peers(w)]
      /\ pc' = [pc EXCEPT ![w] = "spin"]
  BY DEF PushJobs, mastervars, srvvars
<1>2. \A j \in Worker : pc'[j] = IF j = w THEN "spin" ELSE pc[j]
  BY <1>1, PcUpdate
<1>3. \A j \in Worker : jobs'[j] = IF j = w THEN Peers(w) ELSE jobs[j]
  BY <1>1 DEF TypeOK
<1>4. TypeOK'
  <2>1. pc' \in [Worker -> {"start", "load", "connect", "arm"} \cup Ready]
    BY <1>1 DEF TypeOK, Ready
  <2>2. jobs' \in [Worker -> SUBSET Worker]
    BY <1>1 DEF TypeOK, Peers
  <2>3. QED
    BY <1>1, <2>1, <2>2 DEF TypeOK
<1>5. Reports'
  BY <1>1, <1>2 DEF Reports, Sending
<1>6. Progress'
  BY <1>1, <1>2, <1>3 DEF Progress, Ready
<1>7. Counted' /\ Events'
  BY <1>1, CountedFrame, EventsFrame
<1>8. Links'
  <2>1. ASSUME NEW a \in Worker, NEW b \in Worker
        PROVE  Link(a, b)'
    <3>1. Link(a, b)
      BY DEF Links
    <3>2. CASE a = w
      BY <1>1, <1>2, <3>1, <3>2 DEF Link, HelloUnread, BlockUnread, Sending
    <3>3. CASE a # w
      BY <1>1, <1>2, <1>3, <3>1, <3>3, LinkFrame
    <3>4. QED
      BY <3>2, <3>3
  <2>2. QED
    BY <2>1 DEF Links
<1>9. JobCount'
  BY <1>1, <1>2, JobCountFrame DEF Ready
<1>10. LeavesWithBlocks' /\ failed' # "unknown"
  BY <1>1, <1>2 DEF LeavesWithBlocks
<1>11. QED
  BY <1>4, <1>5, <1>6, <1>7, <1>8, <1>9, <1>10

\* The counter that has run down has counted every peer, whatever was forgotten.
LEMMA ExchangedStep ==
  ASSUME HInv, NEW w \in Worker, Exchanged(w)
  PROVE  HInv'
<1> USE DEF HInv
<1>1. /\ UNCHANGED <<mpc, told, inited, reported, loaded, connected, listening, known, srv,
                      handler, got, recv_fd, recv_job_num, jobs, chan, failed>>
      /\ pc[w] = "spin" /\ recv_job_num[w] = 0 /\ jobs[w] = {}
      /\ pc' = [pc EXCEPT ![w] = "done"]
  BY DEF Exchanged, mastervars, srvvars
<1>2. \A j \in Worker : pc'[j] = IF j = w THEN "done" ELSE pc[j]
  BY <1>1, PcUpdate
<1>3. TypeOK'
  <2>1. pc' \in [Worker -> {"start", "load", "connect", "arm"} \cup Ready]
    BY <1>1 DEF TypeOK, Ready
  <2>2. QED
    BY <1>1, <2>1 DEF TypeOK
<1>4. Reports'
  BY <1>1, <1>2 DEF Reports, Sending
<1>5. Progress'
  BY <1>1, <1>2 DEF Progress, Ready
<1>6. Counted' /\ Events'
  BY <1>1, CountedFrame, EventsFrame
<1>7. Links'
  BY <1>1, <1>2, LinksFrame DEF Sending
<1>8. JobCount'
  BY <1>1, <1>2, JobCountFrame DEF Ready
<1>9. LeavesWithBlocks' /\ failed' # "unknown"
  <2>1. got[w] \subseteq Peers(w)
    BY DEF Links, Link, Peers, TypeOK
  <2>2. Cardinality(got[w]) \in 0 .. M - 1
    BY <2>1, PeerCount
  <2>3. 0 >= M - 1 - Cardinality(got[w])
    BY <1>1 DEF JobCount, Ready
  <2>4. got[w] = Peers(w)
    BY <2>1, <2>2, <2>3, PeerCount
  <2>5. QED
    BY <1>1, <1>2, <2>4 DEF LeavesWithBlocks
<1>10. QED
  BY <1>3, <1>4, <1>5, <1>6, <1>7, <1>8, <1>9

\* A block is written behind the handshake, if that is still unread.
LEMMA SendBlockStep ==
  ASSUME HInv, NEW w \in Worker, NEW j \in Worker, SendBlock(w, j)
  PROVE  HInv'
<1> USE DEF HInv
<1>1. /\ UNCHANGED <<mpc, told, inited, reported, pc, loaded, connected, listening, known, srv,
                      handler, got, recv_fd, recv_job_num, failed>>
      /\ j \in jobs[w]
      /\ jobs' = [jobs EXCEPT ![w] = @ \ {j}]
      /\ chan' = [chan EXCEPT ![w][j] = Append(@, "block")]
  BY DEF SendBlock, mastervars, mainvars, srvvars
<1>2. pc[w] = "spin" /\ connected[w] = M /\ j # w
  BY <1>1 DEF Progress, Ready, Peers
<1>3. Link(w, j) /\ ~ BlockUnread(w, j) /\ w \notin got[j]
  BY <1>1, <1>2 DEF Links, Link, Sending
<1>4. chan[w][j] \in {<<>>, <<"hello">>}
  BY <1>3 DEF Link, BlockUnread, Unread
<1> DEFINE q == IF chan[w][j] = <<>> THEN <<"block">> ELSE <<"hello", "block">>
<1>5. Append(chan[w][j], "block") = q
  BY <1>4, UnreadFacts, UnreadDistinct
<1>6. chan' = [chan EXCEPT ![w][j] = q]
  <2>1. chan' = [chan EXCEPT ![w][j] = Append(chan[w][j], "block")]
    BY <1>1
  <2>2. QED
    BY <1>5, <2>1
<1>7. /\ q \in Unread /\ q # <<>>
      /\ q \in {<<"hello">>, <<"hello", "block">>} => HelloUnread(w, j)
  BY <1>4, UnreadDistinct DEF Unread, HelloUnread
<1> HIDE DEF q
<1>8. /\ chan' \in [Worker -> [Worker -> Seq({"hello", "block"})]]
      /\ \A a, b \in Worker : chan'[a][b] = IF a = w /\ b = j THEN q ELSE chan[a][b]
  BY <1>6, <1>7, ChanUpdate
<1>9. \A a \in Worker : jobs'[a] = IF a = w THEN jobs[w] \ {j} ELSE jobs[a]
  BY <1>1 DEF TypeOK
<1>10. TypeOK'
  <2>1. jobs' \in [Worker -> SUBSET Worker]
    BY <1>1 DEF TypeOK
  <2>2. QED
    BY <1>1, <1>8, <2>1 DEF TypeOK
<1>11. Reports' /\ Counted' /\ JobCount' /\ LeavesWithBlocks' /\ failed' # "unknown"
  BY <1>1, CountedFrame, JobCountFrame DEF Reports, LeavesWithBlocks
<1>12. Progress'
  BY <1>1, <1>2, <1>9 DEF Progress
<1>13. Events'
  <2>1. ASSUME NEW b \in Worker, srv[b] # NoEvent
        PROVE  chan'[srv[b]][b] # <<>>
    BY <1>7, <1>8, <2>1 DEF Events, TypeOK
  <2>2. QED
    BY <1>1, <2>1 DEF Events
<1>14. ASSUME NEW a \in Worker, NEW b \in Worker
       PROVE  Link(a, b)'
  <2>1. Link(a, b)
    BY DEF Links
  <2>2. CASE a = w /\ b = j
    <3>0. ~ (connected[w] <= j)
      BY <1>2 DEF Worker
    <3>1. chan'[w][j] = q /\ ~ (connected[w] <= j)
      BY <1>8, <3>0
    <3>2. HelloUnread(w, j)' => HelloUnread(w, j)
      BY <1>7, <3>1 DEF HelloUnread
    <3>3. j \notin jobs'[w]
      BY <1>9
    <3>4. QED
      BY <1>1, <1>2, <1>3, <1>7, <2>2, <3>1, <3>2, <3>3 DEF Link, Sending
  <2>3. CASE ~ (a = w /\ b = j)
    <3>1. chan'[a][b] = chan[a][b]
      BY <1>8, <2>3
    <3>2. b \in jobs'[a] <=> b \in jobs[a]
      BY <1>9, <2>3
    <3>3. QED
      BY <1>1, <2>1, <3>1, <3>2, LinkFrame
  <2>4. QED
    BY <2>2, <2>3
<1>15. Links'
  BY <1>14 DEF Links
<1>16. QED
  BY <1>10, <1>11, <1>12, <1>13, <1>15

-----------------------------------------------------------------------------
(* The steps of dpdk_server *)

LEMMA ListenStep ==
  ASSUME HInv, NEW w \in Worker, Listen(w)
  PROVE  HInv'
<1> USE DEF HInv
<1>1. /\ UNCHANGED <<mpc, told, inited, reported, pc, loaded, connected, known, srv, handler,
                      got, recv_fd, recv_job_num, jobs, chan, failed>>
      /\ listening' = listening \cup {w}
  BY DEF Listen, mastervars, mainvars
<1>2. TypeOK'
  BY <1>1 DEF TypeOK
<1>3. Reports' /\ Counted' /\ Events' /\ Progress'
  BY <1>1, CountedFrame, EventsFrame, ProgressFrame DEF Reports
<1>4. Links' /\ JobCount' /\ LeavesWithBlocks' /\ failed' # "unknown"
  BY <1>1, LinksFrame, JobCountFrame DEF LeavesWithBlocks
<1>5. QED
  BY <1>2, <1>3, <1>4

LEMMA DispatchStep ==
  ASSUME HInv, NEW w \in Worker, NEW j \in Worker, Dispatch(w, j)
  PROVE  HInv'
<1> USE DEF HInv
<1>1. /\ UNCHANGED <<mpc, told, inited, reported, pc, loaded, connected, listening, known,
                      got, recv_fd, recv_job_num, jobs, chan, failed>>
      /\ chan[j][w] # <<>>
      /\ srv' = [srv EXCEPT ![w] = j]
      /\ handler' = [handler EXCEPT ![w] = IF recv_fd[w] > -1 THEN "handshake" ELSE "block"]
  BY DEF Dispatch, mastervars, mainvars
<1>2. TypeOK'
  <2>1. srv' \in [Worker -> Worker \cup {NoEvent}]
    BY <1>1 DEF TypeOK
  <2>2. handler' \in [Worker -> {"none", "handshake", "block"}]
    BY <1>1 DEF TypeOK
  <2>3. QED
    BY <1>1, <2>1, <2>2 DEF TypeOK
<1>3. Reports' /\ Counted' /\ Progress'
  BY <1>1, CountedFrame, ProgressFrame DEF Reports
<1>4. Events'
  <2>1. ~ (recv_fd[w] > -1) => recv_fd[w] = Closed
    BY DEF TypeOK
  <2>2. handler'[w] = "block" => recv_fd[w] = Closed
    BY <1>1, <2>1 DEF TypeOK
  <2>3. srv'[w] = j /\ \A b \in Worker \ {w} : srv'[b] = srv[b] /\ handler'[b] = handler[b]
    BY <1>1 DEF TypeOK
  <2>4. QED
    BY <1>1, <2>2, <2>3 DEF Events
<1>5. Links' /\ JobCount' /\ LeavesWithBlocks' /\ failed' # "unknown"
  BY <1>1, LinksFrame, JobCountFrame DEF LeavesWithBlocks
<1>6. QED
  BY <1>2, <1>3, <1>4, <1>5

\* The event that is handled is that of a peer whose connection has something unread, and
\* what is left of it is a block or nothing.
LEMMA EndEventFacts ==
  ASSUME HInv, NEW w \in Worker, NEW j \in Worker, EndEvent(w, j)
  PROVE  /\ srv' \in [Worker -> Worker \cup {NoEvent}]
         /\ handler' \in [Worker -> {"none", "handshake", "block"}]
         /\ srv'[w] = NoEvent /\ handler'[w] = "none"
         /\ \A b \in Worker \ {w} : srv'[b] = srv[b] /\ handler'[b] = handler[b]
         /\ Link(j, w) /\ j # w /\ ~ (connected[j] <= w)
         /\ Head(chan[j][w]) = "hello" => HelloUnread(j, w)
         /\ ~ HelloUnread(j, w) => chan[j][w] = <<"block">> /\ chan'[j][w] = <<>>
         /\ chan'[j][w] \in {<<>>, <<"block">>}
         /\ chan'[j][w] = <<"block">> => BlockUnread(j, w)
         /\ chan' \in [Worker -> [Worker -> Seq({"hello", "block"})]]
         /\ \A a, b \in Worker : ~ (a = j /\ b = w) => chan'[a][b] = chan[a][b]
<1> USE DEF HInv
<1>1. /\ srv[w] = j
      /\ srv' = [srv EXCEPT ![w] = NoEvent]
      /\ handler' = [handler EXCEPT ![w] = "none"]
      /\ chan' = [chan EXCEPT ![j][w] = Tail(chan[j][w])]
  BY DEF EndEvent
<1>2. /\ srv' \in [Worker -> Worker \cup {NoEvent}]
      /\ srv'[w] = NoEvent /\ \A b \in Worker \ {w} : srv'[b] = srv[b]
  BY <1>1 DEF TypeOK
<1>3. /\ handler' \in [Worker -> {"none", "handshake", "block"}]
      /\ handler'[w] = "none" /\ \A b \in Worker \ {w} : handler'[b] = handler[b]
  BY <1>1 DEF TypeOK
<1>4. j # NoEvent
  BY DEF NoEvent, Worker
<1>5. Link(j, w) /\ chan[j][w] # <<>>
  BY <1>1, <1>4 DEF Events, Links
<1>6. j # w /\ ~ (connected[j] <= w)
  BY <1>5 DEF Link
<1>7. chan[j][w] \in {<<"hello">>, <<"hello", "block">>, <<"block">>}
  BY <1>5 DEF Link, Unread
<1> DEFINE q == IF chan[j][w] = <<"hello", "block">> THEN <<"block">> ELSE <<>>
<1>8. Tail(chan[j][w]) = q
  BY <1>7, UnreadFacts, UnreadDistinct
<1>9. /\ q \in Unread /\ q \in {<<>>, <<"block">>}
      /\ q = <<"block">> => BlockUnread(j, w)
      /\ ~ HelloUnread(j, w) => chan[j][w] = <<"block">> /\ q = <<>>
  BY <1>7, UnreadDistinct DEF Unread, BlockUnread, HelloUnread
<1>10. Head(chan[j][w]) = "hello" => HelloUnread(j, w)
  <2>1. CASE chan[j][w] = <<"block">>
    <3>1. Head(chan[j][w]) = "block"
      BY <2>1, UnreadFacts
    <3>2. QED
      BY <3>1
  <2>2. QED
    BY <1>7, <2>1 DEF HelloUnread
<1>11. chan' = [chan EXCEPT ![j][w] = q]
  BY <1>1, <1>8
<1> HIDE DEF q
<1>12. /\ chan' \in [Worker -> [Worker -> Seq({"hello", "block"})]]
       /\ \A a, b \in Worker : chan'[a][b] = IF a = j /\ b = w THEN q ELSE chan[a][b]
  BY <1>9, <1>11, ChanUpdate
<1>13. chan'[j][w] = q /\ \A a, b \in Worker : ~ (a = j /\ b = w) => chan'[a][b] = chan[a][b]
  BY <1>12
<1>14. QED
  BY <1>2, <1>3, <1>5, <1>6, <1>9, <1>10, <1>12, <1>13

\* The other events are not touched.
LEMMA EndEventEvents ==
  ASSUME HInv, NEW w \in Worker, NEW j \in Worker, EndEvent(w, j),
         \A b \in Worker \ {w} : recv_fd'[b] = recv_fd[b]
  PROVE  Events'
<1>1. ASSUME NEW b \in Worker
      PROVE  /\ srv'[b] # NoEvent => chan'[srv'[b]][b] # <<>>
             /\ handler'[b] = "block" => recv_fd'[b] = Closed
  <2>1. CASE b = w
    BY <2>1, EndEventFacts
  <2>2. CASE b # w
    <3>1. srv'[b] = srv[b] /\ handler'[b] = handler[b] /\ recv_fd'[b] = recv_fd[b]
      BY <2>2, EndEventFacts
    <3>2. srv[b] # NoEvent => srv[b] \in Worker
      BY DEF HInv, TypeOK
    <3>3. srv[b] # NoEvent => chan'[srv[b]][b] = chan[srv[b]][b]
      BY <2>2, <3>2, EndEventFacts
    <3>4. QED
      BY <3>1, <3>3 DEF HInv, Events
  <2>3. QED
    BY <2>1, <2>2
<1>2. QED
  BY <1>1 DEF Events

\* A handshake is read once, and its peer was not known before.
LEMMA HandleHelloStep ==
  ASSUME HInv, NEW w \in Worker, NEW j \in Worker, HandleHello(w, j)
  PROVE  HInv'
<1> USE DEF HInv
<1>1. /\ UNCHANGED <<mpc, told, inited, reported, pc, loaded, connected, listening,
                      got, recv_job_num, jobs>>
      /\ EndEvent(w, j)
  BY DEF HandleHello, mastervars, mainvars
<1>2. Reports' /\ JobCount' /\ LeavesWithBlocks'
  BY <1>1, JobCountFrame DEF Reports, LeavesWithBlocks
<1>3. ASSUME NEW a \in Worker, NEW b \in Worker, ~ (a = j /\ b = w),
             a \in known'[b] <=> a \in known[b]
      PROVE  Link(a, b)'
  <2>1. Link(a, b) /\ chan'[a][b] = chan[a][b]
    BY <1>1, <1>3, EndEventFacts DEF Links
  <2>2. QED
    BY <1>1, <1>3, <2>1 DEF Link, HelloUnread, BlockUnread
<1>4. Link(j, w)'
  <2>1. /\ Link(j, w) /\ j # w /\ ~ (connected'[j] <= w)
        /\ chan'[j][w] \in {<<>>, <<"block">>}
        /\ chan'[j][w] = <<"block">> => BlockUnread(j, w)
    BY <1>1, EndEventFacts
  <2>2. ~ HelloUnread(j, w)' /\ chan'[j][w] \in Unread
    BY <2>1, UnreadDistinct DEF HelloUnread, Unread
  <2>3. BlockUnread(j, w)' => BlockUnread(j, w)
    BY <2>1, UnreadDistinct DEF BlockUnread
  <2>4. QED
    BY <1>1, <2>1, <2>2, <2>3 DEF Link
<1>5. CASE UNCHANGED <<known, recv_fd>> /\ failed' \in {"length", "misread"}
  <2>1. TypeOK' /\ failed' # "unknown"
    BY <1>1, <1>5, EndEventFacts DEF TypeOK
  <2>2. Progress' /\ Counted' /\ Events'
    BY <1>1, <1>5, ProgressFrame, CountedFrame, EndEventEvents
  <2>3. Links'
    BY <1>3, <1>4, <1>5 DEF Links
  <2>4. QED
    BY <1>2, <2>1, <2>2, <2>3
<1>6. CASE Head(chan[j][w]) = "hello" /\ Accept(w, j) /\ UNCHANGED failed
  <2>1. j \in Peers(w) /\ j \notin known[w]
    BY <1>1, <1>6, EndEventFacts DEF Link, Peers
  <2>2. recv_fd[w] # Closed /\ known[w] \subseteq Peers(w) /\ recv_fd[w] = Cardinality(known[w])
    BY <2>1 DEF Counted
  <2>3. /\ known[w] \cup {j} \in SUBSET Peers(w)
        /\ Cardinality(known[w] \cup {j}) = recv_fd[w] + 1
        /\ recv_fd[w] \in 0 .. M - 1 /\ recv_fd[w] + 1 <= M - 1
    <3>1. known[w] \in SUBSET Peers(w)
      BY <2>2
    <3>2. /\ known[w] \cup {j} \in SUBSET Peers(w)
          /\ Cardinality(known[w] \cup {j}) = Cardinality(known[w]) + 1
          /\ Cardinality(known[w]) \in 0 .. M - 1 /\ Cardinality(known[w]) + 1 <= M - 1
      BY <2>1, <3>1, OneMore
    <3>3. QED
      BY <2>2, <3>2
  <2>4. /\ known' \in [Worker -> SUBSET Worker]
        /\ known'[w] = known[w] \cup {j}
        /\ \A b \in Worker \ {w} : known'[b] = known[b]
    BY <1>6 DEF Accept, TypeOK
  <2>5. /\ recv_fd' \in [Worker -> (0 .. M - 1) \cup {Closed}]
        /\ recv_fd'[w] = recv_fd[w] + 1
        /\ \A b \in Worker \ {w} : recv_fd'[b] = recv_fd[b]
    BY <1>6, <2>3 DEF Accept, TypeOK
  <2>6. recv_fd'[w] # Closed
    BY <2>3, <2>5 DEF Closed
  <2>7. TypeOK' /\ failed' # "unknown"
    BY <1>1, <1>6, <2>4, <2>5, EndEventFacts DEF TypeOK
  <2>8. Progress'
    <3>1. \A b \in Worker : recv_fd'[b] = Closed <=> recv_fd[b] = Closed
      BY <2>2, <2>5, <2>6
    <3>2. QED
      BY <1>1, <3>1 DEF Progress
  <2>9. Counted'
    <3>1. known'[w] \subseteq Peers(w) /\ recv_fd'[w] = Cardinality(known'[w])
      BY <2>3, <2>4, <2>5
    <3>2. QED
      BY <2>4, <2>5, <2>6, <3>1 DEF Counted
  <2>10. Events'
    BY <1>1, <2>5, EndEventEvents
  <2>11. Links'
    <3>1. ASSUME NEW a \in Worker, NEW b \in Worker, ~ (a = j /\ b = w)
          PROVE  a \in known'[b] <=> a \in known[b]
      BY <2>4, <3>1
    <3>2. QED
      BY <1>3, <1>4, <3>1 DEF Links
  <2>12. QED
    BY <1>2, <2>7, <2>8, <2>9, <2>10, <2>11
<1>7. QED
  BY <1>5, <1>6 DEF HandleHello

\* What is taken for a block is one: its peer is known, so the handshake has been read.
LEMMA HandleBlockStep ==
  ASSUME HInv, NEW w \in Worker, NEW j \in Worker, HandleBlock(w, j)
  PROVE  HInv'
<1> USE DEF HInv
<1>1. /\ UNCHANGED <<mpc, told, inited, reported, pc, loaded, connected, listening,
                      recv_fd, known, jobs>>
      /\ EndEvent(w, j) /\ handler[w] = "block"
  BY DEF HandleBlock, mastervars, mainvars
<1>2. j \in known[w]
  <2>1. known[w] = Peers(w)
    BY <1>1 DEF Events, Counted
  <2>2. QED
    BY <1>1, <2>1, EndEventFacts DEF Peers
<1>3. /\ recv_job_num' = [recv_job_num EXCEPT ![w] = @ - 1]
      /\ got' = [got EXCEPT ![w] = @ \cup {j}]
      /\ UNCHANGED failed
  BY <1>2 DEF HandleBlock
<1>4. /\ Link(j, w) /\ j # w /\ ~ (connected[j] <= w)
      /\ chan[j][w] = <<"block">> /\ chan'[j][w] = <<>>
  BY <1>1, <1>2, EndEventFacts DEF Link
<1>5. j \notin got[w] /\ pc[j] \in Sending /\ w \notin jobs[j]
  BY <1>4 DEF Link, BlockUnread
<1>6. /\ got' \in [Worker -> SUBSET Worker]
      /\ got'[w] = got[w] \cup {j}
      /\ \A b \in Worker \ {w} : got'[b] = got[b]
  BY <1>3 DEF TypeOK
<1>7. got[w] \subseteq Peers(w)
  BY DEF Links, Link, Peers, TypeOK
<1>8. /\ Cardinality(got'[w]) = Cardinality(got[w]) + 1
      /\ Cardinality(got[w]) \in 0 .. M - 1 /\ Cardinality(got[w]) + 1 <= M - 1
  <2>1. j \in Peers(w)
    BY <1>4 DEF Peers
  <2>2. got[w] \in SUBSET Peers(w) /\ j \notin got[w]
    BY <1>5, <1>7
  <2>3. /\ Cardinality(got[w] \cup {j}) = Cardinality(got[w]) + 1
        /\ Cardinality(got[w]) \in 0 .. M - 1 /\ Cardinality(got[w]) + 1 <= M - 1
    BY <2>1, <2>2, OneMore
  <2>4. QED
    BY <1>6, <2>3
<1>9. /\ recv_job_num[w] \in 1 - M .. M - 1
      /\ recv_job_num'[w] = recv_job_num[w] - 1
      /\ \A b \in Worker \ {w} : recv_job_num'[b] = recv_job_num[b]
  BY <1>3 DEF TypeOK
<1>10. IF pc[w] \in Ready THEN recv_job_num'[w] >= M - 1 - Cardinality(got'[w])
                                 /\ recv_job_num'[w] <= M - 1
                            ELSE recv_job_num'[w] = -Cardinality(got'[w])
  <2>1. IF pc[w] \in Ready THEN recv_job_num[w] >= M - 1 - Cardinality(got[w])
                                  /\ recv_job_num[w] <= M - 1
                             ELSE recv_job_num[w] = -Cardinality(got[w])
    BY DEF JobCount
  <2> HIDE DEF HInv
  <2>2. QED
    BY <1>8, <1>9, <2>1
<1>11. JobCount'
  BY <1>1, <1>6, <1>9, <1>10 DEF JobCount
<1>12. TypeOK' /\ failed' # "unknown"
  <2>1. recv_job_num'[w] \in 1 - M .. M - 1
    BY <1>8, <1>9, <1>10
  <2>2. recv_job_num' \in [Worker -> 1 - M .. M - 1]
    BY <1>3, <1>9, <2>1 DEF TypeOK
  <2>3. QED
    BY <1>1, <1>3, <1>6, <2>2, EndEventFacts DEF TypeOK
<1>13. Reports' /\ Progress' /\ Counted' /\ Events'
  BY <1>1, ProgressFrame, CountedFrame, EndEventEvents DEF Reports
<1>14. Links'
  <2>1. ASSUME NEW a \in Worker, NEW b \in Worker, ~ (a = j /\ b = w)
        PROVE  Link(a, b)'
    <3>1. Link(a, b) /\ chan'[a][b] = chan[a][b]
      BY <1>1, <2>1, EndEventFacts DEF Links
    <3>2. a \in got'[b] <=> a \in got[b]
      BY <1>6, <2>1
    <3>3. QED
      BY <1>1, <3>1, <3>2 DEF Link, HelloUnread, BlockUnread
  <2>2. Link(j, w)'
    <3>1. ~ HelloUnread(j, w)' /\ ~ BlockUnread(j, w)' /\ chan'[j][w] \in Unread
      BY <1>4, UnreadDistinct DEF HelloUnread, BlockUnread, Unread
    <3>2. QED
      BY <1>1, <1>4, <1>5, <3>1 DEF Link
  <2>3. QED
    BY <2>1, <2>2 DEF Links
<1>15. LeavesWithBlocks'
  <2>1. pc[w] # "done"
    BY <1>4, <1>5 DEF LeavesWithBlocks, Peers
  <2>2. QED
    BY <1>1, <1>6, <2>1 DEF LeavesWithBlocks
<1>16. QED
  BY <1>11, <1>12, <1>13, <1>14, <1>15

-----------------------------------------------------------------------------
(* The theorems *)

LEMMA InitHolds == Init => HInv
<1> SUFFICES ASSUME Init PROVE HInv
  OBVIOUS
<1>1. TypeOK
  <2>1. <<>> \in Seq({"hello", "block"})
    OBVIOUS
  <2>2. 0 \in 0 .. M /\ 0 \in 1 - M .. M - 1 /\ 0 \in (0 .. M - 1) \cup {Closed}
    OBVIOUS
  <2>3. chan \in [Worker -> [Worker -> Seq({"hello", "block"})]]
    BY <2>1 DEF Init
  <2>4. QED
    BY <2>2, <2>3 DEF Init, TypeOK
<1>2. Reports /\ Progress /\ Events
  BY DEF Init, Reports, Progress, Events, Sending, Ready, Closed
<1>3. \A w \in Worker : {} \subseteq Peers(w) /\ Cardinality({}) = 0
  BY FS_EmptySet
<1>4. Counted /\ JobCount
  BY <1>3 DEF Init, Counted, JobCount, Ready, Closed
<1>5. ASSUME NEW j \in Worker, NEW w \in Worker
      PROVE  Link(j, w)
  <2>1. /\ chan[j][w] = <<>> /\ connected[j] = 0 /\ known[w] = {} /\ got[w] = {}
        /\ pc[j] = "start"
    BY DEF Init
  <2>2. ~ HelloUnread(j, w) /\ ~ BlockUnread(j, w) /\ chan[j][w] \in Unread
    BY <2>1, UnreadDistinct DEF HelloUnread, BlockUnread, Unread
  <2>3. QED
    BY <2>1, <2>2 DEF Link
<1>6. Links
  BY <1>5 DEF Links
<1>7. LeavesWithBlocks /\ failed # "unknown"
  BY DEF Init, LeavesWithBlocks
<1>8. QED
  BY <1>1, <1>2, <1>4, <1>6, <1>7 DEF HInv

LEMMA StutterStep ==
  ASSUME HInv, UNCHANGED vars
  PROVE  HInv'
<1> USE DEF HInv
<1>1. UNCHANGED <<mpc, told, inited, reported, pc, loaded, connected, listening, known, srv,
                   handler, got, recv_fd, recv_job_num, jobs, chan, failed>>
  BY DEF vars, mastervars, mainvars, srvvars
<1>2. TypeOK' /\ Reports'
  BY <1>1 DEF TypeOK, Reports
<1>3. Progress' /\ Counted' /\ Events'
  BY <1>1, ProgressFrame, CountedFrame, EventsFrame
<1>4. Links' /\ JobCount' /\ LeavesWithBlocks' /\ failed' # "unknown"
  BY <1>1, LinksFrame, JobCountFrame DEF LeavesWithBlocks
<1>5. QED
  BY <1>2, <1>3, <1>4

LEMMA NextStep ==
  ASSUME HInv, [Next]_vars
  PROVE  HInv'
<1>1. CASE Master
  BY <1>1, ScheduleStep, MasterRest DEF Master
<1>2. ASSUME NEW w \in Worker, Main(w)
      PROVE  HInv'
  BY <1>2, LoadBlockStep, ReportStep, ConnectStep, CloseStep, ArmStep, ReadBeginStep,
     PushJobsStep, ExchangedStep DEF Main
<1>3. ASSUME NEW w \in Worker, Server(w)
      PROVE  HInv'
  BY <1>3, ListenStep, DispatchStep, HandleHelloStep, HandleBlockStep DEF Server
<1>4. ASSUME NEW w \in Worker, NEW j \in Worker, SendBlock(w, j)
      PROVE  HInv'
  BY <1>4, SendBlockStep
<1>5. CASE UNCHANGED vars
  BY <1>5, StutterStep
<1>6. QED
  BY <1>1, <1>2, <1>3, <1>4, <1>5 DEF Next

\* The invariant that all of the following rest on.
THEOREM HandshakeInductive == Spec => []HInv
<1>1. HInv /\ [Next]_vars => HInv'
  BY NextStep
<1>2. QED
  BY InitHolds, <1>1, PTL DEF Spec

\* The state of the start-up keeps its types: the counts stay within the number of
\* workers, and recv_fd is a count until it is closed (CE_Graph_engine.hpp, run).
THEOREM HandshakeTypeCorrect == Spec => []TypeOK
<1>1. HInv => TypeOK
  BY DEF HInv
<1>2. QED
  BY HandshakeInductive, <1>1, PTL

\* When the loop while(recv_fd < M-1){} has fallen through, in_infos is complete, and
\* dpdk_block_event finds its peer.
THEOREM PeersKnownHolds == Spec => []PeersKnown
<1>1. HInv => PeersKnown
  BY DEF HInv, Counted, PeersKnown
<1>2. QED
  BY HandshakeInductive, <1>1, PTL

\* The master's barrier on the reports keeps crucial_updates of every worker behind the
\* loading of all workers.
THEOREM LoadedBeforeComputeHolds == Spec => []LoadedBeforeCompute
<1>1. HInv => LoadedBeforeCompute
  <2>1. SUFFICES ASSUME HInv, NEW w \in Worker, pc[w] \in {"compute", "spin", "done"},
                        NEW j \in Worker
                 PROVE  loaded[j] = M
    BY DEF LoadedBeforeCompute
  <2>2. inited = Worker
    BY <2>1 DEF HInv, Reports, Sending
  <2>3. j \in reported
    BY <2>1, <2>2 DEF HInv, TypeOK
  <2>4. QED
    BY <2>1, <2>3 DEF HInv, Reports
<1>2. QED
  BY HandshakeInductive, <1>1, PTL

\* No worker leaves its first exchange without the block of every peer: what was counted
\* too early makes it wait, never leave.
THEOREM LeavesWithBlocksHolds == Spec => []LeavesWithBlocks
<1>1. HInv => LeavesWithBlocks
  BY DEF HInv
<1>2. QED
  BY HandshakeInductive, <1>1, PTL

=============================================================================
