---------------------------- MODULE UdpDnsProofs ----------------------------
(***************************************************************************)
(* Proofs about UdpDns for any number of sessions, workers, resolvers, job *)
(* slots and held frames.                                                  *)
(***************************************************************************)
EXTENDS UdpDns, TLAPS

(* What the phases of stop and start say about the threads. *)
PhaseInv ==
  /\ \A w \in Workers : exited[w] =>
       scan[w] = 0 /\ \A s \in Sessions : home[s] # w
  /\ phase \in {"joined", "down", "starting"} =>
       \A r \in Resolvers : res[r].pc = "exited"
  /\ phase = "down" => \A w \in Workers : exited[w]
  /\ phase = "starting" =>
       /\ \A s \in Sessions : home[s] = NoWorker
       /\ \A w \in Workers, i \in Job : jobs[w][i] = FreeJob
  /\ \A r \in Resolvers :
       res[r].pc \in {"resolving", "wake"} => res[r].req \in Request

IInv ==
  /\ TypeOK /\ PhaseInv /\ InflightTracked
  /\ DoneIsSignalled /\ OneJobPerHost /\ PendHasJob

(* udp_dns_job_find and Current only see busy jobs; a free job is FreeJob. *)
LEMMA JobKinds ==
  ASSUME TypeOK, NEW w \in Workers, NEW i \in Job
  PROVE  \/ jobs[w][i] = FreeJob /\ jobs[w][i].state = "FREE"
         \/ jobs[w][i] \in [state : Busy, for : Frame] /\ jobs[w][i].state # "FREE"
BY DEF TypeOK, FreeJob, Busy

(* dns_cache_put keeps the cache well typed. *)
LEMMA CachePut ==
  ASSUME cache \in [Hosts -> SUBSET Ports], NEW h \in Hosts, NEW p \in Ports
  PROVE  [cache EXCEPT ![h] = @ \cup {p}] \in [Hosts -> SUBSET Ports]
OBVIOUS

(* A resolver stores its result in a job in flight and changes nothing else *)
(* of the table.                                                            *)
LEMMA StoreEffect ==
  ASSUME TypeOK, PhaseInv, InflightTracked, NEW r \in Resolvers, ResolverStore(r)
  PROVE  LET q == res[r].req
         IN /\ q \in Request /\ q.w \in Workers /\ q.i \in Job
            /\ phase # "starting" /\ jobs[q.w][q.i].state = "INFLIGHT"
            /\ jobs'[q.w][q.i].state \in {"OK", "FAIL"}
            /\ jobs'[q.w][q.i].for = jobs[q.w][q.i].for
            /\ \A w \in Workers, i \in Job :
                 w # q.w \/ i # q.i => jobs'[w][i] = jobs[w][i]
            /\ jobs' \in [Workers -> [Job -> {FreeJob} \cup [state : Busy, for : Frame]]]
<1> DEFINE q == res[r].req
<1>1. q \in Request /\ phase # "starting"
  BY DEF ResolverStore, PhaseInv
<1>2. q.w \in Workers /\ q.i \in Job
  BY <1>1 DEF Request
<1>3. Current(q)
  BY <1>1 DEF ResolverStore, InflightTracked
<1>4. jobs[q.w][q.i] \in [state : Busy, for : Frame] /\ jobs[q.w][q.i].state = "INFLIGHT"
  BY <1>2, <1>3 DEF Current, FreeJob, TypeOK
<1>5. PICK result \in {"OK", "FAIL"} :
        jobs' = [jobs EXCEPT ![q.w][q.i] = [jobs[q.w][q.i] EXCEPT !.state = result]]
  BY DEF ResolverStore
<1> DEFINE new == [jobs[q.w][q.i] EXCEPT !.state = result]
<1>6. new \in [state : Busy, for : Frame] /\ new.state = result /\ new.for = jobs[q.w][q.i].for
  BY <1>4 DEF Busy
<1>7. jobs' = [jobs EXCEPT ![q.w][q.i] = new]
  BY <1>5
<1> HIDE DEF new, q
<1>8. /\ jobs' \in [Workers -> [Job -> {FreeJob} \cup [state : Busy, for : Frame]]]
      /\ jobs'[q.w][q.i] = new
      /\ \A w \in Workers, i \in Job :
           w # q.w \/ i # q.i => jobs'[w][i] = jobs[w][i]
  BY <1>2, <1>6, <1>7 DEF TypeOK
<1> QED BY <1>1, <1>2, <1>4, <1>6, <1>8 DEF q

(* Busy jobs stay busy and keep their names. *)
LEMMA StoreKeeps ==
  ASSUME IInv, NEW r \in Resolvers, ResolverStore(r)
  PROVE  \A w \in Workers, i \in Job :
           /\ jobs'[w][i].state # "FREE" <=> jobs[w][i].state # "FREE"
           /\ jobs'[w][i].for = jobs[w][i].for
BY StoreEffect DEF IInv

(* Types, the bound of the queue and the range of a drain are kept. *)
LEMMA TypeStep ==
  ASSUME IInv, Next
  PROVE  TypeOK'
<1> USE UdpDnsAssumption DEF IInv, TypeOK, Job, Pend, Busy
<1>1. ASSUME NEW s \in Sessions, NEW w \in Workers, OpenSession(s, w)
      PROVE  TypeOK'
  BY <1>1 DEF OpenSession, NoPend
<1>2. ASSUME NEW s \in Sessions, CloseSession(s) PROVE TypeOK'
  BY <1>2 DEF CloseSession, NoPend, InLoop
<1>3. ASSUME NEW s \in Sessions, NEW f \in Frame, RouteCached(s, f)
      PROVE  TypeOK'
  BY <1>3 DEF RouteCached, Arrives
<1>4. ASSUME NEW s \in Sessions, NEW f \in Frame, NEW fits \in BOOLEAN, DeferJoin(s, f, fits)
      PROVE  TypeOK'
  BY <1>4 DEF DeferJoin, Arrives, Hold
<1>5. ASSUME NEW s \in Sessions, NEW f \in Frame, NEW fits \in BOOLEAN, DeferNew(s, f, fits)
      PROVE  TypeOK'
  <2>1. PICK i \in Job :
          /\ jobs' = [jobs EXCEPT ![home[s]][i] = JobAfterEnqueue(f, QueueHasRoom)]
          /\ queue' = IF QueueHasRoom
                      THEN Append(queue, [w |-> home[s], i |-> i, host |-> f.host])
                      ELSE queue
    BY <1>5 DEF DeferNew, udp_dns_job_alloc
  <2>2. home[s] \in Workers
    BY <1>5 DEF DeferNew, Arrives, InLoop
  <2>3. JobAfterEnqueue(f, QueueHasRoom) \in {FreeJob} \cup [state : Busy, for : Frame]
    BY DEF JobAfterEnqueue
  <2>4. jobs' \in [Workers -> [Job -> {FreeJob} \cup [state : Busy, for : Frame]]]
    BY <2>1, <2>2, <2>3
  <2>5. [w |-> home[s], i |-> i, host |-> f.host] \in Request
    BY <2>2 DEF Request, Frame
  <2>6. queue' \in Seq(Request) /\ Len(queue') <= QueueMax
    BY <2>1, <2>5 DEF QueueHasRoom
  <2>7. pend' \in [Sessions -> [Pend -> Frame \cup {NoFrame}]]
    BY <1>5 DEF DeferNew, Hold
  <2> QED BY <1>5, <2>4, <2>6, <2>7 DEF DeferNew, Arrives
<1>6. ASSUME NEW s \in Sessions, NEW f \in Frame, DeferJobsFull(s, f)
      PROVE  TypeOK'
  BY <1>6 DEF DeferJobsFull, Arrives
<1>7. ASSUME NEW h \in Hosts, CacheExpire(h) PROVE TypeOK'
  BY <1>7 DEF CacheExpire
<1>8. ASSUME NEW r \in Resolvers, ResolverTake(r) PROVE TypeOK'
  BY <1>8 DEF ResolverTake
<1>9. ASSUME NEW r \in Resolvers, ResolverStore(r) PROVE TypeOK'
  <2>1. jobs' \in [Workers -> [Job -> {FreeJob} \cup [state : Busy, for : Frame]]]
    <3> HIDE DEF TypeOK
    <3> QED BY <1>9, StoreEffect DEF IInv
  <2>2. res' \in [Resolvers -> [pc : {"idle", "resolving", "wake", "exited"},
                                req : Request \cup {NoReq}]]
    <3>1. res \in [Resolvers -> [pc : {"idle", "resolving", "wake", "exited"},
                                 req : Request \cup {NoReq}]]
      OBVIOUS
    <3>2. res' = [res EXCEPT ![r].pc = "wake"]
      BY <1>9 DEF ResolverStore
    <3> HIDE DEF IInv, TypeOK
    <3> QED BY <3>1, <3>2
  <2>3. TypeOK
    BY DEF IInv
  <2> HIDE DEF IInv
  <2> QED BY <1>9, <2>1, <2>2, <2>3 DEF ResolverStore
<1>10. ASSUME NEW r \in Resolvers, ResolverWake(r) PROVE TypeOK'
  BY <1>10 DEF ResolverWake, udp_dns_wake_worker
<1>11. ASSUME NEW r \in Resolvers, ResolverExit(r) PROVE TypeOK'
  BY <1>11 DEF ResolverExit
<1>12. ASSUME NEW w \in Workers, DrainStart(w) PROVE TypeOK'
  BY <1>12 DEF DrainStart, InLoop
<1>13. ASSUME NEW w \in Workers, DrainSkip(w) PROVE TypeOK'
  BY <1>13 DEF DrainSkip, ScanNext
<1>14. ASSUME NEW w \in Workers, DrainDone(w) PROVE TypeOK'
  <2> DEFINE j == jobs[w][scan[w]]
  <2>1. scan[w] \in Job /\ j \in [state : Busy, for : Frame]
    BY <1>14 DEF DrainDone, FreeJob
  <2>2. j.for.host \in Hosts /\ j.for.port \in Ports
    BY <2>1 DEF Frame
  <2>3. pend' = Released(w, j.for.host)
    BY <1>14 DEF DrainDone, FlushPending, udp_dns_drop_pending
  <2>4. pend' \in [Sessions -> [Pend -> Frame \cup {NoFrame}]]
    BY <2>3 DEF Released
  <2>5. \/ cache' = [cache EXCEPT ![j.for.host] = @ \cup {j.for.port}]
        \/ cache' = cache
    BY <1>14 DEF DrainDone, FlushPending
  <2>6. cache' \in [Hosts -> SUBSET Ports]
    <3>1. cache \in [Hosts -> SUBSET Ports]
      OBVIOUS
    <3> HIDE DEF IInv, TypeOK, j
    <3> QED BY <2>2, <2>5, <3>1, CachePut
  <2>7. misrouted' \in BOOLEAN
    BY <1>14 DEF DrainDone, FlushPending
  <2>8. jobs' \in [Workers -> [Job -> {FreeJob} \cup [state : Busy, for : Frame]]]
    BY <1>14, <2>1 DEF DrainDone
  <2>9. scan' \in [Workers -> 0..JobCount]
    BY <1>14, <2>1 DEF DrainDone, ScanNext
  <2> QED BY <1>14, <2>4, <2>6, <2>7, <2>8, <2>9 DEF DrainDone
<1>15. ASSUME NEW w \in Workers, WorkerExit(w) PROVE TypeOK'
  BY <1>15 DEF WorkerExit, InLoop, NoPend
<1>16. ASSUME StartWorkers PROVE TypeOK'
  BY <1>16 DEF StartWorkers, Phase, FreeJob
<1>17. ASSUME StartResolvers PROVE TypeOK'
  BY <1>17 DEF StartResolvers, Phase, EmptyQueue
<1>18. ASSUME QuitFlag \/ Stop PROVE TypeOK'
  BY <1>18 DEF QuitFlag, Stop, QuitDnsStop, QuitDnsJoin, QuitUdp, Quit, Phase,
          ResolversJoined
<1> HIDE DEF IInv, TypeOK
<1> QED BY <1>1, <1>2, <1>3, <1>4, <1>5, <1>6, <1>7, <1>8, <1>9, <1>10,
           <1>11, <1>12, <1>13, <1>14, <1>15, <1>16, <1>17, <1>18
        DEF Next, udp_route_frame, Resolver, udp_dns_drain, Stop
(* Every step respects the order of stop and start. *)
LEMMA PhaseStep ==
  ASSUME IInv, Next
  PROVE  PhaseInv'
<1> USE UdpDnsAssumption DEF IInv, TypeOK, PhaseInv, Job, InflightTracked
<1>1. ASSUME NEW s \in Sessions, NEW w \in Workers, OpenSession(s, w)
      PROVE  PhaseInv'
  BY <1>1 DEF OpenSession, NoPend
<1>2. ASSUME NEW s \in Sessions, CloseSession(s) PROVE PhaseInv'
  BY <1>2 DEF CloseSession, NoPend, InLoop
<1>3. ASSUME NEW s \in Sessions, NEW f \in Frame, RouteCached(s, f)
      PROVE  PhaseInv'
  BY <1>3 DEF RouteCached, Arrives
<1>4. ASSUME NEW s \in Sessions, NEW f \in Frame, NEW fits \in BOOLEAN, DeferJoin(s, f, fits)
      PROVE  PhaseInv'
  BY <1>4 DEF DeferJoin, Arrives, Hold
<1>5. ASSUME NEW s \in Sessions, NEW f \in Frame, NEW fits \in BOOLEAN, DeferNew(s, f, fits)
      PROVE  PhaseInv'
  BY <1>5 DEF DeferNew, Arrives, Hold, JobAfterEnqueue, QueueHasRoom, FreeJob,
          udp_dns_job_alloc
<1>6. ASSUME NEW s \in Sessions, NEW f \in Frame, DeferJobsFull(s, f)
      PROVE  PhaseInv'
  BY <1>6 DEF DeferJobsFull, Arrives
<1>7. ASSUME NEW h \in Hosts, CacheExpire(h) PROVE PhaseInv'
  BY <1>7 DEF CacheExpire
<1>8. ASSUME NEW r \in Resolvers, ResolverTake(r) PROVE PhaseInv'
  BY <1>8 DEF ResolverTake
<1>9. ASSUME NEW r \in Resolvers, ResolverStore(r) PROVE PhaseInv'
  <2>1. phase \notin {"joined", "down", "starting"}
    BY <1>9 DEF ResolverStore
  <2>2. \A t \in Resolvers :
          /\ res'[t].req = res[t].req
          /\ res'[t].pc \in {"resolving", "wake"} => res[t].pc \in {"resolving", "wake"}
    BY <1>9 DEF ResolverStore
  <2>3. PhaseInv /\ UNCHANGED <<phase, exited, scan, home>>
    BY <1>9 DEF IInv, ResolverStore
  <2> HIDE DEF IInv, TypeOK, InflightTracked
  <2> QED BY <2>1, <2>2, <2>3
<1>10. ASSUME NEW r \in Resolvers, ResolverWake(r) PROVE PhaseInv'
  BY <1>10 DEF ResolverWake, udp_dns_wake_worker
<1>11. ASSUME NEW r \in Resolvers, ResolverExit(r) PROVE PhaseInv'
  BY <1>11 DEF ResolverExit
<1>12. ASSUME NEW w \in Workers, DrainStart(w) PROVE PhaseInv'
  BY <1>12 DEF DrainStart, InLoop
<1>13. ASSUME NEW w \in Workers, DrainSkip(w) PROVE PhaseInv'
  BY <1>13 DEF DrainSkip, ScanNext
<1>14. ASSUME NEW w \in Workers, DrainDone(w) PROVE PhaseInv'
  <2>1. phase # "starting" /\ ~exited[w]
    BY <1>14 DEF DrainDone, FreeJob
  <2>2. /\ UNCHANGED <<phase, exited, res, home>>
        /\ \A v \in Workers : v # w => scan'[v] = scan[v]
    BY <1>14 DEF DrainDone, ScanNext
  <2>3. PhaseInv
    BY DEF IInv
  <2> HIDE DEF IInv, TypeOK, InflightTracked
  <2> QED BY <2>1, <2>2, <2>3
<1>15. ASSUME NEW w \in Workers, WorkerExit(w) PROVE PhaseInv'
  BY <1>15 DEF WorkerExit, InLoop, NoPend
<1>16. ASSUME StartWorkers PROVE PhaseInv'
  BY <1>16 DEF StartWorkers, Phase, FreeJob
<1>17. ASSUME StartResolvers PROVE PhaseInv'
  BY <1>17 DEF StartResolvers, Phase, EmptyQueue
<1>18. ASSUME QuitFlag \/ Stop PROVE PhaseInv'
  BY <1>18 DEF QuitFlag, Stop, QuitDnsStop, QuitDnsJoin, QuitUdp, Quit, Phase,
          ResolversJoined
<1> HIDE DEF IInv, TypeOK, PhaseInv, InflightTracked
<1> QED BY <1>1, <1>2, <1>3, <1>4, <1>5, <1>6, <1>7, <1>8, <1>9, <1>10,
           <1>11, <1>12, <1>13, <1>14, <1>15, <1>16, <1>17, <1>18
        DEF Next, udp_route_frame, Resolver, udp_dns_drain, Stop
(* PendHasJob is about sessions, held frames and jobs only. *)
LEMMA PendFrame ==
  ASSUME PendHasJob, UNCHANGED <<home, pend, jobs>>
  PROVE  PendHasJob'
BY DEF PendHasJob, udp_dns_job_find

(* A held frame keeps its job. *)
LEMMA PendStep ==
  ASSUME IInv, Next
  PROVE  PendHasJob'
<1> USE UdpDnsAssumption DEF IInv, TypeOK, PhaseInv, PendHasJob,
        udp_dns_job_find, Job, Pend
<1>1. ASSUME NEW s \in Sessions, NEW w \in Workers, OpenSession(s, w)
      PROVE  PendHasJob'
  BY <1>1 DEF OpenSession, NoPend
<1>2. ASSUME NEW s \in Sessions, CloseSession(s) PROVE PendHasJob'
  BY <1>2 DEF CloseSession, NoPend, InLoop
<1>3. ASSUME NEW s \in Sessions, NEW f \in Frame, RouteCached(s, f)
      PROVE  PendHasJob'
  <2> HIDE DEF PendHasJob, TypeOK, PhaseInv
  <2> QED BY <1>3, PendFrame DEF IInv, RouteCached
<1>4. ASSUME NEW s \in Sessions, NEW f \in Frame, NEW fits \in BOOLEAN, DeferJoin(s, f, fits)
      PROVE  PendHasJob'
  <2>1. UNCHANGED <<home, jobs>> /\ udp_dns_job_find(home[s], f.host) # {}
    BY <1>4 DEF DeferJoin
  <2>2. ASSUME NEW t \in Sessions, NEW k \in Pend, pend'[t][k] # NoFrame
        PROVE  pend'[t][k] = pend[t][k] \/ (t = s /\ pend'[t][k] = f)
    BY <1>4, <2>2 DEF DeferJoin, Hold
  <2>3. PendHasJob /\ f.host \in Hosts
    BY DEF IInv, Frame
  <2> HIDE DEF IInv, TypeOK, PhaseInv
  <2> QED BY <2>1, <2>2, <2>3
<1>5. ASSUME NEW s \in Sessions, NEW f \in Frame, NEW fits \in BOOLEAN, DeferNew(s, f, fits)
      PROVE  PendHasJob'
  <2> DEFINE w == home[s]
  <2>1. PICK i \in Job :
          /\ jobs[w][i].state = "FREE"
          /\ jobs' = [jobs EXCEPT ![w][i] = JobAfterEnqueue(f, QueueHasRoom)]
    BY <1>5 DEF DeferNew, udp_dns_job_alloc
  <2>2. w \in Workers /\ home' = home
    BY <1>5 DEF DeferNew, Arrives, InLoop
  <2>3. \A v \in Workers, n \in Job :
          jobs[v][n].state # "FREE" => jobs'[v][n] = jobs[v][n]
    BY <2>1, <2>2
  <2>4. ASSUME NEW t \in Sessions, NEW k \in Pend, pend'[t][k] # NoFrame
        PROVE  \/ pend'[t][k] = pend[t][k]
               \/ t = s /\ QueueHasRoom /\ pend'[t][k] = f
    BY <1>5, <2>4 DEF DeferNew, Hold
  <2>5. QueueHasRoom => jobs'[w][i] = [state |-> "INFLIGHT", for |-> f]
    BY <2>1, <2>2 DEF JobAfterEnqueue
  <2>6. PendHasJob
    BY DEF IInv
  <2>7. home \in [Sessions -> Workers \cup {NoWorker}]
    OBVIOUS
  <2> HIDE DEF w, IInv, TypeOK, PhaseInv
  <2>8. ASSUME NEW t \in Sessions, NEW k \in Pend, home'[t] # NoWorker,
               pend'[t][k] # NoFrame
        PROVE  \E n \in Job : /\ jobs'[home'[t]][n].state # "FREE"
                              /\ jobs'[home'[t]][n].for.host = pend'[t][k].host
    <3>1. CASE pend'[t][k] = pend[t][k]
      <4>1. PICK n \in Job : /\ jobs[home[t]][n].state # "FREE"
                             /\ jobs[home[t]][n].for.host = pend[t][k].host
        BY <2>2, <2>6, <2>8, <3>1
      <4> QED BY <2>2, <2>3, <2>7, <2>8, <3>1, <4>1
    <3>2. CASE t = s /\ QueueHasRoom /\ pend'[t][k] = f
      <4>1. home'[t] = w
        BY <2>2, <3>2 DEF w
      <4> QED BY <2>5, <3>2, <4>1
    <3> QED BY <2>4, <2>8, <3>1, <3>2
  <2> QED BY <2>8
<1>6. ASSUME NEW s \in Sessions, NEW f \in Frame, DeferJobsFull(s, f)
      PROVE  PendHasJob'
  <2> HIDE DEF PendHasJob, TypeOK, PhaseInv
  <2> QED BY <1>6, PendFrame DEF IInv, DeferJobsFull
<1>7. ASSUME NEW h \in Hosts, CacheExpire(h) PROVE PendHasJob'
  <2> HIDE DEF PendHasJob, TypeOK, PhaseInv
  <2> QED BY <1>7, PendFrame DEF IInv, CacheExpire
<1>8. ASSUME NEW r \in Resolvers, ResolverTake(r) PROVE PendHasJob'
  <2> HIDE DEF PendHasJob, TypeOK, PhaseInv
  <2> QED BY <1>8, PendFrame DEF IInv, ResolverTake
<1>9. ASSUME NEW r \in Resolvers, ResolverStore(r) PROVE PendHasJob'
  <2>1. \A w \in Workers, i \in Job : jobs[w][i].state # "FREE" =>
          jobs'[w][i].state # "FREE" /\ jobs'[w][i].for = jobs[w][i].for
    BY <1>9, StoreKeeps
  <2>2. UNCHANGED <<home, pend>>
    BY <1>9 DEF ResolverStore
  <2>3. PendHasJob /\ home \in [Sessions -> Workers \cup {NoWorker}]
    BY DEF IInv
  <2> HIDE DEF IInv, TypeOK, PhaseInv
  <2> QED BY <2>1, <2>2, <2>3
<1>10. ASSUME NEW r \in Resolvers, ResolverWake(r) PROVE PendHasJob'
  <2> HIDE DEF PendHasJob, TypeOK, PhaseInv
  <2> QED BY <1>10, PendFrame DEF IInv, ResolverWake
<1>11. ASSUME NEW r \in Resolvers, ResolverExit(r) PROVE PendHasJob'
  <2> HIDE DEF PendHasJob, TypeOK, PhaseInv
  <2> QED BY <1>11, PendFrame DEF IInv, ResolverExit
<1>12. ASSUME NEW w \in Workers, DrainStart(w) PROVE PendHasJob'
  <2> HIDE DEF PendHasJob, TypeOK, PhaseInv
  <2> QED BY <1>12, PendFrame DEF IInv, DrainStart
<1>13. ASSUME NEW w \in Workers, DrainSkip(w) PROVE PendHasJob'
  <2> HIDE DEF PendHasJob, TypeOK, PhaseInv
  <2> QED BY <1>13, PendFrame DEF IInv, DrainSkip
<1>14. ASSUME NEW w \in Workers, DrainDone(w) PROVE PendHasJob'
  <2> DEFINE j == jobs[w][scan[w]]
  <2>1. pend' = Released(w, j.for.host)
    BY <1>14 DEF DrainDone, FlushPending, udp_dns_drop_pending
  <2>2. jobs' = [jobs EXCEPT ![w][scan[w]] = FreeJob]
    BY <1>14 DEF DrainDone
  <2>3. ASSUME NEW t \in Sessions, NEW k \in Pend, pend'[t][k] # NoFrame
        PROVE  /\ pend'[t][k] = pend[t][k]
               /\ home[t] = w => pend[t][k].host # j.for.host
    BY <2>1, <2>3 DEF Released, HeldFor
  <2>4. \A v \in Workers, n \in Job :
          v # w \/ n # scan[w] => jobs'[v][n] = jobs[v][n]
    BY <2>2
  <2>5. PendHasJob /\ home' = home /\ home \in [Sessions -> Workers \cup {NoWorker}]
    BY <1>14 DEF IInv, DrainDone
  <2> HIDE DEF IInv, TypeOK, PhaseInv
  <2>6. ASSUME NEW t \in Sessions, NEW k \in Pend, home'[t] # NoWorker,
               pend'[t][k] # NoFrame
        PROVE  \E n \in Job : /\ jobs'[home'[t]][n].state # "FREE"
                              /\ jobs'[home'[t]][n].for.host = pend'[t][k].host
    <3>1. PICK n \in Job : /\ jobs[home[t]][n].state # "FREE"
                           /\ jobs[home[t]][n].for.host = pend[t][k].host
      BY <2>3, <2>5, <2>6
    <3>2. home[t] # w \/ n # scan[w]
      BY <2>3, <2>6, <3>1
    <3> HIDE DEF PendHasJob
    <3> QED BY <2>3, <2>4, <2>5, <2>6, <3>1, <3>2
  <2> QED BY <2>6
<1>15. ASSUME NEW w \in Workers, WorkerExit(w) PROVE PendHasJob'
  BY <1>15 DEF WorkerExit, InLoop, NoPend
<1>16. ASSUME StartWorkers PROVE PendHasJob'
  BY <1>16 DEF StartWorkers, Phase, FreeJob
<1>17. ASSUME StartResolvers PROVE PendHasJob'
  <2> HIDE DEF PendHasJob, TypeOK, PhaseInv
  <2> QED BY <1>17, PendFrame DEF IInv, StartResolvers, Phase
<1>18. ASSUME QuitFlag \/ Stop PROVE PendHasJob'
  <2> HIDE DEF PendHasJob, TypeOK, PhaseInv
  <2> QED BY <1>18, PendFrame DEF IInv, QuitFlag, Stop, QuitDnsStop,
          QuitDnsJoin,
                 QuitUdp, Quit, Phase
<1> HIDE DEF IInv, TypeOK, PhaseInv, PendHasJob, udp_dns_job_find
<1> QED BY <1>1, <1>2, <1>3, <1>4, <1>5, <1>6, <1>7, <1>8, <1>9, <1>10,
           <1>11, <1>12, <1>13, <1>14, <1>15, <1>16, <1>17, <1>18
        DEF Next, udp_route_frame, Resolver, udp_dns_drain, Stop
(* A name has one job on a worker. *)
LEMMA OneStep ==
  ASSUME IInv, Next
  PROVE  OneJobPerHost'
<1> USE UdpDnsAssumption DEF IInv, TypeOK, PhaseInv, OneJobPerHost,
        udp_dns_job_find, Job
<1>1. ASSUME NEW s \in Sessions, NEW w \in Workers, OpenSession(s, w)
      PROVE  OneJobPerHost'
  BY <1>1 DEF OpenSession, NoPend
<1>2. ASSUME NEW s \in Sessions, CloseSession(s) PROVE OneJobPerHost'
  BY <1>2 DEF CloseSession, NoPend, InLoop
<1>3. ASSUME NEW s \in Sessions, NEW f \in Frame, RouteCached(s, f)
      PROVE  OneJobPerHost'
  BY <1>3 DEF RouteCached, Arrives
<1>4. ASSUME NEW s \in Sessions, NEW f \in Frame, NEW fits \in BOOLEAN, DeferJoin(s, f, fits)
      PROVE  OneJobPerHost'
  BY <1>4 DEF DeferJoin, Arrives, Hold
<1>5. ASSUME NEW s \in Sessions, NEW f \in Frame, NEW fits \in BOOLEAN, DeferNew(s, f, fits)
      PROVE  OneJobPerHost'
  <2> DEFINE w == home[s]
  <2>1. PICK i \in Job :
          /\ jobs[w][i].state = "FREE"
          /\ jobs' = [jobs EXCEPT ![w][i] = JobAfterEnqueue(f, QueueHasRoom)]
    BY <1>5 DEF DeferNew, udp_dns_job_alloc
  <2>2. w \in Workers /\ udp_dns_job_find(w, f.host) = {}
    BY <1>5 DEF DeferNew, Arrives, InLoop
  <2>3. \A v \in Workers, n \in Job :
          v # w \/ n # i => jobs'[v][n] = jobs[v][n]
    BY <2>1, <2>2
  <2>4. jobs'[w][i].state # "FREE" => jobs'[w][i].for = f
    BY <2>1, <2>2 DEF JobAfterEnqueue, FreeJob
  <2>5. OneJobPerHost
    BY DEF IInv
  <2> HIDE DEF w, IInv, TypeOK, PhaseInv
  <2> QED BY <2>2, <2>3, <2>4, <2>5
<1>6. ASSUME NEW s \in Sessions, NEW f \in Frame, DeferJobsFull(s, f)
      PROVE  OneJobPerHost'
  BY <1>6 DEF DeferJobsFull, Arrives
<1>7. ASSUME NEW h \in Hosts, CacheExpire(h) PROVE OneJobPerHost'
  BY <1>7 DEF CacheExpire
<1>8. ASSUME NEW r \in Resolvers, ResolverTake(r) PROVE OneJobPerHost'
  BY <1>8 DEF ResolverTake
<1>9. ASSUME NEW r \in Resolvers, ResolverStore(r) PROVE OneJobPerHost'
  <2>1. \A w \in Workers, i \in Job : jobs'[w][i].state # "FREE" =>
          jobs[w][i].state # "FREE" /\ jobs'[w][i].for = jobs[w][i].for
    BY <1>9, StoreKeeps
  <2>2. OneJobPerHost
    BY DEF IInv
  <2> HIDE DEF IInv, TypeOK, PhaseInv
  <2> QED BY <2>1, <2>2
<1>10. ASSUME NEW r \in Resolvers, ResolverWake(r) PROVE OneJobPerHost'
  BY <1>10 DEF ResolverWake, udp_dns_wake_worker
<1>11. ASSUME NEW r \in Resolvers, ResolverExit(r) PROVE OneJobPerHost'
  BY <1>11 DEF ResolverExit
<1>12. ASSUME NEW w \in Workers, DrainStart(w) PROVE OneJobPerHost'
  BY <1>12 DEF DrainStart, InLoop
<1>13. ASSUME NEW w \in Workers, DrainSkip(w) PROVE OneJobPerHost'
  BY <1>13 DEF DrainSkip, ScanNext
<1>14. ASSUME NEW w \in Workers, DrainDone(w) PROVE OneJobPerHost'
  <2>1. \A v \in Workers, n \in Job :
          jobs'[v][n].state # "FREE" => jobs'[v][n] = jobs[v][n]
    BY <1>14 DEF DrainDone, FreeJob
  <2>2. OneJobPerHost
    BY DEF IInv
  <2> HIDE DEF IInv, TypeOK, PhaseInv
  <2> QED BY <2>1, <2>2
<1>15. ASSUME NEW w \in Workers, WorkerExit(w) PROVE OneJobPerHost'
  BY <1>15 DEF WorkerExit, InLoop, NoPend
<1>16. ASSUME StartWorkers PROVE OneJobPerHost'
  BY <1>16 DEF StartWorkers, Phase, FreeJob
<1>17. ASSUME StartResolvers PROVE OneJobPerHost'
  BY <1>17 DEF StartResolvers, Phase, EmptyQueue
<1>18. ASSUME QuitFlag \/ Stop PROVE OneJobPerHost'
  BY <1>18 DEF QuitFlag, Stop, QuitDnsStop, QuitDnsJoin, QuitUdp, Quit, Phase,
          ResolversJoined
<1> HIDE DEF IInv, TypeOK, PhaseInv, OneJobPerHost, udp_dns_job_find
<1> QED BY <1>1, <1>2, <1>3, <1>4, <1>5, <1>6, <1>7, <1>8, <1>9, <1>10,
           <1>11, <1>12, <1>13, <1>14, <1>15, <1>16, <1>17, <1>18
        DEF Next, udp_route_frame, Resolver, udp_dns_drain, Stop
(* DoneIsSignalled is about jobs, pipes, drains and resolvers only. *)
LEMMA DoneFrame ==
  ASSUME DoneIsSignalled, UNCHANGED <<jobs, wake, scan, exited, res>>
  PROVE  DoneIsSignalled'
BY DEF DoneIsSignalled

(* A finished job is never left without a wake-up. *)
LEMMA DoneStep ==
  ASSUME IInv, Next
  PROVE  DoneIsSignalled'
<1> USE UdpDnsAssumption DEF IInv, TypeOK, PhaseInv, DoneIsSignalled, Job
<1>1. ASSUME NEW s \in Sessions, NEW w \in Workers, OpenSession(s, w)
      PROVE  DoneIsSignalled'
  <2> HIDE DEF DoneIsSignalled, TypeOK, PhaseInv
  <2> QED BY <1>1, DoneFrame DEF IInv, OpenSession
<1>2. ASSUME NEW s \in Sessions, CloseSession(s) PROVE DoneIsSignalled'
  <2> HIDE DEF DoneIsSignalled, TypeOK, PhaseInv
  <2> QED BY <1>2, DoneFrame DEF IInv, CloseSession
<1>3. ASSUME NEW s \in Sessions, NEW f \in Frame, RouteCached(s, f)
      PROVE  DoneIsSignalled'
  <2> HIDE DEF DoneIsSignalled, TypeOK, PhaseInv
  <2> QED BY <1>3, DoneFrame DEF IInv, RouteCached
<1>4. ASSUME NEW s \in Sessions, NEW f \in Frame, NEW fits \in BOOLEAN, DeferJoin(s, f, fits)
      PROVE  DoneIsSignalled'
  <2> HIDE DEF DoneIsSignalled, TypeOK, PhaseInv
  <2> QED BY <1>4, DoneFrame DEF IInv, DeferJoin
<1>5. ASSUME NEW s \in Sessions, NEW f \in Frame, NEW fits \in BOOLEAN, DeferNew(s, f, fits)
      PROVE  DoneIsSignalled'
  BY <1>5 DEF DeferNew, Arrives, Hold, JobAfterEnqueue, QueueHasRoom, FreeJob,
          udp_dns_job_alloc
<1>6. ASSUME NEW s \in Sessions, NEW f \in Frame, DeferJobsFull(s, f)
      PROVE  DoneIsSignalled'
  <2> HIDE DEF DoneIsSignalled, TypeOK, PhaseInv
  <2> QED BY <1>6, DoneFrame DEF IInv, DeferJobsFull
<1>7. ASSUME NEW h \in Hosts, CacheExpire(h) PROVE DoneIsSignalled'
  <2> HIDE DEF DoneIsSignalled, TypeOK, PhaseInv
  <2> QED BY <1>7, DoneFrame DEF IInv, CacheExpire
<1>8. ASSUME NEW r \in Resolvers, ResolverTake(r) PROVE DoneIsSignalled'
  BY <1>8 DEF ResolverTake
<1>9. ASSUME NEW r \in Resolvers, ResolverStore(r) PROVE DoneIsSignalled'
  <2> DEFINE q == res[r].req
  <2>1. \A w \in Workers, i \in Job :
          w # q.w \/ i # q.i => jobs'[w][i] = jobs[w][i]
    <3> HIDE DEF TypeOK, PhaseInv
    <3> QED BY <1>9, StoreEffect DEF IInv
  <2>2. /\ res[r].pc = "resolving" /\ res'[r].pc = "wake" /\ res'[r].req = q
        /\ \A t \in Resolvers : t # r => res'[t] = res[t]
        /\ UNCHANGED <<wake, scan, exited>>
    BY <1>9 DEF ResolverStore
  <2>3. DoneIsSignalled
    BY DEF IInv
  <2> HIDE DEF IInv, TypeOK, PhaseInv, q
  <2>4. ASSUME NEW w \in Workers, NEW i \in Job,
               jobs'[w][i].state \in {"OK", "FAIL"}, ~exited'[w]
        PROVE  \/ wake'[w]
               \/ scan'[w] # 0 /\ scan'[w] <= i
               \/ \E t \in Resolvers : res'[t].pc = "wake" /\ res'[t].req.w = w
    <3>1. CASE w = q.w
      BY <2>2, <3>1
    <3>2. CASE w # q.w
      BY <2>1, <2>2, <2>3, <2>4, <3>2
    <3> QED BY <3>1, <3>2
  <2> QED BY <2>4
<1>10. ASSUME NEW r \in Resolvers, ResolverWake(r) PROVE DoneIsSignalled'
  BY <1>10 DEF ResolverWake, udp_dns_wake_worker
<1>11. ASSUME NEW r \in Resolvers, ResolverExit(r) PROVE DoneIsSignalled'
  BY <1>11 DEF ResolverExit
<1>12. ASSUME NEW w \in Workers, DrainStart(w) PROVE DoneIsSignalled'
  BY <1>12 DEF DrainStart, InLoop
<1>13. ASSUME NEW w \in Workers, DrainSkip(w) PROVE DoneIsSignalled'
  BY <1>13 DEF DrainSkip, ScanNext
<1>14. ASSUME NEW w \in Workers, DrainDone(w) PROVE DoneIsSignalled'
  <2>1. /\ scan[w] \in Job
        /\ jobs'[w][scan[w]] = FreeJob
        /\ \A v \in Workers, i \in Job :
             v # w \/ i # scan[w] => jobs'[v][i] = jobs[v][i]
    BY <1>14 DEF DrainDone
  <2>2. /\ \A v \in Workers : v # w => scan'[v] = scan[v]
        /\ scan'[w] = IF scan[w] = JobCount THEN 0 ELSE scan[w] + 1
    BY <1>14 DEF DrainDone, ScanNext
  <2>3. DoneIsSignalled /\ UNCHANGED <<wake, exited, res>>
    BY <1>14 DEF IInv, DrainDone
  <2> HIDE DEF IInv, TypeOK, PhaseInv
  <2> QED BY <2>1, <2>2, <2>3 DEF FreeJob
<1>15. ASSUME NEW w \in Workers, WorkerExit(w) PROVE DoneIsSignalled'
  BY <1>15 DEF WorkerExit, InLoop, NoPend
<1>16. ASSUME StartWorkers PROVE DoneIsSignalled'
  BY <1>16 DEF StartWorkers, Phase, FreeJob
<1>17. ASSUME StartResolvers PROVE DoneIsSignalled'
  BY <1>17 DEF StartResolvers, Phase, EmptyQueue
<1>18. ASSUME QuitFlag \/ Stop PROVE DoneIsSignalled'
  <2> HIDE DEF DoneIsSignalled, TypeOK, PhaseInv
  <2> QED BY <1>18, DoneFrame DEF IInv, QuitFlag, Stop, QuitDnsStop,
          QuitDnsJoin,
                 QuitUdp, Quit, Phase
<1> HIDE DEF IInv, TypeOK, PhaseInv, DoneIsSignalled
<1> QED BY <1>1, <1>2, <1>3, <1>4, <1>5, <1>6, <1>7, <1>8, <1>9, <1>10,
           <1>11, <1>12, <1>13, <1>14, <1>15, <1>16, <1>17, <1>18
        DEF Next, udp_route_frame, Resolver, udp_dns_drain, Stop
(* Current, for a job table J. *)
Cur(J, q) == J[q.w][q.i].state = "INFLIGHT" /\ J[q.w][q.i].for.host = q.host

(* InflightTracked without the phase. *)
Tracked ==
  /\ \A n \in 1..Len(queue) : Cur(jobs, queue[n])
  /\ \A r \in Resolvers : res[r].pc = "resolving" => Cur(jobs, res[r].req)
  /\ \A w \in Workers, i \in Job :
       /\ jobs[w][i].state = "INFLIGHT" => Queued(w, i) \cup Resolving(w, i) # {}
       /\ \A m, n \in Queued(w, i) : m = n
       /\ \A r, t \in Resolving(w, i) : r = t
       /\ Queued(w, i) = {} \/ Resolving(w, i) = {}

(* Tracked is about jobs, queue and the resolvers at work only. *)
LEMMA TrackFrame ==
  ASSUME Tracked, UNCHANGED <<jobs, queue>>,
         \A r \in Resolvers : /\ res'[r].pc = "resolving" <=> res[r].pc = "resolving"
                              /\ res[r].pc = "resolving" => res'[r].req = res[r].req
  PROVE  Tracked'
<1>1. \A w, i : Queued(w, i)' = Queued(w, i) /\ Resolving(w, i)' = Resolving(w, i)
  BY DEF Queued, Resolving, Names
<1>2. \A q : Cur(jobs', q) = Cur(jobs, q)
  BY DEF Cur
<1> QED BY <1>1, <1>2 DEF Tracked

(* A new request: the job was free, so nobody asked for it yet. *)
LEMMA TrackNew ==
  ASSUME TypeOK, PhaseInv, Tracked, NEW w \in Workers, NEW i \in Job, NEW f \in Frame,
         jobs[w][i].state = "FREE",
         jobs' = [jobs EXCEPT ![w][i] = [state |-> "INFLIGHT", for |-> f]],
         queue' = Append(queue, [w |-> w, i |-> i, host |-> f.host]),
         UNCHANGED res
  PROVE  Tracked'
<1> DEFINE new == [w |-> w, i |-> i, host |-> f.host]
           L == Len(queue)
<1>0. queue \in Seq(Request) /\ L \in Nat /\ new \in Request
  BY DEF TypeOK, Request, Frame
<1>1. /\ Len(queue') = L + 1
      /\ queue'[L + 1] = new
      /\ \A n \in 1..L : queue'[n] = queue[n] /\ queue[n] \in Request
  BY <1>0
<1>2. /\ jobs'[w][i].state = "INFLIGHT" /\ jobs'[w][i].for = f
      /\ \A v \in Workers, n \in Job : v # w \/ n # i => jobs'[v][n] = jobs[v][n]
  BY DEF TypeOK
<1> HIDE DEF L
<1>3. \A q \in Request : Cur(jobs, q) => ~Names(q, w, i) /\ Cur(jobs', q)
  <2> SUFFICES ASSUME NEW q \in Request, Cur(jobs, q)
               PROVE  ~Names(q, w, i) /\ Cur(jobs', q)
    OBVIOUS
  <2>1. q.w \in Workers /\ q.i \in Job
    BY DEF Request
  <2>2. q.w # w \/ q.i # i
    BY DEF Cur
  <2>3. jobs'[q.w][q.i] = jobs[q.w][q.i]
    BY <1>2, <2>1, <2>2
  <2> QED BY <2>2, <2>3 DEF Cur, Names
<1>4. \A n \in 1..Len(queue') : Cur(jobs', queue'[n])
  <2>1. Cur(jobs', new)
    BY <1>2 DEF Cur
  <2>2. \A n \in 1..L : Cur(jobs', queue'[n])
    BY <1>1, <1>3 DEF Tracked, L
  <2>3. \A n \in 1..Len(queue') : n = L + 1 \/ n \in 1..L
    BY <1>0, <1>1
  <2> HIDE DEF new
  <2> QED BY <1>1, <2>1, <2>2, <2>3
<1>5. \A r \in Resolvers : res[r].pc = "resolving" => res[r].req \in Request
  BY DEF PhaseInv
<1>6. \A r \in Resolvers : res'[r].pc = "resolving" => Cur(jobs', res'[r].req)
  BY <1>3, <1>5 DEF Tracked
<1>7. Queued(w, i) = {} /\ Resolving(w, i) = {}
  BY <1>1, <1>3, <1>5 DEF Tracked, Queued, Resolving, L
<1>8. /\ Queued(w, i)' = {L + 1} /\ Resolving(w, i)' = {}
      /\ \A v \in Workers, n \in Job : v # w \/ n # i =>
           Queued(v, n)' = Queued(v, n) /\ Resolving(v, n)' = Resolving(v, n)
  BY <1>0, <1>1, <1>7 DEF Queued, Resolving, Names, L
<1>9. ASSUME NEW v \in Workers, NEW n \in Job
      PROVE  /\ jobs'[v][n].state = "INFLIGHT" =>
                  Queued(v, n)' \cup Resolving(v, n)' # {}
             /\ \A k, m \in Queued(v, n)' : k = m
             /\ \A r, t \in Resolving(v, n)' : r = t
             /\ Queued(v, n)' = {} \/ Resolving(v, n)' = {}
  <2>1. CASE v = w /\ n = i
    BY <1>8, <2>1
  <2>2. CASE v # w \/ n # i
    BY <1>2, <1>8, <2>2 DEF Tracked
  <2> QED BY <2>1, <2>2
<1> QED BY <1>4, <1>6, <1>9 DEF Tracked

(* A resolver takes the request at the head of the queue. *)
LEMMA TrackTake ==
  ASSUME TypeOK, Tracked, NEW r \in Resolvers, ResolverTake(r)
  PROVE  Tracked'
<1> DEFINE L == Len(queue)
<1>1. /\ queue \in Seq(Request) /\ L \in Nat /\ L > 0
      /\ queue' = Tail(queue) /\ jobs' = jobs
      /\ res[r].pc = "idle"
      /\ res' = [res EXCEPT ![r] = [pc |-> "resolving", req |-> queue[1]]]
  BY DEF ResolverTake, TypeOK
<1>2. /\ Len(queue') = L - 1
      /\ \A n \in 1..(L - 1) : queue'[n] = queue[n + 1]
  BY <1>1
<1>3. /\ res'[r].pc = "resolving" /\ res'[r].req = queue[1]
      /\ \A t \in Resolvers : t # r => res'[t] = res[t]
  BY <1>1 DEF TypeOK
<1> HIDE DEF L
<1>4. \A q : Cur(jobs', q) = Cur(jobs, q)
  BY <1>1 DEF Cur
<1>5. \A n \in 1..Len(queue) : Cur(jobs, queue[n])
  BY DEF Tracked
<1>6. \A n \in 1..Len(queue') : Cur(jobs', queue'[n])
  BY <1>1, <1>2, <1>4, <1>5 DEF L
<1>7. \A t \in Resolvers : res'[t].pc = "resolving" => Cur(jobs', res'[t].req)
  BY <1>1, <1>3, <1>4, <1>5 DEF Tracked, L
<1>8. ASSUME NEW w \in Workers, NEW i \in Job
      PROVE  /\ jobs'[w][i].state = "INFLIGHT" =>
                  Queued(w, i)' \cup Resolving(w, i)' # {}
             /\ \A m, n \in Queued(w, i)' : m = n
             /\ \A t, u \in Resolving(w, i)' : t = u
             /\ Queued(w, i)' = {} \/ Resolving(w, i)' = {}
  <2>1. /\ \A m, n \in Queued(w, i) : m = n
        /\ \A t, u \in Resolving(w, i) : t = u
        /\ Queued(w, i) = {} \/ Resolving(w, i) = {}
        /\ jobs[w][i].state = "INFLIGHT" => Queued(w, i) \cup Resolving(w, i) # {}
    BY DEF Tracked
  <2>2. \A n : n \in Queued(w, i)' <=> n \in 1..(L - 1) /\ n + 1 \in Queued(w, i)
    BY <1>1, <1>2 DEF Queued, L
  <2>3. \A t : t \in Resolving(w, i)' <=>
                 t \in Resolving(w, i) \/ (t = r /\ 1 \in Queued(w, i))
    <3>1. r \notin Resolving(w, i)
      BY <1>1 DEF Resolving
    <3>2. \A t \in Resolvers : t # r =>
            (t \in Resolving(w, i)' <=> t \in Resolving(w, i))
      BY <1>3 DEF Resolving
    <3>3. r \in Resolving(w, i)' <=> 1 \in Queued(w, i)
      BY <1>1, <1>3 DEF Resolving, Queued, Names, L
    <3>4. \A t : t \in Resolving(w, i)' \/ t \in Resolving(w, i) => t \in Resolvers
      BY DEF Resolving
    <3> QED BY <3>1, <3>2, <3>3, <3>4
  <2>4. \A n \in Queued(w, i) : n \in 1..L
    BY DEF Queued, L
  <2>5. \A m, n \in Queued(w, i)' : m = n
    BY <1>1, <2>1, <2>2
  <2>6. \A t, u \in Resolving(w, i)' : t = u
    BY <2>1, <2>3
  <2>7. Queued(w, i)' = {} \/ Resolving(w, i)' = {}
    <3> SUFFICES ASSUME NEW n \in Queued(w, i)', NEW t \in Resolving(w, i)' PROVE FALSE
      OBVIOUS
    <3>1. n + 1 \in Queued(w, i) /\ n \in 1..(L - 1)
      BY <2>2
    <3>2. 1 \in Queued(w, i)
      BY <2>1, <2>3, <3>1
    <3> QED BY <1>1, <2>1, <3>1, <3>2
  <2>8. ASSUME jobs'[w][i].state = "INFLIGHT"
        PROVE  Queued(w, i)' \cup Resolving(w, i)' # {}
    <3>1. CASE Resolving(w, i) # {}
      BY <2>3, <3>1
    <3>2. CASE Resolving(w, i) = {}
      <4>1. PICK n : n \in Queued(w, i)
        BY <1>1, <2>1, <2>8, <3>2
      <4>2. CASE n = 1
        BY <2>3, <4>1, <4>2
      <4>3. CASE n # 1
        <5>1. n - 1 \in 1..(L - 1) /\ (n - 1) + 1 = n
          BY <1>1, <2>4, <4>1, <4>3
        <5> QED BY <2>2, <4>1, <5>1
      <4> QED BY <4>2, <4>3
    <3> QED BY <3>1, <3>2
  <2> QED BY <2>5, <2>6, <2>7, <2>8
<1> QED BY <1>6, <1>7, <1>8 DEF Tracked

(* A resolver stores its result: nobody else was asked for that job. *)
LEMMA TrackStore ==
  ASSUME TypeOK, PhaseInv, InflightTracked, NEW r \in Resolvers, ResolverStore(r)
  PROVE  Tracked'
<1> DEFINE q == res[r].req
<1>1. /\ q \in Request /\ q.w \in Workers /\ q.i \in Job
      /\ phase # "starting"
      /\ jobs'[q.w][q.i].state \in {"OK", "FAIL"}
      /\ \A w \in Workers, i \in Job :
           w # q.w \/ i # q.i => jobs'[w][i] = jobs[w][i]
  BY StoreEffect
<1>2. Tracked
  BY <1>1 DEF InflightTracked, Tracked, Current, Cur
<1>3. /\ res[r].pc = "resolving" /\ queue' = queue
      /\ res'[r].pc = "wake"
      /\ \A t \in Resolvers : t # r => res'[t] = res[t]
  BY DEF ResolverStore, TypeOK
<1>4. r \in Resolving(q.w, q.i)
  BY <1>3 DEF Resolving, Names
<1> HIDE DEF q
<1>5. Queued(q.w, q.i) = {} /\ \A t \in Resolving(q.w, q.i) : t = r
  BY <1>1, <1>2, <1>4 DEF Tracked
<1>6. \A p \in Request : Cur(jobs, p) /\ ~Names(p, q.w, q.i) => Cur(jobs', p)
  <2> SUFFICES ASSUME NEW p \in Request, Cur(jobs, p), ~Names(p, q.w, q.i)
               PROVE  Cur(jobs', p)
    OBVIOUS
  <2>1. p.w \in Workers /\ p.i \in Job
    BY DEF Request
  <2>2. jobs'[p.w][p.i] = jobs[p.w][p.i]
    BY <1>1, <2>1 DEF Names
  <2> QED BY <2>2 DEF Cur
<1>7. \A n \in 1..Len(queue) : queue[n] \in Request
  BY DEF TypeOK
<1>8. \A t \in Resolvers : res[t].pc = "resolving" => res[t].req \in Request
  BY DEF PhaseInv
<1>9. \A n \in 1..Len(queue') : Cur(jobs', queue'[n])
  BY <1>2, <1>3, <1>5, <1>6, <1>7 DEF Tracked, Queued
<1>10. \A t \in Resolvers : res'[t].pc = "resolving" => Cur(jobs', res'[t].req)
  BY <1>2, <1>3, <1>5, <1>6, <1>8 DEF Tracked, Resolving
<1>11. \A w \in Workers, i \in Job :
         /\ Queued(w, i)' = Queued(w, i)
         /\ \A t \in Resolving(w, i)' : t \in Resolving(w, i) /\ t # r
         /\ \A t \in Resolving(w, i) : t # r => t \in Resolving(w, i)'
  BY <1>3 DEF Queued, Resolving
<1>12. \A w \in Workers, i \in Job : r \in Resolving(w, i) => w = q.w /\ i = q.i
  BY DEF Resolving, Names, q
<1>13. ASSUME NEW w \in Workers, NEW i \in Job
       PROVE  /\ jobs'[w][i].state = "INFLIGHT" =>
                   Queued(w, i)' \cup Resolving(w, i)' # {}
              /\ \A m, n \in Queued(w, i)' : m = n
              /\ \A t, u \in Resolving(w, i)' : t = u
              /\ Queued(w, i)' = {} \/ Resolving(w, i)' = {}
  <2>1. /\ \A m, n \in Queued(w, i) : m = n
        /\ \A t, u \in Resolving(w, i) : t = u
        /\ Queued(w, i) = {} \/ Resolving(w, i) = {}
        /\ jobs[w][i].state = "INFLIGHT" => Queued(w, i) \cup Resolving(w, i) # {}
    BY <1>2 DEF Tracked
  <2>2. jobs'[w][i].state = "INFLIGHT" =>
          /\ jobs[w][i].state = "INFLIGHT"
          /\ r \notin Resolving(w, i)
    BY <1>1, <1>12
  <2> QED BY <1>11, <2>1, <2>2
<1> QED BY <1>9, <1>10, <1>13 DEF Tracked

(* Requests and jobs in flight stay in step. *)
LEMMA TrackStep ==
  ASSUME IInv, Next
  PROVE  InflightTracked'
<1> SUFFICES ASSUME phase' # "starting" PROVE Tracked'
  BY DEF InflightTracked, Tracked, Current, Cur
<1>1. TypeOK /\ PhaseInv /\ InflightTracked /\ (phase # "starting" => Tracked)
  BY DEF IInv, InflightTracked, Tracked, Current, Cur
<1>2. ASSUME NEW s \in Sessions, NEW w \in Workers, OpenSession(s, w)
      PROVE  Tracked'
  BY <1>1, <1>2, TrackFrame DEF OpenSession
<1>3. ASSUME NEW s \in Sessions, CloseSession(s) PROVE Tracked'
  BY <1>1, <1>3, TrackFrame DEF CloseSession
<1>4. ASSUME NEW s \in Sessions, NEW f \in Frame, RouteCached(s, f)
      PROVE  Tracked'
  BY <1>1, <1>4, TrackFrame DEF RouteCached, Arrives
<1>5. ASSUME NEW s \in Sessions, NEW f \in Frame, NEW fits \in BOOLEAN, DeferJoin(s, f, fits)
      PROVE  Tracked'
  BY <1>1, <1>5, TrackFrame DEF DeferJoin, Arrives
<1>6. ASSUME NEW s \in Sessions, NEW f \in Frame, NEW fits \in BOOLEAN, DeferNew(s, f, fits)
      PROVE  Tracked'
  <2> DEFINE w == home[s]
  <2>1. w \in Workers /\ phase # "starting"
    BY <1>1, <1>6 DEF DeferNew, Arrives, InLoop, TypeOK
  <2>2. PICK i \in Job :
          /\ jobs[w][i].state = "FREE"
          /\ jobs' = [jobs EXCEPT ![w][i] = JobAfterEnqueue(f, QueueHasRoom)]
          /\ queue' = IF QueueHasRoom
                      THEN Append(queue, [w |-> w, i |-> i, host |-> f.host])
                      ELSE queue
    BY <1>6 DEF DeferNew, udp_dns_job_alloc
  <2>3. UNCHANGED res
    BY <1>6 DEF DeferNew
  <2>4. CASE QueueHasRoom
    BY <1>1, <2>1, <2>2, <2>3, <2>4, TrackNew DEF JobAfterEnqueue
  <2>5. CASE ~QueueHasRoom
    <3>1. jobs[w][i] = FreeJob
      BY <1>1, <2>1, <2>2, JobKinds
    <3>2. jobs' = jobs
      BY <1>1, <2>1, <2>2, <2>5, <3>1 DEF JobAfterEnqueue, TypeOK
    <3> QED BY <1>1, <2>1, <2>2, <2>3, <2>5, <3>2, TrackFrame
  <2> QED BY <2>4, <2>5
<1>7. ASSUME NEW s \in Sessions, NEW f \in Frame, DeferJobsFull(s, f)
      PROVE  Tracked'
  BY <1>1, <1>7, TrackFrame DEF DeferJobsFull, Arrives
<1>8. ASSUME NEW h \in Hosts, CacheExpire(h) PROVE Tracked'
  BY <1>1, <1>8, TrackFrame DEF CacheExpire
<1>9. ASSUME NEW r \in Resolvers, ResolverTake(r) PROVE Tracked'
  BY <1>1, <1>9, TrackTake DEF ResolverTake, PhaseInv
<1>10. ASSUME NEW r \in Resolvers, ResolverStore(r) PROVE Tracked'
  BY <1>1, <1>10, TrackStore
<1>11. ASSUME NEW r \in Resolvers, ResolverWake(r) PROVE Tracked'
  BY <1>1, <1>11, TrackFrame DEF ResolverWake, TypeOK
<1>12. ASSUME NEW r \in Resolvers, ResolverExit(r) PROVE Tracked'
  BY <1>1, <1>12, TrackFrame DEF ResolverExit, TypeOK
<1>13. ASSUME NEW w \in Workers, DrainStart(w) PROVE Tracked'
  BY <1>1, <1>13, TrackFrame DEF DrainStart
<1>14. ASSUME NEW w \in Workers, DrainSkip(w) PROVE Tracked'
  BY <1>1, <1>14, TrackFrame DEF DrainSkip
<1>15. ASSUME NEW w \in Workers, DrainDone(w) PROVE Tracked'
  <2>1. /\ scan[w] \in Job /\ phase # "starting"
        /\ jobs[w][scan[w]].state # "INFLIGHT"
        /\ UNCHANGED <<queue, res>>
    BY <1>1, UdpDnsAssumption, <1>15 DEF DrainDone, TypeOK, Job
  <2>2. /\ jobs'[w][scan[w]].state # "INFLIGHT"
        /\ \A v \in Workers, i \in Job :
             v # w \/ i # scan[w] => jobs'[v][i] = jobs[v][i]
    BY <1>1, <2>1, <1>15 DEF DrainDone, TypeOK, FreeJob
  <2>3. \A q \in Request : Cur(jobs, q) => Cur(jobs', q)
    <3> SUFFICES ASSUME NEW q \in Request, Cur(jobs, q) PROVE Cur(jobs', q)
      OBVIOUS
    <3>1. q.w \in Workers /\ q.i \in Job
      BY DEF Request
    <3> QED BY <2>1, <2>2, <3>1 DEF Cur
  <2>4. \A v, i : Queued(v, i)' = Queued(v, i) /\ Resolving(v, i)' = Resolving(v, i)
    BY <2>1 DEF Queued, Resolving, Names
  <2>5. \A n \in 1..Len(queue) : queue[n] \in Request
    BY <1>1 DEF TypeOK
  <2>6. \A r \in Resolvers : res[r].pc = "resolving" => res[r].req \in Request
    BY <1>1 DEF PhaseInv
  <2>7. /\ \A n \in 1..Len(queue') : Cur(jobs', queue'[n])
        /\ \A r \in Resolvers : res'[r].pc = "resolving" => Cur(jobs', res'[r].req)
    BY <1>1, <2>1, <2>3, <2>5, <2>6 DEF Tracked
  <2>8. \A v \in Workers, i \in Job :
          jobs'[v][i].state = "INFLIGHT" => jobs[v][i].state = "INFLIGHT"
    BY <2>2
  <2> QED BY <1>1, <2>1, <2>4, <2>7, <2>8 DEF Tracked
<1>16. ASSUME NEW w \in Workers, WorkerExit(w) PROVE Tracked'
  BY <1>1, <1>16, TrackFrame DEF WorkerExit
<1>17. ASSUME StartWorkers PROVE Tracked'
  BY <1>17 DEF StartWorkers, Phase
<1>18. ASSUME StartResolvers PROVE Tracked'
  <2>1. /\ \A w \in Workers, i \in Job : jobs'[w][i] = FreeJob
        /\ queue' = <<>>
        /\ \A r \in Resolvers : res'[r].pc = "idle"
    BY <1>1, <1>18 DEF StartResolvers, Phase, EmptyQueue, PhaseInv
  <2>2. \A w, i : Queued(w, i)' = {} /\ Resolving(w, i)' = {}
    BY <2>1 DEF Queued, Resolving
  <2> QED BY <2>1, <2>2 DEF Tracked, FreeJob
<1>19. ASSUME QuitFlag \/ Stop PROVE Tracked'
  BY <1>1, <1>19, TrackFrame DEF QuitFlag, Stop, QuitDnsStop, QuitDnsJoin,
          QuitUdp, Quit, Phase
<1> QED BY <1>1, <1>2, <1>3, <1>4, <1>5, <1>6, <1>7, <1>8, <1>9, <1>10,
           <1>11, <1>12, <1>13, <1>14, <1>15, <1>16, <1>17, <1>18, <1>19
        DEF Next, udp_route_frame, Resolver, udp_dns_drain, Stop

(* The start of the engine satisfies the invariant. *)
LEMMA InitIInv == Init => IInv
<1> SUFFICES ASSUME Init PROVE IInv
  OBVIOUS
<1> USE UdpDnsAssumption DEF Init, NoPend, FreeJob
<1>1. TypeOK
  <2>1. queue \in Seq(Request) /\ Len(queue) <= QueueMax
    OBVIOUS
  <2>2. /\ jobs \in [Workers -> [Job -> {FreeJob} \cup [state : Busy, for : Frame]]]
        /\ res \in [Resolvers -> [pc : {"idle", "resolving", "wake", "exited"},
                                  req : Request \cup {NoReq}]]
        /\ cache \in [Hosts -> SUBSET Ports]
        /\ scan \in [Workers -> 0..JobCount]
        /\ pend \in [Sessions -> [Pend -> Frame \cup {NoFrame}]]
        /\ home \in [Sessions -> Workers \cup {NoWorker}]
    OBVIOUS
  <2>3. /\ phase \in {"running", "told", "stopping", "joined", "down", "starting"}
        /\ wake \in [Workers -> BOOLEAN] /\ exited \in [Workers -> BOOLEAN]
    OBVIOUS
  <2>4. misrouted \in BOOLEAN
    BY Zenon
  <2>5. frames \in 0..MaxFrames /\ runs \in 0..MaxRuns
    BY SMT
  <2> HIDE DEF Init, NoPend, FreeJob
  <2> QED BY <2>1, <2>2, <2>3, <2>4, <2>5 DEF TypeOK
<1>2. PhaseInv
  BY DEF PhaseInv
<1>3. InflightTracked
  BY DEF InflightTracked, Queued, Resolving
<1>4. DoneIsSignalled
  BY DEF DoneIsSignalled
<1>5. OneJobPerHost /\ PendHasJob
  BY DEF OneJobPerHost, PendHasJob, udp_dns_job_find
<1> QED BY <1>1, <1>2, <1>3, <1>4, <1>5 DEF IInv

(* The invariant is inductive. *)
LEMMA NextIInv == IInv /\ [Next]_vars => IInv'
<1>1. ASSUME IInv, Next PROVE IInv'
  BY <1>1, TypeStep, PhaseStep, TrackStep, DoneStep, OneStep, PendStep DEF IInv
<1>2. ASSUME IInv, UNCHANGED vars PROVE IInv'
  <2>1. TypeOK'
    BY <1>2 DEF IInv, TypeOK, vars
  <2>2. PhaseInv'
    BY <1>2 DEF IInv, PhaseInv, vars
  <2>3. InflightTracked'
    BY <1>2, TrackFrame DEF IInv, InflightTracked, Tracked, Current, Cur, vars
  <2>4. DoneIsSignalled' /\ PendHasJob'
    BY <1>2, DoneFrame, PendFrame DEF IInv, vars
  <2>5. OneJobPerHost'
    BY <1>2 DEF IInv, OneJobPerHost, udp_dns_job_find, vars
  <2> QED BY <2>1, <2>2, <2>3, <2>4, <2>5 DEF IInv
<1> QED BY <1>1, <1>2

(* Every variable keeps its type: the request ring never exceeds its         *)
(* capacity and udp_dns_drain stays inside the job table.                    *)
THEOREM TypeCorrect == Spec => []TypeOK
<1>1. IInv => TypeOK
  BY DEF IInv
<1> QED BY InitIInv, NextIInv, <1>1, PTL DEF Spec

(* A job is in flight exactly as long as one request for it is under way, in *)
(* any number of runs of the engine: no answer is ever stored in a job that  *)
(* belongs to another name.                                                  *)
THEOREM AnswersBelong == Spec => []InflightTracked
<1>1. IInv => InflightTracked
  BY DEF IInv
<1> QED BY InitIInv, NextIInv, <1>1, PTL DEF Spec

(* No wake-up of a UDP worker is lost between resolver and drain. *)
THEOREM NoLostWakeup == Spec => []DoneIsSignalled
<1>1. IInv => DoneIsSignalled
  BY DEF IInv
<1> QED BY InitIInv, NextIInv, <1>1, PTL DEF Spec

(* A frame is held only while its worker has a job for its host. *)
THEOREM HeldHasJob == Spec => []PendHasJob
<1>1. IInv => PendHasJob
  BY DEF IInv
<1> QED BY InitIInv, NextIInv, <1>1, PTL DEF Spec

(* A worker never resolves a name twice at a time. *)
THEOREM OneJob == Spec => []OneJobPerHost
<1>1. IInv => OneJobPerHost
  BY DEF IInv
<1> QED BY InitIInv, NextIInv, <1>1, PTL DEF Spec

(* A resolver never writes to a wake-up pipe that was closed. *)
THEOREM WakeSafe == Spec => []WakeIsOpen
<1>1. IInv => WakeIsOpen
  BY DEF IInv, PhaseInv, WakeIsOpen
<1> QED BY InitIInv, NextIInv, <1>1, PTL DEF Spec

=============================================================================
