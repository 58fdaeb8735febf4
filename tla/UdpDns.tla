------------------------------- MODULE UdpDns -------------------------------
(***************************************************************************)
(* Asynchronous name resolution of the UDP relay in simple-socks5.c: a UDP *)
(* worker that meets a frame for an unknown host takes one of its job      *)
(* slots, queues the name for the resolver threads and holds the frame in  *)
(* its session; a resolver stores the answer in the job and wakes the      *)
(* worker through a pipe; the worker drains finished jobs, fills the       *)
(* address cache and sends or drops what was held.  Stopping and           *)
(* restarting the engine is part of it, since job table and queue are      *)
(* static and survive.                                                     *)
(*                                                                         *)
(* A worker runs one handler at a time; udp_route_frame is one step,       *)
(* because what it writes apart from the queue is seen by its own worker   *)
(* only, while draining goes job by job, as resolvers store results        *)
(* meanwhile.  Abstracted: payloads (a frame is a host and a port, and may *)
(* be too long to hold), addresses, TTLs (a cache entry may be gone at any *)
(* time), frames with a literal address (sent at once), and the building   *)
(* and tearing down of a session (see ConnSlots for its TCP twin).         *)
(***************************************************************************)
EXTENDS Integers, Sequences

CONSTANTS
  Hosts, Ports,
  Sessions,    \* indices of g_udp_slots
  Workers,     \* UDP workers
  Resolvers,   \* resolver threads
  JobCount,    \* UDP_DNS_JOB_COUNT
  PendSlots,   \* UDP_DNS_PEND_SLOTS
  QueueMax,    \* UDP_DNS_QUEUE_MAX
  MaxFrames,   \* bound: frames clients send
  MaxRuns,     \* bound: restarts of the engine
  NoWorker, NoFrame, NoReq

Frame == [host : Hosts, port : Ports]
Job == 1..JobCount
Pend == 1..PendSlots
Request == [w : Workers, i : Job, host : Hosts]

ASSUME UdpDnsAssumption ==
  /\ JobCount \in Nat \ {0}
  /\ PendSlots \in Nat
  /\ QueueMax \in Nat
  /\ MaxFrames \in Nat /\ MaxRuns \in Nat
  /\ NoWorker \notin Workers
  /\ NoFrame \notin Frame
  /\ NoReq \notin Request
  /\ Hosts # {} /\ Ports # {}

VARIABLES
  phase,      \* progress of socks5_server_quit and of the next start
  home,       \* the worker on whose list a session is
  pend,       \* udp_conn_t.pend
  jobs,       \* udp_worker_t.dns_jobs
  queue,      \* g_dns_queue
  res,        \* resolver threads, each with the request it has taken
  wake,       \* there is a byte in dns_wake_pipe
  scan,       \* next job udp_dns_drain looks at, 0 outside of it
  exited,     \* the worker has left udp_worker_loop
  cache,      \* g_dns_cache: ports of the unexpired entries of a host
  misrouted,  \* history: some frame was sent to a port that is not its own
  frames, runs

vars == <<phase, home, pend, jobs, queue, res, wake, scan, exited, cache,
          misrouted, frames, runs>>

(* udp_dns_job_t: state, and the host and port of the frame that asked. *)
Busy == {"INFLIGHT", "OK", "FAIL"}
FreeJob == [state |-> "FREE", for |-> NoFrame]
NoPend == [k \in Pend |-> NoFrame]

Init ==
  /\ phase = "running"
  /\ home = [s \in Sessions |-> NoWorker]
  /\ pend = [s \in Sessions |-> NoPend]
  /\ jobs = [w \in Workers |-> [i \in Job |-> FreeJob]]
  /\ queue = <<>>
  /\ res = [r \in Resolvers |-> [pc |-> "idle", req |-> NoReq]]
  /\ wake = [w \in Workers |-> FALSE]
  /\ scan = [w \in Workers |-> 0]
  /\ exited = [w \in Workers |-> FALSE]
  /\ cache = [h \in Hosts |-> {}]
  /\ misrouted = FALSE
  /\ frames = MaxFrames
  /\ runs = MaxRuns
-----------------------------------------------------------------------------
(* udp_worker_loop: sessions and their frames. *)

InLoop(w) == w # NoWorker /\ ~exited[w] /\ scan[w] = 0

(* udp_start_session links the session, unless the worker is stopping. *)
OpenSession(s, w) ==
  /\ phase \in {"running", "told"}
  /\ home[s] = NoWorker /\ ~exited[w]
  /\ home' = [home EXCEPT ![s] = w]
  /\ pend' = [pend EXCEPT ![s] = NoPend]
  /\ UNCHANGED <<phase, jobs, queue, res, wake, scan, exited, cache,
                 misrouted, frames, runs>>

(* A fatal event unlinks the session, and what it held is lost with it. *)
CloseSession(s) ==
  /\ InLoop(home[s])
  /\ home' = [home EXCEPT ![s] = NoWorker]
  /\ pend' = [pend EXCEPT ![s] = NoPend]
  /\ UNCHANGED <<phase, jobs, queue, res, wake, scan, exited, cache,
                 misrouted, frames, runs>>

udp_dns_job_find(w, h) ==
  {i \in Job : jobs[w][i].state # "FREE" /\ jobs[w][i].for.host = h}

udp_dns_job_alloc(w) ==
  {i \in Job : /\ jobs[w][i].state = "FREE"
               /\ \A j \in 1..(i - 1) : jobs[w][j].state # "FREE"}

udp_dns_pend_free_slot(s) ==
  {k \in Pend : /\ pend[s][k] = NoFrame
                /\ \A j \in 1..(k - 1) : pend[s][j] # NoFrame}

QueueHasRoom == Len(queue) < QueueMax

(* The tail of udp_dns_defer: the frame goes into the first free slot of    *)
(* the session, or it is dropped.                                          *)
Hold(s, f, fits) ==
  pend' = [pend EXCEPT ![s] =
            [k \in Pend |-> IF fits /\ k \in udp_dns_pend_free_slot(s)
                            THEN f ELSE pend[s][k]]]

Arrives(s) ==
  /\ InLoop(home[s])
  /\ frames > 0
  /\ frames' = frames - 1

(* udp_route_frame with a cache hit. *)
RouteCached(s, f) ==
  /\ Arrives(s)
  /\ \E port \in cache[f.host] : misrouted' = (misrouted \/ port # f.port)
  /\ UNCHANGED <<phase, home, pend, jobs, queue, res, wake, scan, exited,
                 cache, runs>>

(* udp_dns_defer when the name is being resolved for this worker already;   *)
(* fits is udp_dns_hold_ok.                                                *)
DeferJoin(s, f, fits) ==
  /\ Arrives(s)
  /\ cache[f.host] = {}
  /\ udp_dns_job_find(home[s], f.host) # {}
  /\ Hold(s, f, fits)
  /\ UNCHANGED <<phase, home, jobs, queue, res, wake, scan, exited, cache,
                 misrouted, runs>>

(* Mutant: the slot stays taken when the queue was full. *)
StaysTaken(f, ok) == [state |-> "INFLIGHT", for |-> f]

JobAfterEnqueue(f, ok) == IF ok THEN [state |-> "INFLIGHT", for |-> f] ELSE FreeJob

(* udp_dns_defer with a job slot free: udp_dns_enqueue takes the request,   *)
(* or the slot is given back and the frame dropped.                        *)
DeferNew(s, f, fits) ==
  LET w == home[s]
  IN /\ Arrives(s)
     /\ cache[f.host] = {}
     /\ udp_dns_job_find(w, f.host) = {}
     /\ \E i \in udp_dns_job_alloc(w) :
          /\ jobs' = [jobs EXCEPT ![w][i] = JobAfterEnqueue(f, QueueHasRoom)]
          /\ queue' = IF QueueHasRoom
                      THEN Append(queue, [w |-> w, i |-> i, host |-> f.host])
                      ELSE queue
     /\ Hold(s, f, fits /\ QueueHasRoom)
     /\ UNCHANGED <<phase, home, res, wake, scan, exited, cache, misrouted, runs>>

(* All job slots taken by other names: the frame is dropped. *)
DeferJobsFull(s, f) ==
  /\ Arrives(s)
  /\ cache[f.host] = {}
  /\ udp_dns_job_find(home[s], f.host) = {}
  /\ udp_dns_job_alloc(home[s]) = {}
  /\ UNCHANGED <<phase, home, pend, jobs, queue, res, wake, scan, exited,
                 cache, misrouted, runs>>

udp_route_frame(s) ==
  \E f \in Frame :
    \/ RouteCached(s, f)
    \/ \E fits \in BOOLEAN : DeferJoin(s, f, fits) \/ DeferNew(s, f, fits)
    \/ DeferJobsFull(s, f)

(* An entry's TTL runs out, or its slot is taken for another name. *)
CacheExpire(h) ==
  /\ \E port \in cache[h] : cache' = [cache EXCEPT ![h] = @ \ {port}]
  /\ UNCHANGED <<phase, home, pend, jobs, queue, res, wake, scan, exited,
                 misrouted, frames, runs>>
-----------------------------------------------------------------------------
(* udp_dns_resolver_thread *)

ResolverTake(r) ==
  /\ res[r].pc = "idle"
  /\ queue # <<>>
  /\ res' = [res EXCEPT ![r] = [pc |-> "resolving", req |-> Head(queue)]]
  /\ queue' = Tail(queue)
  /\ UNCHANGED <<phase, home, pend, jobs, wake, scan, exited, cache, misrouted,
                 frames, runs>>

(* request_java_resolve_host has come back and the state is stored. *)
ResolverStore(r) ==
  LET q == res[r].req
  IN /\ res[r].pc = "resolving"
     /\ \E result \in {"OK", "FAIL"} :
          jobs' = [jobs EXCEPT ![q.w][q.i].state = result]
     /\ res' = [res EXCEPT ![r].pc = "wake"]
     /\ UNCHANGED <<phase, home, pend, queue, wake, scan, exited, cache,
                    misrouted, frames, runs>>

(* Mutant: the byte is not written, as when dns_wake_pipe was not created. *)
WakeNobody(w) == wake

udp_dns_wake_worker(w) == [wake EXCEPT ![w] = TRUE]

ResolverWake(r) ==
  /\ res[r].pc = "wake"
  /\ wake' = udp_dns_wake_worker(res[r].req.w)
  /\ res' = [res EXCEPT ![r] = [pc |-> "idle", req |-> NoReq]]
  /\ UNCHANGED <<phase, home, pend, jobs, queue, scan, exited, cache, misrouted,
                 frames, runs>>

(* g_dns_stop is set and the queue is empty. *)
ResolverExit(r) ==
  /\ res[r].pc = "idle"
  /\ queue = <<>>
  /\ phase = "stopping"
  /\ res' = [res EXCEPT ![r].pc = "exited"]
  /\ UNCHANGED <<phase, home, pend, jobs, queue, wake, scan, exited, cache,
                 misrouted, frames, runs>>

Resolver(r) == ResolverTake(r) \/ ResolverStore(r) \/ ResolverWake(r)
               \/ ResolverExit(r)
-----------------------------------------------------------------------------
(* udp_dns_drain *)

DrainStart(w) ==
  /\ InLoop(w)
  /\ wake[w]
  /\ wake' = [wake EXCEPT ![w] = FALSE]
  /\ scan' = [scan EXCEPT ![w] = 1]
  /\ UNCHANGED <<phase, home, pend, jobs, queue, res, exited, cache, misrouted,
                 frames, runs>>

(* Mutant: only the first slot of a session is looked at. *)
FirstSlotOf(w, h, s, k) ==
  /\ home[s] = w /\ k = 1
  /\ pend[s][k] # NoFrame /\ pend[s][k].host = h

(* The entries udp_dns_flush_pending and udp_dns_drop_pending visit. *)
HeldFor(w, h, s, k) ==
  /\ home[s] = w
  /\ pend[s][k] # NoFrame /\ pend[s][k].host = h

Released(w, h) ==
  [s \in Sessions |->
     [k \in Pend |-> IF HeldFor(w, h, s, k) THEN NoFrame ELSE pend[s][k]]]

(* The port of the job is used for every held frame and for the cache. *)
FlushPending(w, j) ==
  /\ cache' = [cache EXCEPT ![j.for.host] = @ \cup {j.for.port}]
  /\ pend' = Released(w, j.for.host)
  /\ misrouted' = (misrouted \/ \E s \in Sessions, k \in Pend :
                      HeldFor(w, j.for.host, s, k) /\ pend[s][k].port # j.for.port)

udp_dns_drop_pending(w, h) == Released(w, h)

ScanNext(w) == [scan EXCEPT ![w] = IF @ = JobCount THEN 0 ELSE @ + 1]

DrainSkip(w) ==
  /\ scan[w] # 0
  /\ jobs[w][scan[w]].state \in {"FREE", "INFLIGHT"}
  /\ scan' = ScanNext(w)
  /\ UNCHANGED <<phase, home, pend, jobs, queue, res, wake, exited, cache,
                 misrouted, frames, runs>>

(* A finished job: flushed when the answer is an address, else dropped. *)
DrainDone(w) ==
  LET j == jobs[w][scan[w]]
  IN /\ scan[w] # 0
     /\ j.state \in {"OK", "FAIL"}
     /\ \/ j.state = "OK" /\ FlushPending(w, j)
        \/ /\ pend' = udp_dns_drop_pending(w, j.for.host)
           /\ UNCHANGED <<cache, misrouted>>
     /\ jobs' = [jobs EXCEPT ![w][scan[w]] = FreeJob]
     /\ scan' = ScanNext(w)
     /\ UNCHANGED <<phase, home, queue, res, wake, exited, frames, runs>>

udp_dns_drain(w) == DrainStart(w) \/ DrainSkip(w) \/ DrainDone(w)

(* exit_udp_worker: the remaining sessions are unlinked and finalized. *)
WorkerExit(w) ==
  /\ phase \in {"told", "stopping", "joined"}
  /\ InLoop(w)
  /\ exited' = [exited EXCEPT ![w] = TRUE]
  /\ home' = [s \in Sessions |-> IF home[s] = w THEN NoWorker ELSE home[s]]
  /\ pend' = [s \in Sessions |-> IF home[s] = w THEN NoPend ELSE pend[s]]
  /\ UNCHANGED <<phase, jobs, queue, res, wake, scan, cache, misrouted, frames,
                 runs>>
-----------------------------------------------------------------------------
(* socks5_server_quit and the next start *)

Phase(from, to) ==
  /\ phase = from /\ phase' = to
  /\ UNCHANGED <<home, pend, cache, misrouted, frames>>

Quit(from, to) ==
  /\ Phase(from, to)
  /\ UNCHANGED <<jobs, queue, res, wake, scan, exited, runs>>

QuitFlag == Quit("running", "told")         \* server_running = 0

QuitDnsStop == Quit("told", "stopping")     \* g_dns_stop = 1

ResolversJoined == \A r \in Resolvers : res[r].pc = "exited"

QuitDnsJoin == ResolversJoined /\ Quit("stopping", "joined")

(* The workers are joined and their wake-up pipes closed. *)
QuitUdp == (\A w \in Workers : exited[w]) /\ Quit("joined", "down")

(* The UDP part of listener_task's start-up: workers first ... *)
StartWorkers ==
  /\ Phase("down", "starting")
  /\ runs > 0 /\ runs' = runs - 1
  /\ jobs' = [w \in Workers |-> [i \in Job |-> FreeJob]]
  /\ wake' = [w \in Workers |-> FALSE]
  /\ scan' = [w \in Workers |-> 0]
  /\ exited' = [w \in Workers |-> FALSE]
  /\ UNCHANGED <<queue, res>>

(* Mutant: the queue is used as the last run left it. *)
OldQueue == queue

EmptyQueue == <<>>

(* ... then udp_dns_resolvers_start. *)
StartResolvers ==
  /\ Phase("starting", "running")
  /\ queue' = EmptyQueue
  /\ res' = [r \in Resolvers |-> [pc |-> "idle", req |-> NoReq]]
  /\ UNCHANGED <<jobs, wake, scan, exited, runs>>

Stop == QuitDnsStop \/ QuitDnsJoin \/ QuitUdp

Next ==
  \/ \E s \in Sessions :
       (\E w \in Workers : OpenSession(s, w)) \/ CloseSession(s) \/ udp_route_frame(s)
  \/ \E h \in Hosts : CacheExpire(h)
  \/ \E r \in Resolvers : Resolver(r)
  \/ \E w \in Workers : udp_dns_drain(w) \/ WorkerExit(w)
  \/ QuitFlag \/ Stop \/ StartWorkers \/ StartResolvers

Spec == Init /\ [][Next]_vars

(* Threads are scheduled, a level-triggered epoll reports the pipe until it *)
(* is read, request_java_resolve_host returns (it times out), and a stop    *)
(* once begun goes on; nobody has to send, close, stop or start anything.   *)
FairSpec ==
  /\ Spec
  /\ \A r \in Resolvers : WF_vars(Resolver(r))
  /\ \A w \in Workers : WF_vars(udp_dns_drain(w)) /\ WF_vars(WorkerExit(w))
  /\ WF_vars(Stop)
-----------------------------------------------------------------------------
(* Properties *)

(* Every variable has its type, the ring of requests never holds more than  *)
(* its capacity and a drain never runs past the job table.                 *)
TypeOK ==
  /\ phase \in {"running", "told", "stopping", "joined", "down", "starting"}
  /\ home \in [Sessions -> Workers \cup {NoWorker}]
  /\ pend \in [Sessions -> [Pend -> Frame \cup {NoFrame}]]
  /\ jobs \in [Workers -> [Job -> {FreeJob} \cup [state : Busy, for : Frame]]]
  /\ queue \in Seq(Request) /\ Len(queue) <= QueueMax
  /\ res \in [Resolvers -> [pc : {"idle", "resolving", "wake", "exited"},
                            req : Request \cup {NoReq}]]
  /\ wake \in [Workers -> BOOLEAN]
  /\ scan \in [Workers -> 0..JobCount]
  /\ exited \in [Workers -> BOOLEAN]
  /\ cache \in [Hosts -> SUBSET Ports]
  /\ misrouted \in BOOLEAN
  /\ frames \in 0..MaxFrames /\ runs \in 0..MaxRuns

(* A request whose answer belongs into the job it names. *)
Current(q) ==
  jobs[q.w][q.i].state = "INFLIGHT" /\ jobs[q.w][q.i].for.host = q.host

Names(q, w, i) == q.w = w /\ q.i = i

Queued(w, i) == {n \in 1..Len(queue) : Names(queue[n], w, i)}

Resolving(w, i) ==
  {r \in Resolvers : res[r].pc = "resolving" /\ Names(res[r].req, w, i)}

(* A job is in flight exactly as long as one request for it is queued or    *)
(* with a resolver: no job slot is lost when the queue is full, and no      *)
(* answer of an earlier request or an earlier run is stored in a job that   *)
(* has been given to another name.                                          *)
InflightTracked ==
  phase # "starting" =>
    /\ \A n \in 1..Len(queue) : Current(queue[n])
    /\ \A r \in Resolvers : res[r].pc = "resolving" => Current(res[r].req)
    /\ \A w \in Workers, i \in Job :
         /\ jobs[w][i].state = "INFLIGHT" => Queued(w, i) \cup Resolving(w, i) # {}
         /\ \A m, n \in Queued(w, i) : m = n
         /\ \A r, t \in Resolving(w, i) : r = t
         /\ Queued(w, i) = {} \/ Resolving(w, i) = {}

(* No lost wake-up: a finished job of a running worker is still to be       *)
(* visited by the drain that is going on, or there is a byte in the pipe,   *)
(* or a resolver is about to write one.                                     *)
DoneIsSignalled ==
  \A w \in Workers, i \in Job :
    jobs[w][i].state \in {"OK", "FAIL"} /\ ~exited[w] =>
      \/ wake[w]
      \/ scan[w] # 0 /\ scan[w] <= i
      \/ \E r \in Resolvers : res[r].pc = "wake" /\ res[r].req.w = w

(* A worker resolves a name once at a time, so that one answer serves all   *)
(* the frames held for it.                                                  *)
OneJobPerHost ==
  \A w \in Workers, i, j \in Job :
    /\ jobs[w][i].state # "FREE" /\ jobs[w][j].state # "FREE"
    /\ jobs[w][i].for.host = jobs[w][j].for.host
    => i = j

(* A frame is held only while its worker has a job for its host: once the   *)
(* job is freed, by success, failure or a full queue, no session still      *)
(* holds a frame that nobody will release (it would keep its slot and, as   *)
(* the idle sweep spares sessions with held frames, the session for ever).  *)
PendHasJob ==
  \A s \in Sessions, k \in Pend :
    home[s] # NoWorker /\ pend[s][k] # NoFrame =>
      udp_dns_job_find(home[s], pend[s][k].host) # {}

(* A resolver that is still to write its wake-up byte finds the pipe open   *)
(* and the worker's job table in the run it was asked by: the comment on    *)
(* udp_dns_resolvers_stop.                                                  *)
WakeIsOpen ==
  \A r \in Resolvers :
    res[r].pc \in {"resolving", "wake"} => phase \notin {"down", "starting"}

(* Every held frame is eventually sent or dropped, or its session is gone.  *)
HeldIsReleased ==
  \A s \in Sessions, k \in Pend :
    pend[s][k] # NoFrame ~> pend[s][k] = NoFrame

(* The README: the server resolves the target address of a frame and sends  *)
(* the frame there; the port is part of the frame's header.                 *)
RightPort == ~misrouted
=============================================================================
