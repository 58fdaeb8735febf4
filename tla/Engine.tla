------------------------------- MODULE Engine -------------------------------
(***************************************************************************)
(* Starting and stopping the native engine: the JNI entry points, the      *)
(* server thread that runs socks5_server_main_dynamic, the listener thread *)
(* (listener_task) with the listener table it reconciles every second, the *)
(* handshake pool, and socks5_server_quit, which takes all of it down.     *)
(*                                                                         *)
(* The four TCP workers, the four UDP workers and the four resolvers are   *)
(* one state each here: what they do while they run is modelled by         *)
(* ConnSlots and UdpDns.  Left out: a failing pipe() or pthread_create at  *)
(* start-up, and the statistics counters.                                  *)
(***************************************************************************)
EXTENDS Integers, FiniteSets

CONSTANTS
  Addrs,        \* addresses a listener may be bound to
  Permanent,    \* the loopback addresses
  MaxBind,      \* MAX_BIND_ADDRS
  QueueCap,     \* HANDSHAKE_QUEUE_SIZE
  PoolSize,     \* HANDSHAKE_POOL_SIZE
  Patient,      \* TRUE: stop is only called once start-up has settled
  MaxStarts,    \* bound: calls of native_start_socks5_server
  MaxUpdates,   \* bound: calls of native_update_socks5_bind_addrs
  MaxFlaps,     \* bound: network interfaces that go away
  MaxClients    \* bound: connections that clients open

ASSUME EngineAssumption ==
  /\ IsFiniteSet(Addrs)
  /\ Permanent \subseteq Addrs
  /\ MaxBind \in Nat /\ QueueCap \in Nat /\ PoolSize \in Nat \ {0}
  /\ Patient \in BOOLEAN
  /\ MaxStarts \in Nat /\ MaxUpdates \in Nat /\ MaxFlaps \in Nat
  /\ MaxClients \in Nat

VARIABLES
  jni,              \* where the caller of start and stop is
  g_server_running, \* jni_bridge.c's own flag
  server_running,   \* the engine's flag
  srv,              \* the server thread
  lst,              \* the listener thread
  bind,             \* g_bind_addrs
  want,             \* desired, as reconcile_listeners copied it
  table,            \* g_listener_fds and g_listener_addrs
  up,               \* addresses whose interface exists
  taken,            \* addresses whose port another process holds
  sdpipe,           \* g_shutdown_pipe
  pool, queue, busy,\* g_handshake_pool, its queue, handlers running
  tcp, udp, dns,    \* TCP workers, UDP workers, resolvers
  badJoin,          \* quit waited for something that was never created
  left              \* what remains of the bounds

comps == <<sdpipe, pool, queue, busy, tcp, udp, dns, badJoin>>
net == <<bind, table, up, taken>>
vars == <<jni, g_server_running, server_running, srv, lst, bind, want, table,
          up, taken, sdpipe, pool, queue, busy, tcp, udp, dns, badJoin, left>>

(* A table slot: absent, our own listening socket, a socket the kernel has *)
(* shut down with its interface, or a number reused by another socket.     *)
SlotState == {"none", "ours", "dead", "other"}

Thread == {"none", "run", "exited"}

JniPc == {"idle", "test", "flag", "close", "wake", "listener", "pool", "poolwait",
          "dns", "udp", "tcp", "pipe", "server"}

ListenerPc == {"none", "pipe", "read", "apply", "count", "workers", "loop",
               "reread", "reapply", "poll", "accept", "closing", "exited"}

Init ==
  /\ jni = "idle"
  /\ g_server_running = FALSE /\ server_running = FALSE
  /\ srv = "none" /\ lst = "none"
  /\ bind = {} /\ want = {}
  /\ table = [a \in Addrs |-> "none"]
  /\ up = Addrs
  /\ taken \in {{}, Addrs}
  /\ sdpipe = "closed"
  /\ pool = "none" /\ queue = 0 /\ busy = 0
  /\ tcp = "none" /\ udp = "none" /\ dns = "none"
  /\ badJoin = FALSE
  /\ left = [starts |-> MaxStarts, updates |-> MaxUpdates,
             flaps |-> MaxFlaps, clients |-> MaxClients]

Spend(what) == left[what] > 0 /\ left' = [left EXCEPT ![what] = @ - 1]
-----------------------------------------------------------------------------
(* jni_bridge.c *)

(* socks5_server_set_bind_addrs keeps at most MAX_BIND_ADDRS of the list. *)
SetBindAddrs ==
  \E list \in SUBSET (Addrs \ Permanent) :
    Cardinality(list) <= MaxBind /\ bind' = list

NativeStart ==
  /\ jni = "idle" /\ ~g_server_running
  /\ Spend("starts")
  /\ SetBindAddrs
  /\ g_server_running' = TRUE
  /\ srv' = "run"
  /\ UNCHANGED <<jni, server_running, lst, want, table, up, taken, comps>>

UpdateBindAddrs ==
  /\ Spend("updates")
  /\ SetBindAddrs
  /\ UNCHANGED <<jni, g_server_running, server_running, srv, lst, want, table,
                 up, taken, comps>>

Settled ==
  /\ srv = "exited"
  /\ lst \in {"none", "loop", "reread", "reapply", "poll", "accept", "closing",
              "exited"}

NativeStop ==
  /\ jni = "idle" /\ g_server_running
  /\ Patient => Settled
  /\ jni' = "test"
  /\ UNCHANGED <<g_server_running, server_running, srv, lst, net, want, comps,
                 left>>

(* The tail of native_stop_socks5_server. *)
NativeStopped ==
  /\ jni = "server"
  /\ srv = "exited"
  /\ g_server_running' = FALSE
  /\ jni' = "idle"
  /\ UNCHANGED <<server_running, srv, lst, net, want, comps, left>>

(* server_thread_func with socks5_server_main_dynamic. *)
MainDynamic ==
  /\ srv = "run"
  /\ IF server_running
     THEN /\ srv' = "exited" /\ g_server_running' = FALSE
          /\ UNCHANGED server_running
     ELSE /\ srv' = "flagged" /\ server_running' = TRUE
          /\ UNCHANGED g_server_running
  /\ UNCHANGED <<jni, lst, net, want, comps, left>>

(* pthread_create(&listener_thread) *)
SpawnListener ==
  /\ srv = "flagged"
  /\ srv' = "exited"
  /\ lst' = "pipe"
  /\ UNCHANGED <<jni, g_server_running, server_running, net, want, comps, left>>
-----------------------------------------------------------------------------
(* listener_task *)

Lst(from, to) == lst = from /\ lst' = to

(* pipe, slots_init, and the table is emptied. *)
ListenerPipe ==
  /\ Lst("pipe", "read")
  /\ sdpipe' = "open"
  /\ table' = [a \in Addrs |-> "none"]
  /\ UNCHANGED <<jni, g_server_running, server_running, srv, want, bind, up,
                 taken, pool, queue, busy, tcp, udp, dns, badJoin, left>>

(* reconcile_listeners copies the desired set under g_bind_lock. *)
ReconcileRead ==
  /\ Lst("read", "apply") \/ Lst("reread", "reapply")
  /\ want' = bind
  /\ UNCHANGED <<jni, g_server_running, server_running, srv, net, comps, left>>

(* Mutant: the eight fixed slots of an earlier version, here one short. *)
TightTable == MaxBind + Cardinality(Permanent) - 1

(* MAX_LISTENERS *)
MaxListeners == MaxBind + Cardinality(Permanent)

listener_is_ours(a) == table[a] = "ours"

(* bind and listen of add_listener_for_ip *)
CanBind(a) == a \in up \ taken

(* Mutant: the flag is only tested before the lock is taken. *)
MayBind == TRUE

StillRunning == server_running

(* The rest of reconcile_listeners, under g_listener_lock: slots that are   *)
(* not wanted or no longer ours are dropped, then loopback and the desired *)
(* addresses are added as long as there is a free slot.                    *)
ReconcileApply ==
  LET kept == {a \in Permanent \cup want : listener_is_ours(a)}
      missing == {a \in (Permanent \cup want) \ kept : CanBind(a)}
      room == MaxListeners - Cardinality(kept)
  IN /\ Lst("apply", "count") \/ Lst("reapply", "poll")
     /\ IF StillRunning
        THEN \E added \in SUBSET missing :
               /\ Cardinality(added) <= room
               /\ added = missing \/ Cardinality(added) = room
               /\ (missing \ added) \cap Permanent = {} \/ added \subseteq Permanent
               /\ table' = [a \in Addrs |->
                              IF a \in kept \cup added THEN "ours" ELSE "none"]
        ELSE UNCHANGED table
     /\ UNCHANGED <<jni, g_server_running, server_running, srv, want, bind, up,
                    taken, comps, left>>

FlagAfterFailure == FALSE

(* Nothing could be bound: the listener thread gives up and takes the pipe  *)
(* with it; nothing else has been created yet.                             *)
BindFailed ==
  /\ Lst("count", "exited")
  /\ \A a \in Addrs : table[a] = "none"
  /\ server_running' = FlagAfterFailure
  /\ sdpipe' = "closed"
  /\ UNCHANGED <<jni, g_server_running, srv, net, want, pool, queue, busy, tcp,
                 udp, dns, badJoin, left>>

BindOk ==
  /\ Lst("count", "workers")
  /\ \E a \in Addrs : table[a] # "none"
  /\ UNCHANGED <<jni, g_server_running, server_running, srv, net, want, comps,
                 left>>

(* Workers, handshake pool, UDP workers and resolvers, in this order. *)
CreateThreads ==
  /\ lst = "workers"
  /\ \/ tcp # "run" /\ tcp' = "run" /\ UNCHANGED <<pool, udp, dns, lst>>
     \/ /\ tcp = "run" /\ pool # "live" /\ pool' = "live"
        /\ UNCHANGED <<tcp, udp, dns, lst>>
     \/ /\ pool = "live" /\ udp # "run" /\ udp' = "run"
        /\ UNCHANGED <<tcp, pool, dns, lst>>
     \/ /\ udp = "run" /\ dns' = "run" /\ lst' = "loop"
        /\ UNCHANGED <<tcp, pool, udp>>
  /\ UNCHANGED <<jni, g_server_running, server_running, srv, net, want, sdpipe,
                 queue, busy, badJoin, left>>

ListenerLoop ==
  /\ Lst("loop", IF server_running THEN "reread" ELSE "closing")
  /\ UNCHANGED <<jni, g_server_running, server_running, srv, net, want, comps,
                 left>>

(* poll: the shutdown pipe, a readable listener, or the one-second timeout. *)
PollReturns ==
  /\ \/ Lst("poll", "closing") /\ sdpipe = "signalled"
     \/ Lst("poll", "accept") /\ sdpipe # "signalled" /\ left.clients > 0
     \/ Lst("poll", "loop") /\ sdpipe # "signalled"
     \/ Lst("accept", "loop")
  /\ UNCHANGED <<jni, g_server_running, server_running, srv, net, want, comps,
                 left>>

(* The test of job_pool_enqueue. *)
QueueHasRoom == pool = "live" /\ queue < QueueCap

(* accept on one of the polled listeners; job_pool_enqueue takes the        *)
(* connection or it is closed at once.                                     *)
Accept ==
  /\ lst = "accept"
  /\ Spend("clients")
  /\ \E a \in Addrs : table[a] = "ours"
  /\ queue' = IF QueueHasRoom THEN queue + 1 ELSE queue
  /\ UNCHANGED <<jni, g_server_running, server_running, srv, lst, net, want,
                 sdpipe, pool, busy, tcp, udp, dns, badJoin>>

ListenerExit ==
  /\ Lst("closing", "exited")
  /\ table' = [a \in Addrs |-> "none"]
  /\ UNCHANGED <<jni, g_server_running, server_running, srv, want, bind, up,
                 taken, comps, left>>

Listener == ListenerPipe \/ ReconcileRead \/ ReconcileApply \/ BindFailed
            \/ BindOk \/ CreateThreads \/ ListenerLoop \/ PollReturns
            \/ ListenerExit
-----------------------------------------------------------------------------
(* The other threads. *)

(* Mutant: a pool thread leaves as soon as stop is set. *)
ServingLive == pool = "live"

Serving == pool \in {"live", "stopping"}

(* job_pool_worker: a stopping pool still serves what is queued. *)
PoolTake ==
  /\ Serving
  /\ queue > 0 /\ busy < PoolSize
  /\ queue' = queue - 1 /\ busy' = busy + 1
  /\ UNCHANGED <<jni, g_server_running, server_running, srv, lst, net, want,
                 sdpipe, pool, tcp, udp, dns, badJoin, left>>

(* handle_handshake_fd comes back; its socket timeouts see to it. *)
PoolDone ==
  /\ busy > 0
  /\ busy' = busy - 1
  /\ UNCHANGED <<jni, g_server_running, server_running, srv, lst, net, want,
                 sdpipe, pool, queue, tcp, udp, dns, badJoin, left>>

Told == ~server_running \/ sdpipe = "signalled"

TcpExit ==
  /\ tcp = "run" /\ Told
  /\ tcp' = "exited"
  /\ UNCHANGED <<jni, g_server_running, server_running, srv, lst, net, want,
                 sdpipe, pool, queue, busy, udp, dns, badJoin, left>>

UdpExit ==
  /\ udp = "run" /\ Told
  /\ udp' = "exited"
  /\ UNCHANGED <<jni, g_server_running, server_running, srv, lst, net, want,
                 sdpipe, pool, queue, busy, tcp, dns, badJoin, left>>

(* An interface goes away and the kernel shuts its listener down; the       *)
(* number of the descriptor may come back as another socket.               *)
InterfaceDown ==
  /\ Spend("flaps")
  /\ \E a \in up \ Permanent :
       /\ up' = up \ {a}
       /\ \E s \in {"dead", "other"} :
            table' = [table EXCEPT ![a] = IF @ = "ours" THEN s ELSE @]
  /\ UNCHANGED <<jni, g_server_running, server_running, srv, lst, bind, want,
                 taken, comps>>

InterfaceUp ==
  /\ up # Addrs
  /\ up' = Addrs
  /\ UNCHANGED <<jni, g_server_running, server_running, srv, lst, bind, want,
                 table, taken, comps, left>>
-----------------------------------------------------------------------------
(* socks5_server_quit *)

QuitStep(from, to) ==
  /\ jni = from /\ jni' = to
  /\ UNCHANGED <<g_server_running, srv, want, bind, up, taken, left>>

Quit(from, to) == QuitStep(from, to) /\ UNCHANGED lst

QuitTest ==
  /\ Quit("test", IF server_running THEN "flag" ELSE "server")
  /\ UNCHANGED <<server_running, table, comps>>

QuitFlag ==
  /\ Quit("flag", "close")
  /\ server_running' = FALSE
  /\ UNCHANGED <<table, comps>>

QuitClose ==
  /\ Quit("close", "wake")
  /\ table' = [a \in Addrs |-> "none"]
  /\ UNCHANGED <<server_running, comps>>

QuitWake ==
  /\ Quit("wake", "listener")
  /\ sdpipe' = IF sdpipe = "open" THEN "signalled" ELSE sdpipe
  /\ UNCHANGED <<server_running, table, pool, queue, busy, tcp, udp, dns,
                 badJoin>>

(* pthread_join(listener_thread) *)
QuitListener ==
  /\ lst \in {"none", "exited"}
  /\ QuitStep("listener", "pool")
  /\ lst' = "none"
  /\ badJoin' = (badJoin \/ lst = "none")
  /\ UNCHANGED <<server_running, table, sdpipe, pool, queue, busy, tcp, udp,
                 dns>>

(* job_pool_shutdown: stop is set ... *)
QuitPool ==
  /\ Quit("pool", "poolwait")
  /\ pool' = "stopping"
  /\ badJoin' = (badJoin \/ pool # "live")
  /\ UNCHANGED <<server_running, table, sdpipe, queue, busy, tcp, udp, dns>>

(* Mutant: running handlers are waited for, queued connections forgotten. *)
PoolIdle == busy = 0

(* Mutant: the pool is told to stop but not joined. *)
NoWait == TRUE

PoolDrained == queue = 0 /\ busy = 0

(* ... and all its threads are joined. *)
QuitPoolJoin ==
  /\ PoolDrained
  /\ Quit("poolwait", "dns")
  /\ pool' = "none"
  /\ UNCHANGED <<server_running, table, sdpipe, queue, busy, tcp, udp, dns,
                 badJoin>>

(* udp_dns_resolvers_stop *)
QuitDns ==
  /\ Quit("dns", "udp")
  /\ dns' = "none"
  /\ badJoin' = (badJoin \/ dns = "none")
  /\ UNCHANGED <<server_running, table, sdpipe, pool, queue, busy, tcp, udp>>

(* The UDP workers are joined, their locks and wake-up pipes destroyed. *)
QuitUdp ==
  /\ udp # "run"
  /\ Quit("udp", "tcp")
  /\ udp' = "none"
  /\ badJoin' = (badJoin \/ udp = "none")
  /\ UNCHANGED <<server_running, table, sdpipe, pool, queue, busy, tcp, dns>>

QuitTcp ==
  /\ tcp # "run"
  /\ Quit("tcp", "pipe")
  /\ tcp' = "none"
  /\ badJoin' = (badJoin \/ tcp = "none")
  /\ UNCHANGED <<server_running, table, sdpipe, pool, queue, busy, udp, dns>>

QuitPipe ==
  /\ Quit("pipe", "server")
  /\ sdpipe' = "closed"
  /\ UNCHANGED <<server_running, table, pool, queue, busy, tcp, udp, dns,
                 badJoin>>

QuitServer == QuitTest \/ QuitFlag \/ QuitClose \/ QuitWake \/ QuitListener
              \/ QuitPool \/ QuitPoolJoin \/ QuitDns \/ QuitUdp \/ QuitTcp
              \/ QuitPipe \/ NativeStopped

Next ==
  \/ NativeStart \/ UpdateBindAddrs \/ NativeStop \/ MainDynamic \/ SpawnListener
  \/ Listener \/ Accept \/ PoolTake \/ PoolDone \/ TcpExit \/ UdpExit
  \/ InterfaceDown \/ InterfaceUp \/ QuitServer

Spec == Init /\ [][Next]_vars

(* Every thread is scheduled, poll returns after a second at the latest and *)
(* a handler ends by its timeouts; nobody has to start or stop the engine,  *)
(* and interfaces need not come back.                                      *)
FairSpec ==
  /\ Spec
  /\ WF_vars(MainDynamic \/ SpawnListener) /\ WF_vars(Listener) /\ WF_vars(QuitServer)
  /\ WF_vars(PoolTake) /\ WF_vars(PoolDone)
  /\ WF_vars(TcpExit) /\ WF_vars(UdpExit)
-----------------------------------------------------------------------------
(* Properties *)

(* Every variable has its type; the handshake queue never exceeds its       *)
(* capacity and never more handlers run than there are pool threads.       *)
TypeOK ==
  /\ jni \in JniPc /\ lst \in ListenerPc
  /\ srv \in {"none", "run", "flagged", "exited"}
  /\ g_server_running \in BOOLEAN /\ server_running \in BOOLEAN
  /\ bind \in SUBSET Addrs /\ want \in SUBSET Addrs
  /\ table \in [Addrs -> SlotState]
  /\ up \in SUBSET Addrs /\ taken \in SUBSET Addrs
  /\ sdpipe \in {"closed", "open", "signalled"}
  /\ pool \in {"none", "live", "stopping"}
  /\ queue \in 0..QueueCap /\ busy \in 0..PoolSize
  /\ tcp \in Thread /\ udp \in Thread /\ dns \in {"none", "run"}
  /\ badJoin \in BOOLEAN
  /\ left \in [{"starts", "updates", "flaps", "clients"} -> Nat]

Listening == {a \in Addrs : table[a] = "ours"}

(* After native_stop_socks5_server has returned (or before the first start) *)
(* nothing of the engine is left: the flag is down, the port is released on *)
(* every address, every thread has been joined, no accepted connection is   *)
(* still waiting and the shutdown pipe is closed.  The README promises it:  *)
(* "All listeners close immediately, the port is fully released".          *)
StoppedIsQuiet ==
  jni = "idle" /\ ~g_server_running =>
    /\ ~server_running
    /\ Listening = {}
    /\ queue = 0 /\ busy = 0
    /\ pool = "none" /\ tcp = "none" /\ udp = "none" /\ dns = "none"
    /\ sdpipe = "closed"

(* What a thread uses outlives it: a handshake may lock the workers' lists  *)
(* as long as it runs, a resolver writes to the UDP workers' pipes, and     *)
(* listener and workers wait on the shutdown pipe (the order of the steps   *)
(* of socks5_server_quit); and quit waits only for threads that exist, also *)
(* after a start that could bind nothing.                                   *)
UsedIsLive ==
  /\ ~badJoin
  /\ busy > 0 => tcp # "none" /\ udp # "none"
  /\ dns = "run" => udp # "none"
  /\ tcp = "run" \/ udp = "run" \/ lst = "poll" => sdpipe # "closed"

(* Once quit has closed the listeners nothing is bound again, although the  *)
(* listener thread may be in the middle of reconcile_listeners.            *)
NoRebind ==
  jni \in JniPc \ {"idle", "test", "flag", "close"} => Listening = {}

(* A wanted address whose interface is there gets a listener again, however *)
(* often the interface went away and the address set was replaced.          *)
Heals ==
  \A a \in Addrs :
    LET wanted == /\ server_running /\ lst # "none"
                  /\ a \in Permanent \cup bind /\ a \in up \ taken
    IN wanted ~> (a \in Listening \/ ~wanted)

(* native_stop_socks5_server returns: no wait of socks5_server_quit is for  *)
(* ever.                                                                    *)
StopCompletes == jni = "test" ~> jni = "idle"
=============================================================================
