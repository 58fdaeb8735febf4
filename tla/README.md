# A TLA+ model of the 5G-Proxy-Pro engine

5G-Proxy-Pro is an Android app that offers a SOCKS5 proxy on the LAN side of a
phone and sends the traffic out over the cellular network. Its core is a C engine
(`app/src/main/cpp/simple-socks5.c` with a few pure helper files); a Kotlin
service starts and stops it, opens the outgoing sockets and watches the networks.
The modules here model the engine and the service around it, TLC checks them on
small instances, and TLAPS proves the safety of eight of them for all sizes: every
safety invariant of the passing runs, and the refinement of the abstract relay.

## 1. Inventory

### Parts of the system

| part | state | operations | hard because |
|---|---|---|---|
| TCP connections (`simple-socks5.c` 65-747, `conn_state.c`) | static slot table with generations, free stack, per-worker list and lock, `refs`, `closed`, `registered`, `g_conn_count` | reserve, `slot_acquire`, `handoff_to_worker`, event validation, garbage, sweep, exit drain, `conn_finalize` | 192 pool threads and 4 workers share slots; residual events of former tenants; five rollback paths; shutdown in the middle of all this |
| engine start and stop (`jni_bridge.c`, `simple-socks5.c` 2109-2186, 2300-2749) | `g_server_running`, `server_running`, listener table, desired addresses, pipe, pool, threads | start, stop, update, reconcile, accept, quit | two flags set by two threads, interfaces that vanish, an order of joins that must match who uses what |
| name resolution for UDP (`simple-socks5.c` 1028-1319, `udp_dns.c`) | job table per worker, request ring, wake-up pipe, held frames, address cache | route, defer, resolve, wake, drain, flush, drop | three kinds of threads; results after the request's session is gone; full ring; restart with static tables |
| UDP sessions (`simple-socks5.c` 900-1026, 1339-2028, `udp_conn.c`) | slot table, frame reassembly, outgoing frame, interest masks | start session, control/local/remote/data events, sweep | non-blocking partial reads and writes, back-pressure, idle time-out |
| TCP forwarding (`simple-socks5.c` 242-311, 449-520, `conn_forward.c`) | two buffers, EOF times, interest masks | send, receive, half-close, grace | half-close in either direction against a stalled peer |
| ghost purger (`ghost_purge.c`) | ring of stamps, counting table | record, track, purge | fixed-size tables under an event storm |
| handshake and wire format (`simple-socks5.c` 2031-2294, `socks5_protocol.c`) | credentials | method choice, authentication, request, encode, parse | lengths and limits |
| fd registry (`Socks5ProxyService.kt` 292-304, 856-984) | `activeSockets` keyed by fd number | open, detach, close on both sides | fd numbers are reused at once |
| proxy service (`Socks5ProxyService.kt`, `BootReceiver.kt`) | service state, current network, health check | start, stop, network change, restart, fail | intents, callbacks and coroutines in any order |
| cellular network (`CellularNetworkManager.kt`, `NetworkHealthClassifier.kt`) | current network, waiters | callbacks, `awaitNetwork` | callbacks against time-outs |
| resolver and racing (`DnsCache.kt`, `HappyEyeballs.kt`) | cache, in-flight requests, racing sockets | lookup, clear, race | single flight, losers that must be closed |
| user interface, self test, permissions, hotspot | none of interest | | pure I/O, not modelled |

### How they interact

The JNI thread creates the *server thread*, which sets `server_running` and creates
the *listener thread*. That one binds listeners, creates 4 TCP workers, 192
handshake threads, 4 UDP workers and 4 resolvers, and then accepts. A handshake
thread reads the SOCKS5 request, asks Kotlin for a socket on the cellular network
and hands the pair to a worker: it links the connection into the worker's list and
registers both fds with the worker's epoll under the worker's `list_lock`. Only the
worker closes a linked connection; whoever drops the last reference finalizes it.
A UDP worker hands names to the resolvers through a ring and is woken through a
pipe. `socks5_server_quit` undoes all of this in a fixed order.

### What makes each part correct

* a slot has exactly one owner, its reference is dropped exactly once, its events
  never reach another tenant, and the connection counter is exact on every path;
* stop leaves nothing behind and never waits for or uses what does not exist;
  wanted listeners come back when their interface does;
* an answer goes into the job that asked, no wake-up is lost, nothing is held for
  ever, and a frame is sent where its header says;
* frames cross a UDP session whole and in order however reads and writes are cut,
  a client that stalls neither spins the worker nor loses its data, and every
  session that is closed is released;
* the bytes of a TCP connection cross it once and in order, a worker is never woken
  for nothing, a half-closed connection neither stays for ever nor ends too early;
* a socket that two languages refer to by number is closed once, by whoever is last,
  and never taken for the next one that gets the number;
* a client is let in by one configuration, is understood to the byte, is told the
  truth about its session, and its datagrams keep destination and origin;
* a stop is never swallowed by a start, restart or retry in progress, no engine runs
  without its service, a running service is watched, and the flags that disable the
  watchdog are always released.

The full list of hazards, each at its line and with the properties aimed at it, is
in `PROJECT.json`.

## 2. Modules

| module | models |
|---|---|
| `ConnSlots` | the life of a TCP connection: slots, hand-over, worker loop, finalize, stop |
| `Engine` | JNI entry points, listener thread and reconciliation, pool, quit |
| `UdpDns` | asynchronous name resolution of the UDP relay, with stop and restart |
| `UdpSession` | the life of a UDP session and its relay: start, handlers, back-pressure, sweep, stop |
| `ConnForward` | what a worker does with the bytes of one TCP connection |
| `Relay` | the abstract service that `ConnForward` implements |
| `Sockets` | descriptor numbers across Kotlin and C: connection race, `activeSockets`, finalize, ghost purger |
| `Wire` | parsers and encoders of the SOCKS5 messages and datagram headers, as operators |
| `Handshake` | one client on a handshake thread, and the datagrams of its session |
| `ProxyService` | the Android service: intents, coroutines, callbacks, watchdog loops, health |
| `ConnSlotsProofs`, `EngineProofs`, `UdpDnsProofs`, `UdpSessionProofs`, `ConnForwardProofs`, `SocketsProofs`, `HandshakeProofs`, `ProxyServiceProofs` | theorems about the module each is named after |
| `MC...` | the instances TLC checks |

The modules meet where the code's components do: what a processed event does is a
choice in `ConnSlots` and spelled out in `ConnForward`; the outcome of the limits and
of the socket request is a choice in `Handshake`, the limits are in `ConnSlots` and
`UdpSession`, the socket is in `Sockets`; starting and stopping the engine is one step
of `ProxyService` and a whole module in `Engine`; `UdpSession` hands each frame to
`UdpDns`; that a stamp is never used twice, which `Sockets` relies on, is
`FreshTenant` of `ConnSlots`.

Operators whose comment starts with *Mutant:* are deliberately wrong variants of
the definition after them. They are part of no specification; each shows that a
property would notice that mistake.

### ConnSlots

Each pool thread (`Handoffs`) and each worker is a small program counter machine;
`pc` names the place in the code. Steps are split where another thread can look:
`slot_acquire` pops and advances the generation under its lock (`SlotAcquire`),
clears the slot outside it (`SlotReset`); `handoff_to_worker` holds the list lock
from `HandoffLink` to `HandoffAddTarget`, because the worker may already receive
the client's event between the two registrations; `conn_finalize` is four steps
(unlink and poison, close and count, release, push). The check of an event is two
steps, `ReadGen` and `CheckSlot`: the arguments of `conn_event_check_slot` are
separate reads. `conn_unref` is an operator used by every path that drops a
reference; like the code it finalizes on the transition 1 to 0 only.

`armed` is what the worker's epoll holds. `FinalizeClose` may leave the target's
registration behind when `JavaLeaks` is TRUE: the Java copy of the socket keeps the
open description alive, which is where the residual events come from that the
generations are for. Time is abstracted: a registered connection may be idle
whenever the sweep looks. The worker list is a set and the free stack a multiset,
so that a slot pushed twice is visible. `list_remove_locked` on an entry that is
not linked empties the list, as the code would.

### Engine

The caller of start and stop (`jni`), the server thread (`srv`) and the listener
thread (`lst`) are program counters; TCP workers, UDP workers, resolvers and pool
are one state each. The table of listeners is a function from addresses to what the
slot's number means now: nothing, our listener, a socket the kernel has shut down,
or a reused number. `reconcile_listeners` is two steps because it uses two locks.
`badJoin` records that quit waited for something that was never created.

### UdpDns

A worker runs one handler at a time, so `udp_route_frame` is one step; the drain
goes job by job, since resolvers store results meanwhile. Requests carry worker,
job index and host, as in the ring. The cache maps a host to the ports of its
unexpired entries: the address is the same for all, the port is what the code
stores with it. `misrouted` is a history variable. Job table and ring survive a
stop; `StartWorkers` and `StartResolvers` reset them in the code's order.

### UdpSession

A pool thread per client (`st`) goes through `udp_start_session`; a step ends where
it can fail or where the worker can see it (linked, registered). The worker takes a
batch of ready events, handles each one turn of its handler's loop at a time, sweeps,
releases the garbage, and on a stop drains its list in batches. TCP streams are
sequences of bytes named by frame and position, so that a reader out of step is
visible (`garbled`), and a client's socket takes `SockBuf` bytes until the client
reads. The masks `clientOut` and `remoteIn` are what `udp_update_events` maintains.
Time is abstracted: a session that was not touched in this iteration and owes nothing
may have expired. `lost` records what the sweep drops when the bucket is full.

### ConnForward and Relay

One registered connection and its two peers. A stream is a record of positions: bytes
are numbered as they are written, and the model keeps how many were sent, taken by
`recv`, handed over and read at the other end, besides `len` and `off` of the buffer
as in `full_conn_t`. The handler of an event is a sequence of steps in the order of
the code (flush t2c, flush c2t, read the client, read the target, then in one step the
RDHUP bit, the verdict and `update_conn_events`), because the peers go on meanwhile:
bytes and FINs arrive between a `recv` and the peek that follows it. A batch is taken
with the events of both sides, which may be out of date when the second one is
handled. A send puts into the peer's socket what its `Window` has room for. Time is
abstracted: `eof` turns from `new` to `expired` when the grace period is over, `idle`
may become true when no event has touched the connection since.

`Relay` has no buffers, masks or timers: a peer writes, half-closes or breaks, the
next bytes are delivered, and the connection ends with a reason that must be true
(*complete* only with a target that has closed and a client that was handed all of
its bytes). The refinement mapping takes the positions of the streams and `closed`.

### Sockets

`fdtab` is the kernel's table from numbers to sockets; an open gets the lowest free
number, and a socket lives as long as one number leads to it. A request first races
one Java socket per address (`HappyEyeballs.attempt`; winner, abandoned flag and latch
are separate steps on both sides), then the winner is duplicated for C, entered in
`activeSockets` under C's number, registered with epoll and recorded in the stamp
ring. `conn_finalize` is three steps: close the client, tell Kotlin, close the target.
A request in `Failing` is one whose release does not reach Kotlin (the JVM cannot be
attached, or the service instance is gone), which is how a ghost comes about: C's
number is closed, the Java number keeps socket and registration. `EPOLL_CTL_DEL`
finds a registration by number *and* socket, as the kernel does.

### Wire and Handshake

`Wire` holds the functions of `socks5_protocol.c` as operators on sequences of bytes,
with the code's offsets; a reader that gets a prefix of a message answers `short`, as
`recv` with `MSG_WAITALL` goes on waiting. `Handshake` runs one client through them:
each message may be cut anywhere, after which the client is silent; the request may be
sent without waiting for the answers and may be followed by data of the tunnel; the
configuration may change at every step. The properties do not use `Wire`: formats,
address families and admission are defined again from the protocol (`DatagramFor`,
`HostOf`, `WellFormed`, `Admits`), so that an offset that is wrong in the same way in
reader and writer is found.

### ProxyService

The main thread works through `inbox`: START and STOP intents and, after `stopSelf`,
the destruction of the instance. Coroutines (`co`) carry a program counter cut
wherever the code reads a flag and acts on it later; cancelling the scope ends one
only where it suspends or has not begun, and throws into `awaitNetwork`. The loops of
`loopsJob` are a set per instance. Flags are per instance, while `status`,
`isServiceRunning` and the engine belong to the process and outlive it. The system
reports network changes through `events`, in order, to every registered monitor.
Starting and stopping the engine is one step; `Engine` looks inside. `updateStatus`
also moves the button of `DebugActivity` (`isRunning`), which decides what the next
tap sends.

## 3. Runs

| run | expect | instance | shows |
|---|---|---|---|
| `conn_slots` | pass | 2 slots, 2 pool threads, 1 worker, bucket of 1, 3 connections, leaking Java sockets | ownership, references, counter, generations, event validation, stop protocol, tenancies during a stop |
| `conn_slots_live` | pass | 1 slot, 2 pool threads, bucket of 2, 2 connections | closed connections are released, quit returns |
| `engine` | pass | loopback and 2 addresses, 2 starts, 1 update, 1 interface loss, 2 clients, queue of 1, pool of 1 | clean stop, order of joins, no rebinding, healing |
| `zombie` | violation | same, stop at any time | stop before the server thread has set its flag |
| `udp_dns` | pass | 3 names, 2 jobs, 2 held frames, ring of 1, 2 resolvers, 3 frames, 1 restart | the resolution protocol, liveness of held frames |
| `udp_port` | violation | 1 name, 2 ports | frame sent to another frame's port |
| `udp_session` | pass | 2 slots; 2 idle sessions with a bucket of 1; no free slot; 1 session with 9 bytes in, 3 datagrams out, or both, with a bucket of 2 | frames, back-pressure, counter, stop, delivery |
| `proxy_service` | pass | 1 network, 1 tap besides the start at boot, 1 retry, 2 faults, 3 coroutines | no zombie engine, flags, watchdog, stop completes |
| `conn_forward` | pass | buffers and windows of 2 bytes; 3 bytes one way or 1 byte each way | byte accounting, masks, refinement of `Relay`, reaping, delivery |
| `cut_response` | violation | same | a response longer than a buffer is cut although the client reads |
| `sockets` | pass | 2 requests, one with a race of 2 addresses, one TCP or UDP with a lost release; 7 numbers, ring of 2, threshold of 2 | ownership of numbers, purger, late winners, no leak |
| `handshake` | pass | 3 configurations, 1 change, 5 greetings, 4 credentials, 12 requests, 4 local addresses, all prefixes of 3 datagrams and two dozen damaged ones | admission, parsing, replies, datagram headers |

**Bounds.** A bucket of one event reaches the full-bucket branch of the sweep and
more than one batch of the exit drain with two connections; three connections over
two slots force reuse; two pool threads are enough for a rollback to race a reuse.
`MaxConns` equals the number of slots, so both the limit and (through the decrement
that precedes the push) the empty stack are met. One worker keeps
the run short; the safety properties of `conn_slots` are proved for any number. What two
workers can do to each other while the server stops is under *Known limits*. In
`engine` two starts cover a restart after a stop and after a failed bind (`taken`),
one loss of an interface and one update cover both reasons for dropping a slot. In `udp_dns` three names over two jobs
reach the full job table and a ring of one the full ring; one restart is enough to
meet stale requests.

In `udp_session` the bounds (`Loads`) are checked one by one in one run: nine bytes
are a frame of two bytes, one of one byte and an illegal length; frames of two bytes
against a socket that takes one reach every cut of a send, and three datagrams the
case where one waits while another is half sent. Sessions of other workers stand for
a full slot table. In `proxy_service` a fault is a change of network, a death of the
engine or a restart by a loop; two of them in any order meet every step of a start.
Two instances of the service (the one from boot and the one from a tap) are met; two
taps are beyond what the liveness check can do.

In `conn_forward` three bytes are one more than a buffer and than a window, so that
buffers fill, sends are cut and data stays unread behind a FIN; a load in each
direction at once needs only one byte for every pair of conditions. Invariants and
refinement are proved for all sizes. In `sockets` the two requests have seven
numbers at most at once (two clients, three candidates, two duplicates); one ring entry
per request shows the purge, and a number that passes from the first request to the
second shows what a wrong purge or a late close would do. In `handshake` the
configurations share no field, so that a mixture of two is visible; one is longer than
the buffer and one incomplete; credentials of 2 bytes stand for 255. The three
datagrams are one per address type, and each is cut at every length.

**Deadlock** is not checked: all eight systems may come to rest (stopped, or no
client left), and the bounded inputs run out.

**Fairness.** Threads of the program are scheduled (weak fairness per thread);
`poll`, `epoll_wait` and `request_java_resolve_host` have time-outs and the pipes
are level-triggered, so a ready thread is never stuck in them. `conn_finalize` gets
strong fairness because it competes for `list_lock` with its worker's sweep, which
takes the lock once in five seconds for a short walk: a mutex that is free most of
the time is eventually acquired. No fairness is assumed of clients, users, networks
or interfaces; a stop, once begun, goes on. `Delivered` of `udp_session` is about
clients that go on reading, which is a premise of the property and not of the
specification. In `proxy_service` the main thread and the coroutines are scheduled:
`awaitNetwork` times out, delays end, and the system destroys a service that asked
for it; loops and callbacks are not assumed to run.

In `conn_forward` the worker is scheduled (weak fairness of the handler) and the grace
period passes; the sweep, which shares the thread with the handler, is due every five
seconds and gets strong fairness, because events that keep arriving may disable it at
any moment but not for ever. Peers are free to stall: that the other side goes on
reading is a premise of `Relayed` and of half of `Reaped`. In `sockets` attempts and
handshake threads are scheduled and `connect` has a time limit; peers, users and the
purger are not assumed to act.

### What the violations say

* `zombie`: `native_stop_socks5_server` right after start finds `server_running`
  still 0 and returns, after which the server thread starts the engine. The `engine`
  run therefore assumes `Patient`: stop is only called once start-up has settled.
* `udp_port`: the cache is keyed by name and stores the port.
* `cut_response`: the RDHUP bit of an event is believed before the data in front of
  the FIN has been read (line 501). With more than `BUFFER_SIZE` bytes unread the
  target is no longer armed for reading, so only an event of the client lets the
  worker go on, and the sweep closes the connection two seconds later. A client that
  takes data slowly keeps sending OUT events and is served; one that takes everything
  at once is not.

### Known limits

These statements are defined in the modules, are made by a comment of the code or
follow from one, and do not hold. Each can be seen with the constants of the run named
first and the property as the only one of the configuration.

* `conn_slots`, `JavaLeaks = FALSE`, INVARIANT `NoOverUnref`: `garbage_count` is reset
  only at the top of the loop. A worker that leaves by the loop test unrefs the
  finished iteration's garbage again at line 650 (line 1829 in the UDP worker). While
  no connection is being opened this only makes `refs` negative; otherwise it can drop
  the reference of a new tenant. The comment at 674-675 calls this impossible.
* `conn_slots` with two workers, one pool thread, `MaxConns = 2` and `JavaLeaks = FALSE`,
  INVARIANT `CleanStop` (a trace of 64 steps, after more states than the runs have): the
  same second unref, made by a worker that has left its loop, finalizes a connection of
  another worker that is still in its own. If that one is about to close the connection
  for a fatal error, it finds `closed` unset and calls `list_remove_locked` (line 530)
  for an entry that is linked no more, whose NULL neighbours empty the whole list (line
  234). What else was on the list is never unreferenced: slot, both fds and its share of
  `g_conn_count` are still in use when `socks5_server_quit` returns, whereas the worker's
  exit is meant to clean up all that remains (621). With one worker `CleanStop` holds.
  `EndsOnce` is what holds in every case. `UdpSession` has one worker, so that what
  another one's second unref does to its sessions is not in it.
* `conn_slots`, `JavaLeaks = FALSE`, INVARIANT `RightTenant`: the client's event can
  arrive between the two registrations; if the second fails, the rollback runs on the
  pool thread, unsynchronised with the worker's reads, and after a reuse of the slot
  the event is processed on the new tenant (comments at 124 and 403).
* `udp_session`, INVARIANT `NoneLost`: the UDP sweep unlinks an expired session before
  it looks whether the garbage array has room (line 1785). In the program this takes
  more than 512 sessions of one worker that expire in one sweep.
* `proxy_service`, `MaxFaults = 0`, INVARIANT `StopEndsStopped`: the catch-all of
  `startProxy` (547) takes the cancellation that follows a stop for a failed start, and
  `onDestroy` keeps FAILED.
* `sockets`, SPECIFICATION `StormSpec`, PROPERTY `StormCut`: the purger finds the Java
  number of a leaked socket in `/proc/self/fd`, but the registration was made under
  C's number, which is closed, and `EPOLL_CTL_DEL` with another number of the same
  socket finds nothing (`ghost_purge.c` 79-82 and 139-141). The ghost is reported until
  Kotlin closes its socket. Besides, `(u64 >> 13) & 511` is 0 for every slot index
  below 8192: all stamps share one entry of the counting table.

Smaller differences between comments and code that the models show without a property:
a CONNECT at the connection limit is closed without a reply (2267-2270), while
`socks5_protocol.h:71` reserves 0x01 for that case and the UDP path uses it; data for
the target that is still pending when the target's FIN is read is dropped (490),
while 286-287 lets it drain within the grace period; a client's FIN behind data that
the target does not take keeps its RDHUP armed, which `NoSpin` names as its exception.

## 4. Proofs

The proof modules follow one pattern: an inductive invariant, which TLC has checked
on an instance before it was proved, one lemma per action or group of actions, and
theorems that combine them with PTL.

| theorem | states | of |
|---|---|---|
| `ConnSlotsProofs.TypeCorrect`, `StopSafe`, `GenerationsFresh`, `OneOwner`, `RefsMatchOwners`, `EventsMeetOwner`, `CountIsExact`, `TenanciesEndOnce` | `TypeOK`, `StopProtocol`, `FreshTenant`, `SingleOwner`, `RefAccounting`, `ProcessedIsLive`, `CountExact`, `EndsOnce` | `ConnSlots` |
| `EngineProofs.EngineTyped`, `StopLeavesNothing`, `UsersBeforeUsed`, `ClosedStaysClosed` | `TypeOK`, `StoppedIsQuiet`, `UsedIsLive`, `NoRebind` | `Engine` |
| `UdpDnsProofs.TypeCorrect`, `AnswersBelong`, `NoLostWakeup`, `HeldHasJob`, `OneJob`, `WakeSafe` | `TypeOK`, `InflightTracked`, `DoneIsSignalled`, `PendHasJob` and two parts of the invariant | `UdpDns` |
| `UdpSessionProofs.Inductive`, `TypeCorrect`, `FramesStayWhole`, `MasksAlwaysFit`, `CountStaysExact` | the invariant, `TypeOK`, `WholeFrames`, `MasksFit`, `CountExact` | `UdpSession` |
| `ConnForwardProofs.TypeCorrect`, `BuffersExact`, `NeverSpins`, `ImplementsRelay` | `TypeOK`, `Accounted`, `NoSpin`, `Relays` | `ConnForward` |
| `SocketsProofs.SocketsTyped`, `SocketStaysOwn`, `ServedStaysArmed`, `EverySocketHasACloser` | `TypeOK`, `OwnSocket`, `StaysArmed`, `NoOrphan` | `Sockets` |
| `HandshakeProofs.Inductive`, `TypeCorrect`, `AuthenticationIsAtomic`, `HandshakeUnderstood`, `ClientToldTheTruth`, `DatagramsRouted` | the invariant, `TypeOK`, `Authorized`, `Understood`, `Told`, `RoutedRight` | `Handshake` |
| `ProxyServiceProofs.EngineStopsWithService`, `FlagsEndWithTheirHolder`, `RunningServiceWatched` | `NoZombie`, `FlagsReleased`, `RunningIsWatched` | `ProxyService` |

### The arguments

* `ConnSlotsProofs`: `TypeCorrect` needs, besides `TypeOK`, what each thread's
  locals mean at each place (`LocalsOK`: a thread between acquiring and finishing
  holds a slot, a finalizing one a slot with a worker). `StopSafe` adds that
  `list_lock` is held by the pool thread that is between its two registrations, that
  a worker past `ExitWorker` is stopping, and that a worker past its last drain batch
  has an empty list.
* The second part of `ConnSlotsProofs` is about ownership. `GenInv` says that no registration and no
  event in flight is younger than its slot, from which `GenerationsFresh` follows at
  once. Ownership is a statement about a server that runs (`server_running`); the
  invariant is `Apart` (no two of free stack, threads, lists and garbage hold one slot,
  except a pool thread and the list it has just linked to), `Somewhere` (each slot is
  in one of them), `Fields` (what the place of a slot says about `refs`, `closed`,
  `magic` and the rest) and `Served` (the sweep visits only linked connections, an
  event is processed only on one, and a registered one has both its registrations).
  None of the four is inductive alone: that an unref finalizes needs `refs = 1` of
  `Fields`, and that the finalized slot is nobody else's needs `Apart`. `LoopInv` and
  `VisitInv` place the worker's leftovers within its loop.
* The third part of `ConnSlotsProofs` is about the whole run, its end included, where
  ownership is lost. `StageInv` does not ask who drops a reference: a slot is on the
  free stack, or has `refs = 1` and is not finalized, or is in the hands of exactly one
  thread that builds a tenant there or finalizes one, and only one of these. An unref
  that comes too late or twice takes the slot from the second stage to the third or
  makes a count negative that is used up; it can never start a second `conn_finalize`.
  The counter follows the stages (`CountInv`): every step that moves a slot into or out
  of use moves one reservation. `TenanciesEndOnce` is both, and `CountIsExact` says the
  same in terms of the owners while the server runs.
* `EngineProofs`: `Life` relates the two flags to where JNI caller, server thread and
  listener thread are; `Parts` says what exists at each place of start-up, service and
  shutdown; `Bound` that nothing listens before the first reconciliation and after the
  close. `ReconcileApply` tests `server_running` under the lock under which quit clears
  the table, which is what `Bound` rests on. Except for the types, the theorems assume
  `Patient`: without it `StoppedIsQuiet` is false, as the `zombie` run shows.
* `UdpDnsProofs`: the invariant is the conjunction of all the safety properties of
  the run with `PhaseInv` (an exited worker has no sessions and no drain, after the
  join all resolvers have exited, while starting there are no sessions and all jobs
  are free, a busy resolver holds a request). They support each other: that a held
  frame has a job needs one job per host, which needs that answers belong.
* `UdpSessionProofs`: `Phase` says where the worker is in its loop and what it may hold
  there. The life of a session is `Control`: a slot is free, has its reference or is
  being finalized, and only one thread finalizes it (`Refs`); which slots belong to
  this worker's sessions at all (`Own`); a session on the list is settled, that is its
  pool thread has let go of it, and what waits in `todo` or was lost by a full bucket is
  on no list (`Listed`); a session under construction is seen by its builder alone until
  it is linked (`Built`); and a client that is still connected has a thread or a session
  (`Connected`). The last is what `CountExact` needs besides the count itself: after a
  stop no client is left but the lost ones. `Data` is about the bytes: what a client has
  on its way are the next bytes of its frames; header, partial body and expected length
  in the slot are the frame that comes before them; and the bytes a client has received
  are the frames it was sent up to the offset in the outgoing frame. A handler changes
  several of these in a row. So the handlers are proved about one session and its
  client (`HData`), each preserving what holds while it is at work, and one lemma carries
  the result back to the table. That the masks fit is a fact of every listed session
  except the one whose handler runs. A step that leaves the life of all sessions alone
  (`Quiet`) keeps `Control`, one that leaves the bytes alone keeps `Data`.
* `HandshakeProofs` has two halves. The first is about the operators of `Wire`, for
  messages of every length: what the client writes has the layout the parsers read
  (`GreetingLayout`, `CredLayout`, `AskLayout`), and a parser that is given the beginning
  of a message says *short* if it is not all there, *bad* only if the protocol says so,
  and otherwise gives the message and leaves what follows (`GreetingRead`, `CredRead`,
  `RequestRead`); a datagram has a header exactly if it is one of the protocol with data
  (`ParseFits`, `ParseOnly`, `RouteSound`, `RouteComplete`); replies and answers name
  what they should (`ReplyMeans`, `AnswerMeans`); and two addresses have the same normal
  form exactly if they are one host (`SameIp`). The second half is the invariant: while a
  message is awaited the stream is what the client was invited to send, whole or cut off
  where it fell silent (`Greeting`, `Method`, `Auth`, `Requesting`, all in terms of
  `Awaits`); a client that has been invited to speak and has not spoken has a server
  that listens (`Turns`); and each stage has what it needs and nothing of a later one
  (`Stages`). `Authorized` then rests on the snapshot being a configuration that was in
  force, `Told` on a reply being the first message longer than two bytes.
* `ConnForwardProofs`: the invariant joins the types, `Accounted` and `Reasoned`, which
  says what the handler's locals mean: an end that is noted, or still to be handled in
  the batch, has happened; a connection is only closed between two events; *error* was
  decided with a broken peer and *complete* with nothing of the target unread or in the
  buffer. `NeverSpins` follows state by state from the masks of
  `conn_forward_interest`. `ImplementsRelay` shows that every step of the forwarder is
  a step of `Relay` or leaves its variables alone: the peers' actions map to theirs, a
  send that moves bytes to `Deliver`, the end of a handler and the sweep to `End`, and
  the decision *complete*, taken from a peek at the target, is valid when it is carried
  out because a peer that has half-closed writes nothing more.
* `SocketsProofs`: `FdInv` says that every number somebody relies on leads to the
  socket it was obtained for, and that the Java number of a socket and C's number of it
  differ. So closing one of them never closes what another relies on: two holders of
  one number would be two holders of one socket. `RaceInv` says what attempt and
  waiting thread know of each other (who has won, whether the race was abandoned,
  whether the latch is down) and that a socket that was chosen is out of the race. A
  stamp names only sockets of its own request, so the purger's delete by number and
  socket cannot meet a connection that is served.
* `ProxyServiceProofs`: every instance of the service that is going or gone has been
  told to stop (`Instances`), and no intent can take that back, since a new START goes
  to a new instance. An engine that runs while no instance is alive has therefore a
  coroutine between `startSocks5Server` and the second look at `stopRequested`
  (`Stoppable`), which will stop it. A flag that is set has a coroutine of its instance
  that will clear it, or the instance is cancelled (`Clearable`). `Queue` bounds the
  instances by the taps. `RunningServiceWatched` looks at the other end of a start: when
  the main thread is idle and no destruction is queued or about to be asked for, the
  living instance has not been told to stop, it has `isProxyRunning` or a coroutine that
  will set it, and if it has, the watchdog or a coroutine that will launch it or take
  `isProxyRunning` back (`Watched`). It does not depend on who wrote the status. The coroutines share one lemma (`AdvanceKeeps`) about what a
  step of any of them may do, and one lemma per step shows that it does no more.

### What they assume

The theorems hold for all values of the constants under the assumption of each module
(`ConstantsAssumption`, `EngineAssumption`, `UdpDnsAssumption`, `UdpSessionAssumption`,
`ForwardAssumption`, `SocketsAssumption`, `HandshakeAssumption`, `ServiceAssumption`),
which ask for sizes that are numbers, names that are distinct, finitely many slots and
pool threads (the counter is a cardinality) and at least one address (a UDP socket is
one of the candidates of its request). `HandshakeAssumption` also says what the inputs
of a handshake are: everything is a sequence of bytes, a length fits its byte, an IPv4
address has 4 bytes, an IPv6 address 16 and a port two, a user name has 1 to
`MaxCred` (255) bytes and a password at most as many, and `Nothing` is none of them. That the bytes are those of a correct
message is not assumed: methods may be none, version, command, reserved byte and type
of an address are any bytes, and a datagram is any sequence. The
generation of a slot is a number without a width: in the program it has 32 bits (the
target flag is bit 31 of the slot half), so the theorems are about a slot that is not
reused four thousand million times while an event waits.

### What is only model-checked

* All liveness properties: the prover has no rules for fairness here.
* That the listeners heal, requests drain and connections are reaped or relayed is
  liveness too (`Heals`, `Drains`, `Reaped`, `Relayed`, `Delivered`, `Disconnected`,
  `HeldIsReleased`, `ClosedIsReleased`, `QuitReturns`, `StopCompletes`).
* The types of `ProxyService` are not proved: `Dropped` is `SelectSeq`, a recursive
  definition.

## 5. Plan

1. `DnsCache`: single flight, expiry and `clear()` during a resolution.
2. `UdpSession` with two workers, whose exits meet each other's sessions as in
   `ConnSlots`.
3. `ProxyService`: the order of the PAUSED and RUNNING updates and the network a
   start may overwrite are in the model; what the code promises about them is not
   clear enough to be stated yet.

## 6. Not modelled

User interface, permissions, hotspot control, self test and statistics (pure I/O or
counters nothing depends on); `DnsCache`, whose answers are an input of `Sockets`;
the service's LAN refresh loop and the one-shot `requestCellularNetwork`; failing
`pipe` and `pthread_create` at start-up; the closing of listener numbers without a
check in `socks5_server_quit`; weak memory (all flags that threads share are atomics
or under locks, except the fields read by the event check, which is split into two
reads); the order and the delays of connection attempts; time, which is an event that
may come once its wait has begun.
