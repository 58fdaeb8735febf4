----------------------------- MODULE UdpSession -----------------------------
(***************************************************************************)
(* UDP sessions of simple-socks5.c: how a pool thread opens one, how the   *)
(* UDP worker relays its traffic, and how it ends.                         *)
(*                                                                         *)
(* A session has a TCP connection to the client, a UDP socket on the 5G    *)
(* side and, for command 0x03, a UDP socket on the LAN side.  For command  *)
(* 0x04 datagrams travel as frames within the TCP connection: a length of  *)
(* two bytes and a body.  Both directions are non-blocking, so a frame may *)
(* be read and written in pieces, and interest masks hold back the 5G side *)
(* while the client does not read.                                         *)
(*                                                                         *)
(* A turn of a handler's loop is one step; bytes, datagrams and free space *)
(* in a buffer appear one at a time between steps.  The bytes of a frame   *)
(* are pairs of frame number and position.                                 *)
(*                                                                         *)
(* Left out: the address in the reply and in the headers; name resolution  *)
(* and the frames it holds (UdpDns); events of sockets that outlive their  *)
(* session and the reads of the event check one by one (ConnSlots).        *)
(***************************************************************************)
EXTENDS Integers, Sequences, FiniteSets, SequencesExt

CONSTANTS
  Slots, NoSlot,
  MaxSessions,  \* bound: clients
  MaxConns,     \* MAX_CONCURRENT_CONNS
  BodyLen,      \* bodies of a client's frames: <<length, ...>>, 0 where illegal
  Loads,        \* bounds to be checked one by one: requests for a session, bytes
                \* clients send, clients that leave, datagrams; slots held by other
                \* workers' sessions; MAX_EVENTS
  OutFrame,     \* bytes of an outgoing frame
  SockBuf       \* bytes the client's socket takes

ASSUME UdpSessionAssumption ==
  /\ IsFiniteSet(Slots) /\ NoSlot \notin Slots
  /\ MaxSessions \in Nat \ {0} /\ MaxConns \in Nat \ {0}
  /\ BodyLen \in Seq(Nat)
  /\ Loads \subseteq [asks : Nat, bytes : Nat, leaves : Nat, datagrams : Nat,
                    others : 0..Cardinality(Slots), bucket : Nat \ {0}]
  /\ OutFrame \in Nat \ {0} /\ SockBuf \in Nat \ {0}

Clients == 1..MaxSessions
Roles == {"client", "local", "remote"}
Kinds == {"peer", "stranger", "garbage"}

VARIABLES
  u,          \* the slots
  free,       \* g_udp_free_slots
  count,      \* g_conn_count
  st,         \* where each client's pool thread is
  slot,       \* ... and the slot it uses
  list,       \* the worker's list
  wpc, batch, cur, touched, garbage, todo, fin, stopping, \* the worker
  stop,       \* socks5_server_quit: "no", "flag" (server_running = 0), "pipe"
  net,        \* both ends of each client's session, seen from outside
  lost,       \* history: clients whose session was dropped by a full bucket
  load        \* what is left of the bounds

(* MAX_EVENTS: events of one epoll_wait, and the garbage they may leave *)
Bucket == load.bucket

starting == <<free, st, slot>>
worker == <<wpc, batch, cur, touched, garbage, todo, fin, stopping>>
vars == <<u, count, list, stop, net, lost, starting, worker, load>>

Zeroed(g) ==
  [gen |-> g, magic |-> FALSE, active |-> FALSE, refs |-> 0, client |-> 0,
   local |-> FALSE, remote |-> FALSE, armed |-> {}, clientOut |-> FALSE,
   remoteIn |-> FALSE, hdr |-> <<>>, body |-> <<>>, expect |-> 0, out |-> 0,
   outLen |-> 0, outOff |-> 0, src |-> FALSE, closed |-> FALSE, registered |-> FALSE]

(* in: bytes on their way to the engine, next: the one the client will      *)
(* write then; gone: the client has closed its end;                         *)
(* sent: bytes the engine has sent, read: how many of them the client has   *)
(* taken; queue: datagrams at the 5G socket, taken: how many were relayed;  *)
(* lan: kinds of datagrams at the LAN socket; why: close_kind.              *)
Client ==
  [cmd |-> 0, open |-> FALSE, reply |-> "none", in |-> <<>>, next |-> <<1, 1>>, gone |-> FALSE,
   routed |-> 0, garbled |-> FALSE, sent |-> <<>>, read |-> 0, queue |-> 0,
   taken |-> 0, lan |-> {}, why |-> "NONE"]

StopEvent == [s |-> NoSlot, gen |-> 0, role |-> "stop", in |-> FALSE]
NoEvent == [s |-> NoSlot, gen |-> 0, role |-> "none", in |-> FALSE]

Init ==
  /\ u = [s \in Slots |-> Zeroed(1)]
  /\ load \in Loads
  /\ free = SubSeq(SetToSeq(Slots), 1, Cardinality(Slots) - load.others)
  /\ count = load.others
  /\ st = [k \in Clients |-> "none"] /\ slot = [k \in Clients |-> NoSlot]
  /\ list = {}
  /\ wpc = "wait" /\ batch = {} /\ cur = NoEvent /\ touched = {} /\ garbage = {} /\ todo = {}
  /\ fin = NoSlot /\ stopping = FALSE
  /\ stop = "no"
  /\ net = [k \in Clients |-> Client]
  /\ lost = {}
-----------------------------------------------------------------------------
(* Ending a session *)

(* udp_conn_unref, up to the point where udp_conn_finalize has unlinked the *)
(* session; it finalizes on the transition from 1 to 0 only.                *)
Unref(s) ==
  /\ u' = [u EXCEPT ![s].refs = @ - 1, ![s].magic = @ /\ u[s].refs # 1]
  /\ list' = IF u[s].refs = 1 THEN list \ {s} ELSE list

LastRef(s) == u[s].refs = 1

(* The rest of udp_conn_finalize: fds, count, slot. *)
Finalize(s) ==
  LET k == u[s].client
  IN /\ u' = [u EXCEPT ![s] = [@ EXCEPT !.client = 0, !.local = FALSE, !.remote = FALSE,
                                        !.armed = {}, !.active = FALSE]]
     /\ net' = IF k = 0 THEN net ELSE [net EXCEPT ![k].open = FALSE]
     /\ count' = count - 1
     /\ free' = Append(free, s)

Because(k, why) == [net EXCEPT ![k].why = why]
-----------------------------------------------------------------------------
(* udp_start_session, on the pool thread of client k *)

StartStep(k, pc) ==
  /\ st[k] = pc
  /\ load' = [load EXCEPT !.asks = IF pc = "none" THEN @ - 1 ELSE @]
  /\ UNCHANGED <<worker, stop, lost>>

Reserve(k) ==
  /\ StartStep(k, "none")
  /\ stop = "no" /\ load.asks > 0
  /\ \A j \in 1..(k - 1) : st[j] # "none"
  /\ count' = count + 1
  /\ st' = [st EXCEPT ![k] = IF count >= MaxConns THEN "refuse" ELSE "acquire"]
  /\ \E cmd \in {3, 4} : net' = [net EXCEPT ![k].cmd = cmd, ![k].open = TRUE]
  /\ UNCHANGED <<u, free, slot, list>>

(* Mutant: the count is not given back. *)
StillReserved == count

Unreserved == count - 1

(* No room: the count is given back and the client told so. *)
Refuse(k) ==
  /\ StartStep(k, "refuse")
  /\ count' = Unreserved
  /\ net' = [net EXCEPT ![k].reply = "FAILURE", ![k].open = FALSE, ![k].why = "RESOURCE"]
  /\ st' = [st EXCEPT ![k] = "done"]
  /\ UNCHANGED <<u, free, slot, list>>

(* udp_slot_acquire and the fields of the new session *)
Acquire(k) ==
  /\ StartStep(k, "acquire")
  /\ \/ /\ free = <<>>
        /\ st' = [st EXCEPT ![k] = "refuse"]
        /\ UNCHANGED <<u, free, slot>>
     \/ /\ free # <<>>
        /\ LET s == Last(free)
           IN /\ free' = Front(free)
              /\ slot' = [slot EXCEPT ![k] = s]
              /\ u' = [u EXCEPT ![s] =
                         [Zeroed(u[s].gen + 1) EXCEPT !.active = TRUE, !.magic = TRUE,
                                                      !.client = k, !.refs = 1]]
        /\ st' = [st EXCEPT ![k] = "open"]
  /\ UNCHANGED <<count, list, net>>

(* Buffers, and the LAN socket of command 0x03 *)
OpenLocal(k) ==
  LET s == slot[k]
  IN /\ StartStep(k, "open")
     /\ \/ /\ net' = Because(k, "RESOURCE")
           /\ st' = [st EXCEPT ![k] = "unref"]
           /\ UNCHANGED u
        \/ /\ net[k].cmd = 3
           /\ net' = [net EXCEPT ![k].reply = "FAILURE", ![k].why = "RESOURCE"]
           /\ st' = [st EXCEPT ![k] = "unref"]
           /\ UNCHANGED u
        \/ /\ u' = [u EXCEPT ![s].local = (net[k].cmd = 3)]
           /\ st' = [st EXCEPT ![k] = "remote"]
           /\ UNCHANGED net
     /\ UNCHANGED <<free, count, slot, list>>

(* The 5G socket, and only then the reply *)
OpenRemote(k) ==
  LET s == slot[k]
  IN /\ StartStep(k, "remote")
     /\ \/ /\ net' = [net EXCEPT ![k].reply = "UNREACHABLE", ![k].why = "RESOURCE"]
           /\ st' = [st EXCEPT ![k] = "unref"]
           /\ UNCHANGED u
        \/ /\ net' = [net EXCEPT ![k].reply = "SUCCEEDED"]
           /\ u' = [u EXCEPT ![s].remote = TRUE]
           /\ st' = [st EXCEPT ![k] = "link"]
     /\ UNCHANGED <<free, count, slot, list>>

(* Under list_lock: refused by a stopping worker, or linked and registered, *)
(* or rolled back after some of the registrations.                          *)
Link(k) ==
  LET s == slot[k]
      fds == IF net[k].cmd = 3 THEN <<"client", "local", "remote">> ELSE <<"client", "remote">>
  IN /\ StartStep(k, "link")
     /\ \/ /\ stopping
           /\ net' = Because(k, "SHUTDOWN")
           /\ st' = [st EXCEPT ![k] = "unref"]
           /\ UNCHANGED <<u, list>>
        \/ /\ ~stopping
           /\ u' = [u EXCEPT ![s].armed = ToSet(fds), ![s].remoteIn = TRUE]
           /\ list' = list \cup {s}
           /\ st' = [st EXCEPT ![k] = "linked"]
           /\ UNCHANGED net
        \/ /\ ~stopping
           /\ \E n \in 0..(Len(fds) - 1) :
                u' = [u EXCEPT ![s].armed = ToSet(SubSeq(fds, 1, n)), ![s].closed = TRUE]
           /\ net' = Because(k, "RESOURCE")
           /\ st' = [st EXCEPT ![k] = "unref"]
           /\ UNCHANGED list
     /\ UNCHANGED <<free, count, slot>>

(* registered = 1, after the lock was released *)
Register(k) ==
  /\ StartStep(k, "linked")
  /\ u' = [u EXCEPT ![slot[k]].registered = TRUE]
  /\ st' = [st EXCEPT ![k] = "done"]
  /\ UNCHANGED <<free, count, slot, list, net>>

StartUnref(k) ==
  /\ StartStep(k, "unref")
  /\ Unref(slot[k])
  /\ st' = [st EXCEPT ![k] = IF LastRef(slot[k]) THEN "finalize" ELSE "done"]
  /\ UNCHANGED <<free, count, slot, net>>

StartFinalize(k) ==
  /\ StartStep(k, "finalize")
  /\ Finalize(slot[k])
  /\ st' = [st EXCEPT ![k] = "done"]
  /\ UNCHANGED <<slot, list>>

udp_start_session(k) ==
  \/ Reserve(k) \/ Refuse(k) \/ Acquire(k) \/ OpenLocal(k) \/ OpenRemote(k)
  \/ Link(k) \/ Register(k) \/ StartUnref(k) \/ StartFinalize(k)
-----------------------------------------------------------------------------
(* The handlers.  All but the first step of one are turns of its loop, from *)
(* a session x and its client c to what they are then; `end' is NONE when   *)
(* the loop has run dry, MORE while it goes on, else the reason to close.   *)

Space(c) == SockBuf - (Len(c.sent) - c.read)

Turn(x, c, end) == [x |-> x, c |-> c, end |-> end]

udp_flush_out(x, c, end) ==
  LET n == Min({x.outLen - x.outOff, Space(c)})
      done == x.outOff + n = x.outLen
  IN Turn([x EXCEPT !.outLen = IF done THEN 0 ELSE @, !.outOff = IF done THEN 0 ELSE @ + n],
          [c EXCEPT !.sent = @ \o [j \in 1..n |-> <<x.out, x.outOff + j>>]],
          end)

(* Mutant: the next datagram is read although a frame is not sent yet. *)
NeverBusy(x) == FALSE

OutBusy(x) == x.outLen > 0

(* For command 0x03 a datagram goes to the LAN socket at once, or is        *)
(* dropped while the client's address is not known.                         *)
udp_remote_event(x, c) ==
  CASE c.queue = 0 \/ (~x.local /\ OutBusy(x)) -> Turn(x, c, "NONE")
    [] c.queue > 0 /\ x.local -> Turn(x, [c EXCEPT !.queue = @ - 1], "MORE")
    [] c.queue > 0 /\ ~x.local /\ ~OutBusy(x) ->
         udp_flush_out([x EXCEPT !.out = c.taken + 1, !.outLen = OutFrame, !.outOff = 0],
                       [c EXCEPT !.queue = @ - 1, !.taken = @ + 1], "MORE")

(* A datagram that parses and comes from the client's host sets the address *)
(* replies go to.                                                           *)
udp_local_event(x, c) ==
  Turn([x EXCEPT !.src = @ \/ "peer" \in c.lan], [c EXCEPT !.lan = {}], "NONE")

(* The length in two bytes; any two bytes are taken for one. *)
socks5_udp_tcp_frame_len(h) ==
  IF h[1][1] = h[2][1] /\ h[1][2] = 1 /\ h[2][2] = 2 THEN BodyLen[h[1][1]] ELSE 1

FrameBody(f) == [j \in 1..BodyLen[f] |-> <<f, 2 + j>>]

NextFrame(x) == [x EXCEPT !.hdr = <<>>, !.body = <<>>, !.expect = 0]

(* A whole datagram; is it the client's next one? *)
RouteFrame(x, c) ==
  LET f == c.routed + 1
      whole == f \in DOMAIN BodyLen /\ x.body = FrameBody(f)
  IN Turn(NextFrame(x), [c EXCEPT !.routed = f, !.garbled = @ \/ ~whole], "MORE")

FrameComplete(x) == Len(x.body) = x.expect

ReadByte(x, c) ==
  LET h == Append(x.hdr, Head(c.in))
      y == [x EXCEPT !.body = Append(@, Head(c.in))]
      d == [c EXCEPT !.in = Tail(@)]
  IN CASE Len(h) = 1 -> Turn([x EXCEPT !.hdr = h], d, "MORE")
       [] Len(h) = 2 -> Turn([x EXCEPT !.hdr = h, !.expect = socks5_udp_tcp_frame_len(h)], d,
                             IF socks5_udp_tcp_frame_len(h) = 0 THEN "PROTO" ELSE "MORE")
       [] Len(h) > 2 -> IF FrameComplete(y) THEN RouteFrame(y, d)
                        ELSE Turn(y, d, "MORE")

(* Everything there is to read, to EAGAIN or to the end of the stream *)
udp_client_data_event(x, c, in) ==
  CASE ~in -> Turn(x, c, "NONE")
    [] in /\ c.in # <<>> -> ReadByte(x, c)
    [] in /\ c.in = <<>> -> Turn(x, c, IF c.gone THEN "PEER" ELSE "NONE")

udp_ctrl_event(x, c) == Turn(x, c, "PEER")

(* What a turn may lead to; recv, recvfrom and send may fail. *)
HandlerTurns(e, x, c) ==
  CASE e.role = "client" /\ x.local -> {udp_ctrl_event(x, c)}
    [] e.role = "client" /\ ~x.local -> {udp_client_data_event(x, c, e.in), Turn(x, c, "IO")}
    [] e.role = "local" -> {udp_local_event(x, c), Turn(x, c, "IO")}
    [] e.role = "remote" -> {udp_remote_event(x, c), Turn(x, c, "IO")}

(* Mutant: the 5G side is not armed again once the frame is out. *)
StaysMasked(x) == x.remoteIn /\ x.outLen = 0

RemoteInterest(x) == x.outLen = 0

udp_update_events(x) ==
  IF x.local THEN x
  ELSE [x EXCEPT !.clientOut = (x.outLen > 0), !.remoteIn = RemoteInterest(x)]
-----------------------------------------------------------------------------
(* udp_worker_loop *)

WorkerStep(pc) ==
  /\ wpc = pc
  /\ UNCHANGED <<st, slot, stop, load>>

Ready(s) ==
  LET x == u[s]
      c == net[x.client]
      readable == c.in # <<>> \/ c.gone
      ev(role, in) == [s |-> s, gen |-> x.gen, role |-> role, in |-> in]
      isReady(role) ==
        CASE role = "client" /\ x.local -> c.gone
          [] role = "client" /\ ~x.local -> readable \/ (x.clientOut /\ Space(c) > 0)
          [] role = "local" -> c.lan # {}
          [] role = "remote" -> x.remoteIn /\ c.queue > 0
  IN {ev(role, role = "client" /\ readable) : role \in {r \in x.armed : isReady(r)}}

EpollWait ==
  LET ready == (UNION {Ready(s) : s \in Slots}) \cup (IF stop = "pipe" THEN {StopEvent} ELSE {})
  IN /\ WorkerStep("wait")
     /\ batch' \in {E \in SUBSET ready : Cardinality(E) = Min({Bucket, Cardinality(ready)})}
     /\ garbage' = {} /\ touched' = {}
     /\ wpc' = "events"
     /\ UNCHANGED <<u, free, count, list, net, lost, todo, fin, stopping, cur>>

udp_event_check_slot(e) ==
  LET x == u[e.s]
  IN x.active /\ x.gen = e.gen /\ x.magic /\ ~x.closed /\ x.registered

(* Into the garbage, or nowhere when it is full *)
Collect(new) ==
  \E fit \in SUBSET new :
    /\ Cardinality(fit) = Min({Cardinality(new), Bucket - Cardinality(garbage)})
    /\ garbage' = garbage \cup fit
    /\ lost' = lost \cup {u[s].client : s \in new \ fit}

StopSeen ==
  /\ WorkerStep("events")
  /\ cur = NoEvent /\ StopEvent \in batch
  /\ wpc' = "exit" /\ batch' = {}
  /\ UNCHANGED <<u, free, count, list, net, lost, cur, touched, garbage, todo, fin, stopping>>

SkipEvent(e) ==
  /\ WorkerStep("events")
  /\ cur = NoEvent /\ e \in batch /\ e # StopEvent
  /\ ~udp_event_check_slot(e)
  /\ batch' = batch \ {e}
  /\ UNCHANGED <<u, free, count, list, net, lost, wpc, cur, touched, garbage, todo, fin, stopping>>

(* A handler begins; that of a client's data sends what is pending first.   *)
BeginEvent(e) ==
  LET k == u[e.s].client
      o == IF e.role = "client" /\ OutBusy(u[e.s])
           THEN udp_flush_out(u[e.s], net[k], "MORE") ELSE Turn(u[e.s], net[k], "MORE")
  IN /\ WorkerStep("events")
     /\ cur = NoEvent
     /\ e \in batch /\ e # StopEvent
     /\ udp_event_check_slot(e)
     /\ batch' = batch \ {e}
     /\ touched' = touched \cup {e.s}
     /\ cur' = e
     /\ u' = [u EXCEPT ![e.s] = o.x] /\ net' = [net EXCEPT ![k] = o.c]
     /\ UNCHANGED <<free, count, list, lost, wpc, garbage, todo, fin, stopping>>

(* One turn of its loop, or a system call that fails; at the end the        *)
(* session is closed or its masks are brought up to date.                   *)
HandleEvent ==
  LET s == cur.s
      k == u[s].client
  IN /\ WorkerStep("events")
     /\ cur # NoEvent
     /\ \E o \in HandlerTurns(cur, u[s], net[k]) :
          \/ /\ o.end = "MORE"
             /\ u' = [u EXCEPT ![s] = o.x] /\ net' = [net EXCEPT ![k] = o.c]
             /\ UNCHANGED <<list, garbage, lost, cur>>
          \/ /\ o.end = "NONE"
             /\ u' = [u EXCEPT ![s] = udp_update_events(o.x)]
             /\ net' = [net EXCEPT ![k] = o.c]
             /\ cur' = NoEvent
             /\ UNCHANGED <<list, garbage, lost>>
          \/ /\ o.end \notin {"MORE", "NONE"}
             /\ u' = [u EXCEPT ![s] = [o.x EXCEPT !.closed = TRUE]]
             /\ net' = [net EXCEPT ![k] = [o.c EXCEPT !.why = o.end]]
             /\ list' = list \ {s}
             /\ Collect({s})
             /\ cur' = NoEvent
     /\ UNCHANGED <<free, count, wpc, batch, touched, todo, fin, stopping>>

(* Mutant: a session that owes its client data counts as idle. *)
Silent(x) == TRUE

OwesNothing(x) == x.outLen = 0

MayExpire(s) == u[s].registered /\ s \notin touched /\ OwesNothing(u[s])

(* The sweep for idle sessions, when it is due; then the garbage *)
Sweep ==
  /\ WorkerStep("events")
  /\ cur = NoEvent /\ batch = {}
  /\ \E expired \in SUBSET {s \in list : MayExpire(s)} :
       /\ u' = [s \in Slots |-> IF s \in expired THEN [u[s] EXCEPT !.closed = TRUE] ELSE u[s]]
       /\ net' = [k \in Clients |-> IF \E s \in expired : u[s].client = k
                                    THEN [net[k] EXCEPT !.why = "IDLE"] ELSE net[k]]
       /\ list' = list \ expired
       /\ Collect(expired)
  /\ todo' = garbage' /\ touched' = {} /\ wpc' = "gc"
  /\ UNCHANGED <<free, count, batch, cur, fin, stopping>>

Unrefs == {"gc", "batch", "lastbatch", "again"}

UnrefNext(s) ==
  /\ \E pc \in Unrefs : WorkerStep(pc)
  /\ fin = NoSlot /\ s \in todo
  /\ Unref(s)
  /\ todo' = todo \ {s}
  /\ fin' = IF LastRef(s) THEN s ELSE NoSlot
  /\ UNCHANGED <<free, count, net, lost, wpc, batch, cur, touched, garbage, stopping>>

FinalizeNext ==
  /\ \E pc \in Unrefs : WorkerStep(pc)
  /\ fin # NoSlot /\ fin' = NoSlot
  /\ Finalize(fin)
  /\ UNCHANGED <<list, lost, wpc, batch, cur, touched, garbage, todo, stopping>>

Unreffed(pc) == WorkerStep(pc) /\ fin = NoSlot /\ todo = {}

(* The loop test: garbage is not emptied before it. *)
LoopTest ==
  /\ Unreffed("gc")
  /\ wpc' = IF stop = "no" THEN "wait" ELSE "exit"
  /\ UNCHANGED <<u, free, count, list, net, lost, batch, cur, touched, garbage, todo, fin, stopping>>

ExitWorker ==
  /\ WorkerStep("exit")
  /\ stopping' = TRUE /\ wpc' = "drain"
  /\ UNCHANGED <<u, free, count, list, net, lost, batch, cur, touched, garbage, todo, fin>>

MoreToDrain(n) == n = Bucket

Drain ==
  /\ WorkerStep("drain")
  /\ \E drained \in SUBSET list :
       /\ Cardinality(drained) = Min({Bucket, Cardinality(list)})
       /\ u' = [s \in Slots |-> IF s \in drained THEN [u[s] EXCEPT !.closed = TRUE] ELSE u[s]]
       /\ net' = [k \in Clients |-> IF \E s \in drained : u[s].client = k
                                    THEN [net[k] EXCEPT !.why = "SHUTDOWN"] ELSE net[k]]
       /\ list' = list \ drained
       /\ todo' = drained
       /\ wpc' = IF MoreToDrain(Cardinality(drained)) THEN "batch" ELSE "lastbatch"
  /\ UNCHANGED <<free, count, lost, batch, cur, touched, garbage, fin, stopping>>

(* Mutant: a worker that leaves in the middle of a batch forgets it. *)
Forgotten == {}

LeftOver == garbage

(* The next batch, or at last what a loop left in the middle has collected; *)
(* a loop that ran to its end has released that before.                     *)
NextBatch ==
  /\ \/ Unreffed("batch") /\ wpc' = "drain" /\ UNCHANGED todo
     \/ Unreffed("lastbatch") /\ wpc' = "again" /\ todo' = LeftOver
     \/ Unreffed("again") /\ wpc' = "closed" /\ UNCHANGED todo
  /\ UNCHANGED <<u, free, count, list, net, lost, batch, cur, touched, garbage, fin, stopping>>

udp_worker_loop ==
  \/ EpollWait \/ StopSeen \/ HandleEvent \/ Sweep \/ FinalizeNext \/ LoopTest \/ ExitWorker \/ Drain
  \/ NextBatch
  \/ \E e \in batch : SkipEvent(e) \/ BeginEvent(e)
  \/ \E s \in todo : UnrefNext(s)
-----------------------------------------------------------------------------
(* Clients, the 5G side and the stop *)

(* What follows byte b in the frames of a client *)
Successor(b) == IF b[2] < 2 + BodyLen[b[1]] THEN <<b[1], b[2] + 1>> ELSE <<b[1] + 1, 1>>

Outside == UNCHANGED <<u, count, list, stop, lost, starting, worker>>

ClientWrites(k) ==
  LET c == net[k]
  IN /\ c.open /\ c.reply = "SUCCEEDED" /\ c.cmd = 4 /\ ~c.gone
     /\ load.bytes > 0 /\ load' = [load EXCEPT !.bytes = @ - 1]
     /\ c.next[1] \in DOMAIN BodyLen
     /\ net' = [net EXCEPT ![k].next = Successor(@), ![k].in = Append(@, c.next)]
     /\ Outside

ClientReads(k) ==
  /\ ~net[k].gone /\ net[k].read < Len(net[k].sent)
  /\ net' = [net EXCEPT ![k].read = @ + 1]
  /\ UNCHANGED load /\ Outside

ClientLeaves(k) ==
  /\ net[k].open /\ ~net[k].gone
  /\ load.leaves > 0 /\ load' = [load EXCEPT !.leaves = @ - 1]
  /\ net' = [net EXCEPT ![k].gone = TRUE]
  /\ Outside

(* A datagram reaches a socket of the session. *)
Datagram(k) ==
  /\ load.datagrams > 0 /\ load' = [load EXCEPT !.datagrams = @ - 1]
  /\ \E s \in Slots :
       /\ u[s].client = k
       /\ \/ /\ u[s].remote
             /\ net' = [net EXCEPT ![k].queue = @ + 1]
          \/ /\ u[s].local
             /\ \E kind \in Kinds : net' = [net EXCEPT ![k].lan = @ \cup {kind}]
  /\ Outside

Quit ==
  /\ \/ stop = "no" /\ stop' = "flag"
     \/ stop = "flag" /\ stop' = "pipe"
  /\ UNCHANGED <<u, count, list, net, lost, starting, worker, load>>

Next ==
  \/ \E k \in Clients :
       \/ udp_start_session(k)
       \/ ClientWrites(k) \/ ClientReads(k) \/ ClientLeaves(k) \/ Datagram(k)
  \/ udp_worker_loop
  \/ Quit

Spec == Init /\ [][Next]_vars

(* The program's threads are scheduled; nobody has to ask, write or stop.   *)
FairSpec ==
  /\ Spec
  /\ WF_vars(udp_worker_loop)
  /\ \A k \in Clients : WF_vars(st[k] # "none" /\ udp_start_session(k))
-----------------------------------------------------------------------------
(* Properties *)

Why == {"NONE", "IDLE", "PEER", "IO", "PROTO", "RESOURCE", "SHUTDOWN"}

Byte == Nat \X Nat

(* Every variable has its type; a frame being assembled never exceeds its   *)
(* announced length and a frame being sent never its own.                   *)
TypeOK ==
  /\ DOMAIN u = Slots
  /\ \A s \in Slots :
       /\ u[s].gen \in Nat /\ u[s].refs \in Int /\ u[s].client \in Clients \cup {0}
       /\ u[s].armed \subseteq Roles
       /\ u[s].hdr \in Seq(Byte) /\ Len(u[s].hdr) <= 2
       /\ u[s].body \in Seq(Byte) /\ (u[s].body # <<>> => Len(u[s].body) < u[s].expect)
       /\ u[s].outOff \in 0..u[s].outLen /\ u[s].outLen \in {0, OutFrame}
  /\ free \in Seq(Slots)
  /\ count \in Nat
  /\ slot \in [Clients -> Slots \cup {NoSlot}]
  /\ list \subseteq Slots /\ touched \subseteq Slots
  /\ garbage \subseteq Slots /\ todo \subseteq Slots /\ fin \in Slots \cup {NoSlot}
  /\ stopping \in BOOLEAN /\ stop \in {"no", "flag", "pipe"}
  /\ \A k \in Clients : net[k].why \in Why /\ net[k].sent \in Seq(Byte)
  /\ lost \subseteq Clients

(* README, frame format: the frames routed to the 5G side are the client's  *)
(* frames, whole and in order, however the TCP stream was cut into reads;   *)
(* the bytes sent to a client are the frames of the datagrams received, in  *)
(* order and without a gap: no datagram overwrites one that is half sent.   *)
WholeFrames ==
  \A k \in Clients :
    /\ ~net[k].garbled
    /\ \A n \in 1..Len(net[k].sent) :
         net[k].sent[n] = <<((n - 1) \div OutFrame) + 1, ((n - 1) % OutFrame) + 1>>

(* The comment on back-pressure: between two events, the 5G side of a       *)
(* session with command 0x04 is masked exactly while a frame waits, and    *)
(* then the client's side is armed for output: neither a hot loop nor a     *)
(* deaf session.                                                            *)
MasksFit ==
  \A s \in list \ {cur.s} :
    u[s].registered /\ ~u[s].local =>
      /\ u[s].remoteIn <=> u[s].outLen = 0
      /\ u[s].clientOut <=> u[s].outLen > 0

(* Every unit of g_conn_count belongs to a thread that has not got a slot   *)
(* yet or to a slot that is not free; and when worker and pool threads are   *)
(* done, nothing is left but what a full bucket has lost: no session, no     *)
(* open client.                                                             *)
CountExact ==
  /\ count = Cardinality({k \in Clients : st[k] \in {"acquire", "refuse"}})
               + Cardinality(Slots) - Len(free)
  /\ wpc = "closed" /\ (\A k \in Clients : st[k] \in {"none", "done"}) =>
       /\ count = Cardinality(lost) + load.others
       /\ \A k \in Clients \ lost : ~net[k].open

Owed(k) == net[k].taken * OutFrame > Len(net[k].sent)

(* What was taken from the 5G side is delivered to a client that goes on    *)
(* reading, unless the session ends for another reason than idleness.       *)
Delivered ==
  (\A k \in Clients : WF_vars(ClientReads(k))) =>
    \A k \in Clients : Owed(k) ~> (~Owed(k) \/ net[k].why \notin {"NONE", "IDLE"})

(* A client whose session was closed, or that was refused, is disconnected, *)
(* unless a full bucket has lost its session.                               *)
Disconnected ==
  \A k \in Clients : (net[k].why # "NONE") ~> (~net[k].open \/ k \in lost)

(* udp_conn_finalize reports every session that ends: none is closed and    *)
(* then forgotten. It does not hold when the bucket is full (README).        *)
NoneLost == lost = {}
=============================================================================
