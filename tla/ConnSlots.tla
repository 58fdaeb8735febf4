------------------------------ MODULE ConnSlots ------------------------------
(***************************************************************************)
(* The life of a forwarded TCP connection in simple-socks5.c: the static   *)
(* slot table with its generations, the hand-over of a connection from a   *)
(* handshake-pool thread to an epoll worker (handoff_to_worker), the       *)
(* worker loop that validates events, closes and collects connections      *)
(* (worker_loop_safe), the reference count that ends in conn_finalize, and *)
(* the part of socks5_server_quit that stops pool and workers.             *)
(*                                                                         *)
(* Left to other modules or abstracted here: what forwarding does with the *)
(* bytes (an event is processed with or without a fatal outcome), time (a  *)
(* registered connection may be idle or past its grace period whenever the *)
(* sweep looks at it), the order of the free stack and of the worker list  *)
(* (a multiset and a set), and which worker round-robin picks (any).       *)
(***************************************************************************)
EXTENDS Integers, FiniteSets

CONSTANTS
  Slots,      \* indices of g_slots
  Handoffs,   \* handshake-pool threads
  Workers,    \* TCP epoll workers
  MaxConns,   \* MAX_CONCURRENT_CONNS
  MaxEvents,  \* MAX_EVENTS: batch size and garbage bucket size
  MaxJobs,    \* bound: handshakes that ever reach CONNECT
  JavaLeaks,  \* TRUE: the Java copy of a target socket may outlive the C one
  NoSlot,     \* no connection
  NoThread    \* an unlocked mutex

ASSUME ConstantsAssumption ==
  /\ Handoffs \cap Workers = {}
  /\ MaxConns \in Nat
  /\ MaxEvents \in Nat \ {0}
  /\ MaxJobs \in Nat
  /\ JavaLeaks \in BOOLEAN
  /\ NoSlot \notin Slots
  /\ NoThread \notin Handoffs \cup Workers
  /\ IsFiniteSet(Slots) /\ IsFiniteSet(Handoffs)

VARIABLES
  quitPc,      \* progress of socks5_server_quit
  jobs,        \* handshakes the clients may still start
  conn_count,  \* g_conn_count
  free,        \* g_free_slots: how often each slot is on the free stack
  gen,         \* full_conn_t.gen, kept across reuse
  slot_state,  \* g_slot_state
  conn,        \* the other fields of g_slots that decide a connection's fate
  list,        \* conn_list_head of each worker, as a set
  list_lock,   \* owner of each worker's list_lock
  stopping,    \* worker_t.stopping
  epoll_open,  \* FALSE once a worker has closed its epoll_fd
  armed,       \* registrations each worker's epoll holds
  pc, my, ret, \* thread, the connection it works on, where finalize returns
  target,      \* w of handoff_to_worker
  batch,       \* events of the current epoll_wait not yet handled
  sawPipe,     \* the batch holds the shutdown-pipe event
  cur,         \* the event being validated, with the generation read for it
  garbage,     \* garbage_list[0..garbage_count-1]
  todo,        \* pointers the running unref loop has still to visit
  visit,       \* list entries the running sweep has still to look at
  more         \* the last drain batch was full

quitVars == <<quitPc, jobs>>
slotVars == <<free, gen, slot_state, conn>>
listVars == <<list, list_lock, stopping, epoll_open, armed>>
loopVars == <<batch, sawPipe, cur, garbage, todo, visit, more>>
thrVars == <<my, ret, target>>
vars == <<quitPc, jobs, conn_count, free, gen, slot_state, conn, list,
          list_lock, stopping, epoll_open, armed, pc, my, ret, target,
          batch, sawPipe, cur, garbage, todo, visit, more>>

Threads == Handoffs \cup Workers

(* data.u64 of an epoll registration: (gen << 32 | slot) and the target bit. *)
Event == [slot : Slots, gen : Nat, target : BOOLEAN]

Conn == [magic : BOOLEAN, widx : Workers \cup {NoThread}, refs : Int,
         finalized : BOOLEAN, registered : BOOLEAN, closed : BOOLEAN]

(* A slot after memset in slot_acquire. *)
Zeroed == [magic |-> FALSE, widx |-> NoThread, refs |-> 0,
           finalized |-> FALSE, registered |-> FALSE, closed |-> FALSE]

HandoffPc == {"idle", "over", "connect", "acquire", "memset", "init", "lock",
              "added", "stamp", "rollback"}
FinalizePc == {"unlink", "close", "release", "push"}
UnrefPc == {"flush", "gc", "drained", "leftover"}
WorkerPc == {"loop", "wait", "events", "check", "proc", "sweep", "exit",
             "drain", "done"} \cup UnrefPc

NoEvent == [slot |-> NoSlot, gen |-> 0, target |-> FALSE]

server_running == quitPc = "running"
-----------------------------------------------------------------------------
Init ==
  /\ quitPc = "running"
  /\ jobs = MaxJobs
  /\ conn_count = 0
  /\ free = [s \in Slots |-> 1]
  /\ gen = [s \in Slots |-> 1]
  /\ slot_state = [s \in Slots |-> FALSE]
  /\ conn = [s \in Slots |-> Zeroed]
  /\ list = [w \in Workers |-> {}]
  /\ list_lock = [w \in Workers |-> NoThread]
  /\ stopping = [w \in Workers |-> FALSE]
  /\ epoll_open = [w \in Workers |-> TRUE]
  /\ armed = [w \in Workers |-> {}]
  /\ pc = [t \in Threads |-> IF t \in Handoffs THEN "idle" ELSE "loop"]
  /\ my = [t \in Threads |-> NoSlot]
  /\ ret = [t \in Threads |-> "idle"]
  /\ target = [h \in Handoffs |-> NoThread]
  /\ batch = [w \in Workers |-> {}]
  /\ sawPipe = [w \in Workers |-> FALSE]
  /\ cur = [w \in Workers |-> [ev |-> NoEvent, same |-> FALSE]]
  /\ garbage = [w \in Workers |-> {}]
  /\ todo = [w \in Workers |-> {}]
  /\ visit = [w \in Workers |-> {}]
  /\ more = [w \in Workers |-> FALSE]

Goto(t, label) == pc' = [pc EXCEPT ![t] = label]

(* Mutant: pthread_mutex_unlock forgotten. *)
ForgetUnlock(w) == list_lock

Unlock(w) == [list_lock EXCEPT ![w] = NoThread]

(* Mutant: the entry stays linked. *)
ListKeep(l, s) == l

(* list_remove_locked: on an entry that is not linked prev and next are    *)
(* NULL, and the assignment to conn_list_head empties the whole list.      *)
ListRemove(l, s) == IF s \in l THEN l \ {s} ELSE {}

(* Mutant: conn_finalize is called whenever no reference is left. *)
UnrefLax(t, s, back) ==
  /\ conn' = IF conn[s].refs <= 1
             THEN [conn EXCEPT ![s].refs = @ - 1, ![s].finalized = TRUE]
             ELSE [conn EXCEPT ![s].refs = @ - 1]
  /\ IF conn[s].refs <= 1 /\ ~conn[s].finalized
     THEN /\ Goto(t, "unlink")
          /\ my' = [my EXCEPT ![t] = s]
          /\ ret' = [ret EXCEPT ![t] = back]
     ELSE /\ Goto(t, back)
          /\ my' = [my EXCEPT ![t] = NoSlot]
          /\ UNCHANGED ret

(* conn_unref, with the exchange of finalized that conn_finalize starts by. *)
Unref(t, s, back) ==
  /\ conn' = IF conn[s].refs = 1
             THEN [conn EXCEPT ![s].refs = 0, ![s].finalized = TRUE]
             ELSE [conn EXCEPT ![s].refs = @ - 1]
  /\ IF conn[s].refs = 1 /\ ~conn[s].finalized
     THEN /\ Goto(t, "unlink")
          /\ my' = [my EXCEPT ![t] = s]
          /\ ret' = [ret EXCEPT ![t] = back]
     ELSE /\ Goto(t, back)
          /\ my' = [my EXCEPT ![t] = NoSlot]
          /\ UNCHANGED ret
-----------------------------------------------------------------------------
(* conn_finalize, run by whichever thread dropped the last reference. *)

FinalizeUnlink(t) ==
  LET s == my[t]
      w == conn[s].widx
  IN /\ pc[t] = "unlink"
     /\ list_lock[w] = NoThread
     /\ list' = [list EXCEPT ![w] = @ \ {s}]
     /\ conn' = [conn EXCEPT ![s].magic = FALSE]
     /\ Goto(t, "close")
     /\ UNCHANGED <<quitVars, conn_count, free, gen, slot_state, list_lock,
                    stopping, epoll_open, armed, thrVars, loopVars>>

(* Closing the fds drops their epoll registrations, except the target's    *)
(* when the Java copy of the socket keeps the open description alive.      *)
FinalizeClose(t) ==
  LET s == my[t]
      mine(e) == e.slot = s /\ e.gen = gen[s]
  IN /\ pc[t] = "close"
     /\ \E leak \in {FALSE, JavaLeaks} :
          armed' = [w \in Workers |->
                     {e \in armed[w] : ~mine(e) \/ (leak /\ e.target)}]
     /\ conn_count' = conn_count - 1
     /\ Goto(t, "release")
     /\ UNCHANGED <<quitVars, slotVars, list, list_lock, stopping, epoll_open,
                    thrVars, loopVars>>

FinalizeRelease(t) ==
  /\ pc[t] = "release"
  /\ slot_state' = [slot_state EXCEPT ![my[t]] = FALSE]
  /\ Goto(t, "push")
  /\ UNCHANGED <<quitVars, conn_count, free, gen, conn, listVars, my, ret,
                 target, loopVars>>

FinalizePush(t) ==
  /\ pc[t] = "push"
  /\ free' = [free EXCEPT ![my[t]] = @ + 1]
  /\ my' = [my EXCEPT ![t] = NoSlot]
  /\ ret' = [ret EXCEPT ![t] = "idle"]
  /\ Goto(t, ret[t])
  /\ UNCHANGED <<quitVars, conn_count, gen, slot_state, conn, listVars,
                 target, loopVars>>

Finalize(t) == FinalizeUnlink(t) \/ FinalizeClose(t) \/ FinalizeRelease(t)
               \/ FinalizePush(t)
-----------------------------------------------------------------------------
(* handle_handshake_fd from the CONNECT reservation on, and                *)
(* handoff_to_worker.                                                      *)

(* Mutant: the limit is tested with > instead of >=. *)
LimitPassed(n) == n > MaxConns

LimitReached(n) == n >= MaxConns

Reserve(h) ==
  /\ pc[h] = "idle"
  /\ jobs > 0
  /\ quitPc \notin {"pooldown", "stopped"}
  /\ jobs' = jobs - 1
  /\ conn_count' = conn_count + 1
  /\ Goto(h, IF LimitReached(conn_count) THEN "over" ELSE "connect")
  /\ UNCHANGED <<quitPc, slotVars, listVars, thrVars, loopVars>>

(* The reservation is handed back: limit reached, or the 5G socket could   *)
(* not be opened.                                                          *)
Unreserve(h) ==
  /\ pc[h] \in {"over", "connect"}
  /\ conn_count' = conn_count - 1
  /\ Goto(h, "idle")
  /\ UNCHANGED <<quitVars, slotVars, listVars, thrVars, loopVars>>

Connected(h) ==
  /\ pc[h] = "connect"
  /\ Goto(h, "acquire")
  /\ UNCHANGED <<quitVars, conn_count, slotVars, listVars, thrVars,
                 loopVars>>

OnFreeStack(s) == free[s] > 0

(* Mutant: the generation is not advanced on reuse. *)
SameGen(g) == g

NextGen(g) == g + 1

SlotAcquire(h) ==
  /\ pc[h] = "acquire"
  /\ \E s \in Slots :
       /\ OnFreeStack(s)
       /\ free' = [free EXCEPT ![s] = @ - 1]
       /\ gen' = [gen EXCEPT ![s] = NextGen(@)]
       /\ my' = [my EXCEPT ![h] = s]
  /\ Goto(h, "memset")
  /\ UNCHANGED <<quitVars, conn_count, slot_state, conn, listVars, ret, target,
                 loopVars>>

SlotsExhausted(h) ==
  /\ pc[h] = "acquire"
  /\ \A s \in Slots : ~OnFreeStack(s)
  /\ conn_count' = conn_count - 1
  /\ Goto(h, "idle")
  /\ UNCHANGED <<quitVars, slotVars, listVars, thrVars, loopVars>>

(* The unlocked tail of slot_acquire. *)
SlotReset(h) ==
  /\ pc[h] = "memset"
  /\ conn' = [conn EXCEPT ![my[h]] = Zeroed]
  /\ slot_state' = [slot_state EXCEPT ![my[h]] = TRUE]
  /\ Goto(h, "init")
  /\ UNCHANGED <<quitVars, conn_count, free, gen, listVars, thrVars,
                 loopVars>>

(* Mutant: one reference for each of the two registrations. *)
RefPerFd == 2

BaseRefs == 1

HandoffInit(h) ==
  /\ pc[h] = "init"
  /\ \E w \in Workers :
       /\ target' = [target EXCEPT ![h] = w]
       /\ conn' = [conn EXCEPT ![my[h]] =
                    [magic |-> TRUE, widx |-> w, refs |-> BaseRefs,
                     finalized |-> FALSE, registered |-> FALSE,
                     closed |-> FALSE]]
  /\ Goto(h, "lock")
  /\ UNCHANGED <<quitVars, conn_count, free, gen, slot_state, listVars, my,
                 ret, loopVars>>

(* A forwarding buffer could not be allocated. *)
HandoffNoBuffer(h) ==
  /\ pc[h] = "lock"
  /\ Unref(h, my[h], "idle")
  /\ UNCHANGED <<quitVars, conn_count, free, gen, slot_state, listVars, target,
                 loopVars>>

HandoffRefused(h) ==
  /\ pc[h] = "lock"
  /\ list_lock[target[h]] = NoThread
  /\ stopping[target[h]]
  /\ Goto(h, "rollback")
  /\ UNCHANGED <<quitVars, conn_count, slotVars, listVars, thrVars,
                 loopVars>>

(* Mutant: w->stopping is not looked at. *)
LockOnly(w) == list_lock[w] = NoThread

MayLink(w) == list_lock[w] = NoThread /\ ~stopping[w]

(* list_add_locked and the client's EPOLL_CTL_ADD, under list_lock. *)
HandoffLink(h) ==
  LET s == my[h]
      w == target[h]
  IN /\ pc[h] = "lock"
     /\ MayLink(w)
     /\ list' = [list EXCEPT ![w] = @ \cup {s}]
     /\ armed' = [armed EXCEPT ![w] =
                   @ \cup {[slot |-> s, gen |-> gen[s], target |-> FALSE]}]
     /\ list_lock' = [list_lock EXCEPT ![w] = h]
     /\ Goto(h, "added")
     /\ UNCHANGED <<quitVars, conn_count, slotVars, stopping, epoll_open,
                    thrVars, loopVars>>

(* The client's ADD fails: linked, marked closed and unlinked again within *)
(* one critical section.                                                   *)
HandoffLinkFails(h) ==
  LET s == my[h]
      w == target[h]
  IN /\ pc[h] = "lock"
     /\ MayLink(w)
     /\ conn' = [conn EXCEPT ![s].closed = TRUE]
     /\ Goto(h, "rollback")
     /\ UNCHANGED <<quitVars, conn_count, free, gen, slot_state, listVars,
                    thrVars, loopVars>>

HandoffAddTarget(h) ==
  LET s == my[h]
      w == target[h]
  IN /\ pc[h] = "added"
     /\ list_lock' = Unlock(w)
     /\ \/ /\ armed' = [armed EXCEPT ![w] =
                         @ \cup {[slot |-> s, gen |-> gen[s], target |-> TRUE]}]
           /\ Goto(h, "stamp")
           /\ UNCHANGED <<list, conn>>
        \/ /\ conn' = [conn EXCEPT ![s].closed = TRUE]
           /\ list' = [list EXCEPT ![w] = ListRemove(@, s)]
           /\ Goto(h, "rollback")
           /\ UNCHANGED armed
     /\ UNCHANGED <<quitVars, conn_count, free, gen, slot_state, stopping,
                    epoll_open, thrVars, loopVars>>

HandoffRollback(h) ==
  /\ pc[h] = "rollback"
  /\ Unref(h, my[h], "idle")
  /\ UNCHANGED <<quitVars, conn_count, free, gen, slot_state, listVars, target,
                 loopVars>>

(* registered = 1, after the lock was dropped. *)
HandoffDone(h) ==
  /\ pc[h] = "stamp"
  /\ conn' = [conn EXCEPT ![my[h]].registered = TRUE]
  /\ my' = [my EXCEPT ![h] = NoSlot]
  /\ Goto(h, "idle")
  /\ UNCHANGED <<quitVars, conn_count, free, gen, slot_state, listVars, ret,
                 target, loopVars>>

Handoff(h) ==
  \/ Reserve(h) \/ Unreserve(h) \/ Connected(h) \/ SlotAcquire(h)
  \/ SlotsExhausted(h) \/ SlotReset(h) \/ HandoffInit(h) \/ HandoffNoBuffer(h)
  \/ HandoffRefused(h)
  \/ HandoffLink(h) \/ HandoffLinkFails(h) \/ HandoffAddTarget(h)
  \/ HandoffRollback(h) \/ HandoffDone(h)
-----------------------------------------------------------------------------
(* worker_loop_safe *)

LoopTest(w) ==
  /\ pc[w] = "loop"
  /\ IF server_running
     THEN Goto(w, "wait") /\ garbage' = [garbage EXCEPT ![w] = {}]
     ELSE Goto(w, "exit") /\ UNCHANGED garbage
  /\ UNCHANGED <<quitVars, conn_count, slotVars, listVars, thrVars,
                 batch, sawPipe, cur, todo, visit, more>>

(* epoll_wait returns some of the ready registrations, or times out. *)
EpollWait(w) ==
  /\ pc[w] = "wait"
  /\ \E b \in SUBSET armed[w],
        pipe \in {FALSE, quitPc \notin {"running", "flagged"}} :
       /\ Cardinality(b) + (IF pipe THEN 1 ELSE 0) <= MaxEvents
       /\ batch' = [batch EXCEPT ![w] = b]
       /\ sawPipe' = [sawPipe EXCEPT ![w] = pipe]
  /\ Goto(w, "events")
  /\ UNCHANGED <<quitVars, conn_count, slotVars, listVars, thrVars,
                 cur, garbage, todo, visit, more>>

(* goto exit_worker: the rest of the batch is dropped, the garbage is kept. *)
PipeEvent(w) ==
  /\ pc[w] = "events"
  /\ sawPipe[w]
  /\ batch' = [batch EXCEPT ![w] = {}]
  /\ Goto(w, "exit")
  /\ UNCHANGED <<quitVars, conn_count, slotVars, listVars, thrVars,
                 sawPipe, cur, garbage, todo, visit, more>>

(* The first argument read for conn_event_check_slot: full->gen. *)
ReadGen(w) ==
  /\ pc[w] = "events"
  /\ \E e \in batch[w] :
       /\ batch' = [batch EXCEPT ![w] = @ \ {e}]
       /\ cur' = [cur EXCEPT ![w] = [ev |-> e, same |-> e.gen = gen[e.slot]]]
  /\ Goto(w, "check")
  /\ UNCHANGED <<quitVars, conn_count, slotVars, listVars, thrVars,
                 sawPipe, garbage, todo, visit, more>>

(* Mutant: registered is not tested. *)
DispositionNoReady(w, c, state, same) ==
  IF ~state THEN "INACTIVE"
  ELSE IF ~same \/ ~c.magic THEN "STALE"
  ELSE IF c.widx # w THEN "WRONG_WORKER"
  ELSE IF c.closed THEN "NOT_READY"
  ELSE "PROCESS"

(* conn_event_check_slot: the order of the tests is the order of the code. *)
Disposition(w, c, state, same) ==
  IF ~state THEN "INACTIVE"
  ELSE IF ~same \/ ~c.magic THEN "STALE"
  ELSE IF c.widx # w THEN "WRONG_WORKER"
  ELSE IF c.closed \/ ~c.registered THEN "NOT_READY"
  ELSE "PROCESS"

(* The remaining arguments are read, and the event is judged.  A residual  *)
(* event may make the ghost purger unregister the stamp it carries.        *)
CheckSlot(w) ==
  LET e == cur[w].ev
      d == Disposition(w, conn[e.slot], slot_state[e.slot], cur[w].same)
  IN /\ pc[w] = "check"
     /\ Goto(w, IF d = "PROCESS" THEN "proc" ELSE "events")
     /\ \/ UNCHANGED armed
        \/ /\ d \in {"INACTIVE", "STALE"}
           /\ armed' = [v \in Workers |->
                         {x \in armed[v] : x.slot # e.slot \/ x.gen # e.gen}]
     /\ UNCHANGED <<quitVars, conn_count, slotVars, list, list_lock, stopping,
                    epoll_open, thrVars, loopVars>>

Forward(w) ==
  /\ pc[w] = "proc"
  /\ Goto(w, "events")
  /\ UNCHANGED <<quitVars, conn_count, slotVars, listVars, thrVars,
                 loopVars>>

(* Mutant: the closed connection is not put into the garbage bucket. *)
CollectNothing(w, s) == garbage[w]

Collect(w, s) == garbage[w] \cup {s}

FatalError(w) ==
  LET s == cur[w].ev.slot
  IN /\ pc[w] = "proc"
     /\ list_lock[w] = NoThread
     /\ IF conn[s].closed
        THEN UNCHANGED <<conn, list, garbage>>
        ELSE /\ conn' = [conn EXCEPT ![s].closed = TRUE]
             /\ list' = [list EXCEPT ![w] = ListRemove(@, s)]
             /\ garbage' = [garbage EXCEPT ![w] = Collect(w, s)]
     /\ Goto(w, "events")
     /\ UNCHANGED <<quitVars, conn_count, free, gen, slot_state, list_lock,
                    stopping, epoll_open, armed, thrVars, batch,
                    sawPipe, cur, todo, visit, more>>

BatchDone(w) == pc[w] = "events" /\ batch[w] = {} /\ ~sawPipe[w]

(* Less than five seconds since the last sweep. *)
SkipSweep(w) ==
  /\ BatchDone(w)
  /\ todo' = [todo EXCEPT ![w] = garbage[w]]
  /\ Goto(w, "gc")
  /\ UNCHANGED <<quitVars, conn_count, slotVars, listVars, thrVars,
                 batch, sawPipe, cur, garbage, visit, more>>

SweepStart(w) ==
  /\ BatchDone(w)
  /\ list_lock[w] = NoThread
  /\ list_lock' = [list_lock EXCEPT ![w] = w]
  /\ visit' = [visit EXCEPT ![w] = list[w]]
  /\ Goto(w, "sweep")
  /\ UNCHANGED <<quitVars, conn_count, slotVars, list, stopping, epoll_open,
                 armed, thrVars, batch, sawPipe, cur, garbage, todo, more>>

Collectable(c) == c.magic /\ ~c.closed /\ c.registered

SweepKeep(w) ==
  /\ pc[w] = "sweep"
  /\ \E s \in visit[w] : visit' = [visit EXCEPT ![w] = @ \ {s}]
  /\ UNCHANGED <<quitVars, conn_count, slotVars, listVars, pc, thrVars,
                 batch, sawPipe, cur, garbage, todo, more>>

(* An expired connection; when the bucket is full the collected ones are   *)
(* first destroyed with the lock dropped.                                  *)
SweepCollect(w) ==
  /\ pc[w] = "sweep"
  /\ \E s \in visit[w] :
       /\ Collectable(conn[s])
       /\ visit' = [visit EXCEPT ![w] = @ \ {s}]
       /\ conn' = [conn EXCEPT ![s].closed = TRUE]
       /\ list' = [list EXCEPT ![w] = ListRemove(@, s)]
       /\ IF Cardinality(garbage[w]) < MaxEvents
          THEN /\ garbage' = [garbage EXCEPT ![w] = Collect(w, s)]
               /\ UNCHANGED <<pc, list_lock, todo>>
          ELSE /\ garbage' = [garbage EXCEPT ![w] = {s}]
               /\ todo' = [todo EXCEPT ![w] = garbage[w]]
               /\ list_lock' = Unlock(w)
               /\ Goto(w, "flush")
  /\ UNCHANGED <<quitVars, conn_count, free, gen, slot_state, stopping,
                 epoll_open, armed, thrVars, batch, sawPipe, cur,
                 more>>

SweepResume(w) ==
  /\ pc[w] = "flush"
  /\ todo[w] = {}
  /\ list_lock[w] = NoThread
  /\ list_lock' = [list_lock EXCEPT ![w] = w]
  /\ Goto(w, "sweep")
  /\ UNCHANGED <<quitVars, conn_count, slotVars, list, stopping, epoll_open,
                 armed, thrVars, loopVars>>

SweepEnd(w) ==
  /\ pc[w] = "sweep"
  /\ visit[w] = {}
  /\ list_lock' = Unlock(w)
  /\ todo' = [todo EXCEPT ![w] = garbage[w]]
  /\ Goto(w, "gc")
  /\ UNCHANGED <<quitVars, conn_count, slotVars, list, stopping, epoll_open,
                 armed, thrVars, batch, sawPipe, cur, garbage, visit, more>>

(* One iteration of any of the four loops that call conn_unref. *)
UnrefNext(w) ==
  /\ pc[w] \in UnrefPc
  /\ \E s \in todo[w] :
       /\ todo' = [todo EXCEPT ![w] = @ \ {s}]
       /\ Unref(w, s, pc[w])
  /\ UNCHANGED <<quitVars, conn_count, free, gen, slot_state, listVars, target,
                 batch, sawPipe, cur, garbage, visit, more>>

GcDone(w) ==
  /\ pc[w] = "gc"
  /\ todo[w] = {}
  /\ Goto(w, "loop")
  /\ UNCHANGED <<quitVars, conn_count, slotVars, listVars, thrVars,
                 loopVars>>

ExitWorker(w) ==
  /\ pc[w] = "exit"
  /\ list_lock[w] = NoThread
  /\ stopping' = [stopping EXCEPT ![w] = TRUE]
  /\ Goto(w, "drain")
  /\ UNCHANGED <<quitVars, conn_count, slotVars, list, list_lock, epoll_open,
                 armed, thrVars, loopVars>>

MoreToDrain(live) == Cardinality(live) = MaxEvents

MarkClosed(taken) ==
  [s \in Slots |-> IF s \in taken THEN [conn[s] EXCEPT !.closed = TRUE]
                                  ELSE conn[s]]

(* One batch of the exit drain: up to MAX_EVENTS connections are unlinked  *)
(* and marked; poisoned entries met on the way are only unlinked.          *)
DrainBatch(w) ==
  /\ pc[w] = "drain"
  /\ list_lock[w] = NoThread
  /\ \E taken \in SUBSET list[w] :
       LET live == {s \in taken : conn[s].magic}
       IN /\ Cardinality(live) <= MaxEvents
          /\ Cardinality(live) = MaxEvents \/ taken = list[w]
          /\ list' = [list EXCEPT ![w] = @ \ taken]
          /\ conn' = MarkClosed(live)
          /\ todo' = [todo EXCEPT ![w] = live]
          /\ more' = [more EXCEPT ![w] = MoreToDrain(live)]
  /\ Goto(w, "drained")
  /\ UNCHANGED <<quitVars, conn_count, free, gen, slot_state, list_lock,
                 stopping, epoll_open, armed, thrVars, batch, sawPipe,
                 cur, garbage, visit>>

Leftover(w) == garbage[w]

DrainAgain(w) ==
  /\ pc[w] = "drained"
  /\ todo[w] = {}
  /\ IF more[w]
     THEN Goto(w, "drain") /\ UNCHANGED todo
     ELSE Goto(w, "leftover") /\ todo' = [todo EXCEPT ![w] = Leftover(w)]
  /\ UNCHANGED <<quitVars, conn_count, slotVars, listVars, thrVars,
                 batch, sawPipe, cur, garbage, visit, more>>

CloseEpoll(w) ==
  /\ pc[w] = "leftover"
  /\ todo[w] = {}
  /\ epoll_open' = [epoll_open EXCEPT ![w] = FALSE]
  /\ armed' = [armed EXCEPT ![w] = {}]
  /\ Goto(w, "done")
  /\ UNCHANGED <<quitVars, conn_count, slotVars, list, list_lock, stopping,
                 thrVars, loopVars>>

Worker(w) ==
  \/ LoopTest(w) \/ EpollWait(w) \/ PipeEvent(w) \/ ReadGen(w) \/ CheckSlot(w)
  \/ Forward(w) \/ FatalError(w) \/ SkipSweep(w) \/ SweepStart(w)
  \/ SweepKeep(w) \/ SweepCollect(w) \/ SweepResume(w) \/ SweepEnd(w)
  \/ UnrefNext(w) \/ GcDone(w) \/ ExitWorker(w) \/ DrainBatch(w)
  \/ DrainAgain(w) \/ CloseEpoll(w)
-----------------------------------------------------------------------------
(* socks5_server_quit *)

QuitStep(from, to) ==
  /\ quitPc = from
  /\ quitPc' = to
  /\ UNCHANGED <<jobs, conn_count, slotVars, listVars, pc, thrVars,
                 loopVars>>

QuitFlag == QuitStep("running", "flagged")   \* server_running = 0

QuitWake == QuitStep("flagged", "woken")     \* the shutdown pipe is written

(* job_pool_shutdown returns once every pool thread has left its handler. *)
QuitPool ==
  /\ \A h \in Handoffs : pc[h] = "idle"
  /\ QuitStep("woken", "pooldown")

QuitJoin ==
  /\ \A w \in Workers : pc[w] = "done"
  /\ QuitStep("pooldown", "stopped")

Next ==
  \/ \E t \in Threads : Finalize(t)
  \/ \E h \in Handoffs : Handoff(h)
  \/ \E w \in Workers : Worker(w)
  \/ QuitFlag \/ QuitWake \/ QuitPool \/ QuitJoin

Spec == Init /\ [][Next]_vars

(* Every thread of the program is scheduled, and one that waits for a list_lock
   in conn_finalize gets it (the other users hold it briefly, the sweep once in
   five seconds); a client need not connect and
   the user need not stop the server, but a stop once begun goes on. *)
FairSpec ==
  /\ Spec
  /\ \A t \in Threads : SF_vars(Finalize(t))
  /\ \A h \in Handoffs : WF_vars(pc[h] # "idle" /\ Handoff(h))
  /\ \A w \in Workers : WF_vars(Worker(w))
  /\ WF_vars(QuitWake \/ QuitPool \/ QuitJoin)
-----------------------------------------------------------------------------
(* Properties *)

SlotTypes ==
  /\ quitPc \in {"running", "flagged", "woken", "pooldown", "stopped"}
  /\ jobs \in 0..MaxJobs
  /\ conn_count \in Int
  /\ free \in [Slots -> Nat]
  /\ gen \in [Slots -> Nat]
  /\ slot_state \in [Slots -> BOOLEAN]
  /\ conn \in [Slots -> Conn]

ListTypes ==
  /\ list \in [Workers -> SUBSET Slots]
  /\ list_lock \in [Workers -> Threads \cup {NoThread}]
  /\ stopping \in [Workers -> BOOLEAN]
  /\ epoll_open \in [Workers -> BOOLEAN]
  /\ armed \in [Workers -> SUBSET Event]

ThreadTypes ==
  /\ pc \in [Threads -> HandoffPc \cup FinalizePc \cup WorkerPc]
  /\ my \in [Threads -> Slots \cup {NoSlot}]
  /\ ret \in [Threads -> {"idle"} \cup UnrefPc]
  /\ target \in [Handoffs -> Workers \cup {NoThread}]

LoopTypes ==
  /\ batch \in [Workers -> SUBSET Event]
  /\ sawPipe \in [Workers -> BOOLEAN]
  /\ cur \in [Workers -> [ev : Event \cup {NoEvent}, same : BOOLEAN]]
  /\ garbage \in [Workers -> SUBSET Slots]
  /\ todo \in [Workers -> SUBSET Slots]
  /\ visit \in [Workers -> SUBSET Slots]
  /\ more \in [Workers -> BOOLEAN]

(* Every variable has its type: no field of a connection is written through *)
(* NoSlot, no list or batch holds anything but slots, and the free stack    *)
(* never underflows.                                                        *)
TypeOK == SlotTypes /\ ListTypes /\ ThreadTypes /\ LoopTypes

(* Where a worker is in its loop, also while it is inside conn_finalize. *)
At(w) == IF pc[w] \in FinalizePc THEN ret[w] ELSE pc[w]

(* Connections a worker has unlinked and is still to unref. *)
Pending(w) ==
  todo[w] \cup
  (IF At(w) \in {"wait", "events", "check", "proc", "sweep", "flush"}
   THEN garbage[w] ELSE {})

Building(h, s) ==
  my[h] = s /\ pc[h] \in {"memset", "init", "lock", "rollback"}

Finalizing(t, s) == my[t] = s /\ pc[t] \in FinalizePc

(* Who is responsible for a slot: the free stack, the pool thread that is  *)
(* building or rolling back the connection, the list of its worker, a      *)
(* worker's garbage, or the thread that finalizes it.                      *)
Owners(s) ==
  (IF free[s] > 0 THEN {<<"free", NoThread>>} ELSE {})
  \cup {<<"handoff", h>> : h \in {h \in Handoffs : Building(h, s)}}
  \cup {<<"list", w>> : w \in {w \in Workers : s \in list[w]}}
  \cup {<<"garbage", w>> : w \in {w \in Workers : s \in Pending(w)}}
  \cup {<<"finalize", t>> : t \in {t \in Threads : Finalizing(t, s)}}

(* While the server runs every slot has exactly one owner: no connection is *)
(* dropped by all (a leaked slot and two leaked fds) and none is claimed by *)
(* two (a second unref, a slot pushed twice).  slot_acquire/slot_release,   *)
(* handoff_to_worker's rollbacks, the worker's garbage and sweep.           *)
SingleOwner ==
  server_running =>
    \A s \in Slots : free[s] <= 1 /\ Cardinality(Owners(s)) = 1

(* While the server runs the base reference is there exactly as long as     *)
(* somebody has still to drop it ("each conn is unref'd exactly once",      *)
(* handoff_to_worker).                                                      *)
RefAccounting ==
  server_running =>
    \A s \in Slots :
      conn[s].refs =
        (IF \/ \E w \in Workers : s \in list[w] \cup Pending(w)
            \/ \E h \in Handoffs : my[h] = s /\ pc[h] \in {"lock", "rollback"}
         THEN 1 ELSE 0)

(* While the server runs, an event that survives conn_event_check_slot is   *)
(* applied to a connection that is fully registered and that this worker    *)
(* itself still owns, whatever slot reuse happened since epoll_wait and     *)
(* between the reads of the check.                                          *)
ProcessedIsLive ==
  server_running =>
    \A w \in Workers : pc[w] = "proc" =>
      LET s == cur[w].ev.slot
      IN /\ s \in list[w]
         /\ conn[s].registered /\ conn[s].magic /\ conn[s].widx = w
         /\ {FALSE, TRUE} =
              {e.target : e \in {e \in armed[w] : e.slot = s /\ e.gen = gen[s]}}

LiveSlots ==
  {s \in Slots :
     \/ \E h \in Handoffs : Building(h, s)
     \/ \E w \in Workers : s \in list[w] \cup Pending(w)
     \/ \E t \in Threads : Finalizing(t, s) /\ pc[t] \in {"unlink", "close"}}

(* While the server runs g_conn_count counts exactly the reservations not   *)
(* yet handed back, on every error path of the handshake and the hand-over; *)
(* so the slots in use never exceed the limit by more than the threads that *)
(* are between the decrement and slot_release.                              *)
CountExact ==
  server_running =>
    LET reserved == Cardinality({h \in Handoffs :
                       pc[h] \in {"over", "connect", "acquire"}})
        over == Cardinality({h \in Handoffs : pc[h] = "over"})
    IN /\ conn_count = Cardinality(LiveSlots) + reserved
       /\ conn_count - over <= MaxConns

(* handoff_to_worker never adds to an epoll its worker has closed or is      *)
(* about to close, and a worker never leaves a connection behind on its     *)
(* list: stopping is set under list_lock before the drain, and tested under *)
(* the same lock before linking.                                            *)
StopProtocol ==
  /\ \A h \in Handoffs : pc[h] = "added" =>
       epoll_open[target[h]] /\ ~stopping[target[h]]
  /\ \A w \in Workers : pc[w] = "done" => list[w] = {}

(* A slot is new until handoff_to_worker gives it its base reference. *)
New(h, s) == my[h] = s /\ pc[h] \in {"memset", "init"}

(* Where a slot is in its life: on the free stack, new, held by its base    *)
(* reference, or with the thread that finalizes it.                         *)
Stages(s) ==
  (IF free[s] > 0 THEN {<<"free", NoThread>>} ELSE {})
  \cup {<<"new", h>> : h \in {h \in Handoffs : New(h, s)}}
  \cup (IF conn[s].refs > 0 THEN {<<"held", NoThread>>} ELSE {})
  \cup {<<"finalize", t>> : t \in {t \in Threads : Finalizing(t, s)}}

InUse ==
  {s \in Slots :
     \/ conn[s].refs > 0
     \/ \E h \in Handoffs : New(h, s)
     \/ \E t \in Threads : Finalizing(t, s) /\ pc[t] \in {"unlink", "close"}}

(* Also while the server stops, and garbage that was unreferenced before is *)
(* unreferenced again under a new tenant: each tenancy of a slot ends once, *)
(* by one thread, whoever drops the reference; no slot is pushed twice and  *)
(* g_conn_count is never decremented twice.  So when socks5_server_quit     *)
(* returns, what the counter still shows is slots that nobody unreferenced. *)
EndsOnce ==
  /\ \A s \in Slots : free[s] <= 1 /\ Cardinality(Stages(s)) = 1
  /\ conn_count = Cardinality(InUse)
                  + Cardinality({h \in Handoffs : pc[h] \in {"over", "connect", "acquire"}})

(* slot_acquire never hands out a slot with a generation some registration  *)
(* or undelivered event still carries: residual events of former tenants,   *)
(* kept alive by the Java copy of a socket, can always be told apart.       *)
FreshTenant ==
  [][\A s \in Slots : free'[s] < free[s] =>
       \A w \in Workers : \A e \in armed[w] \cup batch[w] \cup {cur[w].ev} :
         e.slot = s => e.gen # gen'[s]]_vars

(* A connection that was marked closed gives its slot back eventually. *)
ClosedIsReleased ==
  \A s \in Slots : (slot_state[s] /\ conn[s].closed) ~> ~slot_state[s]

(* socks5_server_quit comes back: no thread waits for a lock or for another *)
(* thread for ever during shutdown.                                         *)
QuitReturns == quitPc = "flagged" ~> quitPc = "stopped"

(* The comment in handoff_to_worker: every conn is unref'd exactly once, so *)
(* that refs cannot become negative. It does not hold (README, section 3).   *)
NoOverUnref == \A s \in Slots : conn[s].refs >= 0

(* The comment in worker_loop_safe: the remaining connections are cleaned   *)
(* up when the worker exits. When socks5_server_quit returns every slot     *)
(* should be back and no reservation left. It does not hold (README).       *)
CleanStop ==
  quitPc = "stopped" =>
    /\ conn_count = 0
    /\ \A s \in Slots : free[s] = 1 /\ ~slot_state[s]

(* The comment on the slot table: the generation check makes it impossible  *)
(* to process an event on the wrong connection. It does not hold (README).   *)
RightTenant ==
  \A w \in Workers : pc[w] = "proc" => gen[cur[w].ev.slot] = cur[w].ev.gen

=============================================================================
