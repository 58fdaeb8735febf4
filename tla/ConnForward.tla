----------------------------- MODULE ConnForward -----------------------------
(****************************************************************************)
(* The forwarding of one registered TCP connection: the two buffers of a     *)
(* full_conn_t, the event handler and the sweep of worker_loop_safe, the     *)
(* interest masks of level-triggered epoll, half-closed peers and their      *)
(* grace period.  Slots, references and event validation are in ConnSlots.   *)
(*                                                                          *)
(* A stream is named by the peer it comes from: c2t is the stream of Client, *)
(* t2c the one of Target.  Bytes are numbered in the order they were         *)
(* written, and only their numbers are kept.                                 *)
(****************************************************************************)
EXTENDS Integers

CONSTANTS
  Client, Target,
  BufferSize,  \* BUFFER_SIZE: capacity of c2t_buf and of t2c_buf
  Window,      \* bytes the kernel takes for a peer that does not read
  Loads        \* the bounds: how many bytes each peer may write

Peers == {Client, Target}

ASSUME ForwardAssumption ==
  /\ Client # Target
  /\ BufferSize \in Nat \ {0}
  /\ Window \in Nat \ {0}
  /\ Loads \subseteq [Peers -> Nat]

Lesser(a, b) == IF a < b THEN a ELSE b

Other(p) == IF p = Client THEN Target ELSE Client

VARIABLES
  load,    \* the bounds of this behaviour
  stream,  \* stream[p]: the bytes of p, from p to the other peer
  fin,     \* fin[p]: p has shut down its sending side (its FIN has arrived)
  failed,  \* failed[p]: p's connection was reset
  eof,     \* eof[p]: client_eof with eof_since, and target_eof_since
  mask,    \* client_events and target_events
  events,  \* events not yet handled of the batch epoll_wait returned
  cur,     \* the peer whose event is being handled
  pc,      \* place in the worker's loop
  fatal,   \* fatal_error of the handler, and which condition set it
  idle,    \* IDLE_TIMEOUT_SEC have passed since last_active
  closed,  \* closed, and why
  traffic  \* g_tx_bytes (Client) and g_rx_bytes (Target)

env == <<load, fin, failed>>
conn == <<eof, mask, fatal, idle, closed>>
vars == <<load, stream, fin, failed, eof, mask, events, cur, pc, fatal, idle, closed, traffic>>

(* taken: bytes recv() has returned; the buffer holds the last len of them and  *)
(* the first off of these have been sent. last and first: the bytes last sent.  *)
(* seen: what the other peer has read.                                          *)
Stream == [sent : Nat, taken : Nat, len : Nat, off : Nat, first : Nat, last : Nat, seen : Nat]

Reasons == {"no", "complete", "grace", "error", "idle"}
(* A half-close is not known, known, or known for CONN_FWD_GRACE_SEC seconds. *)
Ages == {"no", "new", "expired"}

Init ==
  /\ load \in Loads
  /\ stream = [p \in Peers |->
       [sent |-> 0, taken |-> 0, len |-> 0, off |-> 0, first |-> 0, last |-> 0, seen |-> 0]]
  /\ fin = [p \in Peers |-> FALSE]
  /\ failed = [p \in Peers |-> FALSE]
  /\ eof = [p \in Peers |-> "no"]
  /\ mask = [p \in Peers |-> {"RDHUP", "IN"}]
  /\ events = [p \in Peers |-> {}]
  /\ cur = Client
  /\ pc = "wait"
  /\ fatal = "no"
  /\ idle = FALSE
  /\ closed = "no"
  /\ traffic = [p \in Peers |-> 0]

------------------------------------------------------------------------------
(* The peers and the kernel.                                                  *)

Room(s) == s.seen + Window - s.last
Unread(p) == stream[p].sent > stream[p].taken
(* recv() and its MSG_PEEK variant return 0: all was read and the FIN is next. *)
AtFin(p) == fin[p] /\ ~Unread(p)

(* Level-triggered readiness of p's socket under its mask; HUP needs no mask. *)
Ready(p) ==
  LET level == (IF Unread(p) \/ fin[p] THEN {"IN"} ELSE {})
               \union (IF fin[p] THEN {"RDHUP"} ELSE {})
               \union (IF Room(stream[Other(p)]) > 0 THEN {"OUT"} ELSE {})
  IN (mask[p] \intersect level) \union (IF failed[p] THEN {"HUP"} ELSE {})

PeerWrites(p) ==
  /\ closed = "no" /\ ~fin[p] /\ ~failed[p]
  /\ stream[p].sent < load[p]
  /\ stream' = [stream EXCEPT ![p].sent = @ + 1]
  /\ UNCHANGED <<env, conn, events, cur, pc, traffic>>

PeerHalfCloses(p) ==
  /\ closed = "no" /\ ~fin[p] /\ ~failed[p]
  /\ fin' = [fin EXCEPT ![p] = TRUE]
  /\ UNCHANGED <<load, failed, stream, conn, events, cur, pc, traffic>>

PeerReads(p) ==
  /\ closed = "no" /\ ~failed[p]
  /\ stream[Other(p)].seen < stream[Other(p)].last
  /\ stream' = [stream EXCEPT ![Other(p)].seen = @ + 1]
  /\ UNCHANGED <<env, conn, events, cur, pc, traffic>>

PeerResets(p) ==
  /\ closed = "no" /\ ~failed[p]
  /\ failed' = [failed EXCEPT ![p] = TRUE]
  /\ UNCHANGED <<load, fin, stream, conn, events, cur, pc, traffic>>

(* CONN_FWD_GRACE_SEC seconds have passed since the half-close was noticed. *)
GraceExpires(p) ==
  /\ closed = "no" /\ eof[p] = "new"
  /\ eof' = [eof EXCEPT ![p] = "expired"]
  /\ UNCHANGED <<env, stream, mask, fatal, idle, closed, events, cur, pc, traffic>>

(* The worker handles a ready event within seconds and a grace period is two   *)
(* seconds: the limit of five minutes is reached only when neither is open.     *)
IdleExpires ==
  /\ closed = "no" /\ pc = "wait" /\ ~idle
  /\ \A p \in Peers : eof[p] # "new"
  /\ \A p \in Peers : Ready(p) = {}
  /\ idle' = TRUE
  /\ UNCHANGED <<env, stream, eof, mask, fatal, closed, events, cur, pc, traffic>>

------------------------------------------------------------------------------
(* The event handler.                                                         *)

(* Mutant: a partial send is repeated from the start of the buffer. *)
TrySendFromStart(s) ==
  LET n == Lesser(s.len - s.off, Room(s))
      drained == s.off + n = s.len
  IN [s EXCEPT !.first = IF n > 0 THEN s.taken - s.len + 1 ELSE @,
               !.last = IF n > 0 THEN s.taken - s.len + n ELSE @,
               !.off = IF drained THEN 0 ELSE @ + n,
               !.len = IF drained THEN 0 ELSE @]

(* try_send: what the kernel takes now; a drained buffer is reset. *)
TrySend(s) ==
  LET n == Lesser(s.len - s.off, Room(s))
      next == s.taken - s.len + s.off
      drained == s.off + n = s.len
  IN [s EXCEPT !.first = IF n > 0 THEN next + 1 ELSE @,
               !.last = IF n > 0 THEN next + n ELSE @,
               !.off = IF drained THEN 0 ELSE @ + n,
               !.len = IF drained THEN 0 ELSE @]

(* recv() of what has arrived, up to the capacity of the empty buffer. *)
Recv(s) ==
  LET n == Lesser(s.sent - s.taken, BufferSize)
  IN [s EXCEPT !.taken = @ + n, !.len = n, !.off = 0]

(* Mutant: the uploaded bytes are derived from the movement of off. *)
UploadByOffset(old, new) == new.off - old.off

(* account_upload: bytes of the client actually sent by try_send. *)
Uploaded(old, new) == new.last - old.last

(* Mutant: OUT is never armed again. *)
InterestNoOut(p, eofs, streams) ==
  IF eofs[p] # "no" THEN {} ELSE {"RDHUP"} \union (IF streams[p].len > 0 THEN {} ELSE {"IN"})

(* Mutant: RDHUP of a half-closed peer stays armed. *)
InterestRdhup(p, eofs, streams) ==
  {"RDHUP"} \union (IF eofs[p] # "no" \/ streams[p].len > 0 THEN {} ELSE {"IN"})
    \union (IF streams[Other(p)].len > 0 THEN {"OUT"} ELSE {})

(* conn_forward_interest: what to arm for the client and for the target. *)
Interest(p, eofs, streams) ==
  (IF eofs[p] # "no" THEN {} ELSE {"RDHUP"} \union (IF streams[p].len > 0 THEN {} ELSE {"IN"}))
    \union (IF streams[Other(p)].len > 0 THEN {"OUT"} ELSE {})

EpollWait ==
  /\ pc = "wait" /\ closed = "no"
  /\ \E p \in Peers : Ready(p) # {}
  /\ events' = [p \in Peers |-> Ready(p)]
  /\ pc' = "batch"
  /\ UNCHANGED <<env, stream, conn, cur, traffic>>

BatchDone ==
  /\ pc = "batch"
  /\ \A p \in Peers : events[p] = {}
  /\ pc' = "wait"
  /\ UNCHANGED <<env, stream, conn, events, cur, traffic>>

(* ERR and HUP are fatal at once; RDHUP is not. *)
StartEvent(p) ==
  /\ pc = "batch" /\ events[p] # {}
  /\ cur' = p
  /\ idle' = FALSE
  /\ IF "HUP" \in events[p]
     THEN fatal' = "error" /\ pc' = "finish"
     ELSE fatal' = "no" /\ pc' = "flush_t2c"
  /\ UNCHANGED <<env, stream, eof, mask, closed, events, traffic>>

(* Sends what is left in the buffer of p's stream; the other stream is tried  *)
(* even if this one fails.                                                    *)
Flush(p, here, there) ==
  /\ pc = here
  /\ pc' = there
  /\ IF stream[p].len = 0
     THEN UNCHANGED <<stream, fatal, traffic>>
     ELSE IF failed[Other(p)]
     THEN fatal' = "error" /\ UNCHANGED <<stream, traffic>>
     ELSE /\ stream' = [stream EXCEPT ![p] = TrySend(@)]
          /\ traffic' = IF p = Client THEN [traffic EXCEPT ![p] = @ + Uploaded(stream[p], stream'[p])]
                                      ELSE traffic
          /\ UNCHANGED fatal
  /\ UNCHANGED <<env, eof, mask, idle, closed, events, cur>>

(* The client's FIN ends the reading of the client and nothing else. *)
ReadClient ==
  /\ pc = "read_client"
  /\ pc' = "read_target"
  /\ IF fatal # "no" \/ stream[Client].len > 0 \/ eof[Client] # "no"
     THEN UNCHANGED <<stream, eof, fatal, traffic>>
     ELSE IF failed[Client]
     THEN fatal' = "error" /\ UNCHANGED <<stream, eof, traffic>>
     ELSE IF Unread(Client)
     THEN LET got == Recv(stream[Client]) IN
          /\ stream' = [stream EXCEPT ![Client] = IF failed[Target] THEN got ELSE TrySend(got)]
          /\ traffic' = [traffic EXCEPT ![Client] = @ + Uploaded(got, stream'[Client])]
          /\ fatal' = IF failed[Target] THEN "error" ELSE "no"
          /\ UNCHANGED eof
     ELSE /\ eof' = [eof EXCEPT ![Client] = IF fin[Client] THEN "new" ELSE @]
          /\ UNCHANGED <<stream, fatal, traffic>>
  /\ UNCHANGED <<env, mask, idle, closed, events, cur>>

(* The target's FIN ends the connection. *)
ReadTarget ==
  /\ pc = "read_target"
  /\ pc' = "finish"
  /\ IF fatal # "no" \/ stream[Target].len > 0
     THEN UNCHANGED <<stream, fatal, traffic>>
     ELSE IF failed[Target]
     THEN fatal' = "error" /\ UNCHANGED <<stream, traffic>>
     ELSE IF Unread(Target)
     THEN LET got == Recv(stream[Target]) IN
          /\ stream' = [stream EXCEPT ![Target] = IF failed[Client] THEN got ELSE TrySend(got)]
          /\ traffic' = [traffic EXCEPT ![Target] = @ + got.len]
          /\ fatal' = IF failed[Client] THEN "error" ELSE "no"
     ELSE /\ fatal' = IF fin[Target] THEN "complete" ELSE "no"
          /\ UNCHANGED <<stream, traffic>>
  /\ UNCHANGED <<env, eof, mask, idle, closed, events, cur>>

(* What the rest of the handler sees: a RDHUP of the target is remembered, and *)
(* with both buffers empty a half-closed client is given its grace period and  *)
(* otherwise the target is asked for its FIN.                                  *)
NoticedEof ==
  IF fatal = "no" /\ cur = Target /\ eof[Target] = "no" /\ "RDHUP" \in events[Target]
  THEN [eof EXCEPT ![Target] = "new"] ELSE eof

Verdict ==
  IF fatal # "no" THEN fatal
  ELSE IF \E p \in Peers : stream[p].len > 0 THEN "no"
  ELSE IF eof[Client] # "no" THEN (IF eof[Client] = "expired" THEN "grace" ELSE "no")
  ELSE IF AtFin(Target) /\ ~failed[Target] THEN "complete" ELSE "no"

FinishEvent ==
  /\ pc = "finish"
  /\ eof' = NoticedEof
  /\ closed' = Verdict
  /\ fatal' = "no"
  /\ IF Verdict = "no"
     THEN /\ events' = [events EXCEPT ![cur] = {}]
          /\ mask' = [p \in Peers |-> Interest(p, eof', stream)]
          /\ pc' = "batch"
     ELSE /\ events' = [p \in Peers |-> {}]
          /\ pc' = "wait"
          /\ UNCHANGED mask
  /\ UNCHANGED <<env, stream, cur, idle, traffic>>

(* The sweep, once in five seconds: it asks a target whose data waits for a     *)
(* stalled client for its FIN, and closes what is idle or past its grace.       *)
SweepEof ==
  IF eof[Target] = "no" /\ stream[Target].len > 0 /\ AtFin(Target) /\ ~failed[Target]
  THEN [eof EXCEPT ![Target] = "new"] ELSE eof

(* Mutant: the target's grace period is not looked at. *)
ClientGraceOnly == eof[Client] = "expired"

GraceOver == eof[Client] = "expired" \/ eof[Target] = "expired"

Sweep ==
  /\ pc = "wait" /\ closed = "no"
  /\ eof' = SweepEof
  /\ closed' = IF GraceOver THEN "grace" ELSE IF idle THEN "idle" ELSE "no"
  /\ UNCHANGED <<env, stream, mask, fatal, idle, events, cur, pc, traffic>>

FlushT2c == Flush(Target, "flush_t2c", "flush_c2t")
FlushC2t == Flush(Client, "flush_c2t", "read_client")

Handle ==
  \/ EpollWait \/ BatchDone \/ \E p \in Peers : StartEvent(p)
  \/ FlushT2c \/ FlushC2t \/ ReadClient \/ ReadTarget \/ FinishEvent

Environment ==
  \E p \in Peers : PeerWrites(p) \/ PeerHalfCloses(p) \/ PeerReads(p) \/ PeerResets(p)

Next == Handle \/ Sweep \/ Environment \/ IdleExpires \/ \E p \in Peers : GraceExpires(p)

Spec == Init /\ [][Next]_vars

(* The worker is scheduled, epoll_wait returns ready events, five seconds       *)
(* between two sweeps and the grace period pass.  Sweep and handler share the    *)
(* thread: a sweep is due again and again while events keep arriving.           *)
Fairness ==
  /\ WF_vars(Handle) /\ SF_vars(Sweep)
  /\ \A p \in Peers : WF_vars(GraceExpires(p))

FairSpec == Spec /\ Fairness

------------------------------------------------------------------------------
TypeOK ==
  /\ load \in Loads
  /\ stream \in [Peers -> Stream]
  /\ fin \in [Peers -> BOOLEAN] /\ failed \in [Peers -> BOOLEAN]
  /\ eof \in [Peers -> Ages]
  /\ mask \in [Peers -> SUBSET {"RDHUP", "IN", "OUT"}]
  /\ events \in [Peers -> SUBSET {"RDHUP", "IN", "OUT", "HUP"}]
  /\ cur \in Peers
  /\ pc \in {"wait", "batch", "flush_t2c", "flush_c2t", "read_client", "read_target", "finish"}
  /\ fatal \in Reasons /\ closed \in Reasons
  /\ idle \in BOOLEAN
  /\ traffic \in [Peers -> Nat]

BufferOK(s) ==
  /\ s.off <= s.len /\ s.len <= BufferSize /\ (s.off = s.len => s.len = 0)
  /\ s.last = s.taken - s.len + s.off
  /\ s.taken <= s.sent /\ s.seen <= s.last /\ s.last <= s.seen + Window

(* Every byte the engine has taken from a peer was handed over or waits in the  *)
(* buffer from where the next send starts, the kernel was never given more than *)
(* it takes, and the traffic counters agree with what crossed the target's      *)
(* socket (try_send, account_upload, g_rx_bytes).                               *)
Accounted ==
  /\ \A p \in Peers : BufferOK(stream[p])
  /\ traffic[Client] = stream[Client].last
  /\ traffic[Target] = stream[Target].taken

(* The forwarding implements Relay: bytes in order, without gap or repetition,  *)
(* and an end only for the reason that it claims.                               *)
R == INSTANCE Relay WITH
       sent <- [p \in Peers |-> stream[p].sent],
       out <- [p \in Peers |-> [first |-> stream[p].first, last |-> stream[p].last]],
       ended <- closed
Relays == R!Spec

(* A target that has sent its FIN is released whatever the client does, and a   *)
(* client that has sent its FIN is released while the target goes on reading    *)
(* (the CLOSE_WAIT repairs of the handler and of the sweep).                    *)
Reaped ==
  /\ fin[Target] ~> closed # "no"
  /\ []<>(Room(stream[Client]) > 0 \/ closed # "no") => (fin[Client] ~> closed # "no")

(* What a peer has sent reaches the other one as long as that one goes on        *)
(* reading, or the connection ends; it is never forgotten until the idle limit,  *)
(* which passes only for a peer that has stalled (update_conn_events).           *)
Relayed ==
  \A p \in Peers : []<>(Room(stream[p]) > 0) =>
    (stream[p].sent > stream[p].last /\ ~idle
       ~> \/ stream[p].sent = stream[p].last \/ closed \notin {"no", "idle"}
          \/ idle /\ Room(stream[p]) = 0)

(* An event that the worker gets lets it move data, learn of an end, close or    *)
(* change a mask, or level-triggered epoll would return it again at once: no      *)
(* half-closed peer stays armed (conn_forward_interest). The code has one case    *)
(* where it does: a client's FIN behind data that the target does not take.       *)
NoSpin ==
  pc = "wait" /\ closed = "no" => \A p \in Peers : Ready(p) # {} =>
    \/ \E q \in Peers : failed[q] \/ mask[q] # Interest(q, eof, stream)
    \/ \E q \in Peers : stream[q].len > 0 /\ Room(stream[q]) > 0
    \/ stream[Client].len = 0 /\ eof[Client] = "no" /\ (Unread(Client) \/ fin[Client])
    \/ stream[Target].len = 0 /\ (Unread(Target) \/ fin[Target])
    \/ p = Target /\ eof[Target] = "no" /\ "RDHUP" \in Ready(p)
    \/ p = Client /\ Ready(p) = {"RDHUP"} /\ stream[Client].len > 0

(* The sweep's comment says of a target past its grace period that its data       *)
(* could not be drained because the client has stalled: if the client has taken   *)
(* all that was offered, it was offered all of the response.                      *)
CutOnlyIfStalled ==
  closed = "grace" /\ eof[Target] = "expired" /\ ~fin[Client] /\ stream[Target].len = 0
    => stream[Target].last = stream[Target].sent
===============================================================================
