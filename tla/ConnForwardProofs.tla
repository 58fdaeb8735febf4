-------------------------- MODULE ConnForwardProofs --------------------------
(****************************************************************************)
(* Proofs about ConnForward, for every buffer size, window and amount of     *)
(* data: the buffers and counters are exact, the forwarding implements       *)
(* Relay, and no armed event leaves the worker without work.                 *)
(****************************************************************************)
EXTENDS ConnForward, TLAPS

(* What the handler's locals say about the peers: an end that is noted or      *)
(* about to be noted has happened, and a connection is only closed between     *)
(* two events.                                                                 *)
Reasoned ==
  /\ \A p \in Peers : eof[p] # "no" => fin[p]
  /\ \A p \in Peers : "RDHUP" \in events[p] => fin[p]
  /\ \A p \in Peers : "HUP" \in events[p] => failed[p]
  /\ pc # "wait" => closed = "no"
  /\ pc \in {"wait", "batch"} => fatal = "no"
  /\ fatal \in {"no", "error", "complete"}
  /\ fatal = "error" => failed[Client] \/ failed[Target]
  /\ fatal = "complete" => pc = "finish" /\ AtFin(Target) /\ stream[Target].len = 0

IInv == TypeOK /\ Accounted /\ Reasoned

(* The peer at the other end of a stream is a peer, and not the same one. *)
LEMMA OtherPeer ==
  ASSUME NEW p \in Peers
  PROVE  Other(p) \in Peers /\ Other(p) # p
  BY ForwardAssumption DEF Other, Peers

(* try_send hands over the bytes that follow the last ones, and none beyond    *)
(* what was received.                                                          *)
LEMMA TrySendStep ==
  ASSUME NEW s \in Stream, BufferOK(s)
  PROVE  /\ TrySend(s) \in Stream /\ BufferOK(TrySend(s))
         /\ TrySend(s).sent = s.sent /\ TrySend(s).taken = s.taken /\ TrySend(s).seen = s.seen
         /\ \/ TrySend(s).first = s.first /\ TrySend(s).last = s.last
            \/ TrySend(s).first = s.last + 1 /\ TrySend(s).last \in (s.last + 1) .. s.sent
<1> DEFINE n == Lesser(s.len - s.off, Room(s))
           drained == s.off + n = s.len
           first == IF n > 0 THEN s.last + 1 ELSE s.first
           last == IF n > 0 THEN s.last + n ELSE s.last
           off == IF drained THEN 0 ELSE s.off + n
           len == IF drained THEN 0 ELSE s.len
<1>1. /\ s.sent \in Nat /\ s.taken \in Nat /\ s.len \in Nat /\ s.off \in Nat
      /\ s.first \in Nat /\ s.last \in Nat /\ s.seen \in Nat
  BY DEF Stream
<1>2. n \in Nat /\ n <= s.len - s.off /\ n <= Room(s) /\ Room(s) \in Nat
  BY <1>1, ForwardAssumption DEF Lesser, Room, BufferOK
<1>3. TrySend(s) = [s EXCEPT !.first = first, !.last = last, !.off = off, !.len = len]
  <2>1. s.taken - s.len + s.off = s.last
    BY DEF BufferOK
  <2> QED BY <2>1 DEF TrySend
<1> HIDE DEF n
<1>4. first \in Nat /\ last \in Nat /\ off \in Nat /\ len \in Nat
  BY <1>1, <1>2
<1>5. /\ off <= len /\ len <= BufferSize /\ (off = len => len = 0)
      /\ last = s.taken - len + off /\ s.seen <= last /\ last <= s.seen + Window
      /\ \/ first = s.first /\ last = s.last
         \/ first = s.last + 1 /\ last \in (s.last + 1) .. s.sent
  BY <1>1, <1>2, ForwardAssumption DEF BufferOK, Room
<1> HIDE DEF first, last, off, len
<1>6. /\ TrySend(s) \in Stream /\ TrySend(s).first = first /\ TrySend(s).last = last
      /\ TrySend(s).off = off /\ TrySend(s).len = len /\ TrySend(s).sent = s.sent
      /\ TrySend(s).taken = s.taken /\ TrySend(s).seen = s.seen
  BY <1>3, <1>4 DEF Stream
<1> QED BY <1>5, <1>6 DEF BufferOK

(* recv() into an empty buffer takes the next bytes that have arrived. *)
LEMMA RecvStep ==
  ASSUME NEW s \in Stream, BufferOK(s), s.len = 0, s.sent > s.taken
  PROVE  /\ Recv(s) \in Stream /\ BufferOK(Recv(s))
         /\ Recv(s).sent = s.sent /\ Recv(s).first = s.first /\ Recv(s).last = s.last
         /\ Recv(s).seen = s.seen /\ Recv(s).taken = s.taken + Recv(s).len
<1> DEFINE n == Lesser(s.sent - s.taken, BufferSize)
           taken == s.taken + n
<1>1. /\ s.sent \in Nat /\ s.taken \in Nat /\ s.len \in Nat /\ s.off \in Nat
      /\ s.first \in Nat /\ s.last \in Nat /\ s.seen \in Nat
  BY DEF Stream
<1>2. n \in Nat /\ n > 0 /\ n <= s.sent - s.taken /\ n <= BufferSize
  BY <1>1, ForwardAssumption DEF Lesser
<1>3. Recv(s) = [s EXCEPT !.taken = taken, !.len = n, !.off = 0]
  BY DEF Recv
<1> HIDE DEF n
<1>4. taken \in Nat /\ taken <= s.sent /\ s.last = taken - n
  BY <1>1, <1>2 DEF BufferOK
<1> HIDE DEF taken
<1>5. /\ Recv(s) \in Stream /\ Recv(s).taken = taken /\ Recv(s).len = n /\ Recv(s).off = 0
      /\ Recv(s).first = s.first /\ Recv(s).last = s.last /\ Recv(s).sent = s.sent
      /\ Recv(s).seen = s.seen
  BY <1>2, <1>3, <1>4 DEF Stream
<1> QED BY <1>1, <1>2, <1>4, <1>5, ForwardAssumption DEF BufferOK, taken

------------------------------------------------------------------------------
(* The invariant holds of a connection that is newly handed over.          *)
LEMMA InitInv == Init => IInv
<1> SUFFICES ASSUME Init PROVE IInv
  OBVIOUS
<1>1. TypeOK
  BY ForwardAssumption DEF Init, TypeOK, Stream, Ages, Reasons, Peers
<1>2. Accounted
  BY ForwardAssumption DEF Init, Accounted, BufferOK, Peers
<1>3. Reasoned
  BY ForwardAssumption DEF Init, Reasoned, Peers
<1> QED BY <1>1, <1>2, <1>3 DEF IInv

(* Steps of the peers and of the clock. *)
LEMMA EnvironmentInv == IInv /\ (Environment \/ IdleExpires \/ \E p \in Peers : GraceExpires(p)) => IInv'
<1> USE DEF env, conn
<1>1. ASSUME IInv, NEW p \in Peers, PeerWrites(p) PROVE IInv'
  <2> DEFINE s == stream[p]
             t == [s EXCEPT !.sent = @ + 1]
  <2>1. s \in Stream /\ BufferOK(s) /\ stream' = [stream EXCEPT ![p] = t] /\ stream \in [Peers -> Stream]
    BY <1>1 DEF IInv, TypeOK, Accounted, PeerWrites
  <2>2. t \in Stream /\ BufferOK(t) /\ t.last = s.last /\ t.taken = s.taken /\ t.len = s.len
    BY <2>1 DEF Stream, BufferOK
  <2> HIDE DEF s, t
  <2>3. TypeOK' /\ Accounted'
    BY <1>1, <2>1, <2>2 DEF IInv, TypeOK, Accounted, PeerWrites, Peers, s
  <2>4. Reasoned'
    BY <1>1, <2>1, <2>2 DEF IInv, Reasoned, TypeOK, PeerWrites, Peers, AtFin, Unread, s
  <2> QED BY <2>3, <2>4 DEF IInv
<1>2. ASSUME IInv, NEW p \in Peers, PeerHalfCloses(p) PROVE IInv'
  BY <1>2 DEF IInv, TypeOK, Accounted, Reasoned, PeerHalfCloses, Peers, AtFin, Unread
<1>3. ASSUME IInv, NEW p \in Peers, PeerReads(p) PROVE IInv'
  <2> DEFINE q == Other(p)
             s == stream[q]
             t == [s EXCEPT !.seen = @ + 1]
  <2>0. q \in Peers
    BY OtherPeer
  <2>1. /\ s \in Stream /\ BufferOK(s) /\ s.seen < s.last
        /\ stream' = [stream EXCEPT ![q] = t] /\ stream \in [Peers -> Stream]
    BY <1>3, <2>0 DEF IInv, TypeOK, Accounted, PeerReads
  <2>2. /\ t \in Stream /\ BufferOK(t) /\ t.last = s.last /\ t.taken = s.taken /\ t.len = s.len
        /\ t.sent = s.sent
    BY <2>1, ForwardAssumption DEF Stream, BufferOK
  <2> HIDE DEF q, s, t
  <2>3. \A r \in Peers : /\ stream'[r] \in Stream /\ BufferOK(stream'[r])
                          /\ stream'[r].last = stream[r].last /\ stream'[r].taken = stream[r].taken
    BY <1>3, <2>0, <2>1, <2>2 DEF IInv, TypeOK, Accounted, s
  <2>5. TypeOK' /\ Accounted'
    BY <1>3, <2>0, <2>1, <2>2, <2>3 DEF IInv, TypeOK, Accounted, PeerReads, Peers
  <2>4. Reasoned'
    BY <1>3, <2>0, <2>1, <2>2 DEF IInv, Reasoned, TypeOK, PeerReads, Peers, AtFin, Unread, s
  <2> QED BY <2>5, <2>4 DEF IInv
<1>4. ASSUME IInv, NEW p \in Peers, PeerResets(p) PROVE IInv'
  BY <1>4 DEF IInv, TypeOK, Accounted, Reasoned, PeerResets, Peers, AtFin, Unread
<1>5. ASSUME IInv, NEW p \in Peers, GraceExpires(p) PROVE IInv'
  BY <1>5 DEF IInv, TypeOK, Accounted, Reasoned, GraceExpires, Peers, AtFin, Unread, Ages
<1>6. ASSUME IInv, IdleExpires PROVE IInv'
  BY <1>6 DEF IInv, TypeOK, Accounted, Reasoned, IdleExpires, Peers, AtFin, Unread
<1> QED BY <1>1, <1>2, <1>3, <1>4, <1>5, <1>6 DEF Environment

(* A stream that a send or a read has moved on leaves the rest as it was. *)
LEMMA MovedOn ==
  ASSUME IInv, NEW p \in Peers, NEW t \in Stream, BufferOK(t), stream' = [stream EXCEPT ![p] = t]
  PROVE  /\ stream' \in [Peers -> Stream]
         /\ \A r \in Peers : BufferOK(stream'[r])
         /\ stream'[p] = t /\ \A r \in Peers \ {p} : stream'[r] = stream[r]
  BY DEF IInv, TypeOK, Accounted

(* The steps of the handler that move data. *)
LEMMA FlushInv ==
  ASSUME NEW p \in Peers, NEW here, NEW there, IInv, Flush(p, here, there),
         here \notin {"wait", "batch", "finish"},
         there \in {"flush_t2c", "flush_c2t", "read_client", "read_target"}
  PROVE  IInv'
<1> USE DEF env
<1> DEFINE s == stream[p]
           t == TrySend(s)
<1>1. s \in Stream /\ BufferOK(s) /\ Other(p) \in Peers
  BY OtherPeer DEF IInv, TypeOK, Accounted
<1>2. CASE s.len = 0
  BY <1>2 DEF IInv, TypeOK, Accounted, Reasoned, Flush, Peers, AtFin, Unread
<1>3. CASE s.len # 0 /\ failed[Other(p)]
  BY <1>1, <1>3 DEF IInv, TypeOK, Accounted, Reasoned, Flush, Peers, AtFin, Unread, Reasons
<1>4. CASE s.len # 0 /\ ~failed[Other(p)]
  <2>1. /\ stream' = [stream EXCEPT ![p] = t]
        /\ traffic' = IF p = Client THEN [traffic EXCEPT ![p] = @ + Uploaded(s, stream'[p])] ELSE traffic
        /\ pc = here /\ pc' = there /\ fatal # "complete"
        /\ UNCHANGED <<load, fin, failed, fatal, eof, mask, idle, closed, events, cur>>
    BY <1>4 DEF Flush, IInv, Reasoned
  <2>2. t \in Stream /\ BufferOK(t) /\ t.taken = s.taken
    BY <1>1, TrySendStep
  <2>3. /\ stream' \in [Peers -> Stream]
        /\ \A r \in Peers : BufferOK(stream'[r])
        /\ stream'[p] = t /\ \A r \in Peers \ {p} : stream'[r] = stream[r]
    BY <2>1, <2>2, MovedOn
  <2> HIDE DEF t
  <2>4. traffic'[Client] = stream'[Client].last /\ traffic'[Target] = stream'[Target].taken
        /\ traffic' \in [Peers -> Nat]
    <3>1. traffic[Client] = stream[Client].last /\ traffic[Target] = stream[Target].taken
          /\ traffic \in [Peers -> Nat] /\ s.last \in Nat /\ t.last \in Nat
      BY <1>1, <2>2 DEF IInv, TypeOK, Accounted, Stream
    <3>2. CASE p = Client
      BY <2>1, <2>3, <3>1, <3>2, ForwardAssumption DEF Peers, Uploaded
    <3>3. CASE p = Target
      BY <2>1, <2>2, <2>3, <3>1, <3>3, ForwardAssumption DEF Peers
    <3> QED BY <3>2, <3>3 DEF Peers
  <2>5. TypeOK' /\ Accounted'
    BY <2>1, <2>3, <2>4 DEF IInv, TypeOK, Accounted
  <2>6. Reasoned'
    BY <2>1 DEF IInv, Reasoned
  <2> QED BY <2>5, <2>6 DEF IInv
<1> QED BY <1>2, <1>3, <1>4

(* Reading from the client, flushes included, preserves the invariant.     *)
LEMMA ReadClientInv == IInv /\ ReadClient => IInv'
<1> SUFFICES ASSUME IInv, ReadClient PROVE IInv'
  OBVIOUS
<1> USE DEF env
<1> DEFINE s == stream[Client]
           got == Recv(s)
           t == IF failed[Target] THEN got ELSE TrySend(got)
           skip == fatal # "no" \/ s.len > 0 \/ eof[Client] # "no"
<1>0. Client \in Peers /\ Target \in Peers /\ s \in Stream /\ BufferOK(s)
  BY DEF IInv, TypeOK, Accounted, Peers
<1>1. CASE skip \/ failed[Client]
  BY <1>0, <1>1 DEF IInv, TypeOK, Accounted, Reasoned, ReadClient, AtFin, Unread, Reasons
<1>2. CASE ~skip /\ ~failed[Client] /\ ~Unread(Client)
  BY <1>0, <1>2 DEF IInv, TypeOK, Accounted, Reasoned, ReadClient, AtFin, Unread, Ages
<1>3. CASE ~skip /\ ~failed[Client] /\ Unread(Client)
  <2>1. /\ stream' = [stream EXCEPT ![Client] = t]
        /\ traffic' = [traffic EXCEPT ![Client] = @ + Uploaded(got, stream'[Client])]
        /\ fatal' = IF failed[Target] THEN "error" ELSE "no"
        /\ pc = "read_client" /\ pc' = "read_target"
        /\ UNCHANGED <<load, fin, failed, eof, mask, idle, closed, events, cur>>
    BY <1>3 DEF ReadClient
  <2>2. s.len = 0 /\ s.sent > s.taken
    BY <1>0, <1>3 DEF Unread, Stream
  <2>3. got \in Stream /\ BufferOK(got) /\ got.last = s.last
    BY <1>0, <2>2, RecvStep
  <2>4. t \in Stream /\ BufferOK(t)
    BY <2>3, TrySendStep
  <2> HIDE DEF t, got
  <2>5. /\ stream' \in [Peers -> Stream]
        /\ \A r \in Peers : BufferOK(stream'[r])
        /\ stream'[Client] = t /\ stream'[Target] = stream[Target]
    BY <1>0, <2>1, <2>4, MovedOn, ForwardAssumption
  <2>6. /\ traffic' \in [Peers -> Nat]
        /\ traffic'[Client] = stream'[Client].last /\ traffic'[Target] = stream'[Target].taken
    <3>1. /\ traffic[Client] = s.last /\ traffic[Target] = stream[Target].taken
          /\ traffic \in [Peers -> Nat] /\ s.last \in Nat /\ t.last \in Nat
      BY <1>0, <2>4 DEF IInv, TypeOK, Accounted, Stream
    <3> QED BY <1>0, <2>1, <2>3, <2>5, <3>1, ForwardAssumption DEF Uploaded
  <2>7. TypeOK' /\ Accounted'
    BY <2>1, <2>5, <2>6 DEF IInv, TypeOK, Accounted, Reasons
  <2>8. Reasoned'
    BY <2>1 DEF IInv, Reasoned
  <2> QED BY <2>7, <2>8 DEF IInv
<1> QED BY <1>1, <1>2, <1>3

(* Reading from the target, flushes included, preserves the invariant.     *)
LEMMA ReadTargetInv == IInv /\ ReadTarget => IInv'
<1> SUFFICES ASSUME IInv, ReadTarget PROVE IInv'
  OBVIOUS
<1> USE DEF env
<1> DEFINE s == stream[Target]
           got == Recv(s)
           t == IF failed[Client] THEN got ELSE TrySend(got)
           skip == fatal # "no" \/ s.len > 0
<1>0. Client \in Peers /\ Target \in Peers /\ s \in Stream /\ BufferOK(s)
  BY DEF IInv, TypeOK, Accounted, Peers
<1>1. CASE skip \/ failed[Target]
  BY <1>0, <1>1 DEF IInv, TypeOK, Accounted, Reasoned, ReadTarget, AtFin, Unread, Reasons
<1>2. CASE ~skip /\ ~failed[Target] /\ ~Unread(Target)
  <2>1. s.len = 0
    BY <1>0, <1>2 DEF Stream
  <2> QED BY <1>0, <1>2, <2>1 DEF IInv, TypeOK, Accounted, Reasoned, ReadTarget, AtFin, Unread, Reasons
<1>3. CASE ~skip /\ ~failed[Target] /\ Unread(Target)
  <2>1. /\ stream' = [stream EXCEPT ![Target] = t]
        /\ traffic' = [traffic EXCEPT ![Target] = @ + got.len]
        /\ fatal' = IF failed[Client] THEN "error" ELSE "no"
        /\ pc = "read_target" /\ pc' = "finish"
        /\ UNCHANGED <<load, fin, failed, eof, mask, idle, closed, events, cur>>
    BY <1>3 DEF ReadTarget
  <2>2. s.len = 0 /\ s.sent > s.taken
    BY <1>0, <1>3 DEF Unread, Stream
  <2>3. got \in Stream /\ BufferOK(got) /\ got.taken = s.taken + got.len
    BY <1>0, <2>2, RecvStep
  <2>4. t \in Stream /\ BufferOK(t) /\ t.taken = got.taken
    BY <2>3, TrySendStep
  <2> HIDE DEF t, got
  <2>5. /\ stream' \in [Peers -> Stream]
        /\ \A r \in Peers : BufferOK(stream'[r])
        /\ stream'[Target] = t /\ stream'[Client] = stream[Client]
    BY <1>0, <2>1, <2>4, MovedOn, ForwardAssumption
  <2>6. /\ traffic' \in [Peers -> Nat]
        /\ traffic'[Client] = stream'[Client].last /\ traffic'[Target] = stream'[Target].taken
    <3>1. /\ traffic[Client] = stream[Client].last /\ traffic[Target] = s.taken
          /\ traffic \in [Peers -> Nat] /\ s.taken \in Nat /\ got.len \in Nat
      BY <1>0, <2>3 DEF IInv, TypeOK, Accounted, Stream
    <3> QED BY <1>0, <2>1, <2>3, <2>4, <2>5, <3>1, ForwardAssumption
  <2>7. TypeOK' /\ Accounted'
    BY <2>1, <2>5, <2>6 DEF IInv, TypeOK, Accounted, Reasons
  <2>8. Reasoned'
    BY <2>1 DEF IInv, Reasoned
  <2> QED BY <2>7, <2>8 DEF IInv
<1> QED BY <1>1, <1>2, <1>3

(* A peer is reported for what has happened to it. *)
LEMMA ReadyStep ==
  ASSUME IInv, NEW p \in Peers
  PROVE  /\ Ready(p) \subseteq {"RDHUP", "IN", "OUT", "HUP"}
         /\ "RDHUP" \in Ready(p) => fin[p]
         /\ "HUP" \in Ready(p) => failed[p]
<1>1. mask[p] \subseteq {"RDHUP", "IN", "OUT"}
  BY DEF IInv, TypeOK
<1> QED BY <1>1 DEF Ready

(* Collecting the events of a round preserves the invariant.               *)
LEMMA EpollWaitInv == IInv /\ EpollWait => IInv'
<1> SUFFICES ASSUME IInv, EpollWait PROVE IInv'
  OBVIOUS
<1>1. /\ events' = [p \in Peers |-> Ready(p)] /\ pc' = "batch" /\ closed = "no" /\ pc = "wait"
      /\ UNCHANGED <<load, fin, failed, stream, eof, mask, fatal, idle, closed, cur, traffic>>
  BY DEF EpollWait, env, conn
<1>2. ASSUME NEW p \in Peers
      PROVE  /\ events'[p] \subseteq {"RDHUP", "IN", "OUT", "HUP"}
             /\ "RDHUP" \in events'[p] => fin[p]
             /\ "HUP" \in events'[p] => failed[p]
  <2>1. events'[p] = Ready(p)
    BY <1>1
  <2> QED BY <2>1, ReadyStep
<1>3. events' \in [Peers -> SUBSET {"RDHUP", "IN", "OUT", "HUP"}]
  <2>1. events' = [p \in Peers |-> events'[p]]
    BY <1>1
  <2> QED BY <1>2, <2>1
<1>4. TypeOK' /\ Accounted' /\ Reasoned'
  BY <1>1, <1>2, <1>3 DEF IInv, TypeOK, Accounted, Reasoned, AtFin, Unread
<1> QED BY <1>4 DEF IInv

(* The steps of the handler that only look. *)
LEMMA LoopInv == IInv /\ (EpollWait \/ BatchDone \/ \E p \in Peers : StartEvent(p)) => IInv'
<1> USE DEF env, conn
<1>2. ASSUME IInv, BatchDone PROVE IInv'
  BY <1>2 DEF IInv, TypeOK, Accounted, Reasoned, BatchDone, AtFin, Unread
<1>3. ASSUME IInv, NEW p \in Peers, StartEvent(p) PROVE IInv'
  BY <1>3 DEF IInv, TypeOK, Accounted, Reasoned, StartEvent, AtFin, Unread, Peers, Reasons
<1> QED BY EpollWaitInv, <1>2, <1>3

(* The end of an event and the sweep of the dead preserve the invariant.   *)
LEMMA FinishInv == IInv /\ (FinishEvent \/ Sweep) => IInv'
<1> USE DEF env
<1>0. Client \in Peers /\ Target \in Peers
  BY DEF Peers
<1>1. ASSUME IInv, FinishEvent PROVE IInv'
  <2>1. NoticedEof \in [Peers -> Ages] /\ \A p \in Peers : NoticedEof[p] # "no" => fin[p]
    BY <1>0, <1>1 DEF NoticedEof, IInv, TypeOK, Reasoned, Ages
  <2>2. Verdict \in Reasons
    BY <1>1 DEF Verdict, IInv, TypeOK, Reasons
  <2>3. \A p \in Peers : Interest(p, NoticedEof, stream) \subseteq {"RDHUP", "IN", "OUT"}
    BY DEF Interest
  <2>4. mask' \in [Peers -> SUBSET {"RDHUP", "IN", "OUT"}]
    BY <1>1, <2>3 DEF FinishEvent, IInv, TypeOK
  <2>5. /\ events' \in [Peers -> SUBSET {"RDHUP", "IN", "OUT", "HUP"}]
        /\ \A p \in Peers : events'[p] \subseteq events[p]
    BY <1>1 DEF FinishEvent, IInv, TypeOK
  <2>6. /\ eof' = NoticedEof /\ closed' = Verdict /\ fatal' = "no"
        /\ IF Verdict = "no" THEN pc' = "batch" ELSE pc' = "wait"
        /\ UNCHANGED <<load, fin, failed, stream, cur, idle, traffic>>
    BY <1>1 DEF FinishEvent
  <2>7. TypeOK' /\ Accounted'
    BY <1>1, <2>1, <2>2, <2>4, <2>5, <2>6 DEF IInv, TypeOK, Accounted, Reasons
  <2>8. Reasoned'
    BY <1>1, <2>1, <2>2, <2>5, <2>6 DEF IInv, Reasoned, Reasons
  <2> QED BY <2>7, <2>8 DEF IInv
<1>2. ASSUME IInv, Sweep PROVE IInv'
  <2>1. SweepEof \in [Peers -> Ages] /\ \A p \in Peers : SweepEof[p] # "no" => fin[p]
    BY <1>0, <1>2 DEF SweepEof, IInv, TypeOK, Reasoned, Ages, AtFin
  <2>2. /\ eof' = SweepEof /\ closed' \in Reasons /\ pc = "wait"
        /\ UNCHANGED <<load, fin, failed, stream, mask, fatal, idle, events, cur, pc, traffic>>
    BY <1>2 DEF Sweep, Reasons
  <2>3. TypeOK' /\ Accounted'
    BY <1>2, <2>1, <2>2 DEF IInv, TypeOK, Accounted
  <2>4. Reasoned'
    BY <1>2, <2>1, <2>2 DEF IInv, Reasoned
  <2> QED BY <2>3, <2>4 DEF IInv
<1> QED BY <1>1, <1>2

(* Every step of the forwarder preserves the invariant.                    *)
LEMMA StepInv == IInv /\ [Next]_vars => IInv'
<1> SUFFICES ASSUME IInv, [Next]_vars PROVE IInv'
  OBVIOUS
<1>1. CASE FlushT2c
  BY <1>1, FlushInv DEF FlushT2c, Peers
<1>2. CASE FlushC2t
  BY <1>2, FlushInv DEF FlushC2t, Peers
<1>3. CASE UNCHANGED vars
  BY <1>3 DEF IInv, TypeOK, Accounted, Reasoned, AtFin, Unread, vars
<1> QED BY <1>1, <1>2, <1>3, ReadClientInv, ReadTargetInv, LoopInv, FinishInv, EnvironmentInv
        DEF Next, Handle

------------------------------------------------------------------------------
(* The state of the engine for one connection stays in its type.              *)
THEOREM TypeCorrect == Spec => []TypeOK
<1>1. IInv => TypeOK
  BY DEF IInv
<1> QED BY InitInv, StepInv, <1>1, PTL DEF Spec

(* No partial send, short read or full window makes the engine lose, repeat or *)
(* miscount a byte that it holds (try_send, account_upload).                   *)
THEOREM BuffersExact == Spec => []Accounted
<1>1. IInv => Accounted
  BY DEF IInv
<1> QED BY InitInv, StepInv, <1>1, PTL DEF Spec
------------------------------------------------------------------------------
(* The refinement of Relay.  A step that leaves what Relay sees of the streams *)
(* is a stuttering step, and one that hands over the next bytes is Deliver.    *)
LEMMA Stutters ==
  ASSUME \A r \in Peers : /\ stream'[r].sent = stream[r].sent
                           /\ stream'[r].first = stream[r].first
                           /\ stream'[r].last = stream[r].last,
         UNCHANGED <<fin, failed, closed>>
  PROVE  UNCHANGED R!vars
  BY DEF R!vars

(* A send of the head of the buffer delivers the next bytes in order.      *)
LEMMA Delivers ==
  ASSUME IInv, NEW p \in Peers, NEW t \in Stream, stream' = [stream EXCEPT ![p] = t],
         closed = "no", UNCHANGED <<fin, failed, closed>>, t.sent = stream[p].sent,
         \/ t.first = stream[p].first /\ t.last = stream[p].last
         \/ t.first = stream[p].last + 1 /\ t.last \in (stream[p].last + 1) .. stream[p].sent
  PROVE  [R!Next]_R!vars
<1> DEFINE out == [r \in Peers |-> [first |-> stream[r].first, last |-> stream[r].last]]
           sent == [r \in Peers |-> stream[r].sent]
           piece == [first |-> t.first, last |-> t.last]
<1>1. stream'[p] = t /\ \A r \in Peers \ {p} : stream'[r] = stream[r]
  BY DEF IInv, TypeOK
<1>2. CASE t.first = stream[p].first /\ t.last = stream[p].last
  BY <1>1, <1>2, Stutters
<1>3. CASE t.first = stream[p].last + 1 /\ t.last \in (stream[p].last + 1) .. stream[p].sent
  <2>1. sent' = sent
    BY <1>1
  <2>2. out' = [out EXCEPT ![p] = piece]
    BY <1>1
  <2>3. out[p].last = stream[p].last /\ sent[p] = stream[p].sent
    OBVIOUS
  <2>4. [out EXCEPT ![p] = piece] = [out EXCEPT ![p] = [first |-> @.last + 1, last |-> t.last]]
    BY <1>3, <2>3
  <2>5. R!Deliver(p)
    BY <1>3, <2>1, <2>2, <2>3, <2>4 DEF R!Deliver
  <2> QED BY <2>5 DEF R!Next, R!Peers, Peers
<1> QED BY <1>2, <1>3

(* Flushing a buffer is a delivery of the abstract relay, or nothing.      *)
LEMMA FlushRefines ==
  ASSUME NEW p \in Peers, NEW here, NEW there, IInv, Flush(p, here, there), here # "wait"
  PROVE  [R!Next]_R!vars
<1>1. closed = "no" /\ stream[p] \in Stream /\ BufferOK(stream[p])
  BY DEF IInv, TypeOK, Accounted, Reasoned, Flush
<1>2. UNCHANGED <<fin, failed, closed>>
  BY DEF Flush, env
<1>3. CASE stream' = stream
  BY <1>2, <1>3, Stutters
<1>4. CASE stream' = [stream EXCEPT ![p] = TrySend(stream[p])]
  BY <1>1, <1>2, <1>4, TrySendStep, Delivers
<1> QED BY <1>3, <1>4 DEF Flush

(* Reading from a peer is a delivery of the abstract relay, or nothing.    *)
LEMMA ReadRefines ==
  ASSUME IInv, NEW p \in Peers, stream[p].len = 0, Unread(p), closed = "no",
         UNCHANGED <<fin, failed, closed>>,
         \/ stream' = [stream EXCEPT ![p] = Recv(stream[p])]
         \/ stream' = [stream EXCEPT ![p] = TrySend(Recv(stream[p]))]
  PROVE  [R!Next]_R!vars
<1> DEFINE s == stream[p]
           got == Recv(s)
<1>1. s \in Stream /\ BufferOK(s) /\ s.sent > s.taken
  BY DEF IInv, TypeOK, Accounted, Unread
<1>2. got \in Stream /\ BufferOK(got) /\ got.sent = s.sent /\ got.first = s.first /\ got.last = s.last
  BY <1>1, RecvStep
<1>3. CASE stream' = [stream EXCEPT ![p] = got]
  BY <1>2, <1>3, Delivers
<1>4. CASE stream' = [stream EXCEPT ![p] = TrySend(got)]
  <2> HIDE DEF got
  <2>1. /\ TrySend(got) \in Stream /\ TrySend(got).sent = s.sent
        /\ \/ TrySend(got).first = s.first /\ TrySend(got).last = s.last
           \/ TrySend(got).first = s.last + 1 /\ TrySend(got).last \in (s.last + 1) .. s.sent
    BY <1>2, TrySendStep
  <2> QED BY <1>4, <2>1, Delivers
<1> QED BY <1>3, <1>4

(* The connection is closed for the reason that Relay asks for. *)
LEMMA EndRefines ==
  ASSUME IInv, FinishEvent \/ Sweep
  PROVE  [R!Next]_R!vars
<1>0. Client \in Peers /\ Target \in Peers
  BY DEF Peers
<1>1. UNCHANGED <<stream, fin, failed>> /\ closed = "no"
  BY DEF FinishEvent, Sweep, IInv, Reasoned, env
<1>2. CASE closed' = "no"
  BY <1>1, <1>2, Stutters
<1>3. CASE closed' # "no"
  <2>1. \/ closed' = "complete" /\ fin[Target] /\ stream[Target].last = stream[Target].sent
        \/ closed' = "grace" /\ (fin[Client] \/ fin[Target])
        \/ closed' = "error" /\ (failed[Client] \/ failed[Target])
        \/ closed' = "idle"
    <3>1. CASE Sweep
      BY <1>0, <1>3, <3>1 DEF Sweep, GraceOver, IInv, Reasoned
    <3>2. CASE FinishEvent
      <4>0. closed' = Verdict /\ \A p \in Peers : stream[p] \in Stream
        BY <3>2 DEF FinishEvent, IInv, TypeOK
      <4>1. CASE fatal # "no"
        <5>1. \/ fatal = "error" /\ (failed[Client] \/ failed[Target])
              \/ fatal = "complete" /\ AtFin(Target) /\ stream[Target].len = 0
          BY <4>1 DEF IInv, Reasoned
        <5>2. closed' = fatal
          BY <4>0, <4>1 DEF Verdict
        <5>3. AtFin(Target) /\ stream[Target].len = 0
                => fin[Target] /\ stream[Target].last = stream[Target].sent
          BY <1>0, <4>0 DEF IInv, Accounted, BufferOK, AtFin, Unread, Stream
        <5> QED BY <5>1, <5>2, <5>3
      <4>2. CASE fatal = "no"
        <5>1. \A p \in Peers : stream[p].len = 0
          BY <1>3, <4>0, <4>2 DEF Verdict, Stream
        <5>2. \/ closed' = "grace" /\ eof[Client] = "expired"
              \/ closed' = "complete" /\ AtFin(Target)
          BY <1>3, <4>0, <4>2 DEF Verdict
        <5>3. AtFin(Target) => fin[Target] /\ stream[Target].last = stream[Target].sent
          BY <1>0, <4>0, <5>1 DEF IInv, Accounted, BufferOK, AtFin, Unread, Stream
        <5>4. eof[Client] = "expired" => fin[Client]
          BY <1>0 DEF IInv, Reasoned
        <5> QED BY <5>2, <5>3, <5>4
      <4> QED BY <4>1, <4>2
    <3> QED BY <3>1, <3>2
  <2>2. R!End
    BY <1>0, <1>1, <2>1 DEF R!End, R!Peers, Peers
  <2> QED BY <2>2 DEF R!Next
<1> QED BY <1>2, <1>3

(* What the peers do is a step of the abstract relay.                      *)
LEMMA EnvironmentRefines ==
  ASSUME IInv, Environment
  PROVE  [R!Next]_R!vars
<1> USE DEF env, conn
<1>1. ASSUME NEW p \in Peers, PeerWrites(p) PROVE [R!Next]_R!vars
  <2> DEFINE sent == [r \in Peers |-> stream[r].sent]
             t == [stream[p] EXCEPT !.sent = @ + 1]
  <2>1. stream' = [stream EXCEPT ![p] = t] /\ ~fin[p] /\ UNCHANGED <<fin, failed, closed>>
    BY <1>1 DEF PeerWrites
  <2>2. t.sent = stream[p].sent + 1 /\ t.first = stream[p].first /\ t.last = stream[p].last
    BY DEF IInv, TypeOK, Stream
  <2> HIDE DEF t
  <2>3. stream'[p] = t /\ \A r \in Peers \ {p} : stream'[r] = stream[r]
    BY <2>1 DEF IInv, TypeOK
  <2>4. sent' = [sent EXCEPT ![p] = @ + 1]
    BY <2>2, <2>3
  <2>5. R!Write(p)
    BY <2>1, <2>2, <2>3, <2>4 DEF R!Write
  <2> QED BY <2>5 DEF R!Next, R!Peers, Peers
<1>2. ASSUME NEW p \in Peers, PeerHalfCloses(p) PROVE [R!Next]_R!vars
  <2>1. R!HalfClose(p)
    BY <1>2 DEF PeerHalfCloses, R!HalfClose
  <2> QED BY <2>1 DEF R!Next, R!Peers, Peers
<1>3. ASSUME NEW p \in Peers, PeerReads(p) PROVE [R!Next]_R!vars
  <2>1. /\ Other(p) \in Peers /\ stream \in [Peers -> Stream]
        /\ stream' = [stream EXCEPT ![Other(p)].seen = @ + 1]
        /\ UNCHANGED <<fin, failed, closed>>
    BY <1>3, OtherPeer DEF PeerReads, IInv, TypeOK
  <2>2. \A r \in Peers : /\ stream'[r].sent = stream[r].sent
                          /\ stream'[r].first = stream[r].first
                          /\ stream'[r].last = stream[r].last
    BY <2>1 DEF Stream
  <2> QED BY <2>1, <2>2, Stutters
<1>4. ASSUME NEW p \in Peers, PeerResets(p) PROVE [R!Next]_R!vars
  <2>1. R!Break(p)
    BY <1>4 DEF PeerResets, R!Break
  <2> QED BY <2>1 DEF R!Next, R!Peers, Peers
<1> QED BY <1>1, <1>2, <1>3, <1>4 DEF Environment

(* Every step of the forwarder is a step of the abstract relay, or nothing. *)
LEMMA StepRefines ==
  ASSUME IInv, [Next]_vars
  PROVE  [R!Next]_R!vars
<1>0. Client \in Peers /\ Target \in Peers
  BY DEF Peers
<1>1. CASE FlushT2c \/ FlushC2t
  BY <1>0, <1>1, FlushRefines DEF FlushT2c, FlushC2t
<1>2. CASE ReadClient
  <2>1. closed = "no" /\ UNCHANGED <<fin, failed, closed>> /\ stream[Client] \in Stream
    BY <1>0, <1>2 DEF ReadClient, IInv, Reasoned, TypeOK, env
  <2>2. CASE stream' = stream
    BY <2>1, <2>2, Stutters
  <2>3. CASE stream' # stream
    <3>1. ~(stream[Client].len > 0) /\ Unread(Client)
      BY <1>2, <2>3 DEF ReadClient
    <3>2. stream[Client].len = 0
      BY <2>1, <3>1 DEF Stream
    <3>3. \/ stream' = [stream EXCEPT ![Client] = Recv(stream[Client])]
          \/ stream' = [stream EXCEPT ![Client] = TrySend(Recv(stream[Client]))]
      BY <1>2, <2>3 DEF ReadClient
    <3> QED BY <1>0, <2>1, <3>1, <3>2, <3>3, ReadRefines
  <2> QED BY <2>2, <2>3
<1>3. CASE ReadTarget
  <2>1. closed = "no" /\ UNCHANGED <<fin, failed, closed>> /\ stream[Target] \in Stream
    BY <1>0, <1>3 DEF ReadTarget, IInv, Reasoned, TypeOK, env
  <2>2. CASE stream' = stream
    BY <2>1, <2>2, Stutters
  <2>3. CASE stream' # stream
    <3>1. ~(stream[Target].len > 0) /\ Unread(Target)
      BY <1>3, <2>3 DEF ReadTarget
    <3>2. stream[Target].len = 0
      BY <2>1, <3>1 DEF Stream
    <3>3. \/ stream' = [stream EXCEPT ![Target] = Recv(stream[Target])]
          \/ stream' = [stream EXCEPT ![Target] = TrySend(Recv(stream[Target]))]
      BY <1>3, <2>3 DEF ReadTarget
    <3> QED BY <1>0, <2>1, <3>1, <3>2, <3>3, ReadRefines
  <2> QED BY <2>2, <2>3
<1>4. CASE FinishEvent \/ Sweep
  BY <1>4, EndRefines
<1>5. CASE Environment
  BY <1>5, EnvironmentRefines
<1>6. CASE \/ EpollWait \/ BatchDone \/ IdleExpires \/ UNCHANGED vars
           \/ \E p \in Peers : StartEvent(p) \/ GraceExpires(p)
  <2>1. UNCHANGED <<stream, fin, failed, closed>>
    BY <1>6 DEF EpollWait, BatchDone, IdleExpires, StartEvent, GraceExpires, env, conn, vars
  <2> QED BY <2>1, Stutters
<1> QED BY <1>1, <1>2, <1>3, <1>4, <1>5, <1>6 DEF Next, Handle

(* The forwarding implements Relay: the bytes of each peer reach the other one *)
(* once and in order, and the connection ends only for the reason it claims.   *)
THEOREM ImplementsRelay == Spec => Relays
<1>1. Init => R!Init
  BY DEF Init, R!Init, R!Peers, Peers
<1> QED BY <1>1, InitInv, StepInv, StepRefines, PTL DEF Spec, Relays, R!Spec

(* Level-triggered epoll gives the worker no event it can do nothing about,   *)
(* but for a client's FIN behind data the target does not take.                *)
THEOREM NeverSpins == Spec => []NoSpin
<1>1. IInv => NoSpin
  <2> SUFFICES ASSUME IInv, NEW p \in Peers, Ready(p) # {},
                      \A q \in Peers : ~failed[q] /\ mask[q] = Interest(q, eof, stream),
                      \A q \in Peers : stream[q].len > 0 => ~(Room(stream[q]) > 0),
                      ~(stream[Client].len = 0 /\ eof[Client] = "no" /\ (Unread(Client) \/ fin[Client])),
                      ~(stream[Target].len = 0 /\ (Unread(Target) \/ fin[Target])),
                      ~(p = Target /\ eof[Target] = "no" /\ "RDHUP" \in Ready(p))
               PROVE  p = Client /\ Ready(p) = {"RDHUP"} /\ stream[Client].len > 0
    BY DEF NoSpin
  <2>0. /\ Client \in Peers /\ Target \in Peers /\ Other(p) \in Peers
        /\ \A q \in Peers : stream[q] \in Stream
    BY OtherPeer DEF Peers, IInv, TypeOK
  <2>1. "OUT" \notin Ready(p)
    BY <2>0 DEF Ready, Interest
  <2>2. "HUP" \notin Ready(p)
    BY <2>0 DEF Ready, Interest
  <2>3. \A q \in Peers : stream[q].len = 0 \/ stream[q].len > 0
    BY <2>0 DEF Stream
  <2>4. "IN" \notin Ready(p)
    BY <2>0, <2>3, ForwardAssumption DEF Ready, Interest, Peers
  <2>5. Ready(p) \subseteq {"RDHUP", "IN", "OUT", "HUP"}
    BY ReadyStep
  <2>6. Ready(p) = {"RDHUP"}
    BY <2>1, <2>2, <2>4, <2>5
  <2>7. fin[p] /\ eof[p] = "no"
    BY <2>0, <2>6, ReadyStep DEF Ready, Interest
  <2> QED BY <2>0, <2>3, <2>6, <2>7 DEF Peers
<1> QED BY InitInv, StepInv, <1>1, PTL DEF Spec

===============================================================================
