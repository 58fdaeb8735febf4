-------------------------- MODULE ConnSlotsProofs --------------------------
(***************************************************************************)
(* Proofs about ConnSlots for every number of slots, pool threads, workers *)
(* and connections: first the protocol that stops the workers, then who    *)
(* owns a connection slot while the server runs.                           *)
(***************************************************************************)
EXTENDS ConnSlots, FiniteSetTheorems, TLAPS

HasConnPc == {"memset", "init", "lock", "added", "stamp", "rollback"}
             \cup FinalizePc

(* What each program counter says about the thread's local variables. *)
LocalsOK ==
  /\ \A h \in Handoffs : /\ pc[h] \in HandoffPc \cup FinalizePc
                         /\ ret[h] = "idle"
                         /\ pc[h] \in {"lock", "added", "stamp"} => target[h] \in Workers
  /\ \A w \in Workers : /\ pc[w] \in WorkerPc \cup FinalizePc
                        /\ pc[w] \in FinalizePc => ret[w] \in UnrefPc
                        /\ pc[w] \in {"check", "proc"} => cur[w].ev \in Event
  /\ \A t \in Threads : pc[t] \in HasConnPc => my[t] \in Slots

StopPc == {"drain", "drained", "leftover", "done"}

(* The hand-shake between a handoff and a worker that exits. *)
StopInv ==
  /\ \A h \in Handoffs : pc[h] = "added" =>
       list_lock[target[h]] = h /\ ~stopping[target[h]]
  /\ \A w \in Workers :
       /\ pc[w] = "sweep" => list_lock[w] = w
       /\ At(w) \in StopPc => stopping[w]
       /\ ~epoll_open[w] => stopping[w]
       /\ At(w) = "drained" /\ ~more[w] => list[w] = {}
       /\ At(w) \in {"leftover", "done"} => list[w] = {}

IInv == TypeOK /\ LocalsOK

(* The fields of a connection keep their types under each kind of update. *)
LEMMA ConnFields ==
  ASSUME NEW c \in Conn
  PROVE  /\ [c EXCEPT !.magic = FALSE] \in Conn
         /\ [c EXCEPT !.closed = TRUE] \in Conn
         /\ [c EXCEPT !.registered = TRUE] \in Conn
         /\ [c EXCEPT !.refs = 0, !.finalized = TRUE] \in Conn
         /\ [c EXCEPT !.refs = c.refs - 1] \in Conn
<1>1. \A d \in Conn : [d EXCEPT !.finalized = TRUE] \in Conn
  BY DEF Conn
<1>2. \A i \in Int : [c EXCEPT !.refs = i] \in Conn
  BY DEF Conn
<1>3. c.refs - 1 \in Int
  BY DEF Conn
<1>4. [c EXCEPT !.refs = 0, !.finalized = TRUE]
        = [[c EXCEPT !.refs = 0] EXCEPT !.finalized = TRUE]
  OBVIOUS
<1>5. /\ [c EXCEPT !.magic = FALSE] \in Conn
      /\ [c EXCEPT !.closed = TRUE] \in Conn
      /\ [c EXCEPT !.registered = TRUE] \in Conn
  BY DEF Conn
<1>6. [c EXCEPT !.refs = 0] \in Conn
  BY <1>2
<1>7. [c EXCEPT !.refs = 0, !.finalized = TRUE] \in Conn
  BY <1>1, <1>4, <1>6
<1>8. [c EXCEPT !.refs = c.refs - 1] \in Conn
  BY <1>2, <1>3
<1> QED BY <1>5, <1>7, <1>8

(* conn_unref keeps the slot table well typed. *)
LEMMA UnrefConn ==
  ASSUME conn \in [Slots -> Conn], NEW t, NEW s, NEW back, Unref(t, s, back)
  PROVE  conn' \in [Slots -> Conn]
<1>1. CASE conn[s].refs = 1
  <2>1. conn' = [conn EXCEPT ![s] = [conn[s] EXCEPT !.refs = 0, !.finalized = TRUE]]
    BY <1>1 DEF Unref
  <2> QED BY <2>1, ConnFields
<1>2. CASE conn[s].refs # 1
  <2>1. conn' = [conn EXCEPT ![s] = [conn[s] EXCEPT !.refs = conn[s].refs - 1]]
    BY <1>2 DEF Unref
  <2> QED BY <2>1, ConnFields
<1> QED BY <1>1, <1>2

(* EPOLL_CTL_ADD keeps the registrations well typed. *)
LEMMA AddEvent ==
  ASSUME armed \in [Workers -> SUBSET Event], NEW e \in Event, NEW w
  PROVE  [armed EXCEPT ![w] = @ \cup {e}] \in [Workers -> SUBSET Event]
OBVIOUS

(* conn_unref either returns to its caller or starts conn_finalize. *)
LEMMA UnrefThread ==
  ASSUME NEW t, NEW s, NEW back, Unref(t, s, back)
  PROVE  \/ /\ pc' = [pc EXCEPT ![t] = "unlink"]
            /\ my' = [my EXCEPT ![t] = s]
            /\ ret' = [ret EXCEPT ![t] = back]
         \/ /\ pc' = [pc EXCEPT ![t] = back]
            /\ my' = [my EXCEPT ![t] = NoSlot]
            /\ ret' = ret
<1>1. CASE conn[s].refs = 1 /\ ~conn[s].finalized
  BY <1>1 DEF Unref, Goto
<1>2. CASE ~(conn[s].refs = 1 /\ ~conn[s].finalized)
  BY <1>2 DEF Unref, Goto
<1> QED BY <1>1, <1>2

(* The initial state satisfies the invariant. *)
LEMMA InitIInv == Init => IInv
BY ConstantsAssumption
   DEF Init, IInv, TypeOK, SlotTypes, ListTypes, ThreadTypes, LoopTypes,
       LocalsOK, Threads, HandoffPc, FinalizePc, WorkerPc, UnrefPc, Conn, Zeroed, Event, NoEvent, HasConnPc

(* No step of conn_finalize breaks it. *)
LEMMA FinalizeIInv ==
  ASSUME IInv, NEW t \in Threads, Finalize(t)
  PROVE  IInv'
<1> USE ConstantsAssumption DEF IInv, TypeOK, Threads, HandoffPc, FinalizePc,
        WorkerPc, UnrefPc, HasConnPc, Goto, quitVars, slotVars, listVars,
        thrVars, loopVars, Unlock, MayLink, OnFreeStack, NextGen, BaseRefs,
        Collect, Leftover
<1>1. CASE FinalizeUnlink(t)
  <2>1. conn' = [conn EXCEPT ![my[t]] = [conn[my[t]] EXCEPT !.magic = FALSE]]
    BY <1>1 DEF FinalizeUnlink
  <2>2. conn' \in [Slots -> Conn]
    BY <2>1, ConnFields DEF SlotTypes
  <2>3. SlotTypes'
    BY <1>1, <2>2 DEF FinalizeUnlink, SlotTypes
  <2>4. ListTypes'
    BY <1>1 DEF FinalizeUnlink, ListTypes
  <2>5. ThreadTypes'
    BY <1>1 DEF FinalizeUnlink, ThreadTypes
  <2>6. LoopTypes'
    BY <1>1 DEF FinalizeUnlink, LoopTypes
  <2>7. LocalsOK'
    BY <1>1 DEF FinalizeUnlink, ThreadTypes, LocalsOK
  <2> QED BY <2>3, <2>4, <2>5, <2>6, <2>7
<1>2. CASE FinalizeClose(t)
  <2>1. TypeOK'
    BY <1>2 DEF FinalizeClose, SlotTypes, ListTypes, ThreadTypes, LoopTypes
  <2>2. LocalsOK'
    BY <1>2 DEF FinalizeClose, ThreadTypes, LocalsOK
  <2> QED BY <2>1, <2>2
<1>3. CASE FinalizeRelease(t)
  <2>1. TypeOK'
    BY <1>3 DEF FinalizeRelease, SlotTypes, ListTypes, ThreadTypes, LoopTypes
  <2>2. LocalsOK'
    BY <1>3 DEF FinalizeRelease, ThreadTypes, LocalsOK
  <2> QED BY <2>1, <2>2
<1>4. CASE FinalizePush(t)
  <2>1. SlotTypes'
    BY <1>4 DEF FinalizePush, SlotTypes, LocalsOK
  <2>2. ListTypes'
    BY <1>4 DEF FinalizePush, ListTypes
  <2>3. ThreadTypes'
    BY <1>4 DEF FinalizePush, ThreadTypes
  <2>4. LoopTypes'
    BY <1>4 DEF FinalizePush, LoopTypes
  <2>5. LocalsOK'
    BY <1>4 DEF FinalizePush, ThreadTypes, LocalsOK
  <2> QED BY <2>1, <2>2, <2>3, <2>4, <2>5
<1> QED BY <1>1, <1>2, <1>3, <1>4
           DEF Finalize

(* No step of a handshake-pool thread breaks it. *)
LEMMA HandoffIInv ==
  ASSUME IInv, NEW h \in Handoffs, Handoff(h)
  PROVE  IInv'
<1> USE ConstantsAssumption DEF IInv, TypeOK, Threads, HandoffPc, FinalizePc,
        WorkerPc, UnrefPc, HasConnPc, Goto, quitVars, slotVars, listVars,
        thrVars, loopVars, Unlock, MayLink, OnFreeStack, NextGen, BaseRefs,
        Collect, Leftover
<1>1. CASE Reserve(h)
  <2>1. TypeOK'
    BY <1>1 DEF Reserve, SlotTypes, ListTypes, ThreadTypes, LoopTypes
  <2>2. LocalsOK'
    BY <1>1 DEF Reserve, ThreadTypes, LocalsOK
  <2> QED BY <2>1, <2>2
<1>2. CASE Unreserve(h)
  <2>1. TypeOK'
    BY <1>2 DEF Unreserve, SlotTypes, ListTypes, ThreadTypes, LoopTypes
  <2>2. LocalsOK'
    BY <1>2 DEF Unreserve, ThreadTypes, LocalsOK
  <2> QED BY <2>1, <2>2
<1>3. CASE Connected(h)
  <2>1. TypeOK'
    BY <1>3 DEF Connected, SlotTypes, ListTypes, ThreadTypes, LoopTypes
  <2>2. LocalsOK'
    BY <1>3 DEF Connected, ThreadTypes, LocalsOK
  <2> QED BY <2>1, <2>2
<1>4. CASE SlotAcquire(h)
  <2>1. TypeOK'
    BY <1>4 DEF SlotAcquire, SlotTypes, ListTypes, ThreadTypes, LoopTypes
  <2>2. LocalsOK'
    BY <1>4 DEF SlotAcquire, ThreadTypes, LocalsOK
  <2> QED BY <2>1, <2>2
<1>5. CASE SlotsExhausted(h)
  <2>1. TypeOK'
    BY <1>5 DEF SlotsExhausted, SlotTypes, ListTypes, ThreadTypes, LoopTypes
  <2>2. LocalsOK'
    BY <1>5 DEF SlotsExhausted, ThreadTypes, LocalsOK
  <2> QED BY <2>1, <2>2
<1>6. CASE SlotReset(h)
  <2>1. Zeroed \in Conn
    BY DEF Zeroed, Conn
  <2>2. SlotTypes'
    BY <1>6, <2>1 DEF SlotReset, SlotTypes
  <2>3. ListTypes'
    BY <1>6 DEF SlotReset, ListTypes
  <2>4. ThreadTypes'
    BY <1>6 DEF SlotReset, ThreadTypes
  <2>5. LoopTypes'
    BY <1>6 DEF SlotReset, LoopTypes
  <2>6. LocalsOK'
    BY <1>6 DEF SlotReset, ThreadTypes, LocalsOK
  <2> QED BY <2>2, <2>3, <2>4, <2>5, <2>6
<1>7. CASE HandoffInit(h)
  <2>1. PICK w \in Workers :
          /\ target' = [target EXCEPT ![h] = w]
          /\ conn' = [conn EXCEPT ![my[h]] =
               [magic |-> TRUE, widx |-> w, refs |-> BaseRefs, finalized |-> FALSE,
                registered |-> FALSE, closed |-> FALSE]]
    BY <1>7 DEF HandoffInit
  <2>2. [magic |-> TRUE, widx |-> w, refs |-> BaseRefs, finalized |-> FALSE,
         registered |-> FALSE, closed |-> FALSE] \in Conn
    BY DEF Conn
  <2>3. conn' \in [Slots -> Conn]
    BY <2>1, <2>2 DEF SlotTypes
  <2>4. SlotTypes'
    BY <1>7, <2>3 DEF HandoffInit, SlotTypes
  <2>5. ListTypes'
    BY <1>7 DEF HandoffInit, ListTypes
  <2>6. ThreadTypes'
    BY <1>7, <2>1 DEF HandoffInit, ThreadTypes
  <2>7. LoopTypes'
    BY <1>7 DEF HandoffInit, LoopTypes
  <2>8. LocalsOK'
    BY <1>7, <2>1 DEF HandoffInit, ThreadTypes, LocalsOK
  <2> QED BY <2>4, <2>5, <2>6, <2>7, <2>8
<1>8. CASE HandoffNoBuffer(h)
  <2>1. Unref(h, my[h], "idle")
    BY <1>8 DEF HandoffNoBuffer
  <2>2. conn' \in [Slots -> Conn]
    BY <2>1, UnrefConn DEF SlotTypes
  <2>3. my[h] \in Slots
    BY <1>8 DEF HandoffNoBuffer, LocalsOK
  <2>4. SlotTypes'
    BY <1>8, <2>2 DEF HandoffNoBuffer, SlotTypes
  <2>5. ListTypes'
    BY <1>8 DEF HandoffNoBuffer, ListTypes
  <2>6. ThreadTypes'
    BY <1>8, <2>1, <2>3, UnrefThread DEF HandoffNoBuffer, ThreadTypes
  <2>7. LoopTypes'
    BY <1>8 DEF HandoffNoBuffer, LoopTypes
  <2>8. LocalsOK'
    BY <1>8, <2>1, <2>3, UnrefThread DEF HandoffNoBuffer, ThreadTypes, LocalsOK
  <2> QED BY <2>4, <2>5, <2>6, <2>7, <2>8
<1>9. CASE HandoffRefused(h)
  <2>1. TypeOK'
    BY <1>9 DEF HandoffRefused, SlotTypes, ListTypes, ThreadTypes, LoopTypes
  <2>2. LocalsOK'
    BY <1>9 DEF HandoffRefused, ThreadTypes, LocalsOK
  <2> QED BY <2>1, <2>2
<1>10. CASE HandoffLink(h)
  <2>1. [slot |-> my[h], gen |-> gen[my[h]], target |-> FALSE] \in Event
    BY <1>10 DEF HandoffLink, Event, SlotTypes, LocalsOK
  <2>2. my[h] \in Slots
    BY <1>10 DEF HandoffLink, LocalsOK
  <2>3. SlotTypes'
    BY <1>10 DEF HandoffLink, SlotTypes
  <2>4. ListTypes'
    BY <1>10, <2>1, <2>2 DEF HandoffLink, ListTypes
  <2>5. ThreadTypes'
    BY <1>10 DEF HandoffLink, ThreadTypes
  <2>6. LoopTypes'
    BY <1>10 DEF HandoffLink, LoopTypes
  <2>7. LocalsOK'
    BY <1>10 DEF HandoffLink, ThreadTypes, LocalsOK
  <2> QED BY <2>3, <2>4, <2>5, <2>6, <2>7
<1>11. CASE HandoffLinkFails(h)
  <2>1. conn' = [conn EXCEPT ![my[h]] = [conn[my[h]] EXCEPT !.closed = TRUE]]
    BY <1>11 DEF HandoffLinkFails
  <2>2. conn' \in [Slots -> Conn]
    BY <2>1, ConnFields DEF SlotTypes
  <2>3. SlotTypes'
    BY <1>11, <2>2 DEF HandoffLinkFails, SlotTypes
  <2>4. ListTypes'
    BY <1>11 DEF HandoffLinkFails, ListTypes
  <2>5. ThreadTypes'
    BY <1>11 DEF HandoffLinkFails, ThreadTypes
  <2>6. LoopTypes'
    BY <1>11 DEF HandoffLinkFails, LoopTypes
  <2>7. LocalsOK'
    BY <1>11 DEF HandoffLinkFails, ThreadTypes, LocalsOK
  <2> QED BY <2>3, <2>4, <2>5, <2>6, <2>7
<1>12. CASE HandoffAddTarget(h)
  <2>1. [slot |-> my[h], gen |-> gen[my[h]], target |-> TRUE] \in Event
    BY <1>12 DEF HandoffAddTarget, Event, SlotTypes, LocalsOK
  <2>2. conn' = conn \/
        conn' = [conn EXCEPT ![my[h]] = [conn[my[h]] EXCEPT !.closed = TRUE]]
    BY <1>12 DEF HandoffAddTarget
  <2>3. conn' \in [Slots -> Conn]
    <3>1. CASE conn' = conn
      BY <3>1 DEF SlotTypes
    <3>2. CASE conn' = [conn EXCEPT ![my[h]] = [conn[my[h]] EXCEPT !.closed = TRUE]]
      BY <3>2, ConnFields DEF SlotTypes
    <3> QED BY <2>2, <3>1, <3>2
  <2>4. list' \in [Workers -> SUBSET Slots]
    BY <1>12 DEF HandoffAddTarget, ListTypes, ListRemove
  <2>5. armed' \in [Workers -> SUBSET Event]
    BY <1>12, <2>1, AddEvent DEF HandoffAddTarget, ListTypes
  <2>6. SlotTypes'
    BY <1>12, <2>3 DEF HandoffAddTarget, SlotTypes
  <2>7. ListTypes'
    BY <1>12, <2>4, <2>5 DEF HandoffAddTarget, ListTypes
  <2>8. ThreadTypes'
    BY <1>12 DEF HandoffAddTarget, ThreadTypes
  <2>9. LoopTypes'
    BY <1>12 DEF HandoffAddTarget, LoopTypes
  <2>10. LocalsOK'
    BY <1>12 DEF HandoffAddTarget, ThreadTypes, LocalsOK
  <2> QED BY <2>6, <2>7, <2>8, <2>9, <2>10
<1>13. CASE HandoffRollback(h)
  <2>1. Unref(h, my[h], "idle")
    BY <1>13 DEF HandoffRollback
  <2>2. conn' \in [Slots -> Conn]
    BY <2>1, UnrefConn DEF SlotTypes
  <2>3. my[h] \in Slots
    BY <1>13 DEF HandoffRollback, LocalsOK
  <2>4. SlotTypes'
    BY <1>13, <2>2 DEF HandoffRollback, SlotTypes
  <2>5. ListTypes'
    BY <1>13 DEF HandoffRollback, ListTypes
  <2>6. ThreadTypes'
    BY <1>13, <2>1, <2>3, UnrefThread DEF HandoffRollback, ThreadTypes
  <2>7. LoopTypes'
    BY <1>13 DEF HandoffRollback, LoopTypes
  <2>8. LocalsOK'
    BY <1>13, <2>1, <2>3, UnrefThread DEF HandoffRollback, ThreadTypes, LocalsOK
  <2> QED BY <2>4, <2>5, <2>6, <2>7, <2>8
<1>14. CASE HandoffDone(h)
  <2>1. conn' = [conn EXCEPT ![my[h]] = [conn[my[h]] EXCEPT !.registered = TRUE]]
    BY <1>14 DEF HandoffDone
  <2>2. conn' \in [Slots -> Conn]
    BY <2>1, ConnFields DEF SlotTypes
  <2>3. SlotTypes'
    BY <1>14, <2>2 DEF HandoffDone, SlotTypes
  <2>4. ListTypes'
    BY <1>14 DEF HandoffDone, ListTypes
  <2>5. ThreadTypes'
    BY <1>14 DEF HandoffDone, ThreadTypes
  <2>6. LoopTypes'
    BY <1>14 DEF HandoffDone, LoopTypes
  <2>7. LocalsOK'
    BY <1>14 DEF HandoffDone, ThreadTypes, LocalsOK
  <2> QED BY <2>3, <2>4, <2>5, <2>6, <2>7
<1> QED BY <1>1, <1>2, <1>3, <1>4, <1>5, <1>6, <1>7, <1>8,
           <1>9, <1>10, <1>11, <1>12, <1>13, <1>14
           DEF Handoff

(* No step of a worker breaks it. *)
LEMMA WorkerIInv ==
  ASSUME IInv, NEW w \in Workers, Worker(w)
  PROVE  IInv'
<1> USE ConstantsAssumption DEF IInv, TypeOK, Threads, HandoffPc, FinalizePc,
        WorkerPc, UnrefPc, HasConnPc, Goto, quitVars, slotVars, listVars,
        thrVars, loopVars, Unlock, MayLink, OnFreeStack, NextGen, BaseRefs,
        Collect, Leftover
<1>1. CASE LoopTest(w)
  <2>1. pc' \in {[pc EXCEPT ![w] = "wait"], [pc EXCEPT ![w] = "exit"]}
    BY <1>1 DEF LoopTest
  <2>2. garbage' \in {garbage, [garbage EXCEPT ![w] = {}]}
    BY <1>1 DEF LoopTest
  <2>3. SlotTypes'
    BY <1>1 DEF LoopTest, SlotTypes
  <2>4. ListTypes'
    BY <1>1 DEF LoopTest, ListTypes
  <2>5. ThreadTypes'
    BY <1>1, <2>1 DEF LoopTest, ThreadTypes
  <2>6. LoopTypes'
    BY <1>1, <2>2 DEF LoopTest, LoopTypes
  <2>7. LocalsOK'
    BY <1>1, <2>1 DEF LoopTest, ThreadTypes, LocalsOK
  <2> QED BY <2>3, <2>4, <2>5, <2>6, <2>7
<1>2. CASE EpollWait(w)
  <2>1. PICK b \in SUBSET armed[w], pipe \in BOOLEAN :
          /\ batch' = [batch EXCEPT ![w] = b]
          /\ sawPipe' = [sawPipe EXCEPT ![w] = pipe]
    BY <1>2 DEF EpollWait
  <2>2. SlotTypes'
    BY <1>2 DEF EpollWait, SlotTypes
  <2>3. ListTypes'
    BY <1>2 DEF EpollWait, ListTypes
  <2>4. ThreadTypes'
    BY <1>2 DEF EpollWait, ThreadTypes
  <2>5. LoopTypes'
    BY <1>2, <2>1 DEF EpollWait, ListTypes, LoopTypes
  <2>6. LocalsOK'
    BY <1>2 DEF EpollWait, ThreadTypes, LocalsOK
  <2> QED BY <2>2, <2>3, <2>4, <2>5, <2>6
<1>3. CASE PipeEvent(w)
  <2>1. TypeOK'
    BY <1>3 DEF PipeEvent, SlotTypes, ListTypes, ThreadTypes, LoopTypes
  <2>2. LocalsOK'
    BY <1>3 DEF PipeEvent, ThreadTypes, LocalsOK
  <2> QED BY <2>1, <2>2
<1>4. CASE ReadGen(w)
  <2>1. TypeOK'
    BY <1>4 DEF ReadGen, SlotTypes, ListTypes, ThreadTypes, LoopTypes
  <2>2. LocalsOK'
    BY <1>4 DEF ReadGen, SlotTypes, ListTypes, ThreadTypes, LoopTypes, LocalsOK
  <2> QED BY <2>1, <2>2
<1>5. CASE CheckSlot(w)
  <2>1. TypeOK'
    BY <1>5 DEF CheckSlot, SlotTypes, ListTypes, ThreadTypes, LoopTypes
  <2>2. LocalsOK'
    BY <1>5 DEF CheckSlot, ThreadTypes, LocalsOK
  <2> QED BY <2>1, <2>2
<1>6. CASE Forward(w)
  <2>1. TypeOK'
    BY <1>6 DEF Forward, SlotTypes, ListTypes, ThreadTypes, LoopTypes
  <2>2. LocalsOK'
    BY <1>6 DEF Forward, ThreadTypes, LocalsOK
  <2> QED BY <2>1, <2>2
<1>7. CASE FatalError(w)
  <2>1. cur[w].ev.slot \in Slots
    BY <1>7 DEF FatalError, LocalsOK, Event
  <2>2. conn' = conn \/
        conn' = [conn EXCEPT ![cur[w].ev.slot] =
                            [conn[cur[w].ev.slot] EXCEPT !.closed = TRUE]]
    BY <1>7 DEF FatalError
  <2>3. conn' \in [Slots -> Conn]
    <3>1. CASE conn' = conn
      BY <3>1 DEF SlotTypes
    <3>2. CASE conn' = [conn EXCEPT ![cur[w].ev.slot] =
                            [conn[cur[w].ev.slot] EXCEPT !.closed = TRUE]]
      BY <3>2, ConnFields DEF SlotTypes
    <3> QED BY <2>2, <3>1, <3>2
  <2>4. SlotTypes'
    BY <1>7, <2>3 DEF FatalError, SlotTypes
  <2>5. ListTypes'
    BY <1>7 DEF FatalError, ListTypes, ListRemove
  <2>6. ThreadTypes'
    BY <1>7 DEF FatalError, ThreadTypes
  <2>7. LoopTypes'
    <3>1. garbage' = garbage \/ garbage' = [garbage EXCEPT ![w] = @ \cup {cur[w].ev.slot}]
      BY <1>7 DEF FatalError
    <3>2. garbage' \in [Workers -> SUBSET Slots]
      BY <2>1, <3>1 DEF LoopTypes
    <3>3. UNCHANGED <<batch, sawPipe, cur, todo, visit, more>>
      BY <1>7 DEF FatalError
    <3> QED BY <3>2, <3>3 DEF LoopTypes
  <2>8. LocalsOK'
    BY <1>7 DEF FatalError, ThreadTypes, LocalsOK
  <2> QED BY <2>4, <2>5, <2>6, <2>7, <2>8
<1>8. CASE SkipSweep(w)
  <2>1. TypeOK'
    BY <1>8 DEF SkipSweep, SlotTypes, ListTypes, ThreadTypes, LoopTypes
  <2>2. LocalsOK'
    BY <1>8 DEF SkipSweep, ThreadTypes, LocalsOK
  <2> QED BY <2>1, <2>2
<1>9. CASE SweepStart(w)
  <2>1. TypeOK'
    BY <1>9 DEF SweepStart, SlotTypes, ListTypes, ThreadTypes, LoopTypes
  <2>2. LocalsOK'
    BY <1>9 DEF SweepStart, ThreadTypes, LocalsOK
  <2> QED BY <2>1, <2>2
<1>10. CASE SweepKeep(w)
  <2>1. TypeOK'
    BY <1>10 DEF SweepKeep, SlotTypes, ListTypes, ThreadTypes, LoopTypes
  <2>2. LocalsOK'
    BY <1>10 DEF SweepKeep, ThreadTypes, LocalsOK
  <2> QED BY <2>1, <2>2
<1>11. CASE SweepCollect(w)
  <2>1. PICK s \in visit[w] :
          /\ conn' = [conn EXCEPT ![s] = [conn[s] EXCEPT !.closed = TRUE]]
          /\ list' = [list EXCEPT ![w] = ListRemove(@, s)]
          /\ visit' = [visit EXCEPT ![w] = @ \ {s}]
          /\ garbage' \in {[garbage EXCEPT ![w] = @ \cup {s}],
                          [garbage EXCEPT ![w] = {s}]}
    BY <1>11 DEF SweepCollect
  <2>2. conn' \in [Slots -> Conn]
    BY <2>1, ConnFields DEF SlotTypes
  <2>3. todo' \in {todo, [todo EXCEPT ![w] = garbage[w]]}
    BY <1>11 DEF SweepCollect
  <2>4. pc' \in {pc, [pc EXCEPT ![w] = "flush"]}
    BY <1>11 DEF SweepCollect
  <2>5. SlotTypes'
    BY <1>11, <2>2 DEF SweepCollect, SlotTypes
  <2>6. ListTypes'
    BY <1>11, <2>1 DEF SweepCollect, ListTypes, ListRemove
  <2>7. ThreadTypes'
    BY <1>11, <2>4 DEF SweepCollect, ThreadTypes
  <2>8. LoopTypes'
    <3>1. s \in Slots
      BY <2>1 DEF LoopTypes
    <3>2. /\ garbage' \in [Workers -> SUBSET Slots]
          /\ visit' \in [Workers -> SUBSET Slots]
          /\ todo' \in [Workers -> SUBSET Slots]
      BY <2>1, <2>3, <3>1 DEF LoopTypes
    <3>3. UNCHANGED <<batch, sawPipe, cur, more>>
      BY <1>11 DEF SweepCollect
    <3> QED BY <3>2, <3>3 DEF LoopTypes
  <2>9. LocalsOK'
    BY <1>11, <2>4 DEF SweepCollect, ThreadTypes, LocalsOK
  <2> QED BY <2>5, <2>6, <2>7, <2>8, <2>9
<1>12. CASE SweepResume(w)
  <2>1. TypeOK'
    BY <1>12 DEF SweepResume, SlotTypes, ListTypes, ThreadTypes, LoopTypes
  <2>2. LocalsOK'
    BY <1>12 DEF SweepResume, ThreadTypes, LocalsOK
  <2> QED BY <2>1, <2>2
<1>13. CASE SweepEnd(w)
  <2>1. TypeOK'
    BY <1>13 DEF SweepEnd, SlotTypes, ListTypes, ThreadTypes, LoopTypes
  <2>2. LocalsOK'
    BY <1>13 DEF SweepEnd, ThreadTypes, LocalsOK
  <2> QED BY <2>1, <2>2
<1>14. CASE UnrefNext(w)
  <2>1. PICK s \in todo[w] :
          todo' = [todo EXCEPT ![w] = @ \ {s}] /\ Unref(w, s, pc[w])
    BY <1>14 DEF UnrefNext
  <2>2. conn' \in [Slots -> Conn]
    BY <2>1, UnrefConn DEF SlotTypes
  <2>3. s \in Slots /\ pc[w] \in UnrefPc
    BY <1>14 DEF UnrefNext, LoopTypes
  <2>4. SlotTypes'
    BY <1>14, <2>2 DEF UnrefNext, SlotTypes
  <2>5. ListTypes'
    BY <1>14 DEF UnrefNext, ListTypes
  <2>6. ThreadTypes'
    BY <1>14, <2>1, <2>3, UnrefThread DEF UnrefNext, ThreadTypes
  <2>7. LoopTypes'
    BY <1>14 DEF UnrefNext, LoopTypes
  <2>8. LocalsOK'
    BY <1>14, <2>1, <2>3, UnrefThread DEF UnrefNext, ThreadTypes, LocalsOK
  <2> QED BY <2>4, <2>5, <2>6, <2>7, <2>8
<1>15. CASE GcDone(w)
  <2>1. TypeOK'
    BY <1>15 DEF GcDone, SlotTypes, ListTypes, ThreadTypes, LoopTypes
  <2>2. LocalsOK'
    BY <1>15 DEF GcDone, ThreadTypes, LocalsOK
  <2> QED BY <2>1, <2>2
<1>16. CASE ExitWorker(w)
  <2>1. TypeOK'
    BY <1>16 DEF ExitWorker, SlotTypes, ListTypes, ThreadTypes, LoopTypes
  <2>2. LocalsOK'
    BY <1>16 DEF ExitWorker, ThreadTypes, LocalsOK
  <2> QED BY <2>1, <2>2
<1>17. CASE DrainBatch(w)
  <2>1. \A live \in SUBSET Slots : MarkClosed(live) \in [Slots -> Conn]
    BY ConnFields DEF SlotTypes, MarkClosed
  <2>2. conn' \in [Slots -> Conn]
    BY <1>17, <2>1 DEF DrainBatch, ListTypes
  <2>3. SlotTypes'
    BY <1>17, <2>2 DEF DrainBatch, SlotTypes
  <2>4. ListTypes'
    BY <1>17 DEF DrainBatch, ListTypes
  <2>5. ThreadTypes'
    BY <1>17 DEF DrainBatch, ThreadTypes
  <2>6. LoopTypes'
    BY <1>17 DEF DrainBatch, ListTypes, LoopTypes, MoreToDrain
  <2>7. LocalsOK'
    BY <1>17 DEF DrainBatch, ThreadTypes, LocalsOK
  <2> QED BY <2>3, <2>4, <2>5, <2>6, <2>7
<1>18. CASE DrainAgain(w)
  <2>1. pc' \in {[pc EXCEPT ![w] = "drain"], [pc EXCEPT ![w] = "leftover"]}
    BY <1>18 DEF DrainAgain
  <2>2. todo' \in {todo, [todo EXCEPT ![w] = garbage[w]]}
    BY <1>18 DEF DrainAgain
  <2>3. SlotTypes'
    BY <1>18 DEF DrainAgain, SlotTypes
  <2>4. ListTypes'
    BY <1>18 DEF DrainAgain, ListTypes
  <2>5. ThreadTypes'
    BY <1>18, <2>1 DEF DrainAgain, ThreadTypes
  <2>6. LoopTypes'
    BY <1>18, <2>2 DEF DrainAgain, LoopTypes
  <2>7. LocalsOK'
    BY <1>18, <2>1 DEF DrainAgain, ThreadTypes, LocalsOK
  <2> QED BY <2>3, <2>4, <2>5, <2>6, <2>7
<1>19. CASE CloseEpoll(w)
  <2>1. TypeOK'
    BY <1>19 DEF CloseEpoll, SlotTypes, ListTypes, ThreadTypes, LoopTypes
  <2>2. LocalsOK'
    BY <1>19 DEF CloseEpoll, ThreadTypes, LocalsOK
  <2> QED BY <2>1, <2>2
<1> QED BY <1>1, <1>2, <1>3, <1>4, <1>5, <1>6, <1>7, <1>8,
           <1>9, <1>10, <1>11, <1>12, <1>13, <1>14, <1>15, <1>16,
           <1>17, <1>18, <1>19
           DEF Worker

(* socks5_server_quit only moves its own program counter. *)
LEMMA QuitIInv ==
  ASSUME IInv, QuitFlag \/ QuitWake \/ QuitPool \/ QuitJoin
  PROVE  IInv'
<1> USE DEF QuitFlag, QuitWake, QuitPool, QuitJoin, QuitStep, slotVars,
        listVars, thrVars, loopVars
<1>1. SlotTypes'
  BY DEF IInv, TypeOK, SlotTypes
<1>2. ListTypes' /\ ThreadTypes' /\ LoopTypes'
  BY DEF IInv, TypeOK, ListTypes, ThreadTypes, LoopTypes
<1>3. LocalsOK'
  BY DEF IInv, LocalsOK
<1> QED BY <1>1, <1>2, <1>3 DEF IInv, TypeOK

(* A stuttering step changes nothing. *)
LEMMA StutterIInv ==
  ASSUME IInv, UNCHANGED vars
  PROVE  IInv'
BY DEF IInv, TypeOK, SlotTypes, ListTypes, ThreadTypes, LoopTypes, LocalsOK,
       vars

(* IInv is inductive. *)
LEMMA NextIInv == IInv /\ [Next]_vars => IInv'
BY FinalizeIInv, HandoffIInv, WorkerIInv, QuitIInv, StutterIInv DEF Next

(* For any number of slots, pool threads and workers, every variable of the *)
(* engine keeps its type: in particular no thread ever works through a      *)
(* missing connection and the free stack never underflows.                  *)
THEOREM TypeCorrect == Spec => []TypeOK
<1>1. IInv => TypeOK
  BY DEF IInv
<1> QED BY InitIInv, NextIInv, <1>1, PTL DEF Spec

-----------------------------------------------------------------------------
(* The stop protocol. *)

(* Steps that take no part in the stop protocol: they touch no lock, flag  *)
(* or epoll, link nothing, and enter no critical section and no exit phase. *)
StopFrame ==
  /\ UNCHANGED <<list_lock, stopping, epoll_open, more>>
  /\ \A w \in Workers : list'[w] \subseteq list[w]
  /\ \A h \in Handoffs :
       pc'[h] = "added" => pc[h] = "added" /\ target'[h] = target[h]
  /\ \A w \in Workers :
       /\ pc'[w] = "sweep" => pc[w] = "sweep"
       /\ At(w)' \in StopPc => At(w)' = At(w)

(* Such steps keep the stop protocol. *)
LEMMA FrameStop ==
  ASSUME StopInv, StopFrame
  PROVE  StopInv'
<1>1. ASSUME NEW h \in Handoffs, pc'[h] = "added"
      PROVE  list_lock'[target'[h]] = h /\ ~stopping'[target'[h]]
  BY <1>1 DEF StopInv, StopFrame
<1>2. ASSUME NEW w \in Workers
      PROVE  /\ pc'[w] = "sweep" => list_lock'[w] = w
             /\ At(w)' \in StopPc => stopping'[w]
             /\ ~epoll_open'[w] => stopping'[w]
             /\ At(w)' = "drained" /\ ~more'[w] => list'[w] = {}
             /\ At(w)' \in {"leftover", "done"} => list'[w] = {}
  BY <1>2 DEF StopInv, StopFrame, StopPc
<1> QED BY <1>1, <1>2 DEF StopInv

(* Initially no worker is stopping. *)
LEMMA InitStop == Init => StopInv
BY ConstantsAssumption
   DEF Init, StopInv, StopPc, At, FinalizePc, Threads

(* conn_finalize only takes entries off a list. *)
LEMMA FinalizeStop ==
  ASSUME IInv, StopInv, NEW t \in Threads, Finalize(t)
  PROVE  StopInv'
<1> USE ConstantsAssumption DEF Threads, FinalizePc, UnrefPc, At, StopPc,
        IInv, TypeOK, ThreadTypes, ListTypes, LocalsOK, WorkerPc, HandoffPc,
        Goto, quitVars, slotVars, listVars, thrVars, loopVars, Unlock,
        MayLink, OnFreeStack
<1>1. CASE FinalizeUnlink(t)
  <2>1. StopFrame
    BY <1>1 DEF StopFrame, FinalizeUnlink
  <2> QED BY <2>1, FrameStop
<1>2. CASE FinalizeClose(t)
  <2>1. StopFrame
    BY <1>2 DEF StopFrame, FinalizeClose
  <2> QED BY <2>1, FrameStop
<1>3. CASE FinalizeRelease(t)
  <2>1. StopFrame
    BY <1>3 DEF StopFrame, FinalizeRelease
  <2> QED BY <2>1, FrameStop
<1>4. CASE FinalizePush(t)
  <2>1. StopFrame
    BY <1>4 DEF StopFrame, FinalizePush
  <2> QED BY <2>1, FrameStop
<1> QED BY <1>1, <1>2, <1>3, <1>4
           DEF Finalize

(* A pool thread links only under the lock of a worker that is not stopping. *)
LEMMA HandoffStop ==
  ASSUME IInv, StopInv, NEW h \in Handoffs, Handoff(h)
  PROVE  StopInv'
<1> USE ConstantsAssumption DEF Threads, FinalizePc, UnrefPc, At, StopPc,
        IInv, TypeOK, ThreadTypes, ListTypes, LocalsOK, WorkerPc, HandoffPc,
        Goto, quitVars, slotVars, listVars, thrVars, loopVars, Unlock,
        MayLink, OnFreeStack
<1>1. CASE Reserve(h)
  <2>1. StopFrame
    BY <1>1 DEF StopFrame, Reserve
  <2> QED BY <2>1, FrameStop
<1>2. CASE Unreserve(h)
  <2>1. StopFrame
    BY <1>2 DEF StopFrame, Unreserve
  <2> QED BY <2>1, FrameStop
<1>3. CASE Connected(h)
  <2>1. StopFrame
    BY <1>3 DEF StopFrame, Connected
  <2> QED BY <2>1, FrameStop
<1>4. CASE SlotAcquire(h)
  <2>1. StopFrame
    BY <1>4 DEF StopFrame, SlotAcquire
  <2> QED BY <2>1, FrameStop
<1>5. CASE SlotsExhausted(h)
  <2>1. StopFrame
    BY <1>5 DEF StopFrame, SlotsExhausted
  <2> QED BY <2>1, FrameStop
<1>6. CASE SlotReset(h)
  <2>1. StopFrame
    BY <1>6 DEF StopFrame, SlotReset
  <2> QED BY <2>1, FrameStop
<1>7. CASE HandoffInit(h)
  <2>1. StopFrame
    BY <1>7 DEF StopFrame, HandoffInit
  <2> QED BY <2>1, FrameStop
<1>8. CASE HandoffNoBuffer(h)
  <2>1. StopFrame
    BY <1>8, UnrefThread DEF StopFrame, HandoffNoBuffer
  <2> QED BY <2>1, FrameStop
<1>9. CASE HandoffRefused(h)
  <2>1. StopFrame
    BY <1>9 DEF StopFrame, HandoffRefused
  <2> QED BY <2>1, FrameStop
<1>10. CASE HandoffLink(h)
  BY <1>10 DEF HandoffLink, StopInv
<1>11. CASE HandoffLinkFails(h)
  <2>1. StopFrame
    BY <1>11 DEF StopFrame, HandoffLinkFails, ListRemove
  <2> QED BY <2>1, FrameStop
<1>12. CASE HandoffAddTarget(h)
  <2> DEFINE v == target[h]
  <2>1. /\ pc[h] = "added" /\ v \in Workers
        /\ list_lock' = [list_lock EXCEPT ![v] = NoThread]
        /\ UNCHANGED <<stopping, epoll_open, target, ret, more>>
    BY <1>12 DEF HandoffAddTarget, LocalsOK
  <2>2. pc' = [pc EXCEPT ![h] = "stamp"] \/ pc' = [pc EXCEPT ![h] = "rollback"]
    BY <1>12 DEF HandoffAddTarget
  <2>3. \A w \in Workers : list'[w] \subseteq list[w]
    BY <1>12 DEF HandoffAddTarget, ListRemove
  <2>4. \A g \in Handoffs : pc'[g] = "added" => g # h /\ pc[g] = "added"
    BY <2>2
  <2>5. \A g \in Handoffs : pc'[g] = "added" =>
          list_lock'[target'[g]] = g /\ ~stopping'[target'[g]]
    BY <2>1, <2>4 DEF StopInv
  <2>6. \A w \in Workers : pc'[w] = pc[w] /\ At(w)' = At(w)
    BY <2>1, <2>2 DEF At
  <2>7. \A w \in Workers : pc[w] = "sweep" => list_lock'[w] = w
    BY <2>1 DEF StopInv
  <2> HIDE DEF v
  <2> QED BY <2>1, <2>3, <2>5, <2>6, <2>7 DEF StopInv
<1>13. CASE HandoffRollback(h)
  <2>1. StopFrame
    BY <1>13, UnrefThread DEF StopFrame, HandoffRollback
  <2> QED BY <2>1, FrameStop
<1>14. CASE HandoffDone(h)
  <2>1. StopFrame
    BY <1>14 DEF StopFrame, HandoffDone
  <2> QED BY <2>1, FrameStop
<1> QED BY <1>1, <1>2, <1>3, <1>4, <1>5, <1>6, <1>7, <1>8,
           <1>9, <1>10, <1>11, <1>12, <1>13, <1>14
           DEF Handoff

(* A worker sets stopping while nobody is linking, and then empties its list. *)
LEMMA WorkerStop ==
  ASSUME IInv, StopInv, NEW w \in Workers, Worker(w)
  PROVE  StopInv'
<1> USE ConstantsAssumption DEF Threads, FinalizePc, UnrefPc, At, StopPc,
        IInv, TypeOK, ThreadTypes, ListTypes, LocalsOK, WorkerPc, HandoffPc,
        Goto, quitVars, slotVars, listVars, thrVars, loopVars, Unlock,
        MayLink, OnFreeStack
<1>1. CASE LoopTest(w)
  <2>1. StopFrame
    BY <1>1 DEF StopFrame, LoopTest
  <2> QED BY <2>1, FrameStop
<1>2. CASE EpollWait(w)
  <2>1. StopFrame
    BY <1>2 DEF StopFrame, EpollWait
  <2> QED BY <2>1, FrameStop
<1>3. CASE PipeEvent(w)
  <2>1. StopFrame
    BY <1>3 DEF StopFrame, PipeEvent
  <2> QED BY <2>1, FrameStop
<1>4. CASE ReadGen(w)
  <2>1. StopFrame
    BY <1>4 DEF StopFrame, ReadGen
  <2> QED BY <2>1, FrameStop
<1>5. CASE CheckSlot(w)
  <2>1. StopFrame
    BY <1>5 DEF StopFrame, CheckSlot
  <2> QED BY <2>1, FrameStop
<1>6. CASE Forward(w)
  <2>1. StopFrame
    BY <1>6 DEF StopFrame, Forward
  <2> QED BY <2>1, FrameStop
<1>7. CASE FatalError(w)
  <2>1. StopFrame
    BY <1>7 DEF StopFrame, FatalError, ListRemove
  <2> QED BY <2>1, FrameStop
<1>8. CASE SkipSweep(w)
  <2>1. StopFrame
    BY <1>8 DEF StopFrame, SkipSweep
  <2> QED BY <2>1, FrameStop
<1>9. CASE SweepStart(w)
  BY <1>9 DEF SweepStart, StopInv
<1>10. CASE SweepKeep(w)
  <2>1. StopFrame
    BY <1>10 DEF StopFrame, SweepKeep
  <2> QED BY <2>1, FrameStop
<1>11. CASE SweepCollect(w)
  BY <1>11 DEF SweepCollect, StopInv
<1>12. CASE SweepResume(w)
  BY <1>12 DEF SweepResume, StopInv
<1>13. CASE SweepEnd(w)
  BY <1>13 DEF SweepEnd, StopInv
<1>14. CASE UnrefNext(w)
  <2>1. PICK s : Unref(w, s, pc[w])
    BY <1>14 DEF UnrefNext
  <2>2. StopFrame
    BY <1>14, <2>1, UnrefThread DEF StopFrame, UnrefNext
  <2> QED BY <2>2, FrameStop
<1>15. CASE GcDone(w)
  <2>1. StopFrame
    BY <1>15 DEF StopFrame, GcDone
  <2> QED BY <2>1, FrameStop
<1>16. CASE ExitWorker(w)
  BY <1>16 DEF ExitWorker, StopInv
<1>17. CASE DrainBatch(w)
  <2>1. PICK taken \in SUBSET list[w] :
          LET live == {s \in taken : conn[s].magic}
          IN /\ Cardinality(live) = MaxEvents \/ taken = list[w]
             /\ list' = [list EXCEPT ![w] = @ \ taken]
             /\ more' = [more EXCEPT ![w] = MoreToDrain(live)]
    BY <1>17 DEF DrainBatch
  <2>2. stopping[w]
    BY <1>17 DEF DrainBatch, StopInv
  <2> DEFINE full == MoreToDrain({s \in taken : conn[s].magic})
  <2>3. more' = [more EXCEPT ![w] = full]
    BY <2>1
  <2> HIDE DEF full
  <2>4. full \in BOOLEAN
    BY DEF full, MoreToDrain
  <2>5. /\ more'[w] = full
        /\ \A v \in Workers \ {w} : more'[v] = more[v]
    BY <2>3, <2>4 DEF LoopTypes
  <2>6. ~more'[w] => list'[w] = {}
    <3>1. CASE taken = list[w]
      BY <2>1, <3>1
    <3>2. CASE full
      BY <2>5, <3>2
    <3>3. full \/ taken = list[w]
      BY <2>1 DEF full, MoreToDrain
    <3> QED BY <3>1, <3>2, <3>3
  <2>7. \A v \in Workers \ {w} : list'[v] = list[v] /\ At(v)' = At(v)
    BY <1>17, <2>1 DEF DrainBatch
  <2>8. pc' = [pc EXCEPT ![w] = "drained"]
    BY <1>17 DEF DrainBatch
  <2>9. UNCHANGED <<list_lock, stopping, epoll_open, target>>
    BY <1>17 DEF DrainBatch
  <2> QED BY <2>2, <2>5, <2>6, <2>7, <2>8, <2>9 DEF StopInv
<1>18. CASE DrainAgain(w)
  BY <1>18 DEF DrainAgain, StopInv
<1>19. CASE CloseEpoll(w)
  BY <1>19 DEF CloseEpoll, StopInv
<1> QED BY <1>1, <1>2, <1>3, <1>4, <1>5, <1>6, <1>7, <1>8,
           <1>9, <1>10, <1>11, <1>12, <1>13, <1>14, <1>15, <1>16,
           <1>17, <1>18, <1>19
           DEF Worker

(* The stop protocol is inductive relative to IInv. *)
LEMMA NextStop == IInv /\ StopInv /\ [Next]_vars => StopInv'
<1>1. ASSUME StopInv, QuitFlag \/ QuitWake \/ QuitPool \/ QuitJoin
      PROVE  StopInv'
  <2>1. StopFrame
    BY <1>1 DEF StopFrame, At, QuitFlag, QuitWake, QuitPool, QuitJoin,
                QuitStep, listVars, thrVars, loopVars
  <2> QED BY <1>1, <2>1, FrameStop
<1>2. ASSUME StopInv, UNCHANGED vars
      PROVE  StopInv'
  <2>1. StopFrame
    BY <1>2 DEF StopFrame, At, vars
  <2> QED BY <1>2, <2>1, FrameStop
<1> QED BY <1>1, <1>2, FinalizeStop, HandoffStop, WorkerStop DEF Next

(* For any number of connections, pool threads and workers: handoff_to_worker *)
(* never uses the epoll of a worker that has stopped, and a worker that has   *)
(* stopped leaves no connection on its list.                                  *)
THEOREM StopSafe == Spec => []StopProtocol
<1>1. IInv /\ StopInv => StopProtocol
  <2> SUFFICES ASSUME IInv, StopInv PROVE StopProtocol
    OBVIOUS
  <2>1. ASSUME NEW h \in Handoffs, pc[h] = "added"
        PROVE  epoll_open[target[h]] /\ ~stopping[target[h]]
    <3>1. target[h] \in Workers
      BY <2>1 DEF IInv, LocalsOK
    <3> QED BY <2>1, <3>1 DEF StopInv
  <2>2. ASSUME NEW w \in Workers, pc[w] = "done"
        PROVE  list[w] = {}
    BY <2>2 DEF StopInv, At, FinalizePc
  <2> QED BY <2>1, <2>2 DEF StopProtocol
<1> QED BY InitIInv, NextIInv, InitStop, NextStop, <1>1, PTL DEF Spec

(***************************************************************************)
(* Who owns a connection slot                                              *)
(***************************************************************************)

(* Stamps of the current tenant of s: the client's and the target's. *)
Stamp(s, isTarget) == [slot |-> s, gen |-> gen[s], target |-> isTarget]

(* No registration and no event in flight is younger than its slot, and an *)
(* event found to be out of date stays so.                                 *)
GenInv ==
  \A w \in Workers :
    /\ \A e \in armed[w] \cup batch[w] : e.gen <= gen[e.slot]
    /\ cur[w].ev.slot \in Slots => cur[w].ev.gen <= gen[cur[w].ev.slot]
    /\ pc[w] = "check" /\ ~cur[w].same => cur[w].ev.gen # gen[cur[w].ev.slot]

RunPc == {"loop", "wait", "events", "check", "proc", "sweep", "flush", "gc"}

(* A thread without a connection points to none; while the server runs no  *)
(* worker has left its loop, and the entries that the running unref loop   *)
(* has still to visit are not in the bucket as well.                       *)
LoopInv ==
  /\ \A t \in Threads : pc[t] \notin HasConnPc => my[t] = NoSlot
  /\ server_running =>
       \A w \in Workers :
         /\ At(w) \in RunPc /\ ~sawPipe[w] /\ ~stopping[w]
         /\ At(w) \notin {"flush", "gc"} => todo[w] = {}
         /\ At(w) = "flush" => todo[w] \cap garbage[w] = {}

(* No two of the places where a slot can be hold it. *)
Apart ==
  /\ \A s \in Slots : free[s] <= 1
  /\ \A s \in Slots : free[s] > 0 =>
       /\ \A t \in Threads : my[t] # s
       /\ \A w \in Workers : s \notin list[w] /\ s \notin Pending(w)
  /\ \A t, u \in Threads : my[t] \in Slots /\ my[t] = my[u] => t = u
  /\ \A t \in Threads, w \in Workers :
       /\ my[t] \notin Pending(w)
       /\ my[t] \in list[w] => /\ t \in Handoffs /\ pc[t] \in {"added", "stamp"}
                               /\ target[t] = w
  /\ \A v, w \in Workers : list[v] \cap Pending(w) = {}
  /\ \A v, w \in Workers :
       v # w => list[v] \cap list[w] = {} /\ Pending(v) \cap Pending(w) = {}

(* Every slot is somewhere. *)
Somewhere ==
  /\ \A s \in Slots : \/ free[s] > 0
                      \/ \E t \in Threads : my[t] = s
                      \/ \E w \in Workers : s \in list[w] \/ s \in Pending(w)
  /\ \A h \in Handoffs : pc[h] \in {"added", "stamp"} => my[h] \in list[target[h]]

(* What the place of a slot says about its fields. *)
Linked(s, w) == /\ conn[s].refs = 1 /\ ~conn[s].finalized
                /\ conn[s].magic /\ ~conn[s].closed /\ conn[s].widx = w
                /\ slot_state[s]
Doomed(s) == conn[s].refs = 1 /\ ~conn[s].finalized /\ conn[s].closed
Fresh(s) == conn[s].refs = 1 /\ ~conn[s].finalized /\ ~conn[s].registered
Spent(s) == conn[s].refs = 0

Fields ==
  /\ \A w \in Workers :
       /\ \A s \in list[w] : Linked(s, w)
       /\ \A s \in Pending(w) : Doomed(s)
  /\ \A s \in Slots : free[s] > 0 => Spent(s) /\ ~conn[s].magic
  /\ \A h \in Handoffs :
       /\ pc[h] = "init" => slot_state[my[h]]
       /\ pc[h] = "lock" => Linked(my[h], target[h])
       /\ pc[h] \in {"lock", "rollback"} => Fresh(my[h])
       /\ pc[h] \in {"memset", "init"} => Spent(my[h]) /\ ~conn[my[h]].magic
       /\ pc[h] \in {"added", "stamp"} => ~conn[my[h]].registered
  /\ \A t \in Threads :
       /\ pc[t] \in FinalizePc => Spent(my[t])
       /\ pc[t] = "unlink" => conn[my[t]].closed \/ ~conn[my[t]].registered
       /\ pc[t] \in FinalizePc \ {"unlink"} => ~conn[my[t]].magic

BothArmed(s, w) == Stamp(s, FALSE) \in armed[w] /\ Stamp(s, TRUE) \in armed[w]

(* The sweep looks only at linked connections, an event is only processed  *)
(* on one, and one that is registered has both its registrations.          *)
Served ==
  /\ \A w \in Workers : visit[w] \subseteq list[w]
  /\ \A h \in Handoffs :
       /\ pc[h] = "added" => /\ my[h] \notin visit[target[h]]
                             /\ Stamp(my[h], FALSE) \in armed[target[h]]
       /\ pc[h] = "stamp" => BothArmed(my[h], target[h])
  /\ \A w \in Workers :
       /\ pc[w] = "proc" => /\ cur[w].ev.slot \in list[w]
                            /\ conn[cur[w].ev.slot].registered
       /\ \A s \in list[w] : conn[s].registered => BothArmed(s, w)

OwnInv == server_running => Apart /\ Somewhere /\ Fields /\ Served
-----------------------------------------------------------------------------
(* Generations *)

(* conn_finalize registers nothing and leaves the generations alone. *)
LEMMA FinalizeGen ==
  ASSUME IInv, GenInv, NEW t \in Threads, Finalize(t)
  PROVE  GenInv'
<1> USE ConstantsAssumption DEF IInv, TypeOK, Threads, HandoffPc, FinalizePc,
        WorkerPc, UnrefPc, HasConnPc, Goto, quitVars, slotVars, listVars,
        thrVars, loopVars, Unlock, MayLink, OnFreeStack, NextGen, BaseRefs,
        Collect, Leftover, SlotTypes, ListTypes, ThreadTypes, LoopTypes,
        LocalsOK, GenInv
<1>1. CASE FinalizeUnlink(t)
  BY <1>1 DEF FinalizeUnlink
<1>2. CASE FinalizeClose(t)
  BY <1>2 DEF FinalizeClose
<1>3. CASE FinalizeRelease(t)
  BY <1>3 DEF FinalizeRelease
<1>4. CASE FinalizePush(t)
  BY <1>4 DEF FinalizePush
<1> QED BY <1>1, <1>2, <1>3, <1>4
           DEF Finalize

(* A pool thread stamps with the generation slot_acquire advanced. *)
LEMMA HandoffGen ==
  ASSUME IInv, GenInv, NEW h \in Handoffs, Handoff(h)
  PROVE  GenInv'
<1> USE ConstantsAssumption DEF IInv, TypeOK, Threads, HandoffPc, FinalizePc,
        WorkerPc, UnrefPc, HasConnPc, Goto, quitVars, slotVars, listVars,
        thrVars, loopVars, Unlock, MayLink, OnFreeStack, NextGen, BaseRefs,
        Collect, Leftover, SlotTypes, ListTypes, ThreadTypes, LoopTypes,
        LocalsOK, GenInv
<1>1. CASE Reserve(h)
  BY <1>1 DEF Reserve
<1>2. CASE Unreserve(h)
  BY <1>2 DEF Unreserve
<1>3. CASE Connected(h)
  BY <1>3 DEF Connected
<1>4. CASE SlotAcquire(h)
  <2>1. PICK s \in Slots : gen' = [gen EXCEPT ![s] = gen[s] + 1]
    BY <1>4 DEF SlotAcquire
  <2>2. \A x \in Slots : gen[x] \in Nat /\ gen'[x] \in Nat /\ gen[x] <= gen'[x]
    BY <2>1
  <2>3. UNCHANGED <<armed, batch, cur>> /\ \A w \in Workers : pc'[w] = pc[w]
    BY <1>4 DEF SlotAcquire
  <2>4. \A w \in Workers : \A e \in armed[w] \cup batch[w] :
          e.gen \in Nat /\ e.slot \in Slots
    BY DEF Event
  <2>5. ASSUME NEW w \in Workers
        PROVE  \A e \in armed'[w] \cup batch'[w] : e.gen <= gen'[e.slot]
    BY <2>2, <2>3, <2>4
  <2>6. ASSUME NEW w \in Workers, cur'[w].ev.slot \in Slots
        PROVE  /\ cur'[w].ev.gen <= gen'[cur'[w].ev.slot]
               /\ pc'[w] = "check" /\ ~cur'[w].same =>
                    cur'[w].ev.gen # gen'[cur'[w].ev.slot]
    <3>1. cur[w].ev.gen \in Nat /\ cur[w].ev.slot \in Slots
      BY <2>3, <2>6 DEF Event, NoEvent
    <3>2. pc'[w] = pc[w] /\ cur'[w] = cur[w]
      BY <2>3, <2>6
    <3>3. /\ cur[w].ev.gen <= gen[cur[w].ev.slot]
          /\ pc[w] = "check" /\ ~cur[w].same =>
               cur[w].ev.gen # gen[cur[w].ev.slot]
      BY <3>1
    <3> DEFINE x == cur[w].ev.slot
               g == cur[w].ev.gen
    <3>4. /\ x \in Slots /\ g \in Nat /\ g <= gen[x]
          /\ (pc[w] = "check" /\ ~cur[w].same => g # gen[x])
      BY <3>1, <3>3
    <3> HIDE DEF x, g, IInv, GenInv
    <3>5. g <= gen'[x] /\ (g # gen[x] => g # gen'[x])
      BY <2>2, <3>4
    <3> QED BY <3>2, <3>4, <3>5 DEF x, g
  <2>7. \A w \in Workers : pc[w] = "check" => cur[w].ev.slot \in Slots
    BY DEF Event
  <2> QED BY <2>3, <2>5, <2>6, <2>7
<1>5. CASE SlotsExhausted(h)
  BY <1>5 DEF SlotsExhausted
<1>6. CASE SlotReset(h)
  BY <1>6 DEF SlotReset
<1>7. CASE HandoffInit(h)
  BY <1>7 DEF HandoffInit
<1>8. CASE HandoffNoBuffer(h)
  <2>1. Unref(h, my[h], "idle") /\ UNCHANGED <<gen, armed, batch, cur>>
    BY <1>8 DEF HandoffNoBuffer
  <2>2. \A w \in Workers : pc'[w] = pc[w]
    <3>1. pc' = [pc EXCEPT ![h] = "unlink"] \/ pc' = [pc EXCEPT ![h] = "idle"]
      BY ONLY <2>1, UnrefThread
    <3> QED BY <3>1
  <2> QED BY <2>1, <2>2
<1>9. CASE HandoffRefused(h)
  BY <1>9 DEF HandoffRefused
<1>10. CASE HandoffLink(h)
  BY <1>10 DEF HandoffLink
<1>11. CASE HandoffLinkFails(h)
  BY <1>11 DEF HandoffLinkFails
<1>12. CASE HandoffAddTarget(h)
  <2>1. UNCHANGED <<gen, batch, cur>> /\ \A w \in Workers : pc'[w] = pc[w]
    BY <1>12 DEF HandoffAddTarget
  <2> DEFINE e == Stamp(my[h], TRUE)
  <2>2. \/ armed' = armed
        \/ armed' = [armed EXCEPT ![target[h]] = @ \cup {e}]
    BY <1>12 DEF HandoffAddTarget, Stamp
  <2>3. e.gen <= gen[e.slot]
    BY <1>12 DEF HandoffAddTarget, Stamp
  <2> HIDE DEF e
  <2>4. \A w \in Workers : armed'[w] \subseteq armed[w] \cup {e}
    <3> HIDE DEF IInv, GenInv
    <3>1. armed \in [Workers -> SUBSET Event]
      BY DEF IInv
    <3> QED BY <2>2, <3>1
  <2>5. ASSUME NEW w \in Workers
        PROVE  \A x \in armed'[w] \cup batch'[w] : x.gen <= gen'[x.slot]
    BY <2>1, <2>3, <2>4
  <2> QED BY <2>1, <2>5
<1>13. CASE HandoffRollback(h)
  <2>1. Unref(h, my[h], "idle") /\ UNCHANGED <<gen, armed, batch, cur>>
    BY <1>13 DEF HandoffRollback
  <2>2. \A w \in Workers : pc'[w] = pc[w]
    <3>1. pc' = [pc EXCEPT ![h] = "unlink"] \/ pc' = [pc EXCEPT ![h] = "idle"]
      BY ONLY <2>1, UnrefThread
    <3> QED BY <3>1
  <2> QED BY <2>1, <2>2
<1>14. CASE HandoffDone(h)
  BY <1>14 DEF HandoffDone
<1> QED BY <1>1, <1>2, <1>3, <1>4, <1>5, <1>6, <1>7, <1>8, <1>9, <1>10,
           <1>11, <1>12, <1>13, <1>14
           DEF Handoff

(* A worker takes its events from its epoll. *)
LEMMA WorkerGen ==
  ASSUME IInv, GenInv, NEW w \in Workers, Worker(w)
  PROVE  GenInv'
<1> USE ConstantsAssumption DEF IInv, TypeOK, Threads, HandoffPc, FinalizePc,
        WorkerPc, UnrefPc, HasConnPc, Goto, quitVars, slotVars, listVars,
        thrVars, loopVars, Unlock, MayLink, OnFreeStack, NextGen, BaseRefs,
        Collect, Leftover, SlotTypes, ListTypes, ThreadTypes, LoopTypes,
        LocalsOK, GenInv
<1>1. CASE LoopTest(w)
  BY <1>1 DEF LoopTest
<1>2. CASE EpollWait(w)
  BY <1>2 DEF EpollWait
<1>3. CASE PipeEvent(w)
  BY <1>3 DEF PipeEvent
<1>4. CASE ReadGen(w)
  <2>1. PICK e \in batch[w] :
          /\ batch' = [batch EXCEPT ![w] = @ \ {e}]
          /\ cur' = [cur EXCEPT ![w] = [ev |-> e, same |-> e.gen = gen[e.slot]]]
    BY <1>4 DEF ReadGen
  <2>2. /\ cur'[w].ev = e /\ (~cur'[w].same => e.gen # gen[e.slot])
        /\ \A v \in Workers \ {w} : cur'[v] = cur[v] /\ pc'[v] = pc[v]
    <3>1. /\ cur \in [Workers -> [ev : Event \cup {NoEvent}, same : BOOLEAN]]
          /\ pc \in [Threads -> HandoffPc \cup FinalizePc \cup WorkerPc]
          /\ pc' = [pc EXCEPT ![w] = "check"]
      BY <1>4 DEF ReadGen
    <3>2. cur'[w] = [ev |-> e, same |-> e.gen = gen[e.slot]]
      BY <2>1, <3>1
    <3>3. \A v \in Workers \ {w} : cur'[v] = cur[v] /\ pc'[v] = pc[v]
      BY <2>1, <3>1
    <3>4. cur'[w].ev = e
      BY ONLY <3>2
    <3>5. ASSUME ~cur'[w].same
          PROVE  e.gen # gen[e.slot]
      <4>1. ~[ev |-> e, same |-> e.gen = gen[e.slot]].same
        BY ONLY <3>2, <3>5
      <4> QED BY ONLY <4>1
    <3> QED BY ONLY <3>3, <3>4, <3>5
  <2>3. UNCHANGED <<gen, armed>> /\ \A v \in Workers : batch'[v] \subseteq batch[v]
    BY <1>4, <2>1 DEF ReadGen
  <2> QED BY <2>1, <2>2, <2>3
<1>5. CASE CheckSlot(w)
  BY <1>5 DEF CheckSlot
<1>6. CASE Forward(w)
  BY <1>6 DEF Forward
<1>7. CASE FatalError(w)
  BY <1>7 DEF FatalError
<1>8. CASE SkipSweep(w)
  BY <1>8 DEF SkipSweep
<1>9. CASE SweepStart(w)
  BY <1>9 DEF SweepStart
<1>10. CASE SweepKeep(w)
  BY <1>10 DEF SweepKeep
<1>11. CASE SweepCollect(w)
  BY <1>11 DEF SweepCollect
<1>12. CASE SweepResume(w)
  BY <1>12 DEF SweepResume
<1>13. CASE SweepEnd(w)
  BY <1>13 DEF SweepEnd
<1>14. CASE UnrefNext(w)
  <2>1. PICK s \in todo[w] : Unref(w, s, pc[w])
    BY <1>14 DEF UnrefNext
  <2>2. pc[w] \in UnrefPc /\ UNCHANGED <<gen, armed, batch, cur>>
    BY <1>14 DEF UnrefNext
  <2>3. pc' = [pc EXCEPT ![w] = "unlink"] \/ pc' = [pc EXCEPT ![w] = pc[w]]
    BY <2>1, UnrefThread
  <2>4. \A v \in Workers : pc'[v] = "check" => pc[v] = "check"
    BY <2>2, <2>3
  <2> QED BY <2>2, <2>4
<1>15. CASE GcDone(w)
  BY <1>15 DEF GcDone
<1>16. CASE ExitWorker(w)
  BY <1>16 DEF ExitWorker
<1>17. CASE DrainBatch(w)
  BY <1>17 DEF DrainBatch
<1>18. CASE DrainAgain(w)
  BY <1>18 DEF DrainAgain
<1>19. CASE CloseEpoll(w)
  BY <1>19 DEF CloseEpoll
<1> QED BY <1>1, <1>2, <1>3, <1>4, <1>5, <1>6, <1>7, <1>8, <1>9, <1>10,
           <1>11, <1>12, <1>13, <1>14, <1>15, <1>16, <1>17, <1>18, <1>19
           DEF Worker

(* Generations only grow, so the stamps stay in order. *)
LEMMA NextGenInv == IInv /\ GenInv /\ [Next]_vars => GenInv'
<1>1. ASSUME GenInv, QuitFlag \/ QuitWake \/ QuitPool \/ QuitJoin
      PROVE  GenInv'
  BY <1>1 DEF GenInv, QuitFlag, QuitWake, QuitPool, QuitJoin, QuitStep,
              slotVars, listVars, thrVars, loopVars
<1>2. ASSUME GenInv, UNCHANGED vars
      PROVE  GenInv'
  BY <1>2 DEF GenInv, vars
<1> QED BY <1>1, <1>2, FinalizeGen, HandoffGen, WorkerGen DEF Next

(* Before the first connection nothing is registered. *)
LEMMA InitGen == Init => GenInv
BY ConstantsAssumption DEF Init, GenInv, NoEvent, Threads

(* Only slot_acquire takes a slot from the free stack. *)
LEMMA TakenByAcquire ==
  ASSUME IInv, Next, NEW s \in Slots, free'[s] < free[s]
  PROVE  gen'[s] = gen[s] + 1
<1> USE DEF quitVars, slotVars, listVars, thrVars, loopVars
<1>1. free \in [Slots -> Nat]
  BY DEF IInv, TypeOK, SlotTypes
<1>2. ASSUME NEW t \in Threads, Finalize(t)
      PROVE  FALSE
  <2>1. free' = free \/ FinalizePush(t)
    BY <1>2 DEF Finalize, FinalizeUnlink, FinalizeClose, FinalizeRelease
  <2>2. CASE free' = free
    BY <1>1, <2>2
  <2>3. CASE FinalizePush(t)
    BY <1>1, <2>3 DEF FinalizePush
  <2> QED BY <2>1, <2>2, <2>3
<1>3. ASSUME NEW h \in Handoffs, Handoff(h)
      PROVE  gen'[s] = gen[s] + 1
  <2>1. free' = free \/ SlotAcquire(h)
    BY <1>3 DEF Handoff, Reserve, Unreserve, Connected, SlotsExhausted,
                SlotReset, HandoffInit, HandoffNoBuffer, HandoffRefused,
                HandoffLink, HandoffLinkFails, HandoffAddTarget,
                HandoffRollback, HandoffDone
  <2>2. CASE free' = free
    BY <1>1, <2>2
  <2>3. CASE SlotAcquire(h)
    <3>1. PICK x \in Slots : /\ free' = [free EXCEPT ![x] = @ - 1]
                             /\ gen' = [gen EXCEPT ![x] = @ + 1]
      BY <2>3 DEF SlotAcquire, NextGen
    <3>2. x = s
      BY <1>1, <3>1
    <3> QED BY <3>1, <3>2 DEF IInv, TypeOK, SlotTypes
  <2> QED BY <2>1, <2>2, <2>3
<1>4. ASSUME NEW w \in Workers, Worker(w)
      PROVE  FALSE
  <2>1. free' = free
    BY <1>4 DEF Worker, LoopTest, EpollWait, PipeEvent, ReadGen, CheckSlot,
                Forward, FatalError, SkipSweep, SweepStart, SweepKeep,
                SweepCollect, SweepResume, SweepEnd, UnrefNext, GcDone,
                ExitWorker, DrainBatch, DrainAgain, CloseEpoll
  <2> QED BY <1>1, <2>1
<1>5. ASSUME QuitFlag \/ QuitWake \/ QuitPool \/ QuitJoin
      PROVE  FALSE
  BY <1>1, <1>5 DEF QuitFlag, QuitWake, QuitPool, QuitJoin, QuitStep
<1> QED BY <1>2, <1>3, <1>4, <1>5 DEF Next

(* However long the Java copy of a socket keeps a registration alive, and  *)
(* whatever is in the workers' batches: slot_acquire never hands a slot    *)
(* out under a generation that a registration or an event still carries.   *)
THEOREM GenerationsFresh == Spec => FreshTenant
<1> DEFINE Fresh1(s) ==
      free'[s] < free[s] =>
        \A w \in Workers : \A e \in armed[w] \cup batch[w] \cup {cur[w].ev} :
          e.slot = s => e.gen # gen'[s]
<1>1. ASSUME IInv, GenInv, Next, NEW s \in Slots
      PROVE  Fresh1(s)
  <2> SUFFICES ASSUME free'[s] < free[s], NEW w \in Workers,
                      NEW e \in armed[w] \cup batch[w] \cup {cur[w].ev}, e.slot = s
               PROVE  e.gen # gen'[s]
    OBVIOUS
  <2>1. gen'[s] = gen[s] + 1 /\ gen[s] \in Nat
    BY <1>1, TakenByAcquire DEF IInv, TypeOK, SlotTypes
  <2>2. e.gen <= gen[s]
    BY <1>1 DEF GenInv
  <2>3. e.gen \in Nat
    BY <1>1 DEF IInv, TypeOK, ListTypes, LoopTypes, Event, NoEvent
  <2> QED BY <2>1, <2>2, <2>3
<1>2. IInv /\ GenInv /\ [Next]_vars => [\A s \in Slots : Fresh1(s)]_vars
  BY <1>1
<1>3. FreshTenant <=> [][\A s \in Slots : Fresh1(s)]_vars
  BY DEF FreshTenant
<1> QED BY InitIInv, NextIInv, InitGen, NextGenInv, <1>2, <1>3, PTL DEF Spec

(* The loop of a worker *)

(* conn_finalize comes back to the loop that called conn_unref. *)
LEMMA FinalizeLoop ==
  ASSUME IInv, LoopInv, NEW t \in Threads, Finalize(t)
  PROVE  LoopInv'
<1> USE ConstantsAssumption DEF IInv, TypeOK, Threads, HandoffPc, FinalizePc,
        WorkerPc, UnrefPc, HasConnPc, Goto, quitVars, slotVars, listVars,
        thrVars, loopVars, SlotTypes, ListTypes, ThreadTypes, LoopTypes,
        LocalsOK, LoopInv, RunPc, At, server_running
<1>1. CASE FinalizeUnlink(t)
  BY <1>1 DEF FinalizeUnlink
<1>2. CASE FinalizeClose(t)
  BY <1>2 DEF FinalizeClose
<1>3. CASE FinalizeRelease(t)
  BY <1>3 DEF FinalizeRelease
<1>4. CASE FinalizePush(t)
  BY <1>4 DEF FinalizePush
<1> QED BY <1>1, <1>2, <1>3, <1>4
           DEF Finalize

(* A pool thread forgets a connection when it hands it over or drops it. *)
LEMMA HandoffLoop ==
  ASSUME IInv, LoopInv, NEW h \in Handoffs, Handoff(h)
  PROVE  LoopInv'
<1> USE ConstantsAssumption DEF IInv, TypeOK, Threads, HandoffPc, FinalizePc,
        WorkerPc, UnrefPc, HasConnPc, Goto, quitVars, slotVars, listVars,
        thrVars, loopVars, SlotTypes, ListTypes, ThreadTypes, LoopTypes,
        LocalsOK, LoopInv, RunPc, At, server_running
<1>1. CASE Reserve(h)
  BY <1>1 DEF Reserve
<1>2. CASE Unreserve(h)
  BY <1>2 DEF Unreserve
<1>3. CASE Connected(h)
  BY <1>3 DEF Connected
<1>4. CASE SlotAcquire(h)
  BY <1>4 DEF SlotAcquire
<1>5. CASE SlotsExhausted(h)
  BY <1>5 DEF SlotsExhausted
<1>6. CASE SlotReset(h)
  BY <1>6 DEF SlotReset
<1>7. CASE HandoffInit(h)
  BY <1>7 DEF HandoffInit
<1>8. CASE HandoffNoBuffer(h)
  <2>1. Unref(h, my[h], "idle")
    BY <1>8 DEF HandoffNoBuffer
  <2>2. \A t \in Threads : pc'[t] \notin HasConnPc => my'[t] = NoSlot
    <3>1. CASE pc' = [pc EXCEPT ![h] = "unlink"] /\ my' = [my EXCEPT ![h] = my[h]]
      BY <3>1
    <3>2. CASE pc' = [pc EXCEPT ![h] = "idle"] /\ my' = [my EXCEPT ![h] = NoSlot]
      BY <3>2
    <3> QED BY <2>1, <3>1, <3>2, UnrefThread
  <2>3. \A w \in Workers : At(w)' = At(w)
    BY <2>1, UnrefThread
  <2>4. UNCHANGED <<quitPc, sawPipe, stopping, todo, garbage>>
    BY <1>8 DEF HandoffNoBuffer
  <2> HIDE ConstantsAssumption DEF IInv, TypeOK, Threads, HandoffPc, FinalizePc,
        WorkerPc, UnrefPc, HasConnPc, Goto, quitVars, slotVars, listVars,
        thrVars, loopVars, SlotTypes, ListTypes, ThreadTypes, LoopTypes,
        LocalsOK, RunPc, At
  <2> QED BY <2>2, <2>3, <2>4
<1>9. CASE HandoffRefused(h)
  BY <1>9 DEF HandoffRefused
<1>10. CASE HandoffLink(h)
  BY <1>10 DEF HandoffLink
<1>11. CASE HandoffLinkFails(h)
  BY <1>11 DEF HandoffLinkFails
<1>12. CASE HandoffAddTarget(h)
  <2>1. pc' = [pc EXCEPT ![h] = "stamp"] \/ pc' = [pc EXCEPT ![h] = "rollback"]
    BY <1>12 DEF HandoffAddTarget
  <2>2. UNCHANGED <<quitPc, sawPipe, stopping, todo, garbage, my, ret>>
    BY <1>12 DEF HandoffAddTarget
  <2>3. \A t \in Threads : pc'[t] \notin HasConnPc => my'[t] = NoSlot
    <3>1. CASE pc' = [pc EXCEPT ![h] = "stamp"]
      BY <2>2, <3>1
    <3>2. CASE pc' = [pc EXCEPT ![h] = "rollback"]
      BY <2>2, <3>2
    <3> QED BY <2>1, <3>1, <3>2
  <2>4. \A w \in Workers : pc'[w] = pc[w] /\ ret'[w] = ret[w]
    <3>1. \A w \in Workers : w \in Threads /\ w # h
      OBVIOUS
    <3>2. pc \in [Threads -> HandoffPc \cup FinalizePc \cup WorkerPc]
      OBVIOUS
    <3> QED BY ONLY <2>1, <2>2, <3>1, <3>2
  <2>5. \A w \in Workers : At(w)' = At(w)
    BY <2>4
  <2>6. /\ server_running' <=> server_running
        /\ \A w \in Workers : /\ sawPipe'[w] = sawPipe[w] /\ stopping'[w] = stopping[w]
                              /\ todo'[w] = todo[w] /\ garbage'[w] = garbage[w]
    BY <2>2
  <2> QED BY ONLY LoopInv, <2>3, <2>5, <2>6 DEF LoopInv
<1>13. CASE HandoffRollback(h)
  <2>1. Unref(h, my[h], "idle")
    BY <1>13 DEF HandoffRollback
  <2>2. \A t \in Threads : pc'[t] \notin HasConnPc => my'[t] = NoSlot
    <3>1. CASE pc' = [pc EXCEPT ![h] = "unlink"] /\ my' = [my EXCEPT ![h] = my[h]]
      BY <3>1
    <3>2. CASE pc' = [pc EXCEPT ![h] = "idle"] /\ my' = [my EXCEPT ![h] = NoSlot]
      BY <3>2
    <3> QED BY <2>1, <3>1, <3>2, UnrefThread
  <2>3. \A w \in Workers : At(w)' = At(w)
    BY <2>1, UnrefThread
  <2>4. UNCHANGED <<quitPc, sawPipe, stopping, todo, garbage>>
    BY <1>13 DEF HandoffRollback
  <2> HIDE ConstantsAssumption DEF IInv, TypeOK, Threads, HandoffPc, FinalizePc,
        WorkerPc, UnrefPc, HasConnPc, Goto, quitVars, slotVars, listVars,
        thrVars, loopVars, SlotTypes, ListTypes, ThreadTypes, LoopTypes,
        LocalsOK, RunPc, At
  <2> QED BY <2>2, <2>3, <2>4
<1>14. CASE HandoffDone(h)
  BY <1>14 DEF HandoffDone
<1> QED BY <1>1, <1>2, <1>3, <1>4, <1>5, <1>6, <1>7, <1>8, <1>9, <1>10,
           <1>11, <1>12, <1>13, <1>14
           DEF Handoff

(* A worker leaves its loop only when the server stops, and empties what *)
(* it has collected before it collects again.                            *)
LEMMA WorkerLoop ==
  ASSUME IInv, LoopInv, OwnInv, NEW w \in Workers, Worker(w)
  PROVE  LoopInv'
<1> USE ConstantsAssumption DEF IInv, TypeOK, Threads, HandoffPc, FinalizePc,
        WorkerPc, UnrefPc, HasConnPc, Goto, quitVars, slotVars, listVars,
        thrVars, loopVars, SlotTypes, ListTypes, ThreadTypes, LoopTypes,
        LocalsOK, LoopInv, RunPc, At, server_running
<1>1. CASE LoopTest(w)
  <2>1. \A t \in Threads : pc'[t] \notin HasConnPc => my'[t] = NoSlot
    BY <1>1 DEF LoopTest
  <2>2. \A v \in Workers \ {w} :
          /\ At(v)' = At(v) /\ sawPipe'[v] = sawPipe[v] /\ stopping'[v] = stopping[v]
          /\ todo'[v] = todo[v] /\ garbage'[v] = garbage[v]
    BY <1>1 DEF LoopTest
  <2>3. ASSUME server_running'
        PROVE  /\ server_running
               /\ At(w)' \in RunPc /\ ~sawPipe'[w] /\ ~stopping'[w]
               /\ At(w)' \notin {"flush", "gc"} => todo'[w] = {}
               /\ At(w)' = "flush" => todo'[w] \cap garbage'[w] = {}
    <3>1. server_running /\ pc' = [pc EXCEPT ![w] = "wait"] /\ pc[w] = "loop"
      BY <1>1, <2>3 DEF LoopTest
    <3>2. UNCHANGED <<sawPipe, stopping, todo, ret>>
      BY <1>1 DEF LoopTest
    <3> QED BY <3>1, <3>2
  <2> HIDE ConstantsAssumption DEF IInv, TypeOK, Threads, HandoffPc, FinalizePc,
        WorkerPc, UnrefPc, HasConnPc, Goto, quitVars, slotVars, listVars,
        thrVars, loopVars, SlotTypes, ListTypes, ThreadTypes, LoopTypes,
        LocalsOK, RunPc, At
  <2> QED BY <2>1, <2>2, <2>3
<1>2. CASE EpollWait(w)
  <2>1. \A t \in Threads : pc'[t] \notin HasConnPc => my'[t] = NoSlot
    BY <1>2 DEF EpollWait
  <2>2. \A v \in Workers \ {w} :
          /\ At(v)' = At(v) /\ sawPipe'[v] = sawPipe[v] /\ stopping'[v] = stopping[v]
          /\ todo'[v] = todo[v] /\ garbage'[v] = garbage[v]
    BY <1>2 DEF EpollWait
  <2>3. ASSUME server_running'
        PROVE  /\ server_running
               /\ At(w)' \in RunPc /\ ~sawPipe'[w] /\ ~stopping'[w]
               /\ At(w)' \notin {"flush", "gc"} => todo'[w] = {}
               /\ At(w)' = "flush" => todo'[w] \cap garbage'[w] = {}
    <3>1. server_running /\ pc' = [pc EXCEPT ![w] = "events"] /\ pc[w] = "wait"
      BY <1>2, <2>3 DEF EpollWait
    <3>2. UNCHANGED <<stopping, todo, ret>>
      BY <1>2 DEF EpollWait
    <3>3. sawPipe' = [sawPipe EXCEPT ![w] = FALSE]
      BY <1>2, <3>1 DEF EpollWait
    <3>4. ~sawPipe'[w]
      BY <3>3
    <3> QED BY <3>1, <3>2, <3>4
  <2> HIDE ConstantsAssumption DEF IInv, TypeOK, Threads, HandoffPc, FinalizePc,
        WorkerPc, UnrefPc, HasConnPc, Goto, quitVars, slotVars, listVars,
        thrVars, loopVars, SlotTypes, ListTypes, ThreadTypes, LoopTypes,
        LocalsOK, RunPc, At
  <2> QED BY <2>1, <2>2, <2>3
<1>3. CASE PipeEvent(w)
  BY <1>3 DEF PipeEvent
<1>4. CASE ReadGen(w)
  BY <1>4 DEF ReadGen
<1>5. CASE CheckSlot(w)
  BY <1>5 DEF CheckSlot
<1>6. CASE Forward(w)
  BY <1>6 DEF Forward
<1>7. CASE FatalError(w)
  BY <1>7 DEF FatalError
<1>8. CASE SkipSweep(w)
  BY <1>8 DEF SkipSweep, BatchDone
<1>9. CASE SweepStart(w)
  BY <1>9 DEF SweepStart, BatchDone
<1>10. CASE SweepKeep(w)
  BY <1>10 DEF SweepKeep
<1>11. CASE SweepCollect(w)
  <2>1. \A t \in Threads : pc'[t] \notin HasConnPc => my'[t] = NoSlot
    BY <1>11 DEF SweepCollect
  <2>2. \A v \in Workers \ {w} :
          /\ At(v)' = At(v) /\ sawPipe'[v] = sawPipe[v] /\ stopping'[v] = stopping[v]
          /\ todo'[v] = todo[v] /\ garbage'[v] = garbage[v]
    BY <1>11 DEF SweepCollect
  <2>3. ASSUME server_running'
        PROVE  /\ server_running
               /\ At(w)' \in RunPc /\ ~sawPipe'[w] /\ ~stopping'[w]
               /\ At(w)' \notin {"flush", "gc"} => todo'[w] = {}
               /\ At(w)' = "flush" => todo'[w] \cap garbage'[w] = {}
    <3>1. pc[w] = "sweep" /\ server_running /\ At(w) = "sweep" /\ todo[w] = {}
      BY <1>11, <2>3 DEF SweepCollect
    <3>2. ~sawPipe'[w] /\ ~stopping'[w]
      BY <1>11, <2>3, <3>1 DEF SweepCollect
    <3>3. PICK s \in visit[w] :
            IF Cardinality(garbage[w]) < MaxEvents
            THEN UNCHANGED <<pc, todo, ret>>
            ELSE /\ garbage' = [garbage EXCEPT ![w] = {s}]
                 /\ todo' = [todo EXCEPT ![w] = garbage[w]]
                 /\ pc' = [pc EXCEPT ![w] = "flush"]
      BY <1>11 DEF SweepCollect
    <3>4. s \notin garbage[w]
      BY <3>1 DEF OwnInv, Apart, Served, Pending
    <3>5. CASE Cardinality(garbage[w]) < MaxEvents
      BY <3>1, <3>2, <3>3, <3>5
    <3>6. CASE ~(Cardinality(garbage[w]) < MaxEvents)
      BY <3>1, <3>2, <3>3, <3>4, <3>6
    <3> QED BY <3>5, <3>6
  <2> HIDE ConstantsAssumption DEF IInv, TypeOK, Threads, HandoffPc, FinalizePc,
        WorkerPc, UnrefPc, HasConnPc, Goto, quitVars, slotVars, listVars,
        thrVars, loopVars, SlotTypes, ListTypes, ThreadTypes, LoopTypes,
        LocalsOK, RunPc, At
  <2> QED BY <2>1, <2>2, <2>3
<1>12. CASE SweepResume(w)
  BY <1>12 DEF SweepResume
<1>13. CASE SweepEnd(w)
  BY <1>13 DEF SweepEnd
<1>14. CASE UnrefNext(w)
  <2>1. PICK s \in todo[w] : /\ todo' = [todo EXCEPT ![w] = @ \ {s}]
                              /\ Unref(w, s, pc[w])
    BY <1>14 DEF UnrefNext
  <2>2. \A t \in Threads : pc'[t] \notin HasConnPc => my'[t] = NoSlot
    <3>1. CASE pc' = [pc EXCEPT ![w] = "unlink"] /\ my' = [my EXCEPT ![w] = s]
      BY <3>1
    <3>2. CASE pc' = [pc EXCEPT ![w] = pc[w]] /\ my' = [my EXCEPT ![w] = NoSlot]
      BY <3>2
    <3> QED BY <2>1, <3>1, <3>2, UnrefThread
  <2>3. \A v \in Workers : At(v)' = At(v)
    BY <1>14, <2>1, UnrefThread DEF UnrefNext
  <2>4. UNCHANGED <<quitPc, sawPipe, stopping, garbage>>
    BY <1>14 DEF UnrefNext
  <2>5. At(w) \in UnrefPc /\ \A v \in Workers : todo'[v] \subseteq todo[v]
    BY <1>14, <2>1 DEF UnrefNext
  <2> HIDE ConstantsAssumption DEF IInv, TypeOK, Threads, HandoffPc, FinalizePc,
        WorkerPc, HasConnPc, Goto, quitVars, slotVars, listVars,
        thrVars, loopVars, SlotTypes, ListTypes, ThreadTypes, LoopTypes,
        LocalsOK, At
  <2> QED BY <2>1, <2>2, <2>3, <2>4, <2>5
<1>15. CASE GcDone(w)
  BY <1>15 DEF GcDone
<1>16. CASE ExitWorker(w)
  BY <1>16 DEF ExitWorker
<1>17. CASE DrainBatch(w)
  BY <1>17 DEF DrainBatch
<1>18. CASE DrainAgain(w)
  <2>1. /\ pc[w] = "drained"
        /\ pc' = [pc EXCEPT ![w] = "drain"] \/ pc' = [pc EXCEPT ![w] = "leftover"]
    BY <1>18 DEF DrainAgain
  <2>2. UNCHANGED <<quitPc, my>>
    BY <1>18 DEF DrainAgain
  <2>3. \A t \in Threads : pc'[t] \notin HasConnPc => my'[t] = NoSlot
    <3>1. \A t \in Threads : pc'[t] \notin HasConnPc => pc[t] \notin HasConnPc
      BY <2>1
    <3> QED BY <2>2, <3>1
  <2>4. ~server_running'
    BY <2>1, <2>2
  <2> QED BY <2>3, <2>4
<1>19. CASE CloseEpoll(w)
  BY <1>19 DEF CloseEpoll
<1> QED BY <1>1, <1>2, <1>3, <1>4, <1>5, <1>6, <1>7, <1>8, <1>9, <1>10,
           <1>11, <1>12, <1>13, <1>14, <1>15, <1>16, <1>17, <1>18, <1>19
           DEF Worker

-----------------------------------------------------------------------------
(* Ownership *)

(* The types the ownership arguments use, without the whole of TypeOK. *)
LEMMA OwnTypes ==
  ASSUME IInv
  PROVE  /\ free \in [Slots -> Nat] /\ gen \in [Slots -> Nat]
         /\ slot_state \in [Slots -> BOOLEAN] /\ conn \in [Slots -> Conn]
         /\ list \in [Workers -> SUBSET Slots] /\ visit \in [Workers -> SUBSET Slots]
         /\ todo \in [Workers -> SUBSET Slots] /\ garbage \in [Workers -> SUBSET Slots]
         /\ armed \in [Workers -> SUBSET Event]
         /\ pc \in [Threads -> HandoffPc \cup FinalizePc \cup WorkerPc]
         /\ my \in [Threads -> Slots \cup {NoSlot}]
         /\ ret \in [Threads -> {"idle"} \cup UnrefPc]
         /\ target \in [Handoffs -> Workers \cup {NoThread}]
         /\ \A w \in Workers : Pending(w) \subseteq Slots
         /\ NoSlot \notin Slots /\ Handoffs \cap Workers = {}
         /\ Handoffs \subseteq Threads /\ Workers \subseteq Threads
BY ConstantsAssumption
   DEF IInv, TypeOK, SlotTypes, ListTypes, ThreadTypes, LoopTypes, Pending, Threads

(* What a worker has still to unref depends on its own loop alone. *)
LEMMA PendingFrame ==
  ASSUME NEW w, todo'[w] = todo[w], garbage'[w] = garbage[w], At(w)' = At(w)
  PROVE  Pending(w)' = Pending(w)
BY DEF Pending

(* A pool thread leaves the workers' loops alone. *)
LEMMA HandoffKeeps ==
  ASSUME IInv, NEW h \in Handoffs, Handoff(h)
  PROVE  /\ quitPc' = quitPc
         /\ \A t \in Threads \ {h} : pc'[t] = pc[t] /\ my'[t] = my[t]
         /\ \A w \in Workers : Pending(w)' = Pending(w) /\ At(w)' = At(w)
         /\ UNCHANGED <<cur, visit>>
<1> USE DEF Goto, quitVars, slotVars, listVars, thrVars, loopVars
<1>1. UNCHANGED <<quitPc, todo, garbage, cur, visit>>
  BY DEF Handoff, Reserve, Unreserve, Connected, SlotAcquire, SlotsExhausted,
         SlotReset, HandoffInit, HandoffNoBuffer, HandoffRefused, HandoffLink,
         HandoffLinkFails, HandoffAddTarget, HandoffRollback, HandoffDone
<1>2. /\ \E l : pc' = [pc EXCEPT ![h] = l]
      /\ my' = my \/ \E s : my' = [my EXCEPT ![h] = s]
      /\ ret' = ret \/ \E r : ret' = [ret EXCEPT ![h] = r]
  <2>1. CASE HandoffNoBuffer(h) \/ HandoffRollback(h)
    <3>1. Unref(h, my[h], "idle")
      BY <2>1 DEF HandoffNoBuffer, HandoffRollback
    <3> QED BY <3>1, UnrefThread
  <2>2. CASE HandoffAddTarget(h)
    BY <2>2 DEF HandoffAddTarget
  <2>3. CASE ~(HandoffNoBuffer(h) \/ HandoffRollback(h) \/ HandoffAddTarget(h))
    BY <2>3
       DEF Handoff, Reserve, Unreserve, Connected, SlotAcquire, SlotsExhausted,
           SlotReset, HandoffInit, HandoffRefused, HandoffLink,
           HandoffLinkFails, HandoffDone
  <2> QED BY <2>1, <2>2, <2>3
<1>3. /\ pc \in [Threads -> HandoffPc \cup FinalizePc \cup WorkerPc]
      /\ my \in [Threads -> Slots \cup {NoSlot}]
      /\ ret \in [Threads -> {"idle"} \cup UnrefPc]
      /\ Handoffs \cap Workers = {} /\ Workers \subseteq Threads
  BY OwnTypes
<1>4. \A t \in Threads \ {h} : pc'[t] = pc[t] /\ my'[t] = my[t] /\ ret'[t] = ret[t]
  BY <1>2, <1>3
<1>5. \A w \in Workers : At(w)' = At(w)
  BY <1>3, <1>4 DEF At
<1> QED BY <1>1, <1>4, <1>5, PendingFrame

(* A step of conn_finalize does not move the loop that called it. *)
LEMMA FinalizeKeeps ==
  ASSUME IInv, NEW t \in Threads, Finalize(t)
  PROVE  /\ quitPc' = quitPc
         /\ \A w \in Workers : Pending(w)' = Pending(w) /\ At(w)' = At(w)
         /\ UNCHANGED <<cur, visit, target, gen>>
<1> USE DEF Goto, quitVars, slotVars, listVars, thrVars, loopVars
<1>1. UNCHANGED <<quitPc, todo, garbage, cur, visit, target, gen>>
  BY DEF Finalize, FinalizeUnlink, FinalizeClose, FinalizeRelease, FinalizePush
<1>2. /\ pc \in [Threads -> HandoffPc \cup FinalizePc \cup WorkerPc]
      /\ ret \in [Threads -> {"idle"} \cup UnrefPc]
      /\ Workers \subseteq Threads
  BY OwnTypes
<1>3. ASSUME NEW w \in Workers
      PROVE  At(w)' = At(w)
  <2>1. CASE FinalizePush(t)
    <3>1. pc[t] = "push" /\ pc' = [pc EXCEPT ![t] = ret[t]]
                         /\ ret' = [ret EXCEPT ![t] = "idle"]
      BY <2>1 DEF FinalizePush
    <3>2. w = t => ret[t] \in UnrefPc
      BY <3>1 DEF IInv, LocalsOK, FinalizePc
    <3> QED BY <1>2, <3>1, <3>2 DEF At, FinalizePc, UnrefPc
  <2>2. CASE ~FinalizePush(t)
    <3>1. ret' = ret /\ pc[t] \in FinalizePc
          /\ \E l \in FinalizePc : pc' = [pc EXCEPT ![t] = l]
      BY <2>2 DEF Finalize, FinalizeUnlink, FinalizeClose, FinalizeRelease, FinalizePc
    <3> QED BY <1>2, <3>1 DEF At
  <2> QED BY <2>1, <2>2
<1> QED BY <1>1, <1>3, PendingFrame

(* Steps after which every slot is where it was. *)
SamePlaces ==
  /\ UNCHANGED <<free, my, list>>
  /\ \A w \in Workers : Pending(w)' = Pending(w)
  /\ \A h \in Handoffs :
       /\ pc'[h] \in {"added", "stamp"} <=> pc[h] \in {"added", "stamp"}
       /\ pc'[h] \in {"added", "stamp"} => target'[h] = target[h]

(* Such steps keep the owners. *)
LEMMA SameOwners ==
  ASSUME Apart, Somewhere, SamePlaces
  PROVE  Apart' /\ Somewhere'
BY DEF Apart, Somewhere, SamePlaces

(* No thread with a connection moves. *)
SameHolders ==
  \A t \in Threads : pc'[t] = pc[t] \/ (pc[t] \notin HasConnPc /\ pc'[t] \notin HasConnPc)

(* If moreover no connection is written its fields still fit. *)
LEMMA SameFields ==
  ASSUME Fields, SamePlaces, SameHolders,
         UNCHANGED <<conn, slot_state, target>>
  PROVE  Fields'
BY DEF Fields, SamePlaces, SameHolders, HasConnPc, FinalizePc, Threads,
       Linked, Doomed, Fresh, Spent

(* A step of thread t that touches no slot but s, and s is not in the      *)
(* hands of another thread.                                                *)
OnlySlot(s, t) ==
  /\ \A x \in Slots \ {s} : /\ conn'[x] = conn[x] /\ slot_state'[x] = slot_state[x]
                            /\ free'[x] > 0 => free[x] > 0
  /\ \A w \in Workers : /\ list'[w] \ {s} \subseteq list[w]
                        /\ Pending(w)' \ {s} \subseteq Pending(w)
  /\ \A u \in Threads \ {t} : pc'[u] = pc[u] /\ my'[u] = my[u] /\ my[u] # s
  /\ \A h \in Handoffs \ {t} : target'[h] = target[h]

(* The fields fit after such a step if those of s do. *)
LEMMA FieldsStep ==
  ASSUME IInv, Fields, NEW s \in Slots, NEW t \in Threads, OnlySlot(s, t),
         \A w \in Workers : /\ s \in list'[w] => Linked(s, w)'
                            /\ s \in Pending(w)' => Doomed(s)',
         free'[s] > 0 => Spent(s)' /\ ~conn'[s].magic,
         t \in Handoffs =>
           /\ pc'[t] = "init" => slot_state'[my'[t]]
           /\ pc'[t] = "lock" => Linked(my[t], target[t])'
           /\ pc'[t] \in {"lock", "rollback"} => Fresh(my[t])'
           /\ pc'[t] \in {"memset", "init"} => Spent(my[t])' /\ ~conn'[my'[t]].magic
           /\ pc'[t] \in {"added", "stamp"} => ~conn'[my'[t]].registered,
         pc'[t] \in FinalizePc => Spent(my[t])',
         pc'[t] = "unlink" => conn'[my'[t]].closed \/ ~conn'[my'[t]].registered,
         pc'[t] \in FinalizePc \ {"unlink"} => ~conn'[my'[t]].magic
  PROVE  Fields'
<1>1. /\ Handoffs \subseteq Threads /\ list \in [Workers -> SUBSET Slots]
      /\ \A w \in Workers : Pending(w) \subseteq Slots
  BY OwnTypes
<1>2. \A w \in Workers : /\ \A x \in list'[w] : Linked(x, w)'
                         /\ \A x \in Pending(w)' : Doomed(x)'
  <2>1. ASSUME NEW w \in Workers, NEW x \in list'[w], x # s
        PROVE  Linked(x, w)'
    <3>1. x \in Slots /\ Linked(x, w)
      BY <1>1, <2>1 DEF OnlySlot, Fields
    <3> QED BY <2>1, <3>1 DEF OnlySlot, Linked
  <2>2. ASSUME NEW w \in Workers, NEW x \in Pending(w)', x # s
        PROVE  Doomed(x)'
    <3>1. x \in Slots /\ Doomed(x)
      BY <1>1, <2>2 DEF OnlySlot, Fields
    <3> QED BY <2>2, <3>1 DEF OnlySlot, Doomed
  <2> QED BY <2>1, <2>2
<1>3. \A x \in Slots : free'[x] > 0 => Spent(x)' /\ ~conn'[x].magic
  BY DEF OnlySlot, Fields, Spent
<1>4. ASSUME NEW u \in Threads \ {t}, pc'[u] \in HasConnPc
      PROVE  /\ pc'[u] = pc[u] /\ my'[u] = my[u] /\ my[u] \in Slots \ {s}
             /\ conn'[my'[u]] = conn[my[u]]
             /\ slot_state'[my'[u]] = slot_state[my[u]]
  BY <1>4 DEF OnlySlot, IInv, LocalsOK
<1>5. \A h \in Handoffs \ {t} :
        /\ pc'[h] = "init" => slot_state'[my'[h]]
        /\ pc'[h] = "lock" => Linked(my[h], target[h])'
        /\ pc'[h] \in {"lock", "rollback"} => Fresh(my[h])'
        /\ pc'[h] \in {"memset", "init"} => Spent(my[h])' /\ ~conn'[my'[h]].magic
        /\ pc'[h] \in {"added", "stamp"} => ~conn'[my'[h]].registered
  BY <1>1, <1>4 DEF Fields, Fresh, Spent, Linked, OnlySlot, HasConnPc
<1>6. \A u \in Threads \ {t} :
        /\ pc'[u] \in FinalizePc => Spent(my[u])'
        /\ pc'[u] = "unlink" => conn'[my'[u]].closed \/ ~conn'[my'[u]].registered
        /\ pc'[u] \in FinalizePc \ {"unlink"} => ~conn'[my'[u]].magic
  BY <1>1, <1>4 DEF Fields, Spent, HasConnPc, FinalizePc
<1> QED BY <1>2, <1>3, <1>5, <1>6 DEF Fields

(* When connections stay served: nothing is linked or registered anew, the *)
(* sweep does not look at more, and who is processed stays linked.         *)
LEMMA ServedFrame ==
  ASSUME IInv, Served, Somewhere',
         \A w \in Workers : /\ visit'[w] \subseteq list'[w]
                            /\ visit'[w] \subseteq visit[w]
                            /\ list'[w] \subseteq list[w],
         \A h \in Handoffs : pc'[h] \in {"added", "stamp"} =>
           pc'[h] = pc[h] /\ my'[h] = my[h] /\ target'[h] = target[h],
         \A w \in Workers : pc'[w] = "proc" =>
           /\ pc[w] = "proc" /\ cur'[w].ev.slot = cur[w].ev.slot
           /\ cur[w].ev.slot \in list'[w]
           /\ conn'[cur[w].ev.slot].registered = conn[cur[w].ev.slot].registered,
         \A w \in Workers : \A s \in list'[w] :
           /\ conn'[s].registered => conn[s].registered
           /\ \A b \in BOOLEAN : Stamp(s, b) \in armed[w] => Stamp(s, b)' \in armed'[w]
  PROVE  Served'
<1>1. \A h \in Handoffs : pc'[h] \in {"added", "stamp"} =>
        my[h] \in list'[target[h]] /\ target[h] \in Workers
  BY DEF Somewhere, IInv, LocalsOK
<1>2. \A h \in Handoffs :
        /\ pc'[h] = "added" => /\ my'[h] \notin visit'[target'[h]]
                               /\ Stamp(my[h], FALSE)' \in armed'[target'[h]]
        /\ pc'[h] = "stamp" =>
             /\ Stamp(my[h], FALSE)' \in armed'[target'[h]]
             /\ Stamp(my[h], TRUE)' \in armed'[target'[h]]
  <2> SUFFICES ASSUME NEW h \in Handoffs, pc'[h] \in {"added", "stamp"}
               PROVE  /\ pc'[h] = "added" => my'[h] \notin visit'[target'[h]]
                      /\ Stamp(my[h], FALSE)' \in armed'[target'[h]]
                      /\ pc'[h] = "stamp" => Stamp(my[h], TRUE)' \in armed'[target'[h]]
    OBVIOUS
  <2> DEFINE x == my[h]
             w == target[h]
  <2>1. x \in list'[w] /\ w \in Workers /\ pc[h] = pc'[h] /\ my'[h] = x /\ target'[h] = w
    BY <1>1
  <2>2. /\ pc[h] = "added" => x \notin visit[w]
        /\ Stamp(x, FALSE) \in armed[w]
        /\ pc[h] = "stamp" => Stamp(x, TRUE) \in armed[w]
    <3>1. pc[h] \in {"added", "stamp"}
      BY <2>1
    <3>2. /\ pc[h] = "added" => x \notin visit[w] /\ Stamp(x, FALSE) \in armed[w]
          /\ pc[h] = "stamp" => BothArmed(x, w)
      BY ONLY Served, h \in Handoffs DEF Served
    <3> QED BY ONLY <3>1, <3>2 DEF BothArmed
  <2>3. \A b \in BOOLEAN : Stamp(my[h], b)' = [slot |-> x, gen |-> gen'[x], target |-> b]
    BY <2>1 DEF Stamp
  <2>4. \A b \in BOOLEAN : Stamp(x, b) \in armed[w] =>
          [slot |-> x, gen |-> gen'[x], target |-> b] \in armed'[w]
    BY <2>1 DEF Stamp
  <2> HIDE DEF x, w
  <2> QED BY <2>1, <2>2, <2>3, <2>4
<1>3. \A w \in Workers :
        /\ pc'[w] = "proc" => /\ cur'[w].ev.slot \in list'[w]
                              /\ conn'[cur'[w].ev.slot].registered
        /\ \A s \in list'[w] : conn'[s].registered =>
             /\ Stamp(s, FALSE)' \in armed'[w]
             /\ Stamp(s, TRUE)' \in armed'[w]
  <2>1. ASSUME NEW w \in Workers, NEW s \in list'[w], conn'[s].registered
        PROVE  Stamp(s, FALSE)' \in armed'[w] /\ Stamp(s, TRUE)' \in armed'[w]
    <3>1. Stamp(s, FALSE) \in armed[w] /\ Stamp(s, TRUE) \in armed[w]
      BY <2>1 DEF Served, BothArmed
    <3> QED BY <3>1
  <2>2. \A w \in Workers : pc'[w] = "proc" => /\ cur'[w].ev.slot \in list'[w]
                                             /\ conn'[cur'[w].ev.slot].registered
    BY DEF Served, BothArmed
  <2> QED BY <2>1, <2>2
<1> QED BY <1>2, <1>3 DEF Served, BothArmed

(* A step of a pool thread t that links or registers s and leaves the      *)
(* other threads and slots alone.                                          *)
ServesSlot(s, t) ==
  /\ gen' = gen
  /\ \A w \in Workers : /\ visit'[w] = visit[w] /\ visit'[w] \subseteq list'[w]
                        /\ list'[w] \ {s} \subseteq list[w]
                        /\ armed[w] \subseteq armed'[w]
  /\ \A u \in Handoffs \ {t} : /\ pc'[u] = pc[u] /\ my'[u] = my[u]
                               /\ target'[u] = target[u]
  /\ \A w \in Workers : pc'[w] = "proc" => /\ cur'[w].ev.slot \in list'[w]
                                           /\ conn'[cur'[w].ev.slot].registered
  /\ \A x \in Slots \ {s} : conn'[x] = conn[x]

(* What is said of those stays true. *)
LEMMA ServedStep ==
  ASSUME IInv, Served, NEW s \in Slots, NEW t \in Handoffs, ServesSlot(s, t),
         pc'[t] = "added" => /\ my'[t] \notin visit'[target'[t]]
                             /\ Stamp(my[t], FALSE)' \in armed'[target'[t]],
         pc'[t] = "stamp" => /\ Stamp(my[t], FALSE)' \in armed'[target'[t]]
                             /\ Stamp(my[t], TRUE)' \in armed'[target'[t]],
         \A w \in Workers : s \in list'[w] /\ conn'[s].registered =>
           /\ Stamp(s, FALSE) \in armed'[w]
           /\ Stamp(s, TRUE) \in armed'[w]
  PROVE  Served'
<1>1. list \in [Workers -> SUBSET Slots]
  BY OwnTypes
<1> USE DEF ServesSlot
<1>2. ASSUME NEW u \in Handoffs \ {t}
      PROVE  /\ pc'[u] = "added" => /\ my'[u] \notin visit'[target'[u]]
                                    /\ Stamp(my[u], FALSE)' \in armed'[target'[u]]
             /\ pc'[u] = "stamp" =>
                  /\ Stamp(my[u], FALSE)' \in armed'[target'[u]]
                  /\ Stamp(my[u], TRUE)' \in armed'[target'[u]]
  <2>1. pc'[u] = pc[u] /\ my'[u] = my[u] /\ target'[u] = target[u]
    OBVIOUS
  <2>2. /\ pc[u] = "added" => my[u] \notin visit[target[u]]
        /\ pc[u] = "added" => Stamp(my[u], FALSE) \in armed[target[u]]
        /\ pc[u] = "stamp" => Stamp(my[u], FALSE) \in armed[target[u]]
        /\ pc[u] = "stamp" => Stamp(my[u], TRUE) \in armed[target[u]]
    BY DEF Served, BothArmed
  <2>3. /\ Stamp(my[u], FALSE)' = Stamp(my[u], FALSE)
        /\ Stamp(my[u], TRUE)' = Stamp(my[u], TRUE)
    BY <2>1 DEF Stamp
  <2>4. pc[u] \in {"added", "stamp"} =>
          /\ visit'[target[u]] = visit[target[u]]
          /\ armed[target[u]] \subseteq armed'[target[u]]
    BY DEF IInv, LocalsOK
  <2> HIDE DEF ServesSlot
  <2> QED BY <2>1, <2>2, <2>3, <2>4
<1>3. ASSUME NEW w \in Workers, NEW x \in list'[w], conn'[x].registered
      PROVE  /\ Stamp(x, FALSE)' \in armed'[w]
             /\ Stamp(x, TRUE)' \in armed'[w]
  <2>1. \A b \in BOOLEAN : Stamp(x, b)' = Stamp(x, b)
    BY DEF Stamp
  <2>2. CASE x = s
    BY <1>3, <2>1, <2>2
  <2>3. CASE x # s
    <3>1. x \in list[w] /\ x \in Slots
      BY <1>1, <2>3
    <3>2. conn[x].registered
      BY <1>3, <2>3, <3>1
    <3>3. /\ Stamp(x, FALSE) \in armed[w]
          /\ Stamp(x, TRUE) \in armed[w]
      BY <3>1, <3>2 DEF Served, BothArmed
    <3> QED BY <2>1, <3>3
  <2> QED BY <2>2, <2>3
<1>4. \A u \in Handoffs :
        /\ pc'[u] = "added" => /\ my'[u] \notin visit'[target'[u]]
                               /\ Stamp(my[u], FALSE)' \in armed'[target'[u]]
        /\ pc'[u] = "stamp" =>
             /\ Stamp(my[u], FALSE)' \in armed'[target'[u]]
             /\ Stamp(my[u], TRUE)' \in armed'[target'[u]]
  BY <1>2
<1>5. \A w \in Workers :
        /\ pc'[w] = "proc" => /\ cur'[w].ev.slot \in list'[w]
                              /\ conn'[cur'[w].ev.slot].registered
        /\ \A x \in list'[w] : conn'[x].registered =>
             /\ Stamp(x, FALSE)' \in armed'[w]
             /\ Stamp(x, TRUE)' \in armed'[w]
  BY <1>3
<1> QED BY <1>4, <1>5 DEF Served, BothArmed

(* conn_finalize works on a slot that nobody else holds, and gives it back *)
(* once.                                                                   *)
LEMMA FinalizeOwn ==
  ASSUME IInv, LoopInv, OwnInv, NEW t \in Threads, Finalize(t)
  PROVE  OwnInv'
<1> SUFFICES ASSUME server_running'
             PROVE  Apart' /\ Somewhere' /\ Fields' /\ Served'
  BY DEF OwnInv
<1> USE OwnTypes DEF Goto, quitVars, slotVars, listVars, thrVars, loopVars
<1>1. Apart /\ Somewhere /\ Fields /\ Served
  BY FinalizeKeeps DEF OwnInv, server_running
<1>2. /\ \A w \in Workers : Pending(w)' = Pending(w)
      /\ UNCHANGED <<cur, visit, target, gen>>
  BY FinalizeKeeps
<1> DEFINE s == my[t]
<1>3. pc[t] \in FinalizePc /\ s \in Slots
  BY DEF Finalize, FinalizeUnlink, FinalizeClose, FinalizeRelease, FinalizePush,
         IInv, LocalsOK, HasConnPc, FinalizePc
<1>4. /\ \A u \in Threads : my[u] = s => u = t
      /\ \A w \in Workers : s \notin list[w] /\ s \notin Pending(w)
      /\ free[s] = 0
  <2>1. \A u \in Threads : my[u] = s => u = t
    BY <1>1, <1>3 DEF Apart
  <2>2. \A w \in Workers : s \notin list[w] /\ s \notin Pending(w)
    BY <1>1, <1>3 DEF Apart, FinalizePc
  <2>3. ~(free[s] > 0)
    BY <1>1, <1>3 DEF Apart
  <2> QED BY <1>3, <2>1, <2>2, <2>3
<1>5. ASSUME NEW a \in FinalizePc, pc' = [pc EXCEPT ![t] = a],
             UNCHANGED <<free, my, list>>
      PROVE  SamePlaces
  BY <1>2, <1>3, <1>5 DEF SamePlaces, FinalizePc
<1>6. CASE FinalizeUnlink(t)
  <2>1. /\ pc[t] = "unlink" /\ pc' = [pc EXCEPT ![t] = "close"]
        /\ UNCHANGED <<free, my, armed, slot_state>>
        /\ conn' = [conn EXCEPT ![s].magic = FALSE]
        /\ list' = [list EXCEPT ![conn[s].widx] = @ \ {s}]
    BY <1>6 DEF FinalizeUnlink
  <2>2. list' = list
    BY <1>4, <2>1
  <2>3. SamePlaces
    BY <1>5, <2>1, <2>2 DEF FinalizePc
  <2>4. /\ \A x \in Slots \ {s} : conn'[x] = conn[x]
        /\ ~conn'[s].magic /\ conn'[s].refs = conn[s].refs
        /\ conn'[s].registered = conn[s].registered
    BY <1>3, <2>1 DEF Conn
  <2>5. Fields'
    <3>1. OnlySlot(s, t)
      BY <1>2, <1>4, <2>1, <2>2, <2>4 DEF OnlySlot
    <3>2. pc'[t] = "close" /\ Spent(my[t])' /\ ~conn'[my'[t]].magic
      BY <1>1, <1>3, <2>1, <2>4 DEF Fields, Spent
    <3> QED BY <1>1, <1>2, <1>3, <1>4, <2>1, <2>2, <3>1, <3>2, FieldsStep, SMTT(30) DEF FinalizePc
  <2>6. Served'
    <3>1. \A x \in Slots : conn'[x].registered = conn[x].registered
      BY <2>4
    <3>2. \A u \in Threads : pc'[u] \in {"added", "stamp", "proc"} => pc'[u] = pc[u]
      BY <2>1
    <3>3. \A w \in Workers : pc[w] = "proc" => cur[w].ev.slot \in Slots
      BY DEF IInv, LocalsOK, Event
    <3>4. Somewhere'
      BY <1>1, <2>3, SameOwners
    <3>5. \A x \in Slots, b \in BOOLEAN : Stamp(x, b)' = Stamp(x, b)
      BY <1>2 DEF Stamp
    <3>6. \A w \in Workers : visit[w] \subseteq list[w] /\ (pc[w] = "proc" => cur[w].ev.slot \in list[w])
      BY <1>1 DEF Served
    <3> HIDE DEF IInv
    <3> QED BY <1>1, <1>2, <2>1, <2>2, <3>1, <3>2, <3>3, <3>4, <3>5, <3>6, ServedFrame
  <2> QED BY <1>1, <2>3, <2>5, <2>6, SameOwners
<1>7. CASE FinalizeClose(t)
  <2>1. /\ pc[t] = "close" /\ pc' = [pc EXCEPT ![t] = "release"]
        /\ UNCHANGED <<free, my, list, conn, slot_state>>
        /\ \E leak \in {FALSE, JavaLeaks} :
             armed' = [w \in Workers |->
               {e \in armed[w] : ~(e.slot = s /\ e.gen = gen[s]) \/ (leak /\ e.target)}]
    BY <1>7 DEF FinalizeClose
  <2>2. SamePlaces
    BY <1>5, <2>1 DEF FinalizePc
  <2>3. Fields'
    BY <1>1, <1>2, <2>1 DEF Fields, FinalizePc, Linked, Doomed, Fresh, Spent
  <2>4. \A w \in Workers, x \in Slots, b \in BOOLEAN :
          x # s /\ Stamp(x, b) \in armed[w] => Stamp(x, b) \in armed'[w]
    BY <2>1 DEF Stamp
  <2>5. Served'
    <3>1. \A x \in Slots, b \in BOOLEAN : Stamp(x, b)' = Stamp(x, b)
      BY <1>2 DEF Stamp
    <3>2. Somewhere'
      BY <1>1, <2>2, SameOwners
    <3>3. \A u \in Threads : pc'[u] \in {"added", "stamp", "proc"} => pc'[u] = pc[u]
      BY <2>1
    <3>4. \A w \in Workers : \A x \in list[w] : x \in Slots \ {s}
      BY <1>4
    <3>5. \A w \in Workers : visit[w] \subseteq list[w] /\ (pc[w] = "proc" => cur[w].ev.slot \in list[w])
      BY <1>1 DEF Served
    <3> QED BY <1>1, <1>2, <2>1, <2>4, <3>1, <3>2, <3>3, <3>4, <3>5, ServedFrame
  <2> QED BY <1>1, <2>2, <2>3, <2>5, SameOwners
<1>8. CASE FinalizeRelease(t)
  <2>1. /\ pc[t] = "release" /\ pc' = [pc EXCEPT ![t] = "push"]
        /\ UNCHANGED <<free, my, list, conn, armed>>
        /\ slot_state' = [slot_state EXCEPT ![s] = FALSE]
    BY <1>8 DEF FinalizeRelease
  <2>2. SamePlaces
    BY <1>5, <2>1 DEF FinalizePc
  <2>3. \A w \in Workers : \A x \in list[w] : slot_state'[x] = slot_state[x]
    <3>1. \A x \in Slots \ {s} : slot_state'[x] = slot_state[x]
      BY <2>1
    <3> QED BY <1>4, <3>1
  <2>4. Fields'
    <3>1. OnlySlot(s, t)
      BY <1>2, <1>4, <2>1 DEF OnlySlot
    <3>2. pc'[t] = "push" /\ Spent(my[t])' /\ ~conn'[my'[t]].magic
      BY <1>1, <1>3, <2>1 DEF Fields, Spent, FinalizePc
    <3> QED BY <1>1, <1>2, <1>3, <1>4, <2>1, <3>1, <3>2, FieldsStep, SMTT(30) DEF FinalizePc
  <2>5. \A u \in Threads : pc'[u] \in {"added", "stamp", "proc"} => pc'[u] = pc[u]
    BY <2>1
  <2>6. Served'
    <3>1. \A x \in Slots, b \in BOOLEAN : Stamp(x, b)' = Stamp(x, b)
      BY <1>2 DEF Stamp
    <3>2. Somewhere'
      BY <1>1, <2>2, SameOwners
    <3>3. \A w \in Workers : visit[w] \subseteq list[w] /\ (pc[w] = "proc" => cur[w].ev.slot \in list[w])
      BY <1>1 DEF Served
    <3> QED BY <1>1, <1>2, <2>1, <2>5, <3>1, <3>2, <3>3, ServedFrame
  <2> QED BY <1>1, <2>2, <2>4, <2>6, SameOwners
<1>9. CASE FinalizePush(t)
  <2>1. /\ pc[t] = "push" /\ pc' = [pc EXCEPT ![t] = ret[t]]
        /\ UNCHANGED <<list, conn, armed, slot_state>>
        /\ free' = [free EXCEPT ![s] = @ + 1]
        /\ my' = [my EXCEPT ![t] = NoSlot]
    BY <1>9 DEF FinalizePush
  <2>2. ret[t] \notin HasConnPc /\ ret[t] # "proc"
    BY DEF UnrefPc, HasConnPc, FinalizePc
  <2>3. /\ free'[s] = 1 /\ \A x \in Slots \ {s} : free'[x] = free[x]
        /\ my'[t] = NoSlot /\ \A u \in Threads \ {t} : my'[u] = my[u] /\ pc'[u] = pc[u]
        /\ pc'[t] = ret[t]
    BY <1>3, <1>4, <2>1
  <2>4. Apart'
    BY <1>1, <1>2, <1>4, <2>1, <2>2, <2>3 DEF Apart, HasConnPc
  <2>5. Somewhere'
    <3>1. \A x \in Slots : \/ free'[x] > 0
                            \/ \E u \in Threads : my'[u] = x
                            \/ \E w \in Workers : x \in list'[w] \/ x \in Pending(w)'
      <4> SUFFICES ASSUME NEW x \in Slots, free'[x] = 0
                   PROVE  \/ \E u \in Threads : my'[u] = x
                          \/ \E w \in Workers : x \in list'[w] \/ x \in Pending(w)'
        BY <2>1
      <4>1. x # s /\ free[x] = 0
        BY <2>3
      <4> QED BY <1>1, <1>2, <2>1, <2>3, <4>1 DEF Somewhere
    <3>2. \A h \in Handoffs : pc'[h] \in {"added", "stamp"} =>
            pc[h] = pc'[h] /\ my[h] = my'[h]
      BY <2>2, <2>3 DEF HasConnPc
    <3> QED BY <1>1, <1>2, <2>1, <3>1, <3>2 DEF Somewhere
  <2>6. Fields'
    BY <1>1, <1>2, <1>3, <2>1, <2>2, <2>3 DEF Fields, FinalizePc, HasConnPc, Linked, Doomed, Fresh, Spent
  <2>7. Served'
    <3>1. \A x \in Slots, b \in BOOLEAN : Stamp(x, b)' = Stamp(x, b)
      BY <1>2 DEF Stamp
    <3>2. \A h \in Handoffs : pc'[h] \in {"added", "stamp"} =>
            pc[h] = pc'[h] /\ my[h] = my'[h]
      BY <2>2, <2>3 DEF HasConnPc
    <3>3. \A w \in Workers : visit[w] \subseteq list[w] /\ (pc[w] = "proc" => cur[w].ev.slot \in list[w])
      BY <1>1 DEF Served
    <3>4. \A w \in Workers : pc'[w] = "proc" => pc[w] = "proc"
      BY <2>2, <2>3
    <3> QED BY <1>1, <1>2, <2>1, <2>5, <3>1, <3>2, <3>3, <3>4, ServedFrame
  <2> QED BY <2>4, <2>5, <2>6, <2>7
<1> QED BY <1>6, <1>7, <1>8, <1>9 DEF Finalize

(* conn_unref of the last reference starts conn_finalize. *)
LEMMA UnrefLast ==
  ASSUME IInv, NEW t, NEW s \in Slots, NEW back, Unref(t, s, back),
         conn[s].refs = 1, ~conn[s].finalized
  PROVE  /\ pc' = [pc EXCEPT ![t] = "unlink"]
         /\ my' = [my EXCEPT ![t] = s]
         /\ \A x \in Slots \ {s} : conn'[x] = conn[x]
         /\ conn'[s].refs = 0
         /\ conn'[s].closed = conn[s].closed
         /\ conn'[s].registered = conn[s].registered
<1>1. conn \in [Slots -> Conn]
  BY OwnTypes
<1>2. conn' = [conn EXCEPT ![s].refs = 0, ![s].finalized = TRUE]
  BY DEF Unref
<1>3. conn' = [conn EXCEPT ![s] = [conn[s] EXCEPT !.refs = 0, !.finalized = TRUE]]
  BY <1>1, <1>2
<1>4. \A x \in Slots \ {s} : conn'[x] = conn[x]
  BY <1>1, <1>3
<1>5. conn'[s] = [conn[s] EXCEPT !.refs = 0, !.finalized = TRUE]
  BY <1>1, <1>3
<1> QED BY <1>1, <1>4, <1>5 DEF Unref, Goto, Conn

(* Marking a connection closed changes nothing else. *)
LEMMA CloseOne ==
  ASSUME IInv, NEW s \in Slots, conn' = [conn EXCEPT ![s].closed = TRUE]
  PROVE  /\ \A x \in Slots \ {s} : conn'[x] = conn[x]
         /\ conn'[s].closed /\ conn'[s].refs = conn[s].refs
         /\ conn'[s].finalized = conn[s].finalized
         /\ conn'[s].registered = conn[s].registered
BY OwnTypes DEF Conn

(* A pool thread takes a slot from the free stack, keeps it to itself      *)
(* until it is linked, and rolls back only what it has unlinked itself.    *)
LEMMA HandoffOwn ==
  ASSUME IInv, StopInv, LoopInv, OwnInv, NEW h \in Handoffs, Handoff(h)
  PROVE  OwnInv'
<1> SUFFICES ASSUME server_running'
             PROVE  Apart' /\ Somewhere' /\ Fields' /\ Served'
  BY DEF OwnInv
<1> USE OwnTypes DEF Goto, quitVars, slotVars, listVars, thrVars, loopVars
<1>1. server_running /\ Apart /\ Somewhere /\ Fields /\ Served
  BY HandoffKeeps DEF OwnInv, server_running
<1>2. /\ \A t \in Threads \ {h} : pc'[t] = pc[t] /\ my'[t] = my[t]
      /\ \A w \in Workers : Pending(w)' = Pending(w)
      /\ UNCHANGED <<cur, visit>>
  BY HandoffKeeps
<1>3. \A w \in Workers : /\ pc'[w] = pc[w] /\ visit[w] \subseteq list[w]
                         /\ pc[w] = "proc" => cur[w].ev.slot \in list[w]
  BY <1>1, <1>2 DEF Served
<1> DEFINE s == my[h]
           v == target[h]
<1>4. pc[h] \in HasConnPc =>
        /\ s \in Slots
        /\ \A u \in Threads \ {h} : my[u] # s
        /\ \A w \in Workers : s \notin Pending(w)
        /\ free[s] = 0
  <2>1. pc[h] \in HasConnPc => s \in Slots
    BY <1>1 DEF IInv, LocalsOK
  <2>2. s \in Slots =>
          /\ \A u \in Threads \ {h} : my[u] # s
          /\ \A w \in Workers : s \notin Pending(w)
          /\ free[s] = 0
    BY <1>1 DEF Apart
  <2> QED BY ONLY <2>1, <2>2
<1>5. pc[h] \in HasConnPc \ {"added", "stamp"} => \A w \in Workers : s \notin list[w]
  BY <1>1 DEF Apart
<1>6. pc[h] \in {"lock", "added", "stamp"} => v \in Workers
  BY DEF IInv, LocalsOK
(* What is common to the steps that write no registration. *)
<1>7. ASSUME UNCHANGED <<gen, armed, list>>, Somewhere',
             pc'[h] \notin {"added", "stamp"},
             \A t \in Handoffs \ {h} : target'[t] = target[t],
             \A w \in Workers : \A x \in list[w] :
               conn'[x].registered = conn[x].registered
      PROVE  Served'
  <2>1. \A x \in Slots, b \in BOOLEAN : Stamp(x, b)' = Stamp(x, b)
    BY <1>7 DEF Stamp
  <2> QED BY <1>1, <1>2, <1>3, <1>7, <2>1, ServedFrame
<1>8. ASSUME pc[h] \notin HasConnPc, pc'[h] \notin HasConnPc,
             UNCHANGED <<free, my, list, target, conn, slot_state, gen, armed>>
      PROVE  Apart' /\ Somewhere' /\ Fields' /\ Served'
  <2>1. SamePlaces /\ SameHolders
    BY <1>2, <1>8 DEF SamePlaces, SameHolders, HasConnPc
  <2>2. Apart' /\ Somewhere' /\ Fields'
    BY <1>1, <1>8, <2>1, SameOwners, SameFields
  <2>3. Served'
    BY <1>7, <1>8, <2>2 DEF HasConnPc
  <2> QED BY <2>2, <2>3
<1>9. CASE Reserve(h) \/ Unreserve(h) \/ Connected(h) \/ SlotsExhausted(h)
  BY <1>8, <1>9 DEF Reserve, Unreserve, Connected, SlotsExhausted, HasConnPc, FinalizePc
<1>10. CASE SlotAcquire(h)
  <2>1. PICK n \in Slots : /\ free[n] > 0
                           /\ free' = [free EXCEPT ![n] = @ - 1]
                           /\ gen' = [gen EXCEPT ![n] = @ + 1]
                           /\ my' = [my EXCEPT ![h] = n]
    BY <1>10 DEF SlotAcquire, OnFreeStack, NextGen
  <2>2. /\ pc[h] = "acquire" /\ pc' = [pc EXCEPT ![h] = "memset"]
        /\ UNCHANGED <<slot_state, conn, list, armed, target>>
    BY <1>10 DEF SlotAcquire
  <2>3. /\ free'[n] = 0 /\ \A x \in Slots \ {n} : free'[x] = free[x]
        /\ my'[h] = n /\ pc'[h] = "memset"
        /\ \A t \in Threads : my[t] # n
        /\ \A w \in Workers : n \notin list[w] /\ n \notin Pending(w)
        /\ my[h] = NoSlot
    <3>1. my[h] = NoSlot
      BY <2>2 DEF LoopInv, HasConnPc, FinalizePc
    <3>2. free[n] = 1 /\ \A t \in Threads : my[t] # n
      BY <1>1, <2>1 DEF Apart
    <3>3. \A w \in Workers : n \notin list[w] /\ n \notin Pending(w)
      BY <1>1, <2>1 DEF Apart
    <3> QED BY <2>1, <2>2, <3>1, <3>2, <3>3
  <2>4. Apart'
    <3>1. \A x \in Slots : /\ free'[x] <= 1
                           /\ free'[x] > 0 => x # n /\ free[x] > 0
      BY <1>1, <2>3 DEF Apart
    <3>2. \A x \in Slots : free'[x] > 0 =>
            /\ \A t \in Threads : my'[t] # x
            /\ \A w \in Workers : x \notin list'[w] /\ x \notin Pending(w)'
      BY <1>1, <1>2, <2>2, <2>3, <3>1 DEF Apart
    <3>3. \A t, u \in Threads : my'[t] \in Slots /\ my'[t] = my'[u] => t = u
      BY <1>1, <1>2, <2>3 DEF Apart
    <3>4. \A t \in Threads, w \in Workers :
            /\ my'[t] \notin Pending(w)'
            /\ my'[t] \in list'[w] => /\ t \in Handoffs /\ pc'[t] \in {"added", "stamp"}
                                     /\ target'[t] = w
      BY <1>1, <1>2, <2>2, <2>3 DEF Apart
    <3> QED BY <1>1, <1>2, <2>2, <3>1, <3>2, <3>3, <3>4 DEF Apart
  <2>5. Somewhere'
    <3>1. ASSUME NEW x \in Slots
          PROVE  \/ free'[x] > 0
                 \/ \E u \in Threads : my'[u] = x
                 \/ \E w \in Workers : x \in list'[w] \/ x \in Pending(w)'
      <4>1. CASE x = n
        BY <2>3, <4>1
      <4>2. CASE x # n /\ \E u \in Threads : my[u] = x
        BY <1>2, <2>3, <4>2
      <4>3. CASE x # n /\ ~\E u \in Threads : my[u] = x
        BY <1>1, <1>2, <2>2, <2>3, <4>3 DEF Somewhere
      <4> QED BY <4>1, <4>2, <4>3
    <3>2. \A t \in Handoffs : pc'[t] \in {"added", "stamp"} =>
            pc[t] = pc'[t] /\ my[t] = my'[t]
      BY <1>2, <2>3
    <3> QED BY <1>1, <2>2, <3>1, <3>2 DEF Somewhere
  <2>6. Fields'
    <3>1. OnlySlot(n, h)
      BY <1>2, <2>2, <2>3 DEF OnlySlot
    <3>2. Spent(n) /\ ~conn[n].magic
      BY <1>1, <2>1 DEF Fields
    <3>3. Spent(my[h])' /\ ~conn'[my'[h]].magic
      BY <2>2, <2>3, <3>2 DEF Spent
    <3> QED BY <1>1, <1>2, <2>2, <2>3, <3>1, <3>3, FieldsStep, SMTT(30) DEF FinalizePc
  <2>7. Served'
    <3>1. \A x \in Slots \ {n}, b \in BOOLEAN : Stamp(x, b)' = Stamp(x, b)
      BY <2>1 DEF Stamp
    <3>2. \A w \in Workers : \A x \in list[w] : x \in Slots \ {n}
      BY <2>3
    <3> QED BY <1>1, <1>2, <1>3, <2>2, <2>3, <2>5, <3>1, <3>2, ServedFrame
  <2> QED BY <2>4, <2>5, <2>6, <2>7
<1>11. CASE SlotReset(h)
  <2>1. /\ pc[h] = "memset" /\ pc' = [pc EXCEPT ![h] = "init"]
        /\ UNCHANGED <<free, gen, list, armed, my, target>>
        /\ conn' = [conn EXCEPT ![s] = Zeroed]
        /\ slot_state' = [slot_state EXCEPT ![s] = TRUE]
    BY <1>11 DEF SlotReset
  <2>2. /\ s \in Slots /\ pc'[h] = "init" /\ \A w \in Workers : s \notin list[w]
        /\ \A x \in Slots \ {s} : conn'[x] = conn[x] /\ slot_state'[x] = slot_state[x]
        /\ conn'[s].refs = 0 /\ ~conn'[s].magic /\ slot_state'[s]
    BY <1>4, <1>5, <2>1 DEF HasConnPc, Zeroed
  <2>3. SamePlaces
    BY <1>2, <2>1, <2>2 DEF SamePlaces
  <2>4. Apart' /\ Somewhere'
    BY <1>1, <2>3, SameOwners
  <2>5. Fields'
    <3>1. OnlySlot(s, h)
      BY <1>2, <1>4, <2>1, <2>2 DEF OnlySlot, HasConnPc
    <3>2. Spent(my[h])' /\ ~conn'[my'[h]].magic
      BY <2>1, <2>2 DEF Spent
    <3> QED BY <1>1, <1>2, <1>4, <2>1, <2>2, <3>1, <3>2, FieldsStep, SMTT(30)
               DEF FinalizePc, HasConnPc
  <2>6. Served'
    BY <1>7, <2>1, <2>2, <2>4
  <2> QED BY <2>4, <2>5, <2>6
<1>12. CASE HandoffInit(h)
  <2>1. PICK w \in Workers :
          /\ target' = [target EXCEPT ![h] = w]
          /\ conn' = [conn EXCEPT ![s] =
                       [magic |-> TRUE, widx |-> w, refs |-> BaseRefs,
                        finalized |-> FALSE, registered |-> FALSE, closed |-> FALSE]]
    BY <1>12 DEF HandoffInit
  <2>2. /\ pc[h] = "init" /\ pc' = [pc EXCEPT ![h] = "lock"]
        /\ UNCHANGED <<free, gen, list, armed, my, slot_state>>
    BY <1>12 DEF HandoffInit
  <2>3. /\ s \in Slots /\ pc'[h] = "lock" /\ \A u \in Workers : s \notin list[u]
        /\ \A x \in Slots \ {s} : conn'[x] = conn[x]
        /\ conn'[s].refs = 1 /\ ~conn'[s].finalized /\ ~conn'[s].registered
        /\ conn'[s].magic /\ ~conn'[s].closed /\ conn'[s].widx = w /\ target'[h] = w
        /\ \A t \in Handoffs \ {h} : target'[t] = target[t]
    BY <1>4, <1>5, <2>1, <2>2 DEF HasConnPc, BaseRefs
  <2>4. SamePlaces
    BY <1>2, <2>2, <2>3 DEF SamePlaces
  <2>5. Apart' /\ Somewhere'
    BY <1>1, <2>4, SameOwners
  <2>6. Fields'
    <3>1. OnlySlot(s, h)
      BY <1>2, <1>4, <2>2, <2>3 DEF OnlySlot, HasConnPc
    <3>2. Fresh(my[h])' /\ Linked(my[h], target[h])'
      BY <1>1, <2>2, <2>3 DEF Fields, Fresh, Linked
    <3> QED BY <1>1, <1>2, <1>4, <2>2, <2>3, <3>1, <3>2, FieldsStep, SMTT(30)
               DEF FinalizePc, HasConnPc
  <2>7. Served'
    BY <1>7, <2>2, <2>3, <2>5
  <2> QED BY <2>5, <2>6, <2>7
<1>13. CASE HandoffNoBuffer(h) \/ HandoffRollback(h)
  <2>1. /\ pc[h] \in {"lock", "rollback"} /\ Unref(h, s, "idle")
        /\ UNCHANGED <<free, gen, list, armed, target, slot_state>>
    BY <1>13 DEF HandoffNoBuffer, HandoffRollback
  <2>2. s \in Slots /\ Fresh(s) /\ \A w \in Workers : s \notin list[w]
    BY <1>1, <1>4, <1>5, <2>1 DEF Fields, HasConnPc
  <2>3. /\ pc' = [pc EXCEPT ![h] = "unlink"] /\ my' = [my EXCEPT ![h] = s]
        /\ \A x \in Slots \ {s} : conn'[x] = conn[x]
        /\ conn'[s].refs = 0 /\ ~conn'[s].registered
    BY <2>1, <2>2, UnrefLast DEF Fresh
  <2>4. pc'[h] = "unlink" /\ my' = my
    BY <2>3
  <2>5. SamePlaces
    BY <1>2, <2>1, <2>4 DEF SamePlaces
  <2>6. Apart' /\ Somewhere'
    BY <1>1, <2>5, SameOwners
  <2>7. Fields'
    <3>1. OnlySlot(s, h)
      BY <1>2, <1>4, <2>1, <2>3, <2>4 DEF OnlySlot, HasConnPc
    <3>2. Spent(my[h])' /\ ~conn'[my'[h]].registered
      BY <2>3, <2>4 DEF Spent
    <3>3. free'[s] = 0 /\ \A w \in Workers : s \notin list'[w] /\ s \notin Pending(w)'
      BY <1>2, <1>4, <2>1, <2>2 DEF HasConnPc
    <3> QED BY <1>1, <2>2, <2>4, <3>1, <3>2, <3>3, FieldsStep, SMTT(30) DEF FinalizePc
  <2>8. Served'
    BY <1>7, <2>1, <2>2, <2>3, <2>4, <2>6
  <2> QED BY <2>6, <2>7, <2>8
<1>14. CASE HandoffRefused(h)
  BY <1>1, <1>6, <1>14 DEF HandoffRefused, LoopInv
<1>15. CASE HandoffLink(h)
  <2>1. /\ pc[h] = "lock" /\ pc' = [pc EXCEPT ![h] = "added"]
        /\ UNCHANGED <<free, gen, conn, slot_state, my, target>>
        /\ list' = [list EXCEPT ![v] = @ \cup {s}]
        /\ armed' = [armed EXCEPT ![v] = @ \cup {Stamp(s, FALSE)}]
    BY <1>15 DEF HandoffLink, Stamp
  <2>2. /\ s \in Slots /\ v \in Workers /\ pc'[h] = "added"
        /\ \A w \in Workers : s \notin list[w]
        /\ list'[v] = list[v] \cup {s} /\ \A w \in Workers \ {v} : list'[w] = list[w]
        /\ Stamp(s, FALSE) \in armed'[v]
        /\ \A w \in Workers : armed[w] \subseteq armed'[w]
    BY <1>4, <1>5, <1>6, <2>1 DEF HasConnPc
  <2>3. Apart'
    BY <1>1, <1>2, <1>4, <2>1, <2>2 DEF Apart, HasConnPc
  <2>4. Somewhere'
    BY <1>1, <1>2, <2>1, <2>2, SMTT(30) DEF Somewhere
  <2>5. Fields'
    <3>1. OnlySlot(s, h)
      BY <1>2, <1>4, <2>1, <2>2 DEF OnlySlot, HasConnPc
    <3>2. Fresh(s) /\ Linked(s, v)
      BY <1>1, <2>1 DEF Fields
    <3>3. /\ ~conn'[my'[h]].registered
          /\ \A w \in Workers : s \in list'[w] => Linked(s, w)'
      BY <2>1, <2>2, <3>2 DEF Fresh, Linked
    <3> QED BY <1>1, <1>2, <1>4, <2>1, <2>2, <3>1, <3>3, FieldsStep, SMTT(30)
               DEF FinalizePc, HasConnPc
  <2>6. Served'
    <3>1. \A x \in Slots, b \in BOOLEAN : Stamp(x, b)' = Stamp(x, b)
      BY <2>1 DEF Stamp
    <3>2. \A w \in Workers : s \notin visit[w] /\ visit'[w] \subseteq list'[w]
      BY <1>2, <1>3, <2>2
    <3>3. /\ my'[h] \notin visit'[target'[h]]
          /\ Stamp(my[h], FALSE)' \in armed'[target'[h]]
      BY <1>2, <2>1, <2>2, <3>2 DEF Stamp
    <3>4. ~conn[s].registered
      BY <1>1, <2>1 DEF Fields, Fresh
    <3>5. \A w \in Workers : pc'[w] = "proc" => /\ cur'[w].ev.slot \in list'[w]
                                               /\ conn'[cur'[w].ev.slot].registered
      BY <1>1, <1>2, <1>3, <2>1, <2>2 DEF Served
    <3>6. \A w \in Workers : list'[w] \ {s} \subseteq list[w]
      BY <2>2
    <3>7. ServesSlot(s, h)
      BY <1>2, <2>1, <2>2, <3>2, <3>5, <3>6 DEF ServesSlot
    <3> QED BY <1>1, <2>1, <2>2, <3>3, <3>4, <3>7, ServedStep
  <2> QED BY <2>3, <2>4, <2>5, <2>6
<1>16. CASE HandoffLinkFails(h)
  <2>1. /\ pc[h] = "lock" /\ pc' = [pc EXCEPT ![h] = "rollback"]
        /\ UNCHANGED <<free, gen, list, armed, my, target, slot_state>>
        /\ conn' = [conn EXCEPT ![s].closed = TRUE]
    BY <1>16 DEF HandoffLinkFails
  <2>2. /\ s \in Slots /\ Fresh(s) /\ pc'[h] = "rollback"
        /\ \A w \in Workers : s \notin list[w]
    BY <1>1, <1>4, <1>5, <2>1 DEF Fields, HasConnPc
  <2>3. \A x \in Slots \ {s} : conn'[x] = conn[x]
    BY <2>1, <2>2, CloseOne
  <2>4. SamePlaces
    BY <1>2, <2>1, <2>2 DEF SamePlaces
  <2>5. Apart' /\ Somewhere'
    BY <1>1, <2>4, SameOwners
  <2>6. Fields'
    <3>1. OnlySlot(s, h)
      BY <1>2, <1>4, <2>1, <2>3 DEF OnlySlot, HasConnPc
    <3>2. Fresh(my[h])'
      BY <2>1, <2>2, CloseOne DEF Fresh
    <3> QED BY <1>1, <1>2, <1>4, <2>1, <2>2, <3>1, <3>2, FieldsStep, SMTT(30)
               DEF FinalizePc, HasConnPc
  <2>7. Served'
    BY <1>7, <2>1, <2>2, <2>3, <2>5
  <2> QED BY <2>5, <2>6, <2>7
<1>17. CASE HandoffAddTarget(h)
  <2>1. pc[h] = "added" /\ UNCHANGED <<free, gen, slot_state, my, target>>
    BY <1>17 DEF HandoffAddTarget
  <2>2. /\ s \in Slots /\ v \in Workers /\ s \in list[v] /\ s \notin visit[v]
        /\ Linked(s, v) /\ ~conn[s].registered /\ Stamp(s, FALSE) \in armed[v]
        /\ \A w \in Workers \ {v} : s \notin list[w]
    <3>1. s \in Slots /\ v \in Workers
      BY <1>4, <1>6, <2>1 DEF HasConnPc
    <3>2. s \in list[v]
      BY <1>1, <2>1 DEF Somewhere
    <3>3. s \notin visit[v] /\ Stamp(s, FALSE) \in armed[v]
      BY <1>1, <2>1 DEF Served
    <3>4. Linked(s, v) /\ ~conn[s].registered
      BY <1>1, <2>1, <3>1, <3>2 DEF Fields
    <3>5. \A w \in Workers \ {v} : s \notin list[w]
      BY <1>1, <3>1, <3>2 DEF Apart
    <3> QED BY <3>1, <3>2, <3>3, <3>4, <3>5
  <2>3. \A x \in Slots, b \in BOOLEAN : Stamp(x, b)' = Stamp(x, b)
    BY <2>1 DEF Stamp
  <2>4. CASE /\ armed' = [armed EXCEPT ![v] = @ \cup {Stamp(s, TRUE)}]
             /\ pc' = [pc EXCEPT ![h] = "stamp"]
             /\ UNCHANGED <<list, conn>>
    <3>1. SamePlaces
      BY <1>2, <2>1, <2>4 DEF SamePlaces
    <3>2. Apart' /\ Somewhere'
      BY <1>1, <3>1, SameOwners
    <3>3. Fields'
      <4>1. OnlySlot(s, h)
        BY <1>2, <1>4, <2>1, <2>4 DEF OnlySlot, HasConnPc
      <4>2. \A w \in Workers : s \in list'[w] => Linked(s, w)'
        BY <2>1, <2>2, <2>4 DEF Linked
      <4> QED BY <1>1, <1>2, <1>4, <2>1, <2>2, <2>4, <4>1, <4>2, FieldsStep
              DEF FinalizePc, HasConnPc
    <3>4. Served'
      <4>1. \A w \in Workers : armed[w] \subseteq armed'[w]
        BY <2>4
      <4>2. Stamp(s, TRUE) \in armed'[v] /\ pc'[h] = "stamp" /\ my'[h] = s /\ target'[h] = v
        BY <2>1, <2>2, <2>4
      <4>3. Stamp(my[h], FALSE)' \in armed'[target'[h]] /\ Stamp(my[h], TRUE)' \in armed'[target'[h]]
        BY <2>1, <2>2, <4>1, <4>2 DEF Stamp
      <4>4. \A w \in Workers : /\ visit'[w] \subseteq list'[w]
                               /\ pc'[w] = "proc" => /\ cur'[w].ev.slot \in list'[w]
                                                     /\ conn'[cur'[w].ev.slot].registered
        BY <1>1, <1>2, <1>3, <2>4 DEF Served
      <4>5. ServesSlot(s, h)
        BY <1>2, <2>1, <2>4, <4>1, <4>4 DEF ServesSlot
      <4> QED BY <1>1, <2>2, <2>4, <4>2, <4>3, <4>5, ServedStep
    <3> QED BY <3>2, <3>3, <3>4
  <2>5. CASE /\ conn' = [conn EXCEPT ![s].closed = TRUE]
             /\ list' = [list EXCEPT ![v] = ListRemove(@, s)]
             /\ pc' = [pc EXCEPT ![h] = "rollback"]
             /\ UNCHANGED armed
    <3>1. /\ list'[v] = list[v] \ {s} /\ \A w \in Workers \ {v} : list'[w] = list[w]
          /\ pc'[h] = "rollback"
      BY <2>2, <2>5 DEF ListRemove
    <3>2. \A w \in Workers : s \notin list'[w] /\ list'[w] \subseteq list[w]
      BY <2>2, <3>1
    <3>3. Apart'
      <4>1. \A t \in Threads, w \in Workers :
              my[t] \in list'[w] => t # h /\ my[t] \in list[w]
        BY <3>2
      <4>2. \A t \in Threads, w \in Workers :
              my'[t] \in list'[w] => /\ t \in Handoffs /\ pc'[t] \in {"added", "stamp"}
                                     /\ target'[t] = w
        BY <1>1, <1>2, <2>1, <4>1 DEF Apart
      <4>3. \A x \in Slots, w \in Workers : x \notin list[w] => x \notin list'[w]
        BY <3>2
      <4>4. \A u, w \in Workers : /\ list'[u] \cap Pending(w)' = {}
                                  /\ u # w => list'[u] \cap list'[w] = {}
        BY <1>1, <1>2, <3>2 DEF Apart
      <4> QED BY <1>1, <1>2, <2>1, <4>2, <4>3, <4>4 DEF Apart
    <3>4. Somewhere'
      <4>1. ASSUME NEW x \in Slots
            PROVE  \/ free'[x] > 0
                   \/ \E u \in Threads : my'[u] = x
                   \/ \E w \in Workers : x \in list'[w] \/ x \in Pending(w)'
        <5>1. CASE x = s
          BY <2>1, <5>1
        <5>2. CASE x # s
          <6>1. \A w \in Workers : x \in list[w] => x \in list'[w]
            BY <3>1, <5>2
          <6> QED BY <1>1, <1>2, <2>1, <6>1 DEF Somewhere
        <5> QED BY <5>1, <5>2
      <4>2. ASSUME NEW t \in Handoffs, pc'[t] \in {"added", "stamp"}
            PROVE  my'[t] \in list'[target'[t]]
        <5>1. t # h /\ pc[t] = pc'[t] /\ my[t] = my'[t] /\ target'[t] = target[t]
          BY <1>2, <2>1, <3>1, <4>2
        <5>2. target[t] \in Workers /\ my[t] # s /\ my[t] \in list[target[t]]
          BY <1>1, <1>4, <2>1, <4>2, <5>1 DEF IInv, LocalsOK, Somewhere, HasConnPc
        <5> QED BY <3>1, <5>1, <5>2
      <4> QED BY <4>1, <4>2 DEF Somewhere
    <3>5. \A x \in Slots : conn'[x].registered = conn[x].registered
      BY <2>2, <2>5, CloseOne
    <3>6. Fields'
      <4>1. OnlySlot(s, h)
        BY <1>2, <1>4, <2>1, <2>2, <2>5, <3>2, CloseOne DEF OnlySlot, HasConnPc
      <4>2. Fresh(my[h])'
        BY <2>1, <2>2, <2>5, CloseOne DEF Fresh, Linked
      <4> QED BY <1>1, <1>2, <1>4, <2>1, <2>2, <3>1, <3>2, <4>1, <4>2, FieldsStep
              DEF FinalizePc, HasConnPc
    <3>7. Served'
      <4>1. \A w \in Workers : visit[w] \subseteq list'[w]
        BY <1>3, <2>2, <3>1
      <4>2. \A w \in Workers : pc[w] = "proc" => cur[w].ev.slot \in list'[w]
        BY <1>1, <1>3, <2>2, <3>1 DEF Served
      <4> QED BY <1>1, <1>2, <1>3, <2>1, <2>3, <2>5, <3>1, <3>2, <3>4, <3>5, <4>1,
                 <4>2, ServedFrame
    <3> QED BY <3>3, <3>4, <3>6, <3>7
  <2> QED BY <1>17, <2>4, <2>5 DEF HandoffAddTarget, Stamp
<1>18. CASE HandoffDone(h)
  <2>1. /\ pc[h] = "stamp" /\ pc' = [pc EXCEPT ![h] = "idle"]
        /\ UNCHANGED <<free, gen, slot_state, list, armed, target>>
        /\ conn' = [conn EXCEPT ![s].registered = TRUE]
        /\ my' = [my EXCEPT ![h] = NoSlot]
    BY <1>18 DEF HandoffDone
  <2>2. /\ s \in Slots /\ v \in Workers /\ s \in list[v] /\ Linked(s, v)
        /\ BothArmed(s, v)
        /\ \A w \in Workers \ {v} : s \notin list[w]
    <3>1. s \in Slots /\ v \in Workers
      BY <1>4, <1>6, <2>1 DEF HasConnPc
    <3>2. s \in list[v]
      BY <1>1, <2>1 DEF Somewhere
    <3>3. BothArmed(s, v)
      BY <1>1, <2>1 DEF Served
    <3>4. Linked(s, v)
      BY <1>1, <3>1, <3>2 DEF Fields
    <3>5. \A w \in Workers \ {v} : s \notin list[w]
      BY <1>1, <3>1, <3>2 DEF Apart
    <3> QED BY <3>1, <3>2, <3>3, <3>4, <3>5
  <2>3. /\ pc'[h] = "idle" /\ my'[h] = NoSlot
        /\ \A x \in Slots \ {s} : conn'[x] = conn[x]
        /\ conn'[s].registered /\ conn'[s].refs = 1 /\ ~conn'[s].finalized
        /\ conn'[s].magic /\ ~conn'[s].closed /\ conn'[s].widx = v /\ slot_state[s]
    <3>1. conn' = [conn EXCEPT ![s] = [conn[s] EXCEPT !.registered = TRUE]]
      BY <2>1
    <3>2. conn'[s] = [conn[s] EXCEPT !.registered = TRUE] /\ conn[s] \in Conn
      BY <2>2, <3>1
    <3>3. /\ conn'[s].registered /\ conn'[s].refs = conn[s].refs
          /\ conn'[s].finalized = conn[s].finalized /\ conn'[s].magic = conn[s].magic
          /\ conn'[s].closed = conn[s].closed /\ conn'[s].widx = conn[s].widx
      BY <3>2 DEF Conn
    <3> QED BY <2>1, <2>2, <3>1, <3>3 DEF Linked
  <2>4. Apart'
    BY <1>1, <1>2, <2>1, <2>3 DEF Apart
  <2>5. Somewhere'
    <3>1. ASSUME NEW x \in Slots
          PROVE  \/ free'[x] > 0
                 \/ \E u \in Threads : my'[u] = x
                 \/ \E w \in Workers : x \in list'[w] \/ x \in Pending(w)'
      <4>1. CASE x = s
        BY <2>1, <2>2, <4>1
      <4>2. CASE x # s
        BY <1>1, <1>2, <2>1, <4>2 DEF Somewhere
      <4> QED BY <4>1, <4>2
    <3>2. \A t \in Handoffs : pc'[t] \in {"added", "stamp"} =>
            t # h /\ pc[t] = pc'[t] /\ my[t] = my'[t]
      BY <1>2, <2>3
    <3> QED BY <1>1, <2>1, <3>1, <3>2 DEF Somewhere
  <2>6. Fields'
    <3>1. OnlySlot(s, h)
      BY <1>2, <1>4, <2>1, <2>3 DEF OnlySlot, HasConnPc
    <3>2. PICK x \in Slots : x = s
      BY <2>2
    <3>3. \A w \in Workers : x \in list'[w] => Linked(x, w)'
      BY <2>1, <2>2, <2>3, <3>2 DEF Linked
    <3>4. OnlySlot(x, h) /\ free'[x] = 0 /\ \A w \in Workers : x \notin Pending(w)'
      BY <1>2, <1>4, <2>1, <3>1, <3>2 DEF HasConnPc
    <3> QED BY <1>1, <2>3, <3>3, <3>4, FieldsStep, SMTT(30) DEF FinalizePc
  <2>7. Served'
    <3>2. \A w \in Workers : pc[w] = "proc" =>
            conn[cur[w].ev.slot].registered /\ cur[w].ev.slot \in Slots
      BY <1>1, <1>3 DEF Served
    <3>3. \A w \in Workers : /\ visit'[w] \subseteq list'[w]
                             /\ pc'[w] = "proc" => /\ cur'[w].ev.slot \in list'[w]
                                                   /\ conn'[cur'[w].ev.slot].registered
      BY <1>2, <1>3, <2>1, <2>3, <3>2
    <3>4. ServesSlot(s, h)
      BY <1>2, <2>1, <2>3, <3>3 DEF ServesSlot
    <3> QED BY <1>1, <2>1, <2>2, <2>3, <3>4, ServedStep DEF BothArmed
  <2> QED BY <2>4, <2>5, <2>6, <2>7
<1> QED BY <1>9, <1>10, <1>11, <1>12, <1>13, <1>14, <1>15, <1>16, <1>17, <1>18
           DEF Handoff


(* A worker moves only what its own loop holds. *)
LEMMA WorkerKeeps ==
  ASSUME IInv, NEW w \in Workers, Worker(w)
  PROVE  /\ UNCHANGED <<quitPc, free, gen, slot_state, target>>
         /\ \A t \in Threads \ {w} : pc'[t] = pc[t] /\ my'[t] = my[t]
         /\ \A v \in Workers \ {w} :
              /\ Pending(v)' = Pending(v) /\ At(v)' = At(v)
              /\ visit'[v] = visit[v] /\ list'[v] = list[v] /\ cur'[v] = cur[v]
<1> USE DEF Goto, quitVars, slotVars, listVars, thrVars, loopVars
<1>1. UNCHANGED <<quitPc, free, gen, slot_state, target>>
  BY DEF Worker, LoopTest, EpollWait, PipeEvent, ReadGen, CheckSlot, Forward,
         FatalError, SkipSweep, SweepStart, SweepKeep, SweepCollect, SweepResume,
         SweepEnd, UnrefNext, GcDone, ExitWorker, DrainBatch, DrainAgain, CloseEpoll
<1>2. /\ pc' = pc \/ \E l : pc' = [pc EXCEPT ![w] = l]
      /\ my' = my \/ \E s : my' = [my EXCEPT ![w] = s]
      /\ ret' = ret \/ \E r : ret' = [ret EXCEPT ![w] = r]
  <2>1. CASE UnrefNext(w)
    <3>1. PICK s \in todo[w] : Unref(w, s, pc[w])
      BY <2>1 DEF UnrefNext
    <3> QED BY <3>1, UnrefThread
  <2>2. CASE SweepCollect(w)
    BY <2>2 DEF SweepCollect
  <2>3. CASE CheckSlot(w)
    BY <2>3 DEF CheckSlot
  <2>4. CASE ~(UnrefNext(w) \/ SweepCollect(w) \/ CheckSlot(w))
    BY <2>4
       DEF Worker, LoopTest, EpollWait, PipeEvent, ReadGen, Forward,
           FatalError, SkipSweep, SweepStart, SweepKeep, SweepResume,
           SweepEnd, GcDone, ExitWorker, DrainBatch, DrainAgain, CloseEpoll
  <2> QED BY <2>1, <2>2, <2>3, <2>4
<1>3. /\ list' = list \/ \E l : list' = [list EXCEPT ![w] = l]
      /\ visit' = visit \/ \E l : visit' = [visit EXCEPT ![w] = l]
      /\ cur' = cur \/ \E l : cur' = [cur EXCEPT ![w] = l]
      /\ todo' = todo \/ \E l : todo' = [todo EXCEPT ![w] = l]
      /\ garbage' = garbage \/ \E l : garbage' = [garbage EXCEPT ![w] = l]
  <2>1. CASE SweepCollect(w)
    BY <2>1 DEF SweepCollect
  <2>2. CASE FatalError(w)
    BY <2>2 DEF FatalError
  <2>3. CASE DrainBatch(w)
    BY <2>3 DEF DrainBatch
  <2>4. CASE ~(SweepCollect(w) \/ FatalError(w) \/ DrainBatch(w))
    BY <2>4
       DEF Worker, LoopTest, EpollWait, PipeEvent, ReadGen, CheckSlot, Forward,
           SkipSweep, SweepStart, SweepKeep, SweepResume,
           SweepEnd, UnrefNext, GcDone, ExitWorker, DrainAgain, CloseEpoll
  <2> QED BY <2>1, <2>2, <2>3, <2>4
<1>4. \A t \in Threads \ {w} : pc'[t] = pc[t] /\ my'[t] = my[t] /\ ret'[t] = ret[t]
  BY <1>2, OwnTypes
<1>5. cur \in [Workers -> [ev : Event \cup {NoEvent}, same : BOOLEAN]]
  BY DEF IInv, TypeOK, LoopTypes
<1>6. \A v \in Workers \ {w} :
        /\ visit'[v] = visit[v] /\ list'[v] = list[v] /\ cur'[v] = cur[v]
        /\ todo'[v] = todo[v] /\ garbage'[v] = garbage[v]
  BY <1>3, <1>5, OwnTypes
<1>7. \A v \in Workers \ {w} : At(v)' = At(v)
  BY <1>4, OwnTypes DEF At
<1> QED BY <1>1, <1>4, <1>6, <1>7, PendingFrame

(* Outside the sweep no entry is left to look at. *)
VisitInv == \A w \in Workers : At(w) \notin {"sweep", "flush"} => visit[w] = {}

(* The sweep looks at every entry before it goes on. *)
LEMMA NextVisit == IInv /\ VisitInv /\ [Next]_vars => VisitInv'
<1> SUFFICES ASSUME IInv, VisitInv, [Next]_vars
             PROVE  VisitInv'
  OBVIOUS
<1> USE OwnTypes DEF Goto, quitVars, slotVars, listVars, thrVars, loopVars
<1>1. ASSUME NEW t \in Threads, Finalize(t)
      PROVE  VisitInv'
  BY <1>1, FinalizeKeeps DEF VisitInv
<1>2. ASSUME NEW h \in Handoffs, Handoff(h)
      PROVE  VisitInv'
  BY <1>2, HandoffKeeps DEF VisitInv
<1>3. ASSUME NEW w \in Workers, Worker(w)
      PROVE  VisitInv'
  <2>1. CASE SweepStart(w) \/ SweepKeep(w) \/ SweepCollect(w) \/ SweepResume(w)
    <3>1. pc'[w] \in {"sweep", "flush"}
      BY <2>1 DEF SweepStart, SweepKeep, SweepCollect, SweepResume
    <3>2. At(w)' \in {"sweep", "flush"}
      BY <3>1 DEF At, FinalizePc
    <3> QED BY <1>3, <3>2, WorkerKeeps DEF VisitInv
  <2>2. CASE UnrefNext(w)
    <3>1. pc[w] \in UnrefPc /\ visit' = visit /\ \E s \in todo[w] : Unref(w, s, pc[w])
      BY <2>2 DEF UnrefNext
    <3>2. At(w)' = At(w)
      BY <3>1, UnrefThread DEF At, UnrefPc, FinalizePc
    <3> QED BY <1>3, <3>1, <3>2, WorkerKeeps DEF VisitInv
  <2>3. CASE SweepEnd(w)
    <3>1. visit[w] = {} /\ visit' = visit
      BY <2>3 DEF SweepEnd
    <3> QED BY <1>3, <3>1, WorkerKeeps DEF VisitInv
  <2>4. CASE ~(SweepStart(w) \/ SweepKeep(w) \/ SweepCollect(w) \/ SweepResume(w)
               \/ UnrefNext(w) \/ SweepEnd(w))
    <3>1. pc[w] \notin {"sweep", "flush"} \cup FinalizePc /\ visit' = visit
      BY <1>3, <2>4
         DEF Worker, LoopTest, EpollWait, PipeEvent, ReadGen, CheckSlot, Forward,
             FatalError, SkipSweep, BatchDone, GcDone, ExitWorker, DrainBatch,
             DrainAgain, CloseEpoll, FinalizePc
    <3>2. visit[w] = {}
      BY <3>1 DEF VisitInv, At
    <3> QED BY <1>3, <3>1, <3>2, WorkerKeeps DEF VisitInv
  <2> QED BY <2>1, <2>2, <2>3, <2>4
<1>4. ASSUME QuitFlag \/ QuitWake \/ QuitPool \/ QuitJoin \/ UNCHANGED vars
      PROVE  VisitInv'
  BY <1>4 DEF VisitInv, At, QuitFlag, QuitWake, QuitPool, QuitJoin, QuitStep, vars
<1> QED BY <1>1, <1>2, <1>3, <1>4 DEF Next

(* A worker unlinks only connections that are on its list, collects each   *)
(* in its bucket and unrefs it once; what it processes it has linked.      *)
LEMMA WorkerOwn ==
  ASSUME IInv, StopInv, LoopInv, GenInv, VisitInv, OwnInv,
         NEW w \in Workers, Worker(w)
  PROVE  OwnInv'
<1> SUFFICES ASSUME server_running'
             PROVE  Apart' /\ Somewhere' /\ Fields' /\ Served'
  BY DEF OwnInv
<1> USE OwnTypes DEF Goto, quitVars, slotVars, listVars, thrVars, loopVars
<1>1. server_running /\ Apart /\ Somewhere /\ Fields /\ Served
  BY WorkerKeeps DEF OwnInv, server_running
<1>2. /\ UNCHANGED <<quitPc, free, gen, slot_state, target>>
      /\ \A t \in Threads \ {w} : pc'[t] = pc[t] /\ my'[t] = my[t]
      /\ \A v \in Workers \ {w} :
           /\ Pending(v)' = Pending(v)
           /\ visit'[v] = visit[v] /\ list'[v] = list[v] /\ cur'[v] = cur[v]
  BY WorkerKeeps
<1>3. /\ At(w) \in RunPc /\ ~sawPipe[w]
      /\ At(w) \notin {"flush", "gc"} => todo[w] = {}
      /\ At(w) = "flush" => todo[w] \cap garbage[w] = {}
  BY <1>1 DEF LoopInv
<1>4. \A v \in Workers : /\ visit[v] \subseteq list[v]
                         /\ pc[v] = "proc" => /\ cur[v].ev.slot \in list[v]
                                              /\ conn[cur[v].ev.slot].registered
  BY <1>1 DEF Served
<1>5. \A x \in Slots, b \in BOOLEAN : Stamp(x, b)' = Stamp(x, b)
  BY <1>2 DEF Stamp
<1>6. \A h \in Handoffs : h # w /\ pc'[h] = pc[h] /\ my'[h] = my[h] /\ target'[h] = target[h]
  BY <1>2
(* Steps that move no slot and process no event. *)
<1>7. ASSUME UNCHANGED <<my, list, conn>>, Pending(w)' = Pending(w),
             pc[w] \notin HasConnPc, pc'[w] \notin HasConnPc,
             visit'[w] \subseteq visit[w], pc'[w] # "proc", armed' = armed
      PROVE  Apart' /\ Somewhere' /\ Fields' /\ Served'
  <2>1. SamePlaces /\ SameHolders
    BY <1>2, <1>6, <1>7 DEF SamePlaces, SameHolders
  <2>2. Apart' /\ Somewhere' /\ Fields'
    BY <1>1, <1>2, <1>7, <2>1, SameOwners, SameFields
  <2>3. \A v \in Workers : visit'[v] \subseteq visit[v] /\ visit'[v] \subseteq list'[v]
    BY <1>2, <1>4, <1>7
  <2>4. \A v \in Workers : pc'[v] = "proc" => v # w /\ pc[v] = "proc" /\ cur'[v] = cur[v]
    BY <1>2, <1>7
  <2>5. Served'
    BY <1>1, <1>4, <1>5, <1>6, <1>7, <2>2, <2>3, <2>4, ServedFrame
  <2> QED BY <2>2, <2>5
<1>8. CASE LoopTest(w)
  <2>1. /\ pc[w] = "loop" /\ pc'[w] = "wait" /\ garbage'[w] = {}
        /\ UNCHANGED <<my, list, conn, visit, armed, todo>>
    BY <1>1, <1>8 DEF LoopTest
  <2>2. Pending(w)' = Pending(w)
    BY <2>1 DEF Pending, At, FinalizePc
  <2> QED BY <1>7, <2>1, <2>2 DEF HasConnPc, FinalizePc
<1>9. CASE EpollWait(w) \/ ReadGen(w) \/ Forward(w)
  <2>1. /\ pc[w] \in {"wait", "events", "proc"} /\ pc'[w] \in {"events", "check"}
        /\ UNCHANGED <<my, list, conn, visit, armed, todo, garbage>>
    BY <1>9 DEF EpollWait, ReadGen, Forward
  <2>2. Pending(w)' = Pending(w)
    BY <2>1 DEF Pending, At, FinalizePc
  <2> QED BY <1>7, <2>1, <2>2 DEF HasConnPc, FinalizePc
<1>10. CASE SkipSweep(w) \/ SweepEnd(w)
  <2>1. /\ pc[w] \in {"events", "sweep"} /\ pc'[w] = "gc" /\ todo'[w] = garbage[w]
        /\ UNCHANGED <<my, list, conn, visit, armed, garbage>>
    BY <1>10 DEF SkipSweep, SweepEnd, BatchDone
  <2>2. At(w) \in {"events", "sweep"} /\ todo[w] = {}
    BY <1>3, <2>1 DEF At, FinalizePc
  <2>3. Pending(w)' = Pending(w)
    BY <2>1, <2>2 DEF Pending, At, FinalizePc
  <2> QED BY <1>7, <2>1, <2>3 DEF HasConnPc, FinalizePc
<1>11. CASE SweepResume(w) \/ GcDone(w)
  <2>1. /\ \/ pc[w] = "flush" /\ pc'[w] = "sweep"
           \/ pc[w] = "gc" /\ pc'[w] = "loop"
        /\ todo[w] = {}
        /\ UNCHANGED <<my, list, conn, visit, armed, garbage, todo>>
    BY <1>11 DEF SweepResume, GcDone
  <2>2. Pending(w)' = Pending(w)
    BY <2>1 DEF Pending, At, FinalizePc
  <2> QED BY <1>7, <2>1, <2>2 DEF HasConnPc, FinalizePc
<1>12. CASE SweepKeep(w)
  <2>1. /\ pc[w] = "sweep" /\ pc' = pc /\ visit'[w] \subseteq visit[w]
        /\ UNCHANGED <<my, ret, list, conn, armed, garbage, todo>>
    BY <1>12 DEF SweepKeep
  <2>2. Pending(w)' = Pending(w)
    BY <2>1 DEF Pending, At, FinalizePc
  <2> QED BY <1>7, <2>1, <2>2 DEF HasConnPc, FinalizePc
<1>13. CASE PipeEvent(w) \/ ExitWorker(w) \/ DrainBatch(w) \/ DrainAgain(w) \/ CloseEpoll(w)
  <2>1. pc[w] \in {"exit", "drain", "drained", "leftover"} \/ sawPipe[w]
    BY <1>13 DEF PipeEvent, ExitWorker, DrainBatch, DrainAgain, CloseEpoll
  <2> QED BY <1>3, <2>1 DEF At, FinalizePc, RunPc
<1>14. CASE SweepStart(w)
  <2>1. /\ pc[w] = "events" /\ pc'[w] = "sweep" /\ visit'[w] = list[w]
        /\ list_lock[w] = NoThread
        /\ UNCHANGED <<my, list, conn, armed, todo, garbage, cur>>
    BY <1>14 DEF SweepStart, BatchDone
  <2>2. Pending(w)' = Pending(w)
    BY <2>1 DEF Pending, At, FinalizePc
  <2>3. SamePlaces /\ SameHolders
    BY <1>2, <1>6, <2>1, <2>2 DEF SamePlaces, SameHolders, HasConnPc, FinalizePc
  <2>4. \A h \in Handoffs : pc[h] = "added" => target[h] # w
    BY <2>1, ConstantsAssumption DEF StopInv
  <2>5. \A v \in Workers : visit'[v] \subseteq list[v]
    BY <1>2, <1>4, <2>1
  <2>6. \A h \in Handoffs : pc[h] = "added" => my[h] \notin visit'[target[h]]
    <3>1. \A h \in Handoffs : pc[h] = "added" => target[h] \in Workers \ {w}
      BY <2>4 DEF IInv, LocalsOK
    <3> QED BY <1>1, <1>2, <3>1 DEF Served
  <2>7. \A v \in Workers : pc'[v] = "proc" => pc[v] = "proc"
    BY <1>2, <2>1
  <2>8. Served'
    <3>1. UNCHANGED <<gen, my, list, conn, armed, target>>
      BY <1>2, <2>1
    <3>2. \A h \in Handoffs :
            /\ pc'[h] = "added" => /\ my'[h] \notin visit'[target'[h]]
                                  /\ Stamp(my[h], FALSE)' \in armed'[target'[h]]
            /\ pc'[h] = "stamp" => BothArmed(my[h], target[h])'
      BY <1>1, <1>6, <2>6, <3>1 DEF Served, BothArmed, Stamp
    <3>3. \A v \in Workers : pc'[v] = "proc" => /\ cur'[v].ev.slot \in list'[v]
                                               /\ conn'[cur'[v].ev.slot].registered
      BY <1>4, <2>1, <2>7, <3>1
    <3>4. \A v \in Workers : \A x \in list'[v] : conn'[x].registered => BothArmed(x, v)'
      BY <1>1, <3>1 DEF Served, BothArmed, Stamp
    <3> QED BY <2>5, <3>1, <3>2, <3>3, <3>4 DEF Served
  <2> QED BY <1>1, <1>2, <2>1, <2>3, <2>8, SameOwners, SameFields
<1>15. CASE CheckSlot(w)
  <2> DEFINE e == cur[w].ev
             d == Disposition(w, conn[e.slot], slot_state[e.slot], cur[w].same)
  <2>1. /\ pc[w] = "check" /\ pc'[w] = (IF d = "PROCESS" THEN "proc" ELSE "events")
        /\ UNCHANGED <<my, list, conn, todo, garbage, cur, visit>>
        /\ \/ armed' = armed
           \/ /\ d \in {"INACTIVE", "STALE"}
              /\ armed' = [v \in Workers |->
                            {x \in armed[v] : x.slot # e.slot \/ x.gen # e.gen}]
    BY <1>15 DEF CheckSlot
  <2>2. Pending(w)' = Pending(w)
    BY <2>1 DEF Pending, At, FinalizePc
  <2>3. SamePlaces /\ SameHolders
    BY <1>2, <1>6, <2>1, <2>2 DEF SamePlaces, SameHolders, HasConnPc, FinalizePc
  <2>4. Apart' /\ Somewhere' /\ Fields'
    BY <1>1, <1>2, <2>1, <2>3, SameOwners, SameFields
  <2>5. e.slot \in Slots
    BY <2>1 DEF IInv, LocalsOK, Event
  <2>6. CASE d = "PROCESS"
    <3>1. /\ conn[e.slot].magic /\ conn[e.slot].widx = w
          /\ ~conn[e.slot].closed /\ conn[e.slot].registered
      BY <2>6 DEF Disposition
    <3>2. ~(free[e.slot] > 0)
      BY <1>1, <2>5, <3>1 DEF Fields
    <3>3. ASSUME NEW t \in Threads, my[t] = e.slot
          PROVE  t \in Handoffs /\ pc[t] \in {"added", "stamp"}
      <4>1. pc[t] \in HasConnPc
        BY <2>5, <3>3 DEF LoopInv
      <4>2. pc[t] \notin FinalizePc
        BY <1>1, <3>1, <3>3 DEF Fields, FinalizePc
      <4>3. t \in Handoffs
        BY <4>1, <4>2 DEF IInv, LocalsOK, HasConnPc, WorkerPc, UnrefPc, Threads
      <4>4. pc[t] \notin {"memset", "init", "lock", "rollback"}
        BY <1>1, <3>1, <3>3, <4>3 DEF Fields, Fresh
      <4> QED BY <4>1, <4>2, <4>3, <4>4 DEF HasConnPc
    <3>4. \A t \in Threads : my[t] # e.slot
      BY <1>1, <3>1, <3>3 DEF Fields
    <3>5. PICK v \in Workers : e.slot \in list[v] \/ e.slot \in Pending(v)
      BY <1>1, <2>5, <3>2, <3>4 DEF Somewhere
    <3>6. e.slot \notin Pending(v)
      BY <1>1, <3>1 DEF Fields, Doomed
    <3>7. v = w
      BY <1>1, <3>1, <3>5, <3>6 DEF Fields, Linked
    <3>8. armed' = armed
      BY <2>1, <2>6
    <3>9. \A u \in Workers : pc'[u] = "proc" =>
            cur[u].ev.slot \in list[u] /\ conn[cur[u].ev.slot].registered
      BY <1>2, <1>4, <3>1, <3>5, <3>6, <3>7
    <3> HIDE DEF e, d
    <3>10. UNCHANGED <<gen, my, list, conn, armed, target, cur, visit>>
      BY <1>2, <2>1, <3>8
    <3>11. Served'
      <4>1. \A h \in Handoffs :
              /\ pc'[h] = "added" => /\ my'[h] \notin visit'[target'[h]]
                                    /\ Stamp(my[h], FALSE)' \in armed'[target'[h]]
              /\ pc'[h] = "stamp" => BothArmed(my[h], target[h])'
        BY <1>1, <1>6, <3>10 DEF Served, BothArmed, Stamp
      <4>2. \A u \in Workers : \A x \in list'[u] : conn'[x].registered => BothArmed(x, u)'
        BY <1>1, <3>10 DEF Served, BothArmed, Stamp
      <4> QED BY <1>4, <3>9, <3>10, <4>1, <4>2 DEF Served
    <3> QED BY <2>4, <3>11
  <2>7. CASE d # "PROCESS"
    <3>1. ASSUME NEW v \in Workers, NEW x \in list[v], NEW b \in BOOLEAN,
                 Stamp(x, b) \in armed[v]
          PROVE  Stamp(x, b) \in armed'[v]
      <4>1. CASE armed' = armed
        BY <3>1, <4>1
      <4>2. CASE /\ d \in {"INACTIVE", "STALE"}
                 /\ armed' = [u \in Workers |->
                               {y \in armed[u] : y.slot # e.slot \/ y.gen # e.gen}]
        <5>1. Linked(x, v)
          BY <1>1 DEF Fields
        <5>2. x = e.slot => ~cur[w].same
          BY <4>2, <5>1 DEF Linked, Disposition
        <5>3. x = e.slot => e.gen # gen[x]
          BY <2>1, <5>2 DEF GenInv
        <5> QED BY <3>1, <4>2, <5>3 DEF Stamp
      <4> QED BY <2>1, <4>1, <4>2
    <3>2. \A u \in Workers : pc'[u] = "proc" => pc[u] = "proc"
      BY <1>2, <2>1, <2>7
    <3> HIDE DEF e, d
    <3>3. Served'
      BY <1>1, <1>4, <1>5, <1>6, <2>1, <2>4, <3>1, <3>2, ServedFrame
    <3> QED BY <2>4, <3>3
  <2> QED BY <2>6, <2>7
(* Steps that move a connection from the list into the bucket. *)
<1>16. ASSUME NEW s \in list[w], conn[s].registered,
              conn' = [conn EXCEPT ![s].closed = TRUE],
              list' = [list EXCEPT ![w] = ListRemove(@, s)],
              UNCHANGED <<my, armed>>, Pending(w)' = Pending(w) \cup {s},
              pc[w] \notin HasConnPc, pc'[w] \notin HasConnPc, pc'[w] # "proc",
              visit'[w] \subseteq visit[w] \ {s}
       PROVE  Apart' /\ Somewhere' /\ Fields' /\ Served'
  <2>1. /\ s \in Slots /\ Linked(s, w) /\ free[s] = 0
        /\ \A v \in Workers \ {w} : s \notin list[v]
        /\ \A v \in Workers : s \notin Pending(v)
    BY <1>1 DEF Fields, Apart
  <2>2. \A t \in Threads : my[t] # s
    BY <1>1, <1>16 DEF Apart, Fields
  <2>3. list'[w] = list[w] \ {s} /\ \A v \in Workers \ {w} : list'[v] = list[v]
    BY <1>16 DEF ListRemove
  <2>4. \A v \in Workers : s \notin list'[v] /\ list'[v] \subseteq list[v]
    BY <2>1, <2>3
  <2>5. /\ Pending(w)' = Pending(w) \cup {s}
        /\ \A v \in Workers \ {w} : Pending(v)' = Pending(v)
    BY <1>2, <1>16
  <2>6. /\ \A x \in Slots \ {s} : conn'[x] = conn[x]
        /\ conn'[s].closed /\ conn'[s].refs = conn[s].refs
        /\ conn'[s].finalized = conn[s].finalized
        /\ conn'[s].registered = conn[s].registered
    BY <1>16, <2>1, CloseOne
  <2>7. Apart'
    <3>1. \A x \in Slots : free'[x] <= 1
      BY <1>1, <1>2 DEF Apart
    <3>2. \A x \in Slots : free'[x] > 0 =>
            /\ \A t \in Threads : my'[t] # x
            /\ \A v \in Workers : x \notin list'[v] /\ x \notin Pending(v)'
      BY <1>1, <1>2, <1>16, <2>1, <2>4, <2>5 DEF Apart
    <3>3. \A t, u \in Threads : my'[t] \in Slots /\ my'[t] = my'[u] => t = u
      BY <1>1, <1>16 DEF Apart
    <3>4. \A t \in Threads, v \in Workers :
            /\ my'[t] \notin Pending(v)'
            /\ my'[t] \in list'[v] => /\ t \in Handoffs /\ pc'[t] \in {"added", "stamp"}
                                      /\ target'[t] = v
      BY <1>1, <1>6, <1>16, <2>2, <2>4, <2>5 DEF Apart
    <3>5. \A u, v \in Workers : list'[u] \cap Pending(v)' = {}
      <4>1. \A u, v \in Workers : list[u] \cap Pending(v) = {}
        BY <1>1 DEF Apart
      <4>2. \A v \in Workers : Pending(v)' \subseteq Pending(v) \cup {s}
        BY <2>5
      <4> QED BY ONLY <2>4, <4>1, <4>2
    <3>6. \A u, v \in Workers :
            u # v => list'[u] \cap list'[v] = {} /\ Pending(u)' \cap Pending(v)' = {}
      BY <1>1, <2>1, <2>4, <2>5 DEF Apart
    <3> QED BY <3>1, <3>2, <3>3, <3>4, <3>5, <3>6 DEF Apart
  <2>8. Somewhere'
    <3>1. ASSUME NEW x \in Slots
          PROVE  \/ free'[x] > 0
                 \/ \E u \in Threads : my'[u] = x
                 \/ \E v \in Workers : x \in list'[v] \/ x \in Pending(v)'
      <4>1. CASE x = s
        BY <2>5, <4>1
      <4>2. CASE x # s
        <5>1. \A v \in Workers : /\ x \in list[v] => x \in list'[v]
                                 /\ x \in Pending(v) => x \in Pending(v)'
          BY <2>3, <2>5, <4>2
        <5> QED BY <1>1, <1>2, <1>16, <5>1 DEF Somewhere
      <4> QED BY <4>1, <4>2
    <3>2. ASSUME NEW t \in Handoffs, pc'[t] \in {"added", "stamp"}
          PROVE  my'[t] \in list'[target'[t]]
      <4>1. pc[t] = pc'[t] /\ my[t] = my'[t] /\ target'[t] = target[t]
        BY <1>6
      <4>2. target[t] \in Workers /\ my[t] # s /\ my[t] \in list[target[t]]
        BY <1>1, <2>2, <3>2, <4>1 DEF IInv, LocalsOK, Somewhere
      <4> QED BY <2>3, <4>1, <4>2
    <3> QED BY <3>1, <3>2 DEF Somewhere
  <2>9. Fields'
    <3>1. OnlySlot(s, w)
      BY <1>2, <2>2, <2>4, <2>5, <2>6 DEF OnlySlot
    <3>2. Doomed(s)'
      BY <2>1, <2>6 DEF Doomed, Linked
    <3> QED BY <1>1, <1>2, <1>16, <2>1, <2>4, <3>1, <3>2, FieldsStep
            DEF FinalizePc, HasConnPc
  <2>10. Served'
    <3>1. \A v \in Workers : visit'[v] \subseteq list'[v] /\ visit'[v] \subseteq visit[v]
      BY <1>2, <1>4, <1>16, <2>3
    <3>2. \A v \in Workers : pc'[v] = "proc" =>
            /\ pc[v] = "proc" /\ cur'[v] = cur[v] /\ cur[v].ev.slot \in list'[v]
            /\ cur[v].ev.slot \in Slots
      BY <1>2, <1>4, <1>16, <2>3
    <3>3. \A x \in Slots : conn'[x].registered = conn[x].registered
      BY <2>6
    <3> QED BY <1>1, <1>5, <1>6, <1>16, <2>4, <2>8, <3>1, <3>2, <3>3, ServedFrame
  <2> QED BY <2>7, <2>8, <2>9, <2>10
<1>17. CASE FatalError(w)
  <2> DEFINE s == cur[w].ev.slot
  <2>1. pc[w] = "proc" /\ pc'[w] = "events" /\ UNCHANGED <<my, armed, todo, visit>>
    BY <1>17 DEF FatalError
  <2>2. s \in list[w] /\ conn[s].registered /\ ~conn[s].closed
    BY <1>1, <1>4, <2>1 DEF Fields, Linked
  <2>3. /\ conn' = [conn EXCEPT ![s].closed = TRUE]
        /\ list' = [list EXCEPT ![w] = ListRemove(@, s)]
        /\ garbage' = [garbage EXCEPT ![w] = garbage[w] \cup {s}]
    BY <1>17, <2>2 DEF FatalError, Collect
  <2>4. Pending(w)' = Pending(w) \cup {s}
    BY <2>1, <2>3 DEF Pending, At, FinalizePc
  <2>5. visit[w] = {}
    BY <2>1 DEF VisitInv, At, FinalizePc
  <2> HIDE DEF s
  <2> QED BY <1>16, <2>1, <2>2, <2>3, <2>4, <2>5 DEF HasConnPc, FinalizePc
<1>18. CASE SweepCollect(w)
  <2>1. PICK s \in visit[w] :
          /\ Collectable(conn[s])
          /\ visit' = [visit EXCEPT ![w] = @ \ {s}]
          /\ conn' = [conn EXCEPT ![s].closed = TRUE]
          /\ list' = [list EXCEPT ![w] = ListRemove(@, s)]
          /\ IF Cardinality(garbage[w]) < MaxEvents
             THEN /\ garbage' = [garbage EXCEPT ![w] = garbage[w] \cup {s}]
                  /\ UNCHANGED <<pc, todo>>
             ELSE /\ garbage' = [garbage EXCEPT ![w] = {s}]
                  /\ todo' = [todo EXCEPT ![w] = garbage[w]]
                  /\ pc' = [pc EXCEPT ![w] = "flush"]
    BY <1>18 DEF SweepCollect, Collect
  <2>2. pc[w] = "sweep" /\ UNCHANGED <<my, armed>>
    BY <1>18 DEF SweepCollect
  <2>3. s \in list[w] /\ conn[s].registered /\ visit'[w] \subseteq visit[w] \ {s}
    BY <1>4, <2>1 DEF Collectable
  <2>4. At(w) = "sweep" /\ todo[w] = {}
    BY <1>3, <2>2 DEF At, FinalizePc
  <2>5. /\ pc'[w] \in {"sweep", "flush"}
        /\ garbage'[w] \cup todo'[w] = garbage[w] \cup todo[w] \cup {s}
    <3>1. CASE Cardinality(garbage[w]) < MaxEvents
      BY <2>1, <2>2, <3>1
    <3>2. CASE ~(Cardinality(garbage[w]) < MaxEvents)
      BY <2>1, <2>4, <3>2
    <3> QED BY <3>1, <3>2
  <2>6. Pending(w)' = Pending(w) \cup {s}
    <3>1. Pending(w) = garbage[w] \cup todo[w]
      BY <2>4 DEF Pending
    <3>2. Pending(w)' = garbage'[w] \cup todo'[w]
      BY <2>5 DEF Pending, At, FinalizePc
    <3> QED BY <2>5, <3>1, <3>2
  <2> QED BY <1>16, <2>1, <2>2, <2>3, <2>5, <2>6 DEF HasConnPc, FinalizePc
<1>19. CASE UnrefNext(w)
  <2>1. PICK s \in todo[w] : todo' = [todo EXCEPT ![w] = @ \ {s}] /\ Unref(w, s, pc[w])
    BY <1>19 DEF UnrefNext
  <2>2. pc[w] \in UnrefPc /\ UNCHANGED <<list, armed, cur, garbage, visit>>
    BY <1>19 DEF UnrefNext
  <2>3. pc[w] \in {"flush", "gc"} /\ At(w) = pc[w]
    BY <1>3, <2>2 DEF At, UnrefPc, FinalizePc, RunPc
  <2>4. s \in Slots /\ s \in Pending(w) /\ Doomed(s) /\ my[w] = NoSlot
    <3>1. s \in Slots /\ s \in Pending(w)
      BY <2>1 DEF Pending
    <3>2. my[w] = NoSlot
      BY <2>3 DEF LoopInv, HasConnPc, FinalizePc
    <3> QED BY <1>1, <3>1, <3>2 DEF Fields
  <2>5. /\ pc' = [pc EXCEPT ![w] = "unlink"] /\ my' = [my EXCEPT ![w] = s]
        /\ \A x \in Slots \ {s} : conn'[x] = conn[x]
        /\ conn'[s].refs = 0 /\ conn'[s].closed
        /\ conn'[s].registered = conn[s].registered
    BY <2>1, <2>4, UnrefLast DEF Doomed
  <2>6. ret' = [ret EXCEPT ![w] = pc[w]]
    BY <2>1, <2>4 DEF Unref, Doomed
  <2>7. pc'[w] = "unlink" /\ my'[w] = s /\ At(w)' = At(w)
    BY <2>3, <2>5, <2>6 DEF At, FinalizePc
  <2>8. Pending(w)' = Pending(w) \ {s}
    BY <1>3, <2>1, <2>2, <2>3, <2>7 DEF Pending
  <2>9. /\ free[s] = 0 /\ \A t \in Threads : my[t] # s
        /\ \A v \in Workers : s \notin list[v] /\ s \notin Pending(v)'
    BY <1>1, <1>2, <2>4, <2>8, SMTT(30) DEF Apart
  <2>10. \A v \in Workers : Pending(v)' \subseteq Pending(v)
    BY <1>2, <2>8
  <2>11. Apart'
    <3>1. \A x \in Slots : free'[x] > 0 =>
            /\ free[x] > 0 /\ x # s
            /\ \A t \in Threads : my'[t] # x
            /\ \A v \in Workers : x \notin list'[v] /\ x \notin Pending(v)'
      BY <1>1, <1>2, <2>2, <2>7, <2>9, <2>10 DEF Apart
    <3>2. ASSUME NEW t \in Threads, NEW u \in Threads, my'[t] \in Slots, my'[t] = my'[u]
          PROVE  t = u
      <4>1. CASE t = w \/ u = w
        BY <1>2, <2>7, <2>9, <3>2, <4>1
      <4>2. CASE t # w /\ u # w
        <5>1. my'[t] = my[t] /\ my'[u] = my[u]
          BY <1>2, <4>2
        <5>2. \A a, b \in Threads : my[a] \in Slots /\ my[a] = my[b] => a = b
          BY <1>1 DEF Apart
        <5> QED BY ONLY <3>2, <5>1, <5>2
      <4> QED BY <4>1, <4>2
    <3>3. \A t \in Threads, v \in Workers :
            /\ my'[t] \notin Pending(v)'
            /\ my'[t] \in list'[v] => /\ t \in Handoffs /\ pc'[t] \in {"added", "stamp"}
                                      /\ target'[t] = v
      BY <1>1, <1>2, <2>2, <2>7, <2>9, <2>10 DEF Apart
    <3> QED BY <1>1, <1>2, <2>2, <2>10, <3>1, <3>2, <3>3 DEF Apart
  <2>12. Somewhere'
    <3>1. ASSUME NEW x \in Slots
          PROVE  \/ free'[x] > 0
                 \/ \E u \in Threads : my'[u] = x
                 \/ \E v \in Workers : x \in list'[v] \/ x \in Pending(v)'
      <4>1. CASE x = s
        BY <2>7, <4>1
      <4>2. CASE x # s /\ \E u \in Threads : my[u] = x
        BY <1>2, <2>4, <4>2
      <4>3. CASE x # s /\ ~\E u \in Threads : my[u] = x
        <5>1. \A v \in Workers : x \in Pending(v) => x \in Pending(v)'
          BY <1>2, <2>8, <4>3
        <5> QED BY <1>1, <1>2, <2>2, <4>3, <5>1 DEF Somewhere
      <4> QED BY <4>1, <4>2, <4>3
    <3> QED BY <1>1, <1>6, <2>2, <3>1 DEF Somewhere
  <2>13. Fields'
    <3>1. OnlySlot(s, w)
      BY <1>2, <2>2, <2>5, <2>9, <2>10 DEF OnlySlot
    <3>2. Spent(my[w])' /\ conn'[my'[w]].closed
      BY <2>5, <2>7 DEF Spent
    <3> QED BY <1>1, <1>2, <2>2, <2>4, <2>7, <2>9, <3>1, <3>2, FieldsStep
            DEF FinalizePc
  <2>14. Served'
    <3>1. \A v \in Workers : pc'[v] = "proc" => pc[v] = "proc"
      BY <1>2, <2>7
    <3>2. \A x \in Slots : conn'[x].registered = conn[x].registered
      BY <2>5
    <3>3. \A v \in Workers : pc[v] = "proc" => cur[v].ev.slot \in Slots
      BY <1>4
    <3> QED BY <1>1, <1>4, <1>5, <1>6, <2>2, <2>12, <3>1, <3>2, <3>3, ServedFrame
  <2> QED BY <2>11, <2>12, <2>13, <2>14
<1> QED BY <1>8, <1>9, <1>10, <1>11, <1>12, <1>13, <1>14, <1>15, <1>17, <1>18, <1>19
           DEF Worker

(* The initial state: every slot is on the free stack. *)
LEMMA InitOwn == Init => LoopInv /\ VisitInv /\ OwnInv
<1> SUFFICES ASSUME Init
             PROVE  LoopInv /\ VisitInv /\ OwnInv
  OBVIOUS
<1>1. /\ \A t \in Threads : my[t] = NoSlot /\ pc[t] \in {"idle", "loop"}
      /\ \A w \in Workers : /\ pc[w] = "loop" /\ todo[w] = {} /\ garbage[w] = {}
                            /\ visit[w] = {} /\ list[w] = {}
                            /\ ~sawPipe[w] /\ ~stopping[w]
      /\ \A s \in Slots : free[s] = 1 /\ conn[s].refs = 0 /\ ~conn[s].magic
      /\ NoSlot \notin Slots /\ Handoffs \subseteq Threads
  BY ConstantsAssumption DEF Init, Threads, Zeroed
<1>2. \A w \in Workers : At(w) = "loop" /\ Pending(w) = {}
  BY <1>1 DEF At, Pending, FinalizePc
<1>3. LoopInv /\ VisitInv
  BY <1>1, <1>2 DEF LoopInv, VisitInv, RunPc
<1>4. Apart /\ Somewhere
  BY <1>1, <1>2 DEF Apart, Somewhere
<1>5. Fields
  <2>1. \A w \in Workers : list[w] = {} /\ Pending(w) = {}
    BY <1>1, <1>2
  <2>2. \A h \in Handoffs : pc[h] \in {"idle", "loop"}
    BY <1>1
  <2>3. \A t \in Threads : pc[t] \notin FinalizePc
    BY <1>1 DEF FinalizePc
  <2> QED BY <1>1, <2>1, <2>2, <2>3 DEF Fields, Spent, FinalizePc
<1>6. Served
  BY <1>1 DEF Served
<1> QED BY <1>3, <1>4, <1>5, <1>6 DEF OwnInv

(* All that is said of the slots while the server runs, in one invariant. *)
SlotInv == IInv /\ StopInv /\ GenInv /\ LoopInv /\ VisitInv /\ OwnInv

(* A stop of the server ends what is said of the running one. *)
LEMMA QuitOwn ==
  ASSUME LoopInv, OwnInv,
         QuitFlag \/ QuitWake \/ QuitPool \/ QuitJoin \/ UNCHANGED vars
  PROVE  LoopInv' /\ OwnInv'
<1>1. CASE UNCHANGED vars
  <2>1. \A w \in Workers : At(w)' = At(w) /\ Pending(w)' = Pending(w)
    BY <1>1 DEF vars, At, Pending
  <2>2. LoopInv'
    BY <1>1, <2>1 DEF LoopInv, vars, server_running
  <2>3. UNCHANGED <<quitPc, free, gen, slot_state, conn, list, armed, pc, my, target, cur, visit>>
    BY <1>1 DEF vars
  <2>4. server_running => Apart' /\ Somewhere' /\ Fields' /\ Served'
    <3> SUFFICES ASSUME server_running
                 PROVE  Apart' /\ Somewhere' /\ Fields' /\ Served'
      OBVIOUS
    <3>1. SamePlaces /\ SameHolders
      BY <2>1, <2>3 DEF SamePlaces, SameHolders
    <3>2. Apart' /\ Somewhere' /\ Fields'
      BY <2>3, <3>1, SameOwners, SameFields DEF OwnInv
    <3>3. Served'
      BY <2>3 DEF OwnInv, Served, BothArmed, Stamp
    <3> QED BY <3>2, <3>3
  <2> QED BY <2>2, <2>3, <2>4 DEF OwnInv, server_running
<1>2. CASE QuitFlag \/ QuitWake \/ QuitPool \/ QuitJoin
  <2>1. quitPc' # "running" /\ UNCHANGED <<pc, my>>
    BY <1>2 DEF QuitFlag, QuitWake, QuitPool, QuitJoin, QuitStep, thrVars
  <2> QED BY <2>1 DEF LoopInv, OwnInv, server_running
<1> QED BY <1>1, <1>2

(* The invariant is inductive. *)
LEMMA NextSlot == SlotInv /\ [Next]_vars => SlotInv'
<1> SUFFICES ASSUME SlotInv, [Next]_vars
             PROVE  SlotInv'
  OBVIOUS
<1>1. IInv /\ StopInv /\ GenInv /\ LoopInv /\ VisitInv /\ OwnInv
  BY DEF SlotInv
<1>2. IInv' /\ StopInv' /\ GenInv' /\ VisitInv'
  BY <1>1, NextIInv, NextStop, NextGenInv, NextVisit
<1>3. ASSUME NEW t \in Threads, Finalize(t)
      PROVE  LoopInv' /\ OwnInv'
  BY <1>1, <1>3, FinalizeLoop, FinalizeOwn
<1>4. ASSUME NEW h \in Handoffs, Handoff(h)
      PROVE  LoopInv' /\ OwnInv'
  BY <1>1, <1>4, HandoffLoop, HandoffOwn
<1>5. ASSUME NEW w \in Workers, Worker(w)
      PROVE  LoopInv' /\ OwnInv'
  BY <1>1, <1>5, WorkerLoop, WorkerOwn
<1>6. ASSUME QuitFlag \/ QuitWake \/ QuitPool \/ QuitJoin \/ UNCHANGED vars
      PROVE  LoopInv' /\ OwnInv'
  BY <1>1, <1>6, QuitOwn
<1>7. LoopInv' /\ OwnInv'
  BY <1>3, <1>4, <1>5, <1>6 DEF Next
<1> QED BY <1>2, <1>7 DEF SlotInv

(* It holds in every reachable state. *)
LEMMA SlotAlways == Spec => []SlotInv
<1>1. Init => SlotInv
  BY InitIInv, InitStop, InitGen, InitOwn DEF SlotInv
<1> QED BY <1>1, NextSlot, PTL DEF Spec

(* A slot in the hands of a thread is being built or finalized, or it is   *)
(* linked already.                                                         *)
LEMMA InHand ==
  ASSUME SlotInv, server_running, NEW t \in Threads, my[t] \in Slots
  PROVE  \/ pc[t] \in FinalizePc
         \/ t \in Handoffs /\ pc[t] \in {"memset", "init", "lock", "rollback"}
         \/ /\ t \in Handoffs /\ pc[t] \in {"added", "stamp"}
            /\ target[t] \in Workers /\ my[t] \in list[target[t]]
<1>1. pc[t] \in HasConnPc
  BY ConstantsAssumption DEF SlotInv, LoopInv
<1>2. pc[t] \notin FinalizePc => t \in Handoffs
  BY <1>1 DEF SlotInv, IInv, LocalsOK, Threads, HasConnPc, WorkerPc, UnrefPc
<1>3. t \in Handoffs /\ pc[t] \in {"added", "stamp"} =>
        target[t] \in Workers /\ my[t] \in list[target[t]]
  BY DEF SlotInv, IInv, LocalsOK, OwnInv, Somewhere
<1> QED BY <1>1, <1>2, <1>3 DEF HasConnPc

(* The owners of a slot, one kind at a time. *)
LEMMA OwnersCases ==
  ASSUME NEW s
  PROVE  /\ \A o \in Owners(s) :
              \/ free[s] > 0 /\ o = <<"free", NoThread>>
              \/ \E h \in Handoffs : Building(h, s) /\ o = <<"handoff", h>>
              \/ \E w \in Workers : s \in list[w] /\ o = <<"list", w>>
              \/ \E w \in Workers : s \in Pending(w) /\ o = <<"garbage", w>>
              \/ \E t \in Threads : Finalizing(t, s) /\ o = <<"finalize", t>>
         /\ free[s] > 0 => <<"free", NoThread>> \in Owners(s)
         /\ \A h \in Handoffs : Building(h, s) => <<"handoff", h>> \in Owners(s)
         /\ \A w \in Workers : s \in list[w] => <<"list", w>> \in Owners(s)
         /\ \A w \in Workers : s \in Pending(w) => <<"garbage", w>> \in Owners(s)
         /\ \A t \in Threads : Finalizing(t, s) => <<"finalize", t>> \in Owners(s)
BY DEF Owners

(* While the server runs every slot has exactly one owner, for every       *)
(* number of slots, threads and workers: slot_acquire, slot_release, the   *)
(* rollbacks of handoff_to_worker, the garbage and the sweep neither leak  *)
(* a connection nor release one twice.                                     *)
THEOREM OneOwner == Spec => []SingleOwner
<1>1. ASSUME SlotInv, server_running, NEW s \in Slots
      PROVE  free[s] <= 1 /\ Cardinality(Owners(s)) = 1
  <2>1. Apart /\ Somewhere /\ IInv
    BY <1>1 DEF SlotInv, OwnInv
  <2>2. ASSUME NEW h \in Handoffs, Building(h, s)
        PROVE  h \in Threads /\ my[h] = s /\ pc[h] \notin {"added", "stamp"} \cup FinalizePc
    BY <2>2 DEF Building, Threads, FinalizePc
  <2>3. \A t \in Threads : Finalizing(t, s) => my[t] = s /\ pc[t] \in FinalizePc
    BY DEF Finalizing
  <2>4. "added" \notin FinalizePc /\ "stamp" \notin FinalizePc
    BY DEF FinalizePc
  <2>5. \E o : Owners(s) = {o}
    <3>1. CASE free[s] > 0
      <4>1. Owners(s) = {<<"free", NoThread>>}
        BY <2>1, <2>2, <2>3, <3>1, OwnersCases DEF Apart
      <4> QED BY <4>1
    <3>2. CASE \E w \in Workers : s \in list[w]
      <4>1. PICK w \in Workers : s \in list[w]
        BY <3>2
      <4>2. /\ ~(free[s] > 0)
            /\ \A v \in Workers : s \notin Pending(v) /\ (s \in list[v] => v = w)
        BY <2>1, <4>1 DEF Apart
      <4>3. \A t \in Threads : my[t] = s => pc[t] \in {"added", "stamp"}
        BY <2>1, <4>1 DEF Apart
      <4>4. /\ \A h \in Handoffs : ~Building(h, s)
            /\ \A t \in Threads : ~Finalizing(t, s)
        BY <2>2, <2>3, <2>4, <4>3
      <4>5. \A o \in Owners(s) : o = <<"list", w>>
        BY <4>2, <4>4, OwnersCases
      <4>6. <<"list", w>> \in Owners(s)
        BY <4>1, OwnersCases
      <4>7. Owners(s) = {<<"list", w>>}
        BY <4>5, <4>6
      <4> QED BY <4>7
    <3>3. CASE \E w \in Workers : s \in Pending(w)
      <4>1. PICK w \in Workers : s \in Pending(w)
        BY <3>3
      <4>2. /\ ~(free[s] > 0)
            /\ \A v \in Workers : s \notin list[v] /\ (s \in Pending(v) => v = w)
        BY <2>1, <4>1 DEF Apart
      <4>3. \A t \in Threads : my[t] # s
        BY <2>1, <4>1 DEF Apart
      <4>4. /\ \A h \in Handoffs : ~Building(h, s)
            /\ \A t \in Threads : ~Finalizing(t, s)
        BY <2>2, <2>3, <4>3
      <4>5. \A o \in Owners(s) : o = <<"garbage", w>>
        BY <4>2, <4>4, OwnersCases
      <4>6. <<"garbage", w>> \in Owners(s)
        BY <4>1, OwnersCases
      <4>7. Owners(s) = {<<"garbage", w>>}
        BY <4>5, <4>6
      <4> QED BY <4>7
    <3>4. CASE /\ ~(free[s] > 0)
               /\ \A w \in Workers : s \notin list[w] /\ s \notin Pending(w)
      <4>1. PICK t \in Threads : my[t] = s
        BY <2>1, <3>4 DEF Somewhere
      <4>2. \A u \in Threads : my[u] = s => u = t
        BY <2>1, <4>1 DEF Apart
      <4>3. \/ pc[t] \in FinalizePc
            \/ t \in Handoffs /\ pc[t] \in {"memset", "init", "lock", "rollback"}
        BY <1>1, <3>4, <4>1, InHand
      <4>4. CASE pc[t] \in FinalizePc
        <5>1. Owners(s) = {<<"finalize", t>>}
          <6>1. Finalizing(t, s)
            BY <4>1, <4>4 DEF Finalizing
          <6> QED BY <2>2, <2>3, <3>4, <4>2, <4>4, <6>1, OwnersCases
        <5> QED BY <5>1
      <4>5. CASE t \in Handoffs /\ pc[t] \in {"memset", "init", "lock", "rollback"}
        <5>1. Building(t, s) /\ pc[t] \notin FinalizePc
          BY <4>1, <4>5 DEF Building, FinalizePc
        <5>2. Owners(s) = {<<"handoff", t>>}
          BY <2>2, <2>3, <3>4, <4>2, <4>5, <5>1, OwnersCases
        <5> QED BY <5>2
      <4> QED BY <4>3, <4>4, <4>5
    <3> QED BY <3>1, <3>2, <3>3, <3>4
  <2> QED BY <2>1, <2>5, FS_Singleton DEF Apart
<1>2. SlotInv => SingleOwner
  BY <1>1 DEF SingleOwner
<1> QED BY <1>2, SlotAlways, PTL

(* While the server runs a slot holds its base reference exactly as long   *)
(* as somebody has still to drop it, so each connection is unref'd once.   *)
THEOREM RefsMatchOwners == Spec => []RefAccounting
<1>1. ASSUME SlotInv, server_running, NEW s \in Slots
      PROVE  conn[s].refs =
               (IF \/ \E w \in Workers : s \in list[w] \cup Pending(w)
                   \/ \E h \in Handoffs : my[h] = s /\ pc[h] \in {"lock", "rollback"}
                THEN 1 ELSE 0)
  <2>1. Apart /\ Somewhere /\ Fields /\ IInv
    BY <1>1 DEF SlotInv, OwnInv
  <2>2. CASE \E w \in Workers : s \in list[w] \cup Pending(w)
    BY <2>1, <2>2 DEF Fields, Linked, Doomed
  <2>3. CASE \E h \in Handoffs : my[h] = s /\ pc[h] \in {"lock", "rollback"}
    BY <2>1, <2>3 DEF Fields, Fresh
  <2>4. CASE /\ \A w \in Workers : s \notin list[w] \cup Pending(w)
             /\ \A h \in Handoffs : ~(my[h] = s /\ pc[h] \in {"lock", "rollback"})
    <3>1. CASE free[s] > 0
      BY <2>1, <2>4, <3>1 DEF Fields, Spent
    <3>2. CASE ~(free[s] > 0)
      <4>1. PICK t \in Threads : my[t] = s
        BY <2>1, <2>4, <3>2 DEF Somewhere
      <4>2. pc[t] \in FinalizePc \/ (t \in Handoffs /\ pc[t] \in {"memset", "init"})
        BY <1>1, <2>4, <4>1, InHand
      <4>3. Spent(s)
        BY <2>1, <4>1, <4>2 DEF Fields
      <4> QED BY <2>4, <4>3 DEF Spent
    <3> QED BY <3>1, <3>2
  <2> QED BY <2>2, <2>3, <2>4
<1>2. SlotInv => RefAccounting
  BY <1>1 DEF RefAccounting
<1> QED BY <1>2, SlotAlways, PTL

(* While the server runs an event that conn_event_check_slot lets through  *)
(* is applied to a registered connection that this worker owns and that    *)
(* has both its registrations, whatever reuse of the slot went before.     *)
THEOREM EventsMeetOwner == Spec => []ProcessedIsLive
<1>1. ASSUME SlotInv, server_running, NEW w \in Workers, pc[w] = "proc"
      PROVE  LET s == cur[w].ev.slot
             IN /\ s \in list[w]
                /\ conn[s].registered /\ conn[s].magic /\ conn[s].widx = w
                /\ {FALSE, TRUE} =
                     {e.target : e \in {e \in armed[w] : e.slot = s /\ e.gen = gen[s]}}
  <2> DEFINE s == cur[w].ev.slot
             E == {e \in armed[w] : e.slot = s /\ e.gen = gen[s]}
  <2>1. Fields /\ Served /\ armed \in [Workers -> SUBSET Event]
    BY <1>1, OwnTypes DEF SlotInv, OwnInv
  <2>2. s \in list[w] /\ conn[s].registered /\ BothArmed(s, w)
    BY <1>1, <2>1 DEF Served
  <2>3. conn[s].magic /\ conn[s].widx = w
    BY <2>1, <2>2 DEF Fields, Linked
  <2>4. Stamp(s, FALSE) \in E /\ Stamp(s, TRUE) \in E
    BY <2>2 DEF BothArmed, Stamp
  <2>5. Stamp(s, FALSE).target = FALSE /\ Stamp(s, TRUE).target = TRUE
    BY DEF Stamp
  <2>6. \A e \in E : e.target \in BOOLEAN
    BY <2>1 DEF Event
  <2> HIDE DEF E
  <2>7. {e.target : e \in E} = {FALSE, TRUE}
    <3>1. FALSE \in {e.target : e \in E} /\ TRUE \in {e.target : e \in E}
      BY <2>4, <2>5
    <3>2. \A b \in {e.target : e \in E} : b = FALSE \/ b = TRUE
      BY <2>6, Zenon
    <3> QED BY <3>1, <3>2, Zenon
  <2> QED BY <2>2, <2>3, <2>7 DEF E
<1>2. SlotInv => ProcessedIsLive
  BY <1>1 DEF ProcessedIsLive
<1> QED BY <1>2, SlotAlways, PTL

-----------------------------------------------------------------------------
(* The stages of a slot, also while the server stops                       *)

WorkPc == {"memset", "init"} \cup FinalizePc

(* t alone answers for s: it builds a new tenant there, or finalizes one. *)
Works(t, s) == my[t] = s /\ pc[t] \in WorkPc
Held(s) == conn[s].refs = 1

(* A slot is free, held by its base reference or in the hands of one       *)
(* thread, and in no two of these at a time, whatever was unreferenced     *)
(* once too often.                                                         *)
StageInv ==
  /\ \A s \in Slots : /\ free[s] <= 1 /\ conn[s].refs <= 1
                      /\ Held(s) => ~conn[s].finalized /\ free[s] = 0
                      /\ free[s] = 1 \/ Held(s) \/ \E t \in Threads : Works(t, s)
  /\ \A t \in Threads, s \in Slots : Works(t, s) => ~Held(s) /\ free[s] = 0
  /\ \A t, u \in Threads, s \in Slots : Works(t, s) /\ Works(u, s) => t = u

(* What the step of a thread leaves alone of the stages of all slots but x. *)
StageFrame(t, x) ==
  /\ \A s \in Slots \ {x} : /\ free'[s] = free[s] /\ conn'[s].refs = conn[s].refs
                            /\ conn'[s].finalized = conn[s].finalized
  /\ \A u \in Threads \ {t} : pc'[u] = pc[u] /\ my'[u] = my[u]
  /\ \A s \in Slots \ {x} : Works(t, s)' <=> Works(t, s)

(* Steps that move a slot from one stage to another.                       *)
LEMMA StageMove ==
  ASSUME StageInv, free \in [Slots -> Nat], NEW t \in Threads, NEW x \in Slots,
         StageFrame(t, x),
         free[x] = 1 \/ Held(x) \/ Works(t, x),
         \/ free'[x] = 1 /\ ~Held(x)' /\ ~Works(t, x)'
         \/ free'[x] = 0 /\ Held(x)' /\ ~conn'[x].finalized /\ ~Works(t, x)'
         \/ free'[x] = 0 /\ ~Held(x)' /\ Works(t, x)',
         conn'[x].refs <= 1
  PROVE  StageInv'
<1>1. \A u \in Threads \ {t} : ~Works(u, x)
  BY DEF StageInv
<1>2. \A u \in Threads \ {t}, s \in Slots : Works(u, s)' <=> Works(u, s)
  BY DEF StageFrame, Works
<1>3. \A s \in Slots \ {x} : /\ free'[s] = free[s] /\ conn'[s].refs = conn[s].refs
                             /\ conn'[s].finalized = conn[s].finalized
                             /\ Works(t, s)' <=> Works(t, s)
                             /\ Held(s)' <=> Held(s)
  BY DEF StageFrame, Held
<1>4. \A u \in Threads, s \in Slots \ {x} : Works(u, s)' <=> Works(u, s)
  BY <1>2, <1>3
<1>5. \A u \in Threads : Works(u, x)' => u = t
  BY <1>1, <1>2
<1> HIDE DEF Works, Held
<1>6. ASSUME NEW s \in Slots
      PROVE  /\ free'[s] <= 1 /\ conn'[s].refs <= 1
             /\ Held(s)' => ~conn'[s].finalized /\ free'[s] = 0
             /\ free'[s] = 1 \/ Held(s)' \/ \E u \in Threads : Works(u, s)'
  <2>1. CASE s = x
    BY <2>1
  <2>2. CASE s # x
    BY <1>3, <1>4, <2>2 DEF StageInv
  <2> QED BY <2>1, <2>2
<1>7. ASSUME NEW u \in Threads, NEW s \in Slots, Works(u, s)'
      PROVE  ~Held(s)' /\ free'[s] = 0
  <2>1. CASE s = x
    BY <1>5, <1>7, <2>1
  <2>2. CASE s # x
    BY <1>3, <1>4, <1>7, <2>2 DEF StageInv
  <2> QED BY <2>1, <2>2
<1>8. ASSUME NEW u \in Threads, NEW v \in Threads, NEW s \in Slots,
             Works(u, s)', Works(v, s)'
      PROVE  u = v
  <2>1. CASE s = x
    BY <1>5, <1>8, <2>1
  <2>2. CASE s # x
    BY <1>4, <1>8, <2>2 DEF StageInv
  <2> QED BY <2>1, <2>2
<1> QED BY <1>6, <1>7, <1>8 DEF StageInv

(* Steps that leave every slot in its stage; a reference count may be      *)
(* taken down further once it is used up.                                  *)
LEMMA StageSame ==
  ASSUME StageInv, NEW t \in Threads,
         \A u \in Threads \ {t} : pc'[u] = pc[u] /\ my'[u] = my[u],
         pc'[t] \in WorkPc <=> pc[t] \in WorkPc,
         pc'[t] \in WorkPc => my'[t] = my[t],
         \A s \in Slots : /\ free'[s] = free[s] /\ conn'[s].refs <= 1
                          /\ Held(s)' <=> Held(s)
                          /\ Held(s) => conn'[s].finalized = conn[s].finalized
  PROVE  StageInv'
<1>1. \A u \in Threads, s \in Slots : Works(u, s)' <=> Works(u, s)
  BY DEF Works
<1> HIDE DEF Works, Held
<1> QED BY <1>1 DEF StageInv

(* The fields that decide a stage.                                         *)
SameRefs == \A s \in Slots : /\ conn'[s].refs = conn[s].refs
                             /\ conn'[s].finalized = conn[s].finalized

(* Steps that touch neither the free stack nor a reference count.          *)
LEMMA StageStays ==
  ASSUME StageInv, NEW t \in Threads, free' = free, SameRefs,
         \A u \in Threads \ {t} : pc'[u] = pc[u] /\ my'[u] = my[u],
         pc'[t] \in WorkPc <=> pc[t] \in WorkPc,
         pc'[t] \in WorkPc => my'[t] = my[t]
  PROVE  StageInv'
<1>1. \A s \in Slots : /\ free'[s] = free[s] /\ conn'[s].refs <= 1
                       /\ Held(s)' <=> Held(s)
                       /\ Held(s) => conn'[s].finalized = conn[s].finalized
  BY DEF StageInv, SameRefs, Held
<1> QED BY <1>1, StageSame

(* The other fields of a connection can be written freely.                 *)
LEMMA RefsKept ==
  ASSUME conn \in [Slots -> Conn], NEW s \in Slots,
         \/ conn' = conn
         \/ conn' = [conn EXCEPT ![s].closed = TRUE]
         \/ conn' = [conn EXCEPT ![s].magic = FALSE]
         \/ conn' = [conn EXCEPT ![s].registered = TRUE]
         \/ \E taken : conn' = MarkClosed(taken)
  PROVE  SameRefs
<1>1. CASE \E taken : conn' = MarkClosed(taken)
  BY <1>1 DEF MarkClosed, SameRefs, Conn
<1>2. CASE \/ conn' = conn
           \/ conn' = [conn EXCEPT ![s].closed = TRUE]
           \/ conn' = [conn EXCEPT ![s].magic = FALSE]
           \/ conn' = [conn EXCEPT ![s].registered = TRUE]
  BY <1>2 DEF SameRefs, Conn
<1> QED BY <1>1, <1>2

(* conn_unref starts conn_finalize when it takes the last reference, and   *)
(* leaves the stages alone when there was none left to take.               *)
LEMMA UnrefStage ==
  ASSUME IInv, StageInv, NEW t \in Threads, NEW s \in Slots, NEW back,
         Unref(t, s, back), free' = free,
         pc[t] \notin WorkPc, back \notin WorkPc
  PROVE  StageInv'
<1>1. /\ free \in [Slots -> Nat] /\ conn \in [Slots -> Conn]
      /\ pc \in [Threads -> HandoffPc \cup FinalizePc \cup WorkerPc]
      /\ my \in [Threads -> Slots \cup {NoSlot}] /\ NoSlot \notin Slots
  BY OwnTypes
<1>2. conn[s].refs \in Int /\ conn[s].refs <= 1
  BY <1>1 DEF StageInv, Conn
<1>3. CASE Held(s)
  <2>1. conn[s].refs = 1 /\ ~conn[s].finalized /\ free[s] = 0
    BY <1>3 DEF StageInv, Held
  <2>2. /\ pc' = [pc EXCEPT ![t] = "unlink"] /\ my' = [my EXCEPT ![t] = s]
        /\ \A x \in Slots \ {s} : conn'[x] = conn[x]
        /\ conn'[s].refs = 0
    BY <2>1, UnrefLast
  <2>3. /\ pc'[t] = "unlink" /\ my'[t] = s
        /\ \A u \in Threads \ {t} : pc'[u] = pc[u] /\ my'[u] = my[u]
    BY <1>1, <2>2
  <2>4. Works(t, s)' /\ ~Held(s)'
    BY <2>2, <2>3 DEF Works, Held, WorkPc, FinalizePc
  <2>5. \A x \in Slots \ {s} : ~Works(t, x) /\ ~Works(t, x)'
    BY <2>3 DEF Works
  <2>6. StageFrame(t, s)
    BY <2>2, <2>3, <2>5 DEF StageFrame
  <2> HIDE DEF Works, Held
  <2> QED BY <1>1, <1>3, <2>1, <2>2, <2>4, <2>6, StageMove
<1>4. CASE ~Held(s)
  <2>1. conn' = [conn EXCEPT ![s].refs = conn[s].refs - 1]
    BY <1>4 DEF Unref, Held
  <2>2. conn'[s].refs = conn[s].refs - 1 /\ \A x \in Slots \ {s} : conn'[x] = conn[x]
    BY <1>1, <2>1 DEF Conn
  <2>3. conn'[s].refs <= 1 /\ conn'[s].refs # 1
    BY <1>2, <1>4, <2>2 DEF Held
  <2>4. \A x \in Slots : /\ free'[x] = free[x] /\ conn'[x].refs <= 1
                         /\ Held(x)' <=> Held(x)
                         /\ Held(x) => conn'[x].finalized = conn[x].finalized
    BY <1>4, <2>2, <2>3 DEF Held, StageInv
  <2>5. pc' = [pc EXCEPT ![t] = back] /\ my' = [my EXCEPT ![t] = NoSlot]
    BY <1>4 DEF Unref, Held, Goto
  <2>6. /\ pc'[t] = back /\ pc'[t] \notin WorkPc
        /\ \A u \in Threads \ {t} : pc'[u] = pc[u] /\ my'[u] = my[u]
    BY <1>1, <2>5
  <2> QED BY <2>4, <2>6, StageSame
<1> QED BY <1>3, <1>4

(* conn_finalize keeps its slot until it pushes it on the free stack. *)
LEMMA FinalizeStage ==
  ASSUME IInv, StageInv, NEW t \in Threads, Finalize(t)
  PROVE  StageInv'
<1> USE DEF Goto, quitVars, slotVars, listVars, thrVars, loopVars
<1>1. /\ free \in [Slots -> Nat] /\ conn \in [Slots -> Conn]
      /\ pc \in [Threads -> HandoffPc \cup FinalizePc \cup WorkerPc]
      /\ my \in [Threads -> Slots \cup {NoSlot}] /\ NoSlot \notin Slots
  BY OwnTypes
<1>2. pc[t] \in FinalizePc /\ my[t] \in Slots
  BY DEF Finalize, FinalizeUnlink, FinalizeClose, FinalizeRelease, FinalizePush,
         FinalizePc, HasConnPc, IInv, LocalsOK
<1>3. PICK s \in Slots : my[t] = s
  BY <1>2
<1>4. CASE FinalizePush(t)
  <2>1. /\ free' = [free EXCEPT ![s] = @ + 1] /\ my' = [my EXCEPT ![t] = NoSlot]
        /\ pc' = [pc EXCEPT ![t] = ret[t]] /\ conn' = conn
    BY <1>3, <1>4 DEF FinalizePush
  <2>2. /\ free'[s] = free[s] + 1 /\ \A x \in Slots \ {s} : free'[x] = free[x]
        /\ my'[t] = NoSlot /\ \A u \in Threads \ {t} : pc'[u] = pc[u] /\ my'[u] = my[u]
    BY <1>1, <2>1
  <2>3. Works(t, s)
    BY <1>2, <1>3 DEF Works, WorkPc
  <2>4. ~Held(s) /\ free[s] = 0 /\ conn[s].refs <= 1
    BY <2>3 DEF StageInv
  <2>5. ~Held(s)' /\ free'[s] = 1 /\ conn'[s].refs <= 1
    BY <2>1, <2>2, <2>4 DEF Held
  <2>6. \A x \in Slots : ~Works(t, x)'
    BY <1>1, <2>2 DEF Works
  <2>7. \A x \in Slots \ {s} : ~Works(t, x)
    BY <1>3 DEF Works
  <2>8. StageFrame(t, s)
    BY <2>1, <2>2, <2>6, <2>7 DEF StageFrame
  <2> HIDE DEF Works, Held
  <2> QED BY <1>1, <2>3, <2>5, <2>6, <2>8, StageMove
<1>5. CASE ~FinalizePush(t)
  <2>1. /\ free' = free /\ my' = my
        /\ \E l \in FinalizePc : pc' = [pc EXCEPT ![t] = l]
    BY <1>5 DEF Finalize, FinalizeUnlink, FinalizeClose, FinalizeRelease, FinalizePc
  <2>2. conn' = conn \/ conn' = [conn EXCEPT ![s].magic = FALSE]
    BY <1>3, <1>5 DEF Finalize, FinalizeUnlink, FinalizeClose, FinalizeRelease
  <2>3. SameRefs
    BY <1>1, <2>2, RefsKept
  <2>4. /\ pc'[t] \in WorkPc /\ pc[t] \in WorkPc
        /\ \A u \in Threads \ {t} : pc'[u] = pc[u] /\ my'[u] = my[u]
    BY <1>1, <1>2, <2>1 DEF WorkPc
  <2> QED BY <2>1, <2>3, <2>4, StageStays
<1> QED BY <1>4, <1>5

(* A worker takes no slot and drops references only. *)
LEMMA WorkerStage ==
  ASSUME IInv, StageInv, NEW w \in Workers, Worker(w)
  PROVE  StageInv'
<1> USE DEF Goto, quitVars, slotVars, listVars, thrVars, loopVars
<1>1. /\ free' = free /\ w \in Threads
      /\ \A t \in Threads \ {w} : pc'[t] = pc[t] /\ my'[t] = my[t]
      /\ conn \in [Slots -> Conn]
      /\ pc \in [Threads -> HandoffPc \cup FinalizePc \cup WorkerPc]
      /\ \A v \in Workers : visit[v] \subseteq Slots /\ todo[v] \subseteq Slots
  BY WorkerKeeps, OwnTypes
<1>2. CASE UnrefNext(w)
  <2>1. PICK s \in todo[w] : pc[w] \in UnrefPc /\ Unref(w, s, pc[w])
    BY <1>2 DEF UnrefNext
  <2>2. s \in Slots /\ pc[w] \notin WorkPc
    BY <1>1, <2>1 DEF UnrefPc, WorkPc, FinalizePc
  <2> QED BY <1>1, <2>1, <2>2, UnrefStage
<1>3. CASE ~UnrefNext(w)
  <2>1. pc[w] \notin WorkPc /\ pc'[w] \notin WorkPc
    <3>1. CASE CheckSlot(w)
      BY <1>1, <3>1 DEF CheckSlot, WorkPc, FinalizePc
    <3>2. CASE ~CheckSlot(w)
      BY <1>1, <1>3, <3>2
         DEF Worker, LoopTest, EpollWait, PipeEvent, ReadGen, Forward,
             FatalError, SkipSweep, SweepStart, SweepKeep, SweepCollect, SweepResume,
             SweepEnd, GcDone, ExitWorker, DrainBatch, DrainAgain, CloseEpoll, BatchDone,
             WorkPc, FinalizePc, UnrefPc
    <3> QED BY <3>1, <3>2
  <2>2. SameRefs
    <3>1. CASE FatalError(w)
      <4>1. cur[w].ev.slot \in Slots
        BY <3>1 DEF FatalError, IInv, LocalsOK, Event
      <4>2. conn' = conn \/ conn' = [conn EXCEPT ![cur[w].ev.slot].closed = TRUE]
        BY <3>1 DEF FatalError
      <4> QED BY <1>1, <4>1, <4>2, RefsKept
    <3>2. CASE SweepCollect(w)
      <4>1. PICK s \in visit[w] : conn' = [conn EXCEPT ![s].closed = TRUE]
        BY <3>2 DEF SweepCollect
      <4> QED BY <1>1, <4>1, RefsKept
    <3>3. CASE DrainBatch(w)
      <4>1. \E taken : conn' = MarkClosed(taken)
        BY <3>3 DEF DrainBatch
      <4> QED BY <1>1, <4>1, RefsKept DEF SameRefs
    <3>4. CASE ~(FatalError(w) \/ SweepCollect(w) \/ DrainBatch(w))
      <4>1. conn' = conn
        BY <1>3, <3>4
           DEF Worker, LoopTest, EpollWait, PipeEvent, ReadGen, CheckSlot, Forward,
               SkipSweep, SweepStart, SweepKeep, SweepResume,
               SweepEnd, GcDone, ExitWorker, DrainAgain, CloseEpoll
      <4> QED BY <4>1 DEF SameRefs
    <3> QED BY <3>1, <3>2, <3>3, <3>4
  <2> QED BY <1>1, <2>1, <2>2, StageStays
<1> QED BY <1>2, <1>3

(* A pool thread takes a slot from the free stack and gives the new        *)
(* connection its base reference.                                          *)
LEMMA HandoffStage ==
  ASSUME IInv, StageInv, NEW h \in Handoffs, Handoff(h)
  PROVE  StageInv'
<1> USE DEF Goto, quitVars, slotVars, listVars, thrVars, loopVars
<1>1. /\ free \in [Slots -> Nat] /\ conn \in [Slots -> Conn] /\ h \in Threads
      /\ pc \in [Threads -> HandoffPc \cup FinalizePc \cup WorkerPc]
      /\ my \in [Threads -> Slots \cup {NoSlot}] /\ NoSlot \notin Slots
      /\ \A t \in Threads \ {h} : pc'[t] = pc[t] /\ my'[t] = my[t]
  BY HandoffKeeps, OwnTypes
<1>0. pc[h] \in HasConnPc => my[h] \in Slots
  BY <1>1 DEF IInv, LocalsOK
<1>2. CASE SlotAcquire(h)
  <2>1. PICK s \in Slots : /\ free[s] > 0 /\ free' = [free EXCEPT ![s] = @ - 1]
                           /\ my' = [my EXCEPT ![h] = s]
    BY <1>2 DEF SlotAcquire, OnFreeStack
  <2>2. /\ pc[h] = "acquire" /\ pc'[h] = "memset" /\ conn' = conn
        /\ my'[h] = s /\ free'[s] = free[s] - 1
        /\ \A x \in Slots \ {s} : free'[x] = free[x]
    BY <1>1, <1>2, <2>1 DEF SlotAcquire
  <2>3. free[s] = 1 /\ ~Held(s) /\ conn[s].refs <= 1
    BY <1>1, <2>1 DEF StageInv
  <2>4. free'[s] = 0 /\ ~Held(s)' /\ Works(h, s)' /\ conn'[s].refs <= 1
    BY <2>2, <2>3 DEF Held, Works, WorkPc
  <2>5. \A x \in Slots \ {s} : ~Works(h, x) /\ ~Works(h, x)'
    BY <2>2 DEF Works, WorkPc, FinalizePc
  <2>6. StageFrame(h, s)
    BY <1>1, <2>2, <2>5 DEF StageFrame
  <2> HIDE DEF Works, Held
  <2> QED BY <1>1, <2>3, <2>4, <2>6, StageMove
<1>3. CASE SlotReset(h) \/ HandoffInit(h)
  <2>1. pc[h] \in {"memset", "init"}
    BY <1>3 DEF SlotReset, HandoffInit
  <2>2. PICK s \in Slots : my[h] = s
    BY <1>0, <2>1 DEF HasConnPc
  <2>3. Works(h, s)
    BY <2>1, <2>2 DEF Works, WorkPc
  <2>4. free' = free /\ my' = my
    BY <1>3 DEF SlotReset, HandoffInit
  <2>5. free[s] = 0 /\ free' = free /\ my' = my
    BY <1>1, <2>3, <2>4 DEF StageInv
  <2>6. \A x \in Slots \ {s} : conn'[x] = conn[x] /\ ~Works(h, x) /\ ~Works(h, x)'
    BY <1>1, <1>3, <2>2, <2>5 DEF SlotReset, HandoffInit, Works
  <2>7. StageFrame(h, s)
    BY <1>1, <2>5, <2>6 DEF StageFrame
  <2>8. CASE SlotReset(h)
    <3>1. conn'[s].refs = 0 /\ pc'[h] = "init"
      BY <1>1, <2>2, <2>8 DEF SlotReset, Zeroed
    <3>2. ~Held(s)' /\ Works(h, s)' /\ conn'[s].refs <= 1
      BY <2>2, <2>5, <3>1 DEF Held, Works, WorkPc
    <3> HIDE DEF Works, Held
    <3> QED BY <1>1, <2>3, <2>5, <2>7, <3>2, StageMove
  <2>9. CASE HandoffInit(h)
    <3>1. conn'[s].refs = 1 /\ ~conn'[s].finalized /\ pc'[h] = "lock"
      BY <1>1, <2>2, <2>9 DEF HandoffInit, BaseRefs
    <3>2. Held(s)' /\ ~Works(h, s)' /\ conn'[s].refs <= 1
      BY <3>1 DEF Held, Works, WorkPc, FinalizePc
    <3> HIDE DEF Works, Held
    <3> QED BY <1>1, <2>3, <2>5, <2>7, <3>1, <3>2, StageMove
  <2> QED BY <1>3, <2>8, <2>9
<1>4. CASE HandoffNoBuffer(h) \/ HandoffRollback(h)
  <2>1. /\ pc[h] \in {"lock", "rollback"} /\ Unref(h, my[h], "idle") /\ free' = free
    BY <1>4 DEF HandoffNoBuffer, HandoffRollback
  <2>2. my[h] \in Slots /\ pc[h] \notin WorkPc /\ "idle" \notin WorkPc
    BY <1>1, <2>1 DEF IInv, LocalsOK, HasConnPc, WorkPc, FinalizePc
  <2> QED BY <1>1, <2>1, <2>2, UnrefStage
<1>5. CASE ~(\/ SlotAcquire(h) \/ SlotReset(h) \/ HandoffInit(h)
             \/ HandoffNoBuffer(h) \/ HandoffRollback(h))
  <2>1. pc[h] \notin WorkPc /\ pc'[h] \notin WorkPc /\ free' = free
    BY <1>1, <1>5 DEF Handoff, Reserve, Unreserve, Connected, SlotsExhausted,
                      HandoffRefused, HandoffLink, HandoffLinkFails,
                      HandoffAddTarget, HandoffDone, WorkPc, FinalizePc
  <2>2. CASE HandoffLinkFails(h) \/ HandoffAddTarget(h) \/ HandoffDone(h)
    <3>1. my[h] \in Slots
      <4>1. pc[h] \in {"lock", "added", "stamp"}
        BY <2>2 DEF HandoffLinkFails, HandoffAddTarget, HandoffDone
      <4> QED BY <1>0, <4>1 DEF HasConnPc
    <3>2. \/ conn' = conn \/ conn' = [conn EXCEPT ![my[h]].closed = TRUE]
          \/ conn' = [conn EXCEPT ![my[h]].registered = TRUE]
      BY <2>2 DEF HandoffLinkFails, HandoffAddTarget, HandoffDone
    <3>3. SameRefs
      BY <1>1, <3>1, <3>2, RefsKept
    <3> QED BY <1>1, <2>1, <3>3, StageStays
  <2>3. CASE ~(HandoffLinkFails(h) \/ HandoffAddTarget(h) \/ HandoffDone(h))
    <3>1. conn' = conn
      BY <1>5, <2>3 DEF Handoff, Reserve, Unreserve, Connected, SlotsExhausted,
                        HandoffRefused, HandoffLink
    <3> QED BY <1>1, <2>1, <3>1, StageStays DEF SameRefs
  <2> QED BY <2>2, <2>3
<1> QED BY <1>2, <1>3, <1>4, <1>5

(* The stages are an invariant of the whole run, its end included. *)
LEMMA NextStage == IInv /\ StageInv /\ [Next]_vars => StageInv'
<1> SUFFICES ASSUME IInv, StageInv, [Next]_vars
             PROVE  StageInv'
  OBVIOUS
<1>1. ASSUME NEW t \in Threads, Finalize(t)
      PROVE  StageInv'
  BY <1>1, FinalizeStage
<1>2. ASSUME NEW h \in Handoffs, Handoff(h)
      PROVE  StageInv'
  BY <1>2, HandoffStage
<1>3. ASSUME NEW w \in Workers, Worker(w)
      PROVE  StageInv'
  BY <1>3, WorkerStage
<1>4. ASSUME QuitFlag \/ QuitWake \/ QuitPool \/ QuitJoin \/ UNCHANGED vars
      PROVE  StageInv'
  <2>1. UNCHANGED <<free, conn, pc, my>>
    BY <1>4 DEF QuitFlag, QuitWake, QuitPool, QuitJoin, QuitStep, vars, slotVars, thrVars
  <2> QED BY <2>1 DEF StageInv, Works, Held
<1> QED BY <1>1, <1>2, <1>3, <1>4 DEF Next

(* At the start every slot is free. *)
LEMMA InitStage == Init => StageInv
BY DEF Init, StageInv, Works, Held, Zeroed, WorkPc, FinalizePc

-----------------------------------------------------------------------------
(* The connection counter *)

Reserved == {h \in Handoffs : pc[h] \in {"over", "connect", "acquire"}}
Over == {h \in Handoffs : pc[h] = "over"}

(* The slots g_conn_count does not count any more, or not yet. *)
Gone ==
  {s \in Slots : \/ free[s] > 0
                 \/ \E t \in Threads : my[t] = s /\ pc[t] \in {"release", "push"}}

Counted == Slots \ Gone

CountInv ==
  /\ conn_count = Cardinality(Counted) + Cardinality(Reserved)
  /\ conn_count - Cardinality(Over) <= MaxConns

(* A slot that has an owner is in use, unless it is on the free stack or   *)
(* on its way there.                                                       *)
LEMMA LiveNotGone == SlotInv /\ server_running => LiveSlots = Slots \ Gone
<1> SUFFICES ASSUME SlotInv, server_running, NEW s \in Slots
             PROVE  s \in LiveSlots <=> s \notin Gone
  BY DEF LiveSlots, Gone
<1>1. Apart /\ Somewhere
  BY DEF SlotInv, OwnInv
<1>2. ASSUME s \in LiveSlots
      PROVE  s \notin Gone
  <2>1. CASE \E h \in Handoffs : Building(h, s)
    <3>1. PICK h \in Handoffs : Building(h, s)
      BY <2>1
    <3>2. h \in Threads /\ my[h] = s /\ pc[h] \notin {"release", "push"}
      BY <3>1 DEF Building, Threads
    <3> QED BY <1>1, <3>2 DEF Apart, Gone
  <2>2. CASE \E w \in Workers : s \in list[w] \cup Pending(w)
    <3>1. \A t \in Threads : my[t] = s => pc[t] \in {"added", "stamp"}
      BY <1>1, <2>2 DEF Apart
    <3> QED BY <1>1, <2>2, <3>1 DEF Apart, Gone
  <2>3. CASE \E t \in Threads : Finalizing(t, s) /\ pc[t] \in {"unlink", "close"}
    <3>1. PICK t \in Threads : my[t] = s /\ pc[t] \in {"unlink", "close"}
      BY <2>3 DEF Finalizing
    <3> QED BY <1>1, <3>1 DEF Apart, Gone
  <2> QED BY <1>2, <2>1, <2>2, <2>3 DEF LiveSlots
<1>3. ASSUME s \notin Gone
      PROVE  s \in LiveSlots
  <2>1. CASE \E w \in Workers : s \in list[w] \cup Pending(w)
    BY <2>1 DEF LiveSlots
  <2>2. CASE ~\E w \in Workers : s \in list[w] \cup Pending(w)
    <3>1. PICK t \in Threads : my[t] = s /\ pc[t] \notin {"release", "push"}
      BY <1>1, <1>3, <2>2 DEF Somewhere, Gone
    <3>2. \/ pc[t] \in FinalizePc
          \/ t \in Handoffs /\ pc[t] \in {"memset", "init", "lock", "rollback"}
      BY <2>2, <3>1, InHand
    <3>3. \/ Finalizing(t, s) /\ pc[t] \in {"unlink", "close"}
          \/ t \in Handoffs /\ Building(t, s)
      BY <3>1, <3>2 DEF Finalizing, Building, FinalizePc
    <3> QED BY <3>3 DEF LiveSlots
  <2> QED BY <2>1, <2>2
<1> QED BY <1>2, <1>3

(* The sets whose sizes are compared are finite. *)
LEMMA CountFinite ==
  /\ IsFiniteSet(Counted) /\ IsFiniteSet(Reserved) /\ IsFiniteSet(Over)
  /\ Cardinality(Counted) \in Nat /\ Cardinality(Reserved) \in Nat
  /\ Cardinality(Over) \in Nat
<1>1. Counted \subseteq Slots /\ Reserved \subseteq Handoffs /\ Over \subseteq Handoffs
  BY DEF Counted, Reserved, Over
<1>2. IsFiniteSet(Counted) /\ IsFiniteSet(Reserved) /\ IsFiniteSet(Over)
  BY <1>1, FS_Subset, ConstantsAssumption
<1> QED BY <1>2, FS_CardinalityType

(* Steps after which the counter still fits. *)
LEMMA CountSame ==
  ASSUME CountInv, UNCHANGED <<conn_count, Counted, Reserved, Over>>
  PROVE  CountInv'
BY DEF CountInv

(* Every step that moves a slot in or out of use moves the counter along,  *)
(* on every error path, also while the server stops.                       *)
LEMMA NextCount == IInv /\ StageInv /\ CountInv /\ [Next]_vars => CountInv'
<1> SUFFICES ASSUME IInv, StageInv, CountInv, [Next]_vars
             PROVE  CountInv'
  OBVIOUS
<1> USE DEF Goto, quitVars, slotVars, listVars, thrVars, loopVars
<1>1. IInv /\ LocalsOK /\ conn_count \in Int
  BY DEF IInv, TypeOK, SlotTypes
<1>2. /\ free \in [Slots -> Nat] /\ my \in [Threads -> Slots \cup {NoSlot}]
      /\ pc \in [Threads -> HandoffPc \cup FinalizePc \cup WorkerPc]
      /\ NoSlot \notin Slots /\ Handoffs \cap Workers = {}
      /\ Handoffs \subseteq Threads /\ Workers \subseteq Threads
  BY <1>1, OwnTypes
<1>3. Counted = Slots \ Gone /\ Counted' = Slots \ Gone'
  BY DEF Counted
<1>4. /\ conn_count = Cardinality(Counted) + Cardinality(Reserved)
      /\ conn_count - Cardinality(Over) <= MaxConns
      /\ MaxConns \in Nat
  BY ConstantsAssumption DEF CountInv
<1>5. Gone \subseteq Slots /\ Gone' \subseteq Slots
  BY DEF Gone
<1>6. ASSUME NEW t \in Threads, Finalize(t)
      PROVE  CountInv'
  <2>1. pc[t] \in FinalizePc /\ my[t] \in Slots
    BY <1>1, <1>6 DEF Finalize, FinalizeUnlink, FinalizeClose, FinalizeRelease,
                      FinalizePush, LocalsOK, HasConnPc, FinalizePc
  <2>2. /\ \A u \in Threads : my[u] = my[t] /\ pc[u] \in WorkPc => u = t
        /\ free[my[t]] = 0
    BY <2>1 DEF StageInv, Works, WorkPc
  <2>3. /\ \A u \in Threads \ {t} : pc'[u] = pc[u]
        /\ t \in Handoffs => pc'[t] \in FinalizePc \cup {"idle"}
    BY <1>1, <1>2, <1>6 DEF Finalize, FinalizeUnlink, FinalizeClose, FinalizeRelease,
                            FinalizePush, FinalizePc, LocalsOK
  <2>4. Reserved' = Reserved /\ Over' = Over
    BY <1>2, <2>1, <2>3 DEF Reserved, Over, FinalizePc
  <2>5. CASE FinalizeClose(t)
    <3>1. /\ conn_count' = conn_count - 1 /\ pc[t] = "close"
          /\ pc' = [pc EXCEPT ![t] = "release"] /\ UNCHANGED <<free, my>>
      BY <2>5 DEF FinalizeClose
    <3>2. my[t] \notin Gone /\ Gone' = Gone \cup {my[t]}
      BY <1>2, <2>1, <2>2, <3>1 DEF Gone, WorkPc, FinalizePc
    <3>3. Counted' = Counted \ {my[t]} /\ my[t] \in Counted
      BY <1>3, <2>1, <3>2
    <3>4. Cardinality(Counted') = Cardinality(Counted) - 1
      BY <3>3, CountFinite, FS_RemoveElement
    <3> QED BY <1>1, <1>4, <2>4, <3>1, <3>4, CountFinite DEF CountInv
  <2>6. CASE ~FinalizeClose(t)
    <3>1. Gone' = Gone
      <4>1. CASE FinalizeUnlink(t)
        BY <1>2, <2>1, <4>1 DEF Gone, FinalizeUnlink
      <4>2. CASE FinalizeRelease(t)
        BY <1>2, <2>1, <4>2 DEF Gone, FinalizeRelease
      <4>3. CASE FinalizePush(t)
        <5>1. /\ pc[t] = "push" /\ free' = [free EXCEPT ![my[t]] = @ + 1]
              /\ my' = [my EXCEPT ![t] = NoSlot] /\ pc' = [pc EXCEPT ![t] = ret[t]]
          BY <4>3 DEF FinalizePush
        <5>2. /\ free'[my[t]] > 0 /\ \A x \in Slots \ {my[t]} : free'[x] = free[x]
              /\ my'[t] = NoSlot /\ \A u \in Threads \ {t} : my'[u] = my[u]
          BY <1>2, <2>1, <5>1
        <5>3. my[t] \in Gone /\ my[t] \in Gone'
          BY <2>1, <5>1, <5>2 DEF Gone
        <5>4. \A x \in Slots \ {my[t]} : x \in Gone' <=> x \in Gone
          BY <1>2, <2>3, <5>2 DEF Gone
        <5> QED BY <1>5, <5>3, <5>4
      <4> QED BY <1>6, <2>6, <4>1, <4>2, <4>3 DEF Finalize
    <3>2. conn_count' = conn_count
      BY <1>6, <2>6 DEF Finalize, FinalizeUnlink, FinalizeRelease, FinalizePush
    <3> QED BY <1>3, <2>4, <3>1, <3>2, CountSame
  <2> QED BY <2>5, <2>6
<1>7. ASSUME NEW w \in Workers, Worker(w)
      PROVE  CountInv'
  <2>1. free' = free /\ \A t \in Threads \ {w} : pc'[t] = pc[t] /\ my'[t] = my[t]
    BY <1>1, <1>7, WorkerKeeps
  <2>2. conn_count' = conn_count
    BY <1>7
       DEF Worker, LoopTest, EpollWait, PipeEvent, ReadGen, CheckSlot, Forward,
           FatalError, SkipSweep, SweepStart, SweepKeep, SweepCollect, SweepResume,
           SweepEnd, UnrefNext, GcDone, ExitWorker, DrainBatch, DrainAgain, CloseEpoll
  <2>3. pc[w] \notin {"release", "push"} /\ pc'[w] \notin {"release", "push"}
    <3>1. CASE UnrefNext(w)
      <4>1. pc[w] \in UnrefPc /\ \E s \in todo[w] : Unref(w, s, pc[w])
        BY <3>1 DEF UnrefNext
      <4>2. pc' = [pc EXCEPT ![w] = "unlink"] \/ pc' = [pc EXCEPT ![w] = pc[w]]
        BY <4>1, UnrefThread
      <4> QED BY <1>2, <4>1, <4>2 DEF UnrefPc
    <3>2. CASE CheckSlot(w)
      BY <1>2, <3>2 DEF CheckSlot
    <3>3. CASE ~UnrefNext(w) /\ ~CheckSlot(w)
      BY <1>2, <1>7, <3>3
         DEF Worker, LoopTest, EpollWait, PipeEvent, ReadGen, Forward,
             FatalError, SkipSweep, SweepStart, SweepKeep, SweepCollect, SweepResume,
             SweepEnd, GcDone, ExitWorker, DrainBatch, DrainAgain, CloseEpoll, BatchDone
    <3> QED BY <3>1, <3>2, <3>3
  <2>4. Gone' = Gone
    BY <1>2, <2>1, <2>3 DEF Gone
  <2>5. Reserved' = Reserved /\ Over' = Over
    BY <1>2, <2>1 DEF Reserved, Over
  <2> QED BY <1>3, <2>2, <2>4, <2>5, CountSame
<1>8. ASSUME NEW h \in Handoffs, Handoff(h)
      PROVE  CountInv'
  <2>1. \A t \in Threads \ {h} : pc'[t] = pc[t] /\ my'[t] = my[t]
    BY <1>1, <1>8, HandoffKeeps
  <2>2. ASSUME free' = free, pc[h] \notin {"release", "push"},
               pc'[h] \notin {"release", "push"}
        PROVE  Counted' = Counted
    <3>1. Gone' = Gone
      BY <1>2, <2>1, <2>2 DEF Gone
    <3> QED BY <1>3, <3>1
  <2>3. CASE Reserve(h)
    <3>1. /\ pc[h] = "idle" /\ conn_count' = conn_count + 1 /\ free' = free
          /\ pc'[h] = (IF conn_count >= MaxConns THEN "over" ELSE "connect")
      BY <1>2, <2>3 DEF Reserve, LimitReached
    <3>2. Counted' = Counted
      BY <2>2, <3>1
    <3>3. h \notin Reserved /\ Reserved' = Reserved \cup {h} /\ h \notin Over
      BY <1>2, <2>1, <3>1 DEF Reserved, Over
    <3>4. Cardinality(Reserved') = Cardinality(Reserved) + 1
      BY <3>3, CountFinite, FS_AddElement
    <3>5. CASE conn_count >= MaxConns
      <4>1. Over' = Over \cup {h}
        BY <1>2, <2>1, <3>1, <3>5 DEF Over
      <4>2. Cardinality(Over') = Cardinality(Over) + 1
        BY <3>3, <4>1, CountFinite, FS_AddElement
      <4> QED BY <1>1, <1>4, <3>1, <3>2, <3>4, <4>2, CountFinite DEF CountInv
    <3>6. CASE ~(conn_count >= MaxConns)
      <4>1. Over' = Over
        BY <1>2, <2>1, <3>1, <3>6 DEF Over
      <4> QED BY <1>1, <1>4, <3>1, <3>2, <3>4, <3>6, <4>1, CountFinite DEF CountInv
    <3> QED BY <3>5, <3>6
  <2>4. CASE Unreserve(h) \/ SlotsExhausted(h)
    <3>1. /\ pc[h] \in {"over", "connect", "acquire"} /\ pc'[h] = "idle"
          /\ conn_count' = conn_count - 1 /\ free' = free
      BY <1>2, <2>4 DEF Unreserve, SlotsExhausted
    <3>2. Counted' = Counted
      BY <2>2, <3>1
    <3>3. h \in Reserved /\ Reserved' = Reserved \ {h} /\ Over' = Over \ {h}
      BY <1>2, <2>1, <3>1 DEF Reserved, Over
    <3>4. Cardinality(Reserved') = Cardinality(Reserved) - 1
      BY <3>3, CountFinite, FS_RemoveElement
    <3>5. Cardinality(Over') \in Int /\ Cardinality(Over') >= Cardinality(Over) - 1
      <4>1. CASE h \in Over
        <5>1. Cardinality(Over') = Cardinality(Over) - 1
          BY <3>3, <4>1, CountFinite, FS_RemoveElement
        <5> QED BY <5>1, CountFinite
      <4>2. CASE h \notin Over
        <5>1. Over' = Over
          BY <3>3, <4>2
        <5> QED BY <5>1, CountFinite
      <4> QED BY <4>1, <4>2
    <3> QED BY <1>1, <1>4, <3>1, <3>2, <3>4, <3>5, CountFinite DEF CountInv
  <2>5. CASE SlotAcquire(h)
    <3>1. PICK n \in Slots : /\ free[n] > 0 /\ free' = [free EXCEPT ![n] = @ - 1]
                             /\ my' = [my EXCEPT ![h] = n]
      BY <2>5 DEF SlotAcquire, OnFreeStack
    <3>2. /\ pc[h] = "acquire" /\ pc'[h] = "memset" /\ conn_count' = conn_count
      BY <1>2, <2>5 DEF SlotAcquire
    <3>3. free[n] = 1
      BY <1>2, <3>1 DEF StageInv
    <3>4. \A t \in Threads : ~(my[t] = n /\ pc[t] \in {"release", "push"})
      BY <3>3 DEF StageInv, Works, WorkPc, FinalizePc
    <3>5. n \in Gone /\ Gone' = Gone \ {n}
      <4>1. ~(free'[n] > 0) /\ \A x \in Slots \ {n} : free'[x] = free[x]
        BY <1>2, <3>1, <3>3
      <4>2. my'[h] = n
        BY <1>2, <3>1
      <4>3. n \in Gone /\ n \notin Gone'
        BY <2>1, <3>1, <3>2, <3>3, <3>4, <4>1, <4>2 DEF Gone
      <4>4. \A x \in Slots \ {n} : x \in Gone' <=> x \in Gone
        BY <1>2, <2>1, <3>2, <4>1, <4>2 DEF Gone
      <4> QED BY <1>5, <4>3, <4>4
    <3>6. n \notin Counted /\ Counted' = Counted \cup {n}
      BY <1>3, <3>5
    <3>7. Cardinality(Counted') = Cardinality(Counted) + 1
      BY <3>6, CountFinite, FS_AddElement
    <3>8. h \in Reserved /\ Reserved' = Reserved \ {h} /\ Over' = Over
      BY <1>2, <2>1, <3>2 DEF Reserved, Over
    <3>9. Cardinality(Reserved') = Cardinality(Reserved) - 1
      BY <3>8, CountFinite, FS_RemoveElement
    <3> QED BY <1>4, <3>2, <3>7, <3>8, <3>9, CountFinite DEF CountInv
  <2>6. CASE HandoffNoBuffer(h) \/ HandoffRollback(h)
    <3>1. /\ pc[h] \in {"lock", "rollback"} /\ Unref(h, my[h], "idle")
          /\ UNCHANGED <<free, conn_count>>
      BY <2>6 DEF HandoffNoBuffer, HandoffRollback
    <3>2. pc'[h] \in {"unlink", "idle"}
      BY <1>2, <3>1, UnrefThread
    <3>3. Reserved' = Reserved /\ Over' = Over
      BY <1>2, <2>1, <3>1, <3>2 DEF Reserved, Over
    <3> QED BY <2>2, <3>1, <3>2, <3>3, CountSame
  <2>7. CASE Connected(h)
    <3>1. pc[h] = "connect" /\ pc'[h] = "acquire" /\ UNCHANGED <<free, conn_count>>
      BY <1>2, <2>7 DEF Connected
    <3>2. Reserved' = Reserved /\ Over' = Over
      BY <1>2, <2>1, <3>1 DEF Reserved, Over
    <3> QED BY <2>2, <3>1, <3>2, CountSame
  <2>8. CASE \/ SlotReset(h) \/ HandoffInit(h) \/ HandoffRefused(h) \/ HandoffLink(h)
             \/ HandoffLinkFails(h) \/ HandoffAddTarget(h) \/ HandoffDone(h)
    <3>1. /\ pc[h] \in {"memset", "init", "lock", "added", "stamp"}
          /\ pc'[h] \in {"init", "lock", "rollback", "added", "stamp", "idle"}
          /\ UNCHANGED <<free, conn_count>>
      BY <1>2, <2>8 DEF SlotReset, HandoffInit, HandoffRefused, HandoffLink,
                        HandoffLinkFails, HandoffAddTarget, HandoffDone
    <3>2. Reserved' = Reserved /\ Over' = Over
      BY <1>2, <2>1, <3>1 DEF Reserved, Over
    <3> QED BY <2>2, <3>1, <3>2, CountSame
  <2> QED BY <1>8, <2>3, <2>4, <2>5, <2>6, <2>7, <2>8 DEF Handoff
<1>9. ASSUME QuitFlag \/ QuitWake \/ QuitPool \/ QuitJoin \/ UNCHANGED vars
       PROVE  CountInv'
  <2>1. UNCHANGED <<conn_count, free, my, pc>>
    BY <1>9 DEF QuitFlag, QuitWake, QuitPool, QuitJoin, QuitStep, vars
  <2>2. Gone' = Gone /\ Reserved' = Reserved /\ Over' = Over
    BY <2>1 DEF Gone, Reserved, Over
  <2> QED BY <1>3, <2>1, <2>2, CountSame
<1> QED BY <1>6, <1>7, <1>8, <1>9 DEF Next

(* Stages and counter hold from the start to the end of every run. *)
LEMMA StageAlways == Spec => []StageInv /\ []CountInv
<1>1. Init => CountInv
  <2> SUFFICES ASSUME Init
               PROVE  CountInv
    OBVIOUS
  <2>1. Reserved = {} /\ Over = {}
    BY ConstantsAssumption DEF Init, Reserved, Over, Threads
  <2>2. Counted = {}
    BY DEF Init, Counted, Gone
  <2> QED BY <2>1, <2>2, FS_EmptySet, ConstantsAssumption DEF CountInv, Init
<1> QED BY <1>1, InitIInv, NextIInv, InitStage, NextStage, NextCount, PTL DEF Spec

(* While the server runs g_conn_count counts exactly the reservations not  *)
(* yet handed back, on every error path of the handshake and the           *)
(* hand-over, and exceeds MAX_CONCURRENT_CONNS by no more than the         *)
(* handshakes that are about to be refused.                                *)
THEOREM CountIsExact == Spec => []CountExact
<1>1. SlotInv /\ CountInv => CountExact
  BY LiveNotGone DEF CountInv, CountExact, Reserved, Over, Counted
<1> QED BY <1>1, StageAlways, SlotAlways, PTL

(* The stages of a slot, one kind at a time. *)
LEMMA StagesCases ==
  ASSUME NEW s
  PROVE  /\ \A o \in Stages(s) :
              \/ free[s] > 0 /\ o = <<"free", NoThread>>
              \/ \E h \in Handoffs : New(h, s) /\ o = <<"new", h>>
              \/ conn[s].refs > 0 /\ o = <<"held", NoThread>>
              \/ \E t \in Threads : Finalizing(t, s) /\ o = <<"finalize", t>>
         /\ free[s] > 0 => <<"free", NoThread>> \in Stages(s)
         /\ \A h \in Handoffs : New(h, s) => <<"new", h>> \in Stages(s)
         /\ conn[s].refs > 0 => <<"held", NoThread>> \in Stages(s)
         /\ \A t \in Threads : Finalizing(t, s) => <<"finalize", t>> \in Stages(s)
BY DEF Stages

(* Who works on a slot builds a tenant there or finalizes one. *)
LEMMA WorksCases ==
  ASSUME IInv, NEW t \in Threads, NEW s
  PROVE  /\ Works(t, s) => Finalizing(t, s) \/ (t \in Handoffs /\ New(t, s))
         /\ Finalizing(t, s) => Works(t, s) /\ ~New(t, s)
         /\ New(t, s) => Works(t, s) /\ ~Finalizing(t, s)
<1>1. pc[t] \in {"memset", "init"} => t \in Handoffs
  BY DEF IInv, LocalsOK, Threads, WorkerPc, UnrefPc, FinalizePc
<1> QED BY <1>1 DEF Works, WorkPc, Finalizing, New, FinalizePc

(* Also while the server stops, and although a worker that leaves its loop *)
(* unreferences its last garbage a second time: each tenancy of a slot     *)
(* ends once and by one thread, no slot is pushed twice on the free stack, *)
(* and g_conn_count is given back once for each.                           *)
THEOREM TenanciesEndOnce == Spec => []EndsOnce
<1>1. ASSUME IInv, StageInv, NEW s \in Slots
      PROVE  Cardinality(Stages(s)) = 1
  <2>1. /\ free \in [Slots -> Nat] /\ free[s] <= 1
        /\ conn[s].refs \in Int /\ conn[s].refs <= 1
        /\ Handoffs \subseteq Threads
    BY <1>1, OwnTypes DEF StageInv, Conn
  <2>2. (free[s] > 0 <=> free[s] = 1) /\ (conn[s].refs > 0 <=> Held(s))
    BY <2>1 DEF Held
  <2>3. \A t \in Threads : Finalizing(t, s) \/ (t \in Handoffs /\ New(t, s)) <=> Works(t, s)
    BY <1>1, WorksCases
  <2>4. \E o : Stages(s) = {o}
    <3>1. CASE free[s] = 1
      <4>1. ~Held(s) /\ \A t \in Threads : ~Works(t, s)
        BY <1>1, <3>1 DEF StageInv
      <4>2. \A o \in Stages(s) : o = <<"free", NoThread>>
        BY <2>1, <2>2, <2>3, <4>1, StagesCases
      <4>3. <<"free", NoThread>> \in Stages(s)
        BY <2>2, <3>1, StagesCases
      <4>4. Stages(s) = {<<"free", NoThread>>}
        BY <4>2, <4>3
      <4> QED BY <4>4
    <3>2. CASE Held(s)
      <4>1. ~(free[s] = 1) /\ \A t \in Threads : ~Works(t, s)
        BY <1>1, <3>2 DEF StageInv
      <4>2. \A o \in Stages(s) : o = <<"held", NoThread>>
        BY <2>1, <2>2, <2>3, <4>1, StagesCases
      <4>3. <<"held", NoThread>> \in Stages(s)
        BY <2>2, <3>2, StagesCases
      <4>4. Stages(s) = {<<"held", NoThread>>}
        BY <4>2, <4>3
      <4> QED BY <4>4
    <3>3. CASE \E t \in Threads : Works(t, s)
      <4>1. PICK t \in Threads : Works(t, s)
        BY <3>3
      <4>2. ~Held(s) /\ ~(free[s] = 1) /\ \A u \in Threads : Works(u, s) => u = t
        BY <1>1, <4>1 DEF StageInv
      <4>3. \A u \in Threads : Finalizing(u, s) => u = t
        BY <2>3, <4>2
      <4>4. \A u \in Handoffs : New(u, s) => u = t
        BY <2>1, <2>3, <4>2
      <4>5. CASE Finalizing(t, s)
        <5>1. ~New(t, s)
          BY <1>1, <4>5, WorksCases
        <5>2. \A o \in Stages(s) : o = <<"finalize", t>>
          BY <2>2, <4>2, <4>3, <4>4, <5>1, StagesCases
        <5>3. <<"finalize", t>> \in Stages(s)
          BY <4>5, StagesCases
        <5>4. Stages(s) = {<<"finalize", t>>}
          BY <5>2, <5>3
        <5> QED BY <5>4
      <4>6. CASE ~Finalizing(t, s)
        <5>1. t \in Handoffs /\ New(t, s)
          BY <2>3, <4>1, <4>6
        <5>2. \A o \in Stages(s) : o = <<"new", t>>
          BY <2>2, <4>2, <4>3, <4>4, <4>6, StagesCases
        <5>3. <<"new", t>> \in Stages(s)
          BY <5>1, StagesCases
        <5>4. Stages(s) = {<<"new", t>>}
          BY <5>2, <5>3
        <5> QED BY <5>4
      <4> QED BY <4>5, <4>6
    <3> QED BY <1>1, <3>1, <3>2, <3>3 DEF StageInv
  <2> QED BY <2>4, FS_Singleton
<1>2. ASSUME IInv, StageInv
      PROVE  InUse = Counted
  <2> SUFFICES ASSUME NEW s \in Slots
               PROVE  s \in InUse <=> s \notin Gone
    BY DEF InUse, Counted
  <2>1. /\ free \in [Slots -> Nat] /\ free[s] <= 1
        /\ conn[s].refs \in Int /\ conn[s].refs <= 1
        /\ Handoffs \subseteq Threads
    BY <1>2, OwnTypes DEF StageInv, Conn
  <2>2. (free[s] > 0 <=> free[s] = 1) /\ (conn[s].refs > 0 <=> Held(s))
    BY <2>1 DEF Held
  <2>3. ASSUME s \in Gone
        PROVE  s \notin InUse
    <3>1. \/ free[s] = 1
          \/ \E t \in Threads : Works(t, s) /\ pc[t] \in {"release", "push"}
      BY <2>2, <2>3 DEF Gone, Works, WorkPc, FinalizePc
    <3>2. /\ ~Held(s)
          /\ \A t \in Threads : Works(t, s) => pc[t] \in {"release", "push"}
      BY <1>2, <3>1 DEF StageInv
    <3>3. \A h \in Handoffs : ~New(h, s)
      BY <2>1, <3>2 DEF New, Works, WorkPc
    <3>4. \A t \in Threads : ~(Finalizing(t, s) /\ pc[t] \in {"unlink", "close"})
      BY <3>2 DEF Finalizing, Works, WorkPc
    <3> QED BY <2>2, <3>2, <3>3, <3>4 DEF InUse
  <2>4. ASSUME s \notin Gone
        PROVE  s \in InUse
    <3>1. /\ ~(free[s] = 1)
          /\ \A t \in Threads : Works(t, s) => pc[t] \notin {"release", "push"}
      BY <2>2, <2>4 DEF Gone, Works
    <3>2. CASE Held(s)
      BY <2>2, <3>2 DEF InUse
    <3>3. CASE ~Held(s)
      <4>1. PICK t \in Threads : Works(t, s)
        BY <1>2, <3>1, <3>3 DEF StageInv
      <4>2. Finalizing(t, s) \/ (t \in Handoffs /\ New(t, s))
        BY <1>2, <4>1, WorksCases
      <4>3. Finalizing(t, s) => pc[t] \in {"unlink", "close"}
        BY <3>1, <4>1 DEF Finalizing, FinalizePc
      <4> QED BY <4>2, <4>3 DEF InUse
    <3> QED BY <3>2, <3>3
  <2> QED BY <2>3, <2>4
<1>3. IInv /\ StageInv /\ CountInv => EndsOnce
  BY <1>1, <1>2 DEF EndsOnce, StageInv, CountInv, Reserved
<1> QED BY <1>3, InitIInv, NextIInv, StageAlways, PTL DEF Spec
====
