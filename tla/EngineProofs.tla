---------------------------- MODULE EngineProofs ----------------------------
(***************************************************************************)
(* Proofs about starting and stopping the native engine, for any set of    *)
(* addresses, any number of starts and any sizes of queue and pool.        *)
(*                                                                         *)
(* StoppedIsQuiet, UsedIsLive and NoRebind are claims about a caller who   *)
(* stops the engine only once start-up has settled (Patient); TLC shows    *)
(* with the zombie run that without it the first one is false.             *)
(***************************************************************************)
EXTENDS Engine, TLAPS

(* Where the listener thread is while it brings the engine up, and while   *)
(* it serves.                                                              *)
Starting == {"pipe", "read", "apply", "count", "workers"}
Looping == {"loop", "reread", "reapply", "poll", "accept", "closing"}

(* No thread of the engine exists and no connection waits for one. *)
Empty == /\ pool = "none" /\ tcp = "none" /\ udp = "none" /\ dns = "none"
         /\ queue = 0 /\ busy = 0

(* Who is alive when: the flags, the three threads and the places of       *)
(* socks5_server_quit agree about it.                                      *)
Life ==
  /\ jni # "idle" => g_server_running /\ srv = "exited"
  /\ ~g_server_running => ~server_running /\ lst \in {"none", "exited"}
  /\ srv = "run" => ~server_running /\ lst \in {"none", "exited"}
  /\ srv \in {"run", "flagged"} => g_server_running
  /\ srv = "flagged" => server_running /\ lst \in {"none", "exited"}
  /\ lst \in Starting => jni = "idle" /\ server_running
  /\ lst \in Looping => jni \in {"idle", "test", "flag", "close", "wake", "listener"}
  /\ server_running => \/ srv = "flagged"
                       \/ srv = "exited" /\ lst \in Starting \cup Looping
  /\ server_running => jni \in {"idle", "test", "flag"}
  /\ lst \in Looping /\ jni \in {"idle", "test", "flag"} => server_running
  /\ lst = "closing" => ~server_running
  /\ jni = "flag" => lst \in Looping
  /\ jni \in {"close", "wake", "listener"} => lst \in Looping \cup {"exited"}
  /\ jni \in {"pool", "poolwait", "dns", "udp", "tcp", "pipe"} => lst = "none"
  /\ jni = "server" => lst \in {"none", "exited"}

(* What exists at each place of start-up, service and shutdown. *)
Parts ==
  /\ jni \in {"idle", "test", "server"} /\ ~server_running =>
       Empty /\ sdpipe = "closed"
  /\ srv = "flagged" \/ lst = "pipe" => Empty /\ sdpipe = "closed"
  /\ lst \in {"read", "apply", "count"} => Empty /\ sdpipe = "open"
  /\ lst = "workers" =>
       /\ sdpipe = "open" /\ dns = "none" /\ queue = 0 /\ busy = 0
       /\ pool \in {"none", "live"} /\ tcp \in {"none", "run"} /\ udp \in {"none", "run"}
       /\ pool = "live" => tcp = "run"
       /\ udp = "run" => pool = "live"
  /\ lst \in Looping \/ jni \in {"close", "wake", "listener"} =>
       /\ pool = "live" /\ tcp # "none" /\ udp # "none" /\ dns = "run"
       /\ sdpipe = IF jni = "listener" THEN "signalled" ELSE "open"
  /\ jni \in {"pool", "poolwait", "dns", "udp", "tcp", "pipe"} => sdpipe = "signalled"
  /\ jni \in {"dns", "udp", "tcp", "pipe"} => pool = "none" /\ queue = 0 /\ busy = 0
  /\ jni = "pool" => pool = "live"
  /\ jni \in {"pool", "poolwait", "dns"} => dns = "run"
  /\ jni \in {"udp", "tcp", "pipe"} => dns = "none"
  /\ jni \in {"pool", "poolwait", "dns", "udp"} => udp # "none"
  /\ jni \in {"tcp", "pipe"} => udp = "none"
  /\ jni \in {"pool", "poolwait", "dns", "udp", "tcp"} => tcp # "none"
  /\ jni = "pipe" => tcp = "none"

(* Nothing listens before the first reconciliation and after the listeners *)
(* have been closed.                                                       *)
Bound ==
  lst \in {"none", "exited", "pipe"} \/ jni \in JniPc \ {"idle", "test", "flag", "close"} =>
    \A a \in Addrs : table[a] # "ours"

IInv == TypeOK /\ Life /\ Parts /\ Bound /\ ~badJoin
-----------------------------------------------------------------------------
USE EngineAssumption
USE DEF comps, net, Lst, Quit, QuitStep

(* The steps of Next by name, so that a proof can take them one by one. *)
LEMMA NextCases ==
  ASSUME Next
  PROVE  \/ NativeStart \/ UpdateBindAddrs \/ NativeStop \/ MainDynamic \/ SpawnListener
         \/ ListenerPipe \/ ReconcileRead \/ ReconcileApply \/ BindFailed \/ BindOk
         \/ CreateThreads \/ ListenerLoop \/ PollReturns \/ ListenerExit \/ Accept
         \/ PoolTake \/ PoolDone \/ TcpExit \/ UdpExit \/ InterfaceDown
         \/ InterfaceUp \/ QuitTest \/ QuitFlag \/ QuitClose \/ QuitWake
         \/ QuitListener \/ QuitPool \/ QuitPoolJoin \/ QuitDns \/ QuitUdp
         \/ QuitTcp \/ QuitPipe \/ NativeStopped
  BY DEF Next, Listener, QuitServer

(* Typing is kept by every step, by impatient callers' steps too. *)
LEMMA TypeStep ==
  ASSUME TypeOK, [Next]_vars
  PROVE  TypeOK'
<1> USE DEF TypeOK, JniPc, ListenerPc, SlotState, Thread
<1>1. CASE NativeStart
  BY <1>1 DEF NativeStart, Spend, SetBindAddrs
<1>2. CASE UpdateBindAddrs
  BY <1>2 DEF UpdateBindAddrs, Spend, SetBindAddrs
<1>3. CASE NativeStop
  BY <1>3 DEF NativeStop, Settled
<1>4. CASE MainDynamic
  <2>1. CASE server_running
    <3>1. g_server_running' \in BOOLEAN
      BY <1>4, <2>1, Zenon DEF MainDynamic
    <3> QED
      BY <1>4, <2>1, <3>1 DEF MainDynamic
  <2>2. CASE ~server_running
    BY <1>4, <2>2 DEF MainDynamic
  <2> QED
    BY <2>1, <2>2
<1>5. CASE SpawnListener
  BY <1>5 DEF SpawnListener
<1>6. CASE ListenerPipe
  BY <1>6 DEF ListenerPipe
<1>7. CASE ReconcileRead
  BY <1>7 DEF ReconcileRead
<1>8. CASE ReconcileApply
  <2>1. table' \in [Addrs -> SlotState]
    <3>1. CASE server_running
      BY <1>8, <3>1 DEF ReconcileApply, StillRunning
    <3>2. CASE ~server_running
      BY <1>8, <3>2 DEF ReconcileApply, StillRunning
    <3> QED
      BY <3>1, <3>2
  <2>2. lst' \in ListenerPc
    BY <1>8 DEF ReconcileApply
  <2> QED
    BY <1>8, <2>1, <2>2 DEF ReconcileApply
<1>9. CASE BindFailed
  <2>1. server_running' \in BOOLEAN
    BY <1>9, Zenon DEF BindFailed, FlagAfterFailure
  <2> QED
    BY <1>9, <2>1 DEF BindFailed
<1>10. CASE BindOk
  BY <1>10 DEF BindOk
<1>11. CASE CreateThreads
  BY <1>11 DEF CreateThreads
<1>12. CASE ListenerLoop
  BY <1>12 DEF ListenerLoop
<1>13. CASE PollReturns
  BY <1>13 DEF PollReturns
<1>14. CASE ListenerExit
  BY <1>14 DEF ListenerExit
<1>15. CASE Accept
  BY <1>15 DEF Accept, Spend, QueueHasRoom
<1>16. CASE PoolTake
  BY <1>16 DEF PoolTake, Serving
<1>17. CASE PoolDone
  BY <1>17 DEF PoolDone
<1>18. CASE TcpExit
  BY <1>18 DEF TcpExit, Told
<1>19. CASE UdpExit
  BY <1>19 DEF UdpExit, Told
<1>20. CASE InterfaceDown
  BY <1>20 DEF InterfaceDown, Spend
<1>21. CASE InterfaceUp
  BY <1>21 DEF InterfaceUp
<1>22. CASE QuitTest
  BY <1>22 DEF QuitTest, ListenerPc
<1>23. CASE QuitFlag
  <2>1. server_running' \in BOOLEAN
    BY <1>23, Zenon DEF QuitFlag
  <2> QED
    BY <1>23, <2>1 DEF QuitFlag
<1>24. CASE QuitClose
  BY <1>24 DEF QuitClose
<1>25. CASE QuitWake
  BY <1>25 DEF QuitWake
<1>26. CASE QuitListener
  BY <1>26 DEF QuitListener
<1>27. CASE QuitPool
  BY <1>27 DEF QuitPool
<1>28. CASE QuitPoolJoin
  BY <1>28 DEF QuitPoolJoin, PoolDrained
<1>29. CASE QuitDns
  BY <1>29 DEF QuitDns
<1>30. CASE QuitUdp
  BY <1>30 DEF QuitUdp
<1>31. CASE QuitTcp
  BY <1>31 DEF QuitTcp
<1>32. CASE QuitPipe
  BY <1>32 DEF QuitPipe
<1>33. CASE NativeStopped
  <2>1. g_server_running' \in BOOLEAN
    BY <1>33, Zenon DEF NativeStopped
  <2> QED
    BY <1>33, <2>1 DEF NativeStopped
<1>34. CASE UNCHANGED vars
  BY <1>34 DEF vars
<1> QED
  BY <1>1, <1>2, <1>3, <1>4, <1>5, <1>6, <1>7, <1>8, <1>9, <1>10, <1>11, <1>12, <1>13, <1>14,
       <1>15, <1>16, <1>17, <1>18, <1>19, <1>20, <1>21, <1>22, <1>23, <1>24, <1>25, <1>26, <1>27, <1>28, <1>29, <1>30, <1>31, <1>32, <1>33, <1>34, NextCases

(* Before the first start nothing exists. *)
LEMMA InitIInv ==
  ASSUME Init
  PROVE  IInv
<1>1. /\ g_server_running \in BOOLEAN /\ server_running \in BOOLEAN
      /\ badJoin \in BOOLEAN
  BY Zenon DEF Init
<1> QED
  BY <1>1 DEF Init, IInv, TypeOK, Life, Parts, Bound, Empty, JniPc, ListenerPc,
         SlotState, Thread, Starting, Looping

(* Start-up, service and quit keep the flags and the threads in step.  The *)
(* caller's patience is needed where stop starts: the listener thread is   *)
(* past the creation of the workers, or it has given up.                   *)
LEMMA LifeStep ==
  ASSUME IInv, Next, Patient
  PROVE  Life'
<1> USE DEF IInv, TypeOK, Life, Parts, Bound, Starting, Looping
<1>1. CASE NativeStart
  BY <1>1 DEF NativeStart, Spend, SetBindAddrs
<1>2. CASE UpdateBindAddrs
  BY <1>2 DEF UpdateBindAddrs, Spend, SetBindAddrs
<1>3. CASE NativeStop
  BY <1>3 DEF NativeStop, Settled
<1>4. CASE MainDynamic
  <2>1. ~server_running
    BY <1>4 DEF MainDynamic
  <2> QED
    BY <1>4, <2>1 DEF MainDynamic
<1>5. CASE SpawnListener
  BY <1>5 DEF SpawnListener
<1>6. CASE ListenerPipe
  BY <1>6 DEF ListenerPipe
<1>7. CASE ReconcileRead
  BY <1>7 DEF ReconcileRead
<1>8. CASE ReconcileApply
  BY <1>8 DEF ReconcileApply, StillRunning, listener_is_ours, CanBind
<1>9. CASE BindFailed
  BY <1>9 DEF BindFailed, FlagAfterFailure
<1>10. CASE BindOk
  BY <1>10 DEF BindOk
<1>11. CASE CreateThreads
  BY <1>11 DEF CreateThreads
<1>12. CASE ListenerLoop
  BY <1>12 DEF ListenerLoop
<1>13. CASE PollReturns
  BY <1>13 DEF PollReturns
<1>14. CASE ListenerExit
  BY <1>14 DEF ListenerExit
<1>15. CASE Accept
  BY <1>15 DEF Accept, Spend, QueueHasRoom
<1>16. CASE PoolTake
  BY <1>16 DEF PoolTake, Serving
<1>17. CASE PoolDone
  BY <1>17 DEF PoolDone
<1>18. CASE TcpExit
  BY <1>18 DEF TcpExit, Told
<1>19. CASE UdpExit
  BY <1>19 DEF UdpExit, Told
<1>20. CASE InterfaceDown
  BY <1>20 DEF InterfaceDown, Spend
<1>21. CASE InterfaceUp
  BY <1>21 DEF InterfaceUp
<1>22. CASE QuitTest
  BY <1>22 DEF QuitTest, ListenerPc
<1>23. CASE QuitFlag
  BY <1>23 DEF QuitFlag
<1>24. CASE QuitClose
  BY <1>24 DEF QuitClose
<1>25. CASE QuitWake
  BY <1>25 DEF QuitWake
<1>26. CASE QuitListener
  BY <1>26 DEF QuitListener
<1>27. CASE QuitPool
  BY <1>27 DEF QuitPool
<1>28. CASE QuitPoolJoin
  BY <1>28 DEF QuitPoolJoin, PoolDrained
<1>29. CASE QuitDns
  BY <1>29 DEF QuitDns
<1>30. CASE QuitUdp
  BY <1>30 DEF QuitUdp
<1>31. CASE QuitTcp
  BY <1>31 DEF QuitTcp
<1>32. CASE QuitPipe
  BY <1>32 DEF QuitPipe
<1>33. CASE NativeStopped
  BY <1>33 DEF NativeStopped
<1> QED
  BY <1>1, <1>2, <1>3, <1>4, <1>5, <1>6, <1>7, <1>8, <1>9, <1>10, <1>11, <1>12, <1>13, <1>14,
       <1>15, <1>16, <1>17, <1>18, <1>19, <1>20, <1>21, <1>22, <1>23, <1>24, <1>25, <1>26, <1>27, <1>28, <1>29, <1>30, <1>31, <1>32, <1>33, NextCases

(* Every part is created before its first user and goes after its last     *)
(* one: the order of listener_task and of socks5_server_quit.              *)
LEMMA PartsStep ==
  ASSUME IInv, Next, Patient
  PROVE  Parts'
<1> USE DEF IInv, TypeOK, Life, Parts, Bound, Starting, Looping, Empty, Thread
<1>1. CASE NativeStart
  BY <1>1 DEF NativeStart, Spend, SetBindAddrs
<1>2. CASE UpdateBindAddrs
  BY <1>2 DEF UpdateBindAddrs, Spend, SetBindAddrs
<1>3. CASE NativeStop
  BY <1>3 DEF NativeStop, Settled
<1>4. CASE MainDynamic
  BY <1>4 DEF MainDynamic
<1>5. CASE SpawnListener
  BY <1>5 DEF SpawnListener
<1>6. CASE ListenerPipe
  BY <1>6 DEF ListenerPipe
<1>7. CASE ReconcileRead
  BY <1>7 DEF ReconcileRead
<1>8. CASE ReconcileApply
  BY <1>8 DEF ReconcileApply, StillRunning, listener_is_ours, CanBind
<1>9. CASE BindFailed
  BY <1>9 DEF BindFailed, FlagAfterFailure
<1>10. CASE BindOk
  BY <1>10 DEF BindOk
<1>11. CASE CreateThreads
  BY <1>11 DEF CreateThreads
<1>12. CASE ListenerLoop
  BY <1>12 DEF ListenerLoop
<1>13. CASE PollReturns
  BY <1>13 DEF PollReturns
<1>14. CASE ListenerExit
  BY <1>14 DEF ListenerExit
<1>15. CASE Accept
  BY <1>15 DEF Accept, Spend, QueueHasRoom
<1>16. CASE PoolTake
  BY <1>16 DEF PoolTake, Serving
<1>17. CASE PoolDone
  BY <1>17 DEF PoolDone
<1>18. CASE TcpExit
  BY <1>18 DEF TcpExit, Told
<1>19. CASE UdpExit
  BY <1>19 DEF UdpExit, Told
<1>20. CASE InterfaceDown
  BY <1>20 DEF InterfaceDown, Spend
<1>21. CASE InterfaceUp
  BY <1>21 DEF InterfaceUp
<1>22. CASE QuitTest
  BY <1>22 DEF QuitTest, ListenerPc
<1>23. CASE QuitFlag
  BY <1>23 DEF QuitFlag
<1>24. CASE QuitClose
  BY <1>24 DEF QuitClose
<1>25. CASE QuitWake
  BY <1>25 DEF QuitWake
<1>26. CASE QuitListener
  BY <1>26 DEF QuitListener
<1>27. CASE QuitPool
  BY <1>27 DEF QuitPool
<1>28. CASE QuitPoolJoin
  BY <1>28 DEF QuitPoolJoin, PoolDrained
<1>29. CASE QuitDns
  BY <1>29 DEF QuitDns
<1>30. CASE QuitUdp
  BY <1>30 DEF QuitUdp
<1>31. CASE QuitTcp
  BY <1>31 DEF QuitTcp
<1>32. CASE QuitPipe
  BY <1>32 DEF QuitPipe
<1>33. CASE NativeStopped
  BY <1>33 DEF NativeStopped
<1> QED
  BY <1>1, <1>2, <1>3, <1>4, <1>5, <1>6, <1>7, <1>8, <1>9, <1>10, <1>11, <1>12, <1>13, <1>14,
       <1>15, <1>16, <1>17, <1>18, <1>19, <1>20, <1>21, <1>22, <1>23, <1>24, <1>25, <1>26, <1>27, <1>28, <1>29, <1>30, <1>31, <1>32, <1>33, NextCases

(* reconcile_listeners tests server_running under the listeners' lock, so  *)
(* nothing is bound behind the back of quit.                               *)
LEMMA BoundStep ==
  ASSUME IInv, Next, Patient
  PROVE  Bound'
<1> USE DEF IInv, TypeOK, Life, Parts, Bound, Looping, Starting, JniPc
<1>1. CASE NativeStart
  BY <1>1 DEF NativeStart, Spend, SetBindAddrs
<1>2. CASE UpdateBindAddrs
  BY <1>2 DEF UpdateBindAddrs, Spend, SetBindAddrs
<1>3. CASE NativeStop
  BY <1>3 DEF NativeStop, Settled
<1>4. CASE MainDynamic
  BY <1>4 DEF MainDynamic
<1>5. CASE SpawnListener
  BY <1>5 DEF SpawnListener
<1>6. CASE ListenerPipe
  BY <1>6 DEF ListenerPipe
<1>7. CASE ReconcileRead
  BY <1>7 DEF ReconcileRead
<1>8. CASE ReconcileApply
  BY <1>8 DEF ReconcileApply, StillRunning, listener_is_ours, CanBind
<1>9. CASE BindFailed
  BY <1>9 DEF BindFailed, FlagAfterFailure
<1>10. CASE BindOk
  BY <1>10 DEF BindOk
<1>11. CASE CreateThreads
  BY <1>11 DEF CreateThreads
<1>12. CASE ListenerLoop
  BY <1>12 DEF ListenerLoop
<1>13. CASE PollReturns
  BY <1>13 DEF PollReturns
<1>14. CASE ListenerExit
  BY <1>14 DEF ListenerExit
<1>15. CASE Accept
  BY <1>15 DEF Accept, Spend, QueueHasRoom
<1>16. CASE PoolTake
  BY <1>16 DEF PoolTake, Serving
<1>17. CASE PoolDone
  BY <1>17 DEF PoolDone
<1>18. CASE TcpExit
  BY <1>18 DEF TcpExit, Told
<1>19. CASE UdpExit
  BY <1>19 DEF UdpExit, Told
<1>20. CASE InterfaceDown
  BY <1>20 DEF InterfaceDown, Spend
<1>21. CASE InterfaceUp
  BY <1>21 DEF InterfaceUp
<1>22. CASE QuitTest
  BY <1>22 DEF QuitTest, ListenerPc
<1>23. CASE QuitFlag
  BY <1>23 DEF QuitFlag
<1>24. CASE QuitClose
  BY <1>24 DEF QuitClose
<1>25. CASE QuitWake
  BY <1>25 DEF QuitWake
<1>26. CASE QuitListener
  BY <1>26 DEF QuitListener
<1>27. CASE QuitPool
  BY <1>27 DEF QuitPool
<1>28. CASE QuitPoolJoin
  BY <1>28 DEF QuitPoolJoin, PoolDrained
<1>29. CASE QuitDns
  BY <1>29 DEF QuitDns
<1>30. CASE QuitUdp
  BY <1>30 DEF QuitUdp
<1>31. CASE QuitTcp
  BY <1>31 DEF QuitTcp
<1>32. CASE QuitPipe
  BY <1>32 DEF QuitPipe
<1>33. CASE NativeStopped
  BY <1>33 DEF NativeStopped
<1> QED
  BY <1>1, <1>2, <1>3, <1>4, <1>5, <1>6, <1>7, <1>8, <1>9, <1>10, <1>11, <1>12, <1>13, <1>14,
       <1>15, <1>16, <1>17, <1>18, <1>19, <1>20, <1>21, <1>22, <1>23, <1>24, <1>25, <1>26, <1>27, <1>28, <1>29, <1>30, <1>31, <1>32, <1>33, NextCases

(* quit joins the listener thread, the pool, the resolvers and the workers *)
(* only where they have been created.                                      *)
LEMMA JoinStep ==
  ASSUME IInv, Next
  PROVE  ~badJoin'
<1> USE DEF IInv, Life, Parts
<1>1. CASE QuitListener
  BY <1>1 DEF QuitListener, Looping
<1>2. CASE QuitPool
  BY <1>2 DEF QuitPool
<1>3. CASE QuitDns
  BY <1>3 DEF QuitDns
<1>4. CASE QuitUdp
  BY <1>4 DEF QuitUdp
<1>5. CASE QuitTcp
  BY <1>5 DEF QuitTcp
<1>6. CASE UNCHANGED badJoin
  BY <1>6
<1> QED
  BY <1>1, <1>2, <1>3, <1>4, <1>5, <1>6, NextCases
     DEF NativeStart, UpdateBindAddrs, NativeStop, MainDynamic, SpawnListener,
         ListenerPipe, ReconcileRead, ReconcileApply, BindFailed, BindOk,
         CreateThreads, ListenerLoop, PollReturns, ListenerExit, Accept,
         PoolTake, PoolDone, TcpExit, UdpExit, InterfaceDown, InterfaceUp,
         QuitTest, QuitFlag, QuitClose, QuitWake, QuitPoolJoin, QuitPipe,
         NativeStopped

(* The invariant is inductive for a caller who stops the engine only once  *)
(* start-up has settled.                                                   *)
LEMMA NextIInv ==
  ASSUME IInv, [Next]_vars, Patient
  PROVE  IInv'
<1>1. CASE Next
  <2>1. TypeOK'
    BY TypeStep DEF IInv
  <2> QED
    BY <1>1, <2>1, LifeStep, PartsStep, BoundStep, JoinStep DEF IInv
<1>2. CASE UNCHANGED vars
  BY <1>2 DEF vars, IInv, TypeOK, Life, Parts, Bound, Empty
<1> QED
  BY <1>1, <1>2

(* The invariant holds throughout. *)
LEMMA IInvHolds ==
  ASSUME Patient
  PROVE  Spec => []IInv
<1>1. Init => IInv
  BY InitIInv
<1>2. IInv /\ [Next]_vars => IInv'
  BY NextIInv
<1> QED
  BY <1>1, <1>2, PTL DEF Spec
-----------------------------------------------------------------------------
(* Whatever the callers of start, stop and update do, and when: every      *)
(* variable of the engine has its type, the handshake queue stays within   *)
(* its ring and no more handlers run than the pool has threads.            *)
THEOREM EngineTyped == Spec => []TypeOK
<1>1. Init => TypeOK
  BY InitIInv DEF IInv
<1>2. TypeOK /\ [Next]_vars => TypeOK'
  BY TypeStep
<1> QED
  BY <1>1, <1>2, PTL DEF Spec

(* When native_stop_socks5_server has returned nothing of the engine is    *)
(* left: no flag, no listening socket, no queued connection, no thread and *)
(* no pipe, whether the start had succeeded or had bound nothing.          *)
THEOREM StopLeavesNothing ==
  ASSUME Patient
  PROVE  Spec => []StoppedIsQuiet
<1>1. IInv => StoppedIsQuiet
  BY DEF IInv, TypeOK, Life, Parts, Bound, Empty, StoppedIsQuiet, Listening
<1> QED
  BY <1>1, IInvHolds, PTL

(* The workers outlive the handshakes that lock their lists, the UDP       *)
(* workers outlive the resolvers, the shutdown pipe outlives everybody who *)
(* polls it, and socks5_server_quit never joins what was not created.      *)
THEOREM UsersBeforeUsed ==
  ASSUME Patient
  PROVE  Spec => []UsedIsLive
<1>1. IInv => UsedIsLive
  BY DEF IInv, TypeOK, Life, Parts, Empty, UsedIsLive, JniPc, ListenerPc,
         Starting, Looping
<1> QED
  BY <1>1, IInvHolds, PTL

(* After quit has closed the listeners reconcile_listeners opens none,     *)
(* wherever the listener thread was when the flag went down.               *)
THEOREM ClosedStaysClosed ==
  ASSUME Patient
  PROVE  Spec => []NoRebind
<1>1. IInv => NoRebind
  BY DEF IInv, Bound, NoRebind, Listening
<1> QED
  BY <1>1, IInvHolds, PTL
=============================================================================
