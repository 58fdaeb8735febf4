---------------------------- MODULE ProxyService ----------------------------
(***************************************************************************)
(* The Android service around the engine: Socks5ProxyService.kt with the   *)
(* CellularNetworkManager and NetworkHealthClassifier it uses.             *)
(*                                                                         *)
(* Four kinds of thread meet here.  The main thread handles one message at *)
(* a time: a START or STOP intent, or the end of the service that          *)
(* stopSelf() asked for.  The callback thread reports the cellular network.*)
(* Coroutines of Dispatchers.IO do everything slow, in any order, and are  *)
(* cancelled with the service only where they suspend or have not begun.   *)
(* The loops of loopsJob watch network and engine and may call             *)
(* restartProxy.  All of them share volatile flags without a lock, so a    *)
(* coroutine is cut wherever it reads a flag and acts on it later.         *)
(*                                                                         *)
(* Flags belong to an instance of the service; status, isServiceRunning    *)
(* and the native engine belong to the process and are shared by an old    *)
(* instance that is not done yet and the new one.                          *)
(*                                                                         *)
(* Left out: proxyPaused, which is never set; notifications, messages and  *)
(* statistics; authentication; the sockets (FdRegistry) and LAN addresses  *)
(* (Engine).  Starting and stopping the engine is one step (see Engine).   *)
(***************************************************************************)
EXTENDS Integers, Sequences

CONSTANTS
  Nets,         \* cellular Network objects
  NoNet,        \* null
  MaxCo,        \* bound: coroutines at a time
  MaxTaps,      \* bound: taps on the button, hence instances
  MaxFaults,    \* bound: network changes, engine deaths and restarts together
  Retries       \* AUTO_START_RETRIES

ASSUME ServiceAssumption ==
  /\ NoNet \notin Nets
  /\ MaxCo \in Nat \ {0} /\ MaxTaps \in Nat /\ MaxFaults \in Nat
  /\ Retries \in Nat

Co == 1..MaxCo
Inst == 1..(MaxTaps + 1)       \* one more for the start at boot
Loops == {"health", "watchdog"}
HealthLimit == 3
Active == {"STARTING", "RUNNING", "PAUSED", "RESTARTING"}
ProxyStatus == Active \cup {"STOPPED", "FAILED"}

VARIABLES
  ins,        \* the fields of every instance of the service
  cur,        \* the latest instance
  alive,      \* it has not been destroyed
  main,       \* the main thread: idle, or within onDestroy
  inbox,      \* messages to the main thread
  co,         \* coroutines
  status, isServiceRunning, \* of the companion object
  native,     \* the engine: off, on, or dead (its listener gave up)
  sys,        \* the cellular network the system has
  events,     \* callbacks under way to the registered monitors
  cb,         \* the callback being run
  isRunning,  \* DebugActivity.isRunning: what the next tap does
  lastIntent, \* history: the last intent the service has handled
  taps, faults

vars == <<ins, cur, alive, main, inbox, co, status, isServiceRunning, native, sys,
          events, cb, isRunning, lastIntent, taps, faults>>

Fresh ==
  [stopRequested |-> FALSE, isProxyRunning |-> FALSE, isRestarting |-> FALSE,
   engineStarting |-> FALSE, retriesLeft |-> 0, cellularNetwork |-> NoNet,
   loops |-> {}, failures |-> 0, cancelled |-> FALSE,
   monitored |-> NoNet,        \* CellularNetworkManager.cellularNetwork
   registered |-> FALSE]       \* monitorCallback is not null

Idle == [pc |-> "idle", i |-> 1, net |-> NoNet]
NoCallback == [kind |-> "none", i |-> 1, net |-> NoNet]

(* BootReceiver may have sent a START before anything else happens. *)
Init ==
  /\ ins = [i \in Inst |-> Fresh]
  /\ cur = 0 /\ alive = FALSE /\ main = "idle"
  /\ inbox \in {<<>>, <<"AUTO_START">>}
  /\ co = [c \in Co |-> Idle]
  /\ status = "STOPPED" /\ isServiceRunning = FALSE
  /\ native = "off"
  /\ sys \in Nets \cup {NoNet}
  /\ events = <<>> /\ cb = NoCallback
  /\ isRunning = FALSE /\ lastIntent = "none"
  /\ taps = MaxTaps /\ faults = MaxFaults
-----------------------------------------------------------------------------
(* What the operations are made of *)

(* The listener of DebugActivity follows the status. *)
updateStatus(s) == status' = s /\ isRunning' = (s \in Active)

SameStatus == UNCHANGED <<status, isRunning>>

FirstFree(c) == co[c].pc = "idle" /\ \A d \in 1..(c - 1) : co[d].pc # "idle"

(* serviceScope.launch *)
Launch(i, pc) ==
  \E c \in Co :
    FirstFree(c) /\ co' = [co EXCEPT ![c] = [pc |-> pc, i |-> i, net |-> NoNet]]

Goto(c, pc) == co' = [co EXCEPT ![c].pc = pc]

End(c) == co' = [co EXCEPT ![c] = Idle]

(* stopSelf(): the system destroys the instance after what it has sent to   *)
(* it before; the token of an instance that is going has no effect.         *)
AskDestroy(q) ==
  IF \E n \in 1..Len(q) : q[n] = "DESTROY" THEN q ELSE Append(q, "DESTROY")

stopSelf(i) ==
  inbox' = IF i = cur /\ alive /\ main = "idle" THEN AskDestroy(inbox) ELSE inbox

(* stopMonitoring: the callbacks under way to this monitor are dropped. *)
Dropped(i) == SelectSeq(events, LAMBDA e : e.i # i)

(* startMonitoring: the system reports the network there is. *)
startMonitoring(i) ==
  events' = IF sys = NoNet THEN Dropped(i)
            ELSE Append(Dropped(i), [kind |-> "available", i |-> i, net |-> sys])

(* releaseCellularNetwork and cellularNetwork = null *)
Release(x) ==
  [x EXCEPT !.registered = FALSE, !.monitored = NoNet, !.cellularNetwork = NoNet]

MayRestart(x) ==
  ~(x.stopRequested \/ x.isRestarting \/ x.engineStarting \/ ~x.isProxyRunning)

(* startProxy returns at once *)
StartRefused(x) == x.stopRequested \/ x.isProxyRunning
-----------------------------------------------------------------------------
(* The button of DebugActivity and the main thread *)

Tap ==
  /\ taps > 0 /\ taps' = taps - 1
  /\ inbox' = Append(inbox, IF isRunning THEN "STOP" ELSE "START")
  /\ isRunning' = ~isRunning
  /\ UNCHANGED <<ins, cur, alive, main, co, status, isServiceRunning, native, sys,
                 events, cb, lastIntent, faults>>

(* The instance an intent goes to: the one there is, or a new one. *)
Target == IF alive THEN cur ELSE cur + 1

Receive(kinds) ==
  /\ main = "idle"
  /\ inbox # <<>> /\ Head(inbox) \in kinds
  /\ cur' = Target /\ alive' = TRUE

(* onStartCommand with ACTION_START_PROXY, and what startProxy does before  *)
(* its coroutine.                                                           *)
OnStart ==
  LET i == Target
      x == [ins[i] EXCEPT !.stopRequested = FALSE,
                          !.retriesLeft = IF Head(inbox) = "AUTO_START"
                                          THEN Retries ELSE 0]
  IN /\ Receive({"START", "AUTO_START"})
     /\ inbox' = Tail(inbox)
     /\ lastIntent' = "START"
     /\ \/ /\ StartRefused(x)
           /\ ins' = [ins EXCEPT ![i] = x]
           /\ SameStatus
           /\ UNCHANGED <<co, isServiceRunning>>
        \/ /\ ~StartRefused(x)
           /\ ins' = [ins EXCEPT ![i] = [x EXCEPT !.engineStarting = TRUE]]
           /\ isServiceRunning' = TRUE
           /\ updateStatus("STARTING")
           /\ Launch(i, "start")
     /\ UNCHANGED <<main, native, sys, events, cb, taps, faults>>

(* Mutant: stopProxy returns early without stopSelf(). *)
JustReturn(q) == q

EarlyStop(q) == AskDestroy(q)

(* onStartCommand with ACTION_STOP_PROXY: stopProxy up to its coroutine *)
OnStop ==
  LET i == Target
      x == [ins[i] EXCEPT !.retriesLeft = 0, !.loops = {}, !.stopRequested = TRUE]
  IN /\ Receive({"STOP"})
     /\ lastIntent' = "STOP"
     /\ isServiceRunning' = FALSE
     /\ \/ /\ ~x.isProxyRunning
           /\ ins' = [ins EXCEPT ![i] = x]
           /\ inbox' = EarlyStop(Tail(inbox))
           /\ SameStatus
           /\ UNCHANGED co
        \/ /\ x.isProxyRunning
           /\ ins' = [ins EXCEPT ![i] = [x EXCEPT !.isProxyRunning = FALSE]]
           /\ updateStatus("STOPPED")
           /\ Launch(i, "clean1")
           /\ inbox' = Tail(inbox)
     /\ UNCHANGED <<main, native, sys, events, cb, taps, faults>>

(* onDestroy, up to stopping the engine ... *)
OnDestroy ==
  /\ main = "idle"
  /\ inbox # <<>> /\ Head(inbox) = "DESTROY"
  /\ inbox' = Tail(inbox)
  /\ main' = "destroying"
  /\ ins' = [ins EXCEPT ![cur] = [@ EXCEPT !.stopRequested = TRUE,
                                 !.isProxyRunning = FALSE, !.loops = {}]]
  /\ isServiceRunning' = FALSE
  /\ native' = "off"
  /\ SameStatus
  /\ UNCHANGED <<cur, alive, co, sys, events, cb, lastIntent, taps, faults>>

(* ... and the rest of it; serviceScope is cancelled. *)
Destroyed ==
  /\ main = "destroying"
  /\ main' = "idle" /\ alive' = FALSE
  /\ ins' = [ins EXCEPT ![cur] = [Release(@) EXCEPT !.cancelled = TRUE]]
  /\ events' = Dropped(cur)
  /\ IF status = "FAILED" THEN SameStatus ELSE updateStatus("STOPPED")
  /\ UNCHANGED <<cur, inbox, co, isServiceRunning, native, sys, cb, lastIntent,
                 taps, faults>>

MainThread == OnStart \/ OnStop \/ OnDestroy \/ Destroyed
-----------------------------------------------------------------------------
(* The coroutine of startProxy *)

(* What a step of a coroutine never touches. *)
CoStep(c, pc) ==
  /\ co[c].pc = pc
  /\ UNCHANGED <<cur, alive, main, sys, cb, lastIntent, taps, faults>>

(* return@launch after stopSelf(), with engineStarting = false *)
StartAborts(c) ==
  LET i == co[c].i
  IN /\ ins' = [ins EXCEPT ![i].engineStarting = FALSE]
     /\ stopSelf(i)
     /\ End(c)
     /\ SameStatus
     /\ UNCHANGED <<isServiceRunning, events>>

Start1(c) ==
  /\ CoStep(c, "start")
  /\ \/ ins[co[c].i].stopRequested /\ StartAborts(c)
     \/ /\ ~ins[co[c].i].stopRequested
        /\ Goto(c, "monitor")
        /\ SameStatus
        /\ UNCHANGED <<ins, inbox, isServiceRunning, events>>
  /\ UNCHANGED native

(* isProxyRunning = true and startMonitoring *)
Start2(c) ==
  LET i == co[c].i
  IN /\ CoStep(c, "monitor")
     /\ ins' = [ins EXCEPT ![i].isProxyRunning = TRUE, ![i].registered = TRUE]
     /\ startMonitoring(i)
     /\ Goto(c, "await")
     /\ SameStatus
     /\ UNCHANGED <<inbox, isServiceRunning, native>>

(* How awaitNetwork may end: at once where a network is known, else by its  *)
(* waiter, by its timeout, or with an exception when the scope is cancelled.*)
awaitNetwork(x) ==
  (IF x.cancelled THEN {"cancelled"} ELSE {"timeout"})
    \cup (IF x.monitored # NoNet THEN {"network"} ELSE {})

(* The exception ends in failStop too: the coroutine catches all of them.   *)
Start3(c) ==
  LET x == ins[co[c].i]
  IN /\ CoStep(c, "await")
     /\ \E result \in awaitNetwork(x) :
          \/ /\ result # "cancelled" /\ x.stopRequested
             /\ StartAborts(c)
          \/ /\ \/ result = "cancelled"
                \/ ~x.stopRequested /\ x.monitored = NoNet
             /\ Goto(c, "fail1")
             /\ SameStatus
             /\ UNCHANGED <<ins, inbox, isServiceRunning, events>>
          \/ /\ ~x.stopRequested /\ x.monitored # NoNet
             /\ co' = [co EXCEPT ![c].pc = "assign", ![c].net = x.monitored]
             /\ SameStatus
             /\ UNCHANGED <<ins, inbox, isServiceRunning, events>>
     /\ UNCHANGED native

(* cellularNetwork = network; the egress must be bindable and there must be *)
(* a LAN address, or the start fails.                                       *)
Start4(c) ==
  /\ CoStep(c, "assign")
  /\ ins' = [ins EXCEPT ![co[c].i].cellularNetwork = co[c].net]
  /\ \E usable \in BOOLEAN : Goto(c, IF usable THEN "native" ELSE "fail1")
  /\ SameStatus
  /\ UNCHANGED <<inbox, isServiceRunning, native, events>>

(* startSocks5Server: anything but Started is a failure. *)
Start5(c) ==
  /\ CoStep(c, "native")
  /\ native' = IF native = "off" THEN "on" ELSE native
  /\ Goto(c, IF native = "off" THEN "started" ELSE "fail1")
  /\ SameStatus
  /\ UNCHANGED <<ins, inbox, isServiceRunning, events>>

(* Mutant: stop is not looked at after the engine has started. *)
NoRecheck(x) == FALSE

StopMeanwhile(x) == x.stopRequested

(* Mutant: the loops of the run before go on where there are any. *)
KeepLoops(x) == IF x.loops = {} THEN Loops ELSE x.loops

NewLoops(x) == Loops

Start6(c) ==
  LET i == co[c].i
  IN /\ CoStep(c, "started")
     /\ \/ StopMeanwhile(ins[i]) /\ native' = "off" /\ StartAborts(c)
        \/ /\ ~StopMeanwhile(ins[i])
           /\ ins' = [ins EXCEPT ![i].loops = NewLoops(ins[i]), ![i].failures = 0]
           /\ Goto(c, "publish")
           /\ SameStatus
           /\ UNCHANGED <<inbox, isServiceRunning, native, events>>

(* Mutant: engineStarting is left set. *)
LeftSet(x) == x

StartDone(x) == [x EXCEPT !.engineStarting = FALSE]

Start7(c) ==
  /\ CoStep(c, "publish")
  /\ ins' = [ins EXCEPT ![co[c].i] = StartDone(@)]
  /\ updateStatus("RUNNING")
  /\ End(c)
  /\ UNCHANGED <<inbox, isServiceRunning, native, events>>
-----------------------------------------------------------------------------
(* failStop, within the coroutine that failed *)

Fail1(c) ==
  /\ CoStep(c, "fail1")
  /\ ins' = [ins EXCEPT ![co[c].i].isProxyRunning = FALSE, ![co[c].i].loops = {}]
  /\ isServiceRunning' = FALSE
  /\ updateStatus("FAILED")
  /\ Goto(c, "fail2")
  /\ UNCHANGED <<inbox, native, events>>

Fail2(c) ==
  /\ CoStep(c, "fail2")
  /\ native' = "off"
  /\ Goto(c, "fail3")
  /\ SameStatus
  /\ UNCHANGED <<ins, inbox, isServiceRunning, events>>

(* A start at boot is tried again later: the delayed coroutine takes the    *)
(* place of this one, which ends.                                           *)
Fail3(c) ==
  LET i == co[c].i
      x == [Release(ins[i]) EXCEPT !.engineStarting = FALSE]
  IN /\ CoStep(c, "fail3")
     /\ events' = Dropped(i)
     /\ \/ /\ x.retriesLeft > 0 /\ ~x.stopRequested
           /\ ins' = [ins EXCEPT ![i] = [x EXCEPT !.retriesLeft = @ - 1]]
           /\ Goto(c, "retry")
           /\ UNCHANGED inbox
        \/ /\ x.retriesLeft = 0 \/ x.stopRequested
           /\ ins' = [ins EXCEPT ![i] = x]
           /\ stopSelf(i)
           /\ End(c)
     /\ SameStatus
     /\ UNCHANGED <<isServiceRunning, native>>

(* startProxy called by a coroutine: its guard ... *)
Guard(c, from, to) ==
  LET i == co[c].i
  IN /\ CoStep(c, from)
     /\ \/ /\ StartRefused(ins[i])
           /\ ins' = [ins EXCEPT ![i].isRestarting = IF from = "retry" THEN @ ELSE FALSE]
           /\ End(c)
        \/ /\ ~StartRefused(ins[i])
           /\ Goto(c, to)
           /\ UNCHANGED ins
     /\ SameStatus
     /\ UNCHANGED <<inbox, isServiceRunning, native, events>>

(* ... and the rest; the caller ends and the start takes its place. *)
Begin(c, from) ==
  LET i == co[c].i
  IN /\ CoStep(c, from)
     /\ ins' = [ins EXCEPT ![i].engineStarting = TRUE,
                           ![i].isRestarting = IF from = "launch" THEN @ ELSE FALSE]
     /\ isServiceRunning' = TRUE
     /\ updateStatus("STARTING")
     /\ Goto(c, "start")
     /\ UNCHANGED <<inbox, native, events>>

Retry(c) == Guard(c, "retry", "launch") \/ Begin(c, "launch")
-----------------------------------------------------------------------------
(* restartProxy *)

(* What follows the guard, in the loop that called it. *)
Restart0(c) ==
  /\ CoStep(c, "trigger")
  /\ ins' = [ins EXCEPT ![co[c].i].isRestarting = TRUE]
  /\ updateStatus("RESTARTING")
  /\ Goto(c, "restart1")
  /\ UNCHANGED <<inbox, isServiceRunning, native, events>>

Restart1(c) ==
  /\ CoStep(c, "restart1")
  /\ ins' = [ins EXCEPT ![co[c].i].isProxyRunning = FALSE]
  /\ Goto(c, "restart2")
  /\ SameStatus
  /\ UNCHANGED <<inbox, isServiceRunning, native, events>>

Restart2(c) ==
  /\ CoStep(c, "restart2")
  /\ native' = "off"
  /\ ins' = [ins EXCEPT ![co[c].i].cellularNetwork = NoNet]
  /\ Goto(c, "restart3")
  /\ SameStatus
  /\ UNCHANGED <<inbox, isServiceRunning, events>>

Restart(c) ==
  \/ Restart0(c) \/ Restart1(c) \/ Restart2(c)
  \/ Guard(c, "restart3", "relaunch") \/ Begin(c, "relaunch")
-----------------------------------------------------------------------------
(* The coroutine of stopProxy, and the status updates of handleNetworkChange *)

Clean1(c) ==
  /\ CoStep(c, "clean1")
  /\ native' = "off"
  /\ Goto(c, "clean2")
  /\ SameStatus
  /\ UNCHANGED <<ins, inbox, isServiceRunning, events>>

Clean2(c) ==
  LET i == co[c].i
  IN /\ CoStep(c, "clean2")
     /\ ins' = [ins EXCEPT ![i] = Release(@)]
     /\ events' = Dropped(i)
     /\ stopSelf(i)
     /\ End(c)
     /\ SameStatus
     /\ UNCHANGED <<isServiceRunning, native>>

Publish(c, pc, s) ==
  /\ CoStep(c, pc)
  /\ updateStatus(s)
  /\ End(c)
  /\ UNCHANGED <<ins, inbox, isServiceRunning, native, events>>

(* A coroutine that has not begun, or is in delay(), ends with its scope. *)
Cancelled(c) ==
  /\ ins[co[c].i].cancelled
  /\ \E pc \in {"start", "clean1", "restart1", "retry", "resumed", "lost"} : CoStep(c, pc)
  /\ End(c)
  /\ SameStatus
  /\ UNCHANGED <<ins, inbox, isServiceRunning, native, events>>

Coroutine(c) ==
  \/ Start1(c) \/ Start2(c) \/ Start3(c) \/ Start4(c) \/ Start5(c) \/ Start6(c)
  \/ Start7(c) \/ Fail1(c) \/ Fail2(c) \/ Fail3(c) \/ Retry(c) \/ Restart(c)
  \/ Clean1(c) \/ Clean2(c)
  \/ Publish(c, "resumed", "RUNNING") \/ Publish(c, "lost", "PAUSED")
  \/ Cancelled(c)
-----------------------------------------------------------------------------
(* The loops of loopsJob *)

(* The loop calls restartProxy and ends. *)
CallRestart(i, loop) ==
  /\ ins' = [ins EXCEPT ![i].loops = @ \ {loop}]
  /\ IF MayRestart(ins[i])
     THEN faults > 0 /\ faults' = faults - 1 /\ Launch(i, "trigger")
     ELSE UNCHANGED <<co, faults>>

LoopStep(i, loop) ==
  /\ loop \in ins[i].loops
  /\ SameStatus
  /\ UNCHANGED <<cur, alive, main, inbox, isServiceRunning, native, sys, events, cb,
                 lastIntent, taps>>

classify(hasInternet, validated, bindSucceeded, vpnActive, probeSucceeded) ==
  CASE ~hasInternet -> "NETWORK_DEAD"
    [] hasInternet /\ ~bindSucceeded ->
         IF vpnActive /\ validated THEN "BLOCKED_BY_VPN" ELSE "NETWORK_DEAD"
    [] OTHER -> IF probeSucceeded THEN "OK" ELSE "NETWORK_DEAD"

(* What checkNetworkHealth may find: a probe needs the bind to succeed, and *)
(* that needs the capability.                                               *)
checkNetworkHealth ==
  {classify(caps, valid, caps /\ bind, vpn, caps /\ bind /\ probe) :
     caps, valid, bind, vpn, probe \in BOOLEAN}

TooMany(n) == n >= HealthLimit

(* Traffic is flowing or the network is judged. *)
HealthCheck(i) ==
  /\ LoopStep(i, "health")
  /\ ins[i].isProxyRunning
  /\ \/ /\ ins' = [ins EXCEPT ![i].failures = 0]
        /\ UNCHANGED <<co, faults>>
     \/ /\ ins[i].cellularNetwork # NoNet
        /\ \E health \in checkNetworkHealth :
             \/ /\ health # "NETWORK_DEAD"
                /\ ins' = [ins EXCEPT ![i].failures = 0]
                /\ UNCHANGED <<co, faults>>
             \/ /\ health = "NETWORK_DEAD" /\ ~TooMany(ins[i].failures + 1)
                /\ ins' = [ins EXCEPT ![i].failures = @ + 1]
                /\ UNCHANGED <<co, faults>>
             \/ /\ health = "NETWORK_DEAD" /\ TooMany(ins[i].failures + 1)
                /\ CallRestart(i, "health")

Watchdog(i) ==
  /\ LoopStep(i, "watchdog")
  /\ ~ins[i].stopRequested /\ ins[i].isProxyRunning
  /\ native # "on" /\ ~ins[i].isRestarting /\ ~ins[i].engineStarting
  /\ CallRestart(i, "watchdog")

LoopEnds(i, loop) ==
  /\ LoopStep(i, loop)
  /\ ~ins[i].isProxyRunning \/ (loop = "watchdog" /\ ins[i].stopRequested)
  /\ ins' = [ins EXCEPT ![i].loops = @ \ {loop}]
  /\ UNCHANGED <<co, faults>>
-----------------------------------------------------------------------------
(* The callback thread *)

(* onAvailable and onLost of the monitor, up to the service's callback *)
TakeEvent ==
  LET e == Head(events)
  IN /\ cb = NoCallback /\ events # <<>>
     /\ events' = Tail(events)
     /\ \/ /\ e.kind = "available"
           /\ ins' = [ins EXCEPT ![e.i].monitored = e.net]
           /\ cb' = e
        \/ /\ e.kind = "lost" /\ ins[e.i].monitored = e.net
           /\ ins' = [ins EXCEPT ![e.i].monitored = NoNet]
           /\ cb' = e
        \/ /\ e.kind = "lost" /\ ins[e.i].monitored # e.net
           /\ UNCHANGED <<ins, cb>>
     /\ SameStatus
     /\ UNCHANGED <<cur, alive, main, inbox, co, isServiceRunning, native, sys,
                    lastIntent, taps, faults>>

(* The network handleNetworkChange is called with *)
NewNetwork == IF cb.kind = "lost" THEN NoNet ELSE cb.net

handleNetworkChange ==
  LET i == cb.i
      x == ins[i]
  IN /\ cb # NoCallback
     /\ cb' = NoCallback
     /\ \/ /\ ~x.isProxyRunning \/ NewNetwork = x.cellularNetwork
           /\ UNCHANGED <<ins, co>>
        \/ /\ x.isProxyRunning /\ NewNetwork # x.cellularNetwork
           /\ ins' = [ins EXCEPT ![i].cellularNetwork = NewNetwork]
           /\ CASE NewNetwork = NoNet -> Launch(i, "lost")
                [] NewNetwork # NoNet /\ status = "PAUSED" -> Launch(i, "resumed")
                [] OTHER -> UNCHANGED co
     /\ SameStatus
     /\ UNCHANGED <<cur, alive, main, inbox, isServiceRunning, native, sys, events,
                    lastIntent, taps, faults>>
-----------------------------------------------------------------------------
(* The system *)

(* The modem gets, loses or changes the cellular network; a new network is  *)
(* reported before the loss of the old one.                                 *)
Report(kind, n) ==
  LET to == SelectSeq([i \in Inst |-> i], LAMBDA i : ins[i].registered /\ n # NoNet)
  IN [k \in 1..Len(to) |-> [kind |-> kind, i |-> to[k], net |-> n]]

NetworkChanges(n) ==
  /\ faults > 0 /\ faults' = faults - 1
  /\ n # sys /\ sys' = n
  /\ events' = events \o Report("available", n) \o Report("lost", sys)
  /\ SameStatus
  /\ UNCHANGED <<ins, cur, alive, main, inbox, co, isServiceRunning, native, cb,
                 lastIntent, taps>>

(* listener_task cannot bind any address: server_running goes back to 0. *)
EngineDies ==
  /\ faults > 0 /\ faults' = faults - 1
  /\ native = "on" /\ native' = "dead"
  /\ SameStatus
  /\ UNCHANGED <<ins, cur, alive, main, inbox, co, isServiceRunning, sys, events, cb,
                 lastIntent, taps>>

Next ==
  \/ Tap \/ MainThread
  \/ \E c \in Co : Coroutine(c)
  \/ \E i \in Inst : HealthCheck(i) \/ Watchdog(i) \/ \E loop \in Loops : LoopEnds(i, loop)
  \/ TakeEvent \/ handleNetworkChange
  \/ \E n \in Nets \cup {NoNet} : NetworkChanges(n)
  \/ EngineDies

Spec == Init /\ [][Next]_vars

(* The main thread and the coroutines are scheduled: awaitNetwork times     *)
(* out, delays end, the system destroys a service that asked for it.        *)
(* Nobody has to tap, and neither network nor engine has to fail.           *)
FairSpec ==
  /\ Spec
  /\ WF_vars(MainThread)
  /\ \A c \in Co : WF_vars(Coroutine(c))
-----------------------------------------------------------------------------
(* Properties *)

Pcs == {"idle", "start", "monitor", "await", "assign", "native", "started", "publish",
        "fail1", "fail2", "fail3", "retry", "launch", "trigger", "restart1", "restart2",
        "restart3", "relaunch", "clean1", "clean2", "resumed", "lost"}

Message == {"START", "AUTO_START", "STOP", "DESTROY"}

MaybeNet == Nets \cup {NoNet}

(* Every variable has its type; the failure count stays below its limit.    *)
TypeOK ==
  /\ ins \in [Inst -> [stopRequested : BOOLEAN, isProxyRunning : BOOLEAN,
                       isRestarting : BOOLEAN, engineStarting : BOOLEAN,
                       retriesLeft : 0..Retries, cellularNetwork : MaybeNet,
                       loops : SUBSET Loops, failures : 0..(HealthLimit - 1),
                       cancelled : BOOLEAN, monitored : MaybeNet,
                       registered : BOOLEAN]]
  /\ cur \in Inst \cup {0} /\ alive \in BOOLEAN /\ main \in {"idle", "destroying"}
  /\ inbox \in Seq(Message)
  /\ co \in [Co -> [pc : Pcs, i : Inst, net : MaybeNet]]
  /\ status \in ProxyStatus /\ isServiceRunning \in BOOLEAN
  /\ native \in {"off", "on", "dead"}
  /\ sys \in MaybeNet
  /\ events \in Seq([kind : {"available", "lost"}, i : Inst, net : Nets])
  /\ cb \in [kind : {"none", "available", "lost"}, i : Inst, net : MaybeNet]
  /\ isRunning \in BOOLEAN /\ lastIntent \in {"none", "START", "STOP"}
  /\ taps \in 0..MaxTaps /\ faults \in 0..MaxFaults

Settled ==
  /\ \A c \in Co : co[c] = Idle
  /\ inbox = <<>> /\ events = <<>> /\ cb = NoCallback /\ main = "idle"

(* README: the stop flag prevents a race with "user pressed stop" from      *)
(* leaving zombie listeners.  When the service is gone and its coroutines   *)
(* are done, the engine is not left running.                                *)
NoZombie ==
  Settled /\ ~alive => native = "off"

(* engineStarting and isRestarting disable watchdog, restarts and LAN       *)
(* refresh: none of the ways a start or a restart can end leaves one set.   *)
FlagsReleased ==
  Settled /\ alive => ~ins[cur].engineStarting /\ ~ins[cur].isRestarting

(* A service that says it runs is watched: the engine may have died, or the *)
(* late clean-up of an older instance may have stopped it, but the watchdog *)
(* that restarts it is there.                                               *)
RunningIsWatched ==
  Settled /\ alive /\ status = "RUNNING" =>
    ins[cur].isProxyRunning /\ "watchdog" \in ins[cur].loops

(* Whenever the last intent was STOP the instance is eventually destroyed,  *)
(* unless the user starts again: a stop that meets a start or a restart in  *)
(* any of their steps is not swallowed.                                     *)
StopCompletes ==
  (alive /\ lastIntent = "STOP") ~> (~alive \/ lastIntent = "START")

(* README: the service reports its actual state.  A service the user has    *)
(* stopped is shown as stopped. It does not hold (README, section 3).       *)
StopEndsStopped ==
  Settled /\ ~alive /\ lastIntent = "STOP" => status = "STOPPED"
=============================================================================
