-------------------------- MODULE ProxyServiceProofs --------------------------
(***************************************************************************)
(* What ProxyService promises for any number of taps, faults, networks,    *)
(* retries and coroutines: no engine outlives the service, and no flag     *)
(* that disables the watchdog outlives the start or restart that set it.   *)
(*                                                                         *)
(* The argument: an engine that runs belongs to the living instance or to  *)
(* a coroutine that has just started it and is about to look at            *)
(* stopRequested, which every instance that is going has set; and a flag   *)
(* that is set has a coroutine that will clear it, unless the instance is  *)
(* gone.                                                                   *)
(***************************************************************************)
EXTENDS ProxyService, SequenceTheorems, TLAPS

-----------------------------------------------------------------------------
(* The inductive invariant                                                 *)

Fields == {"stopRequested", "isProxyRunning", "isRestarting", "engineStarting",
           "retriesLeft", "cellularNetwork", "loops", "failures", "cancelled",
           "monitored", "registered"}

(* The shape of the state. Of what comes out of the queue of callbacks     *)
(* nothing is said: Dropped is SelectSeq, of which nothing can be proved.  *)
Shapes ==
  /\ DOMAIN ins = Inst /\ \A i \in Inst : DOMAIN ins[i] = Fields
  /\ DOMAIN co = Co /\ \A c \in Co : DOMAIN co[c] = {"pc", "i", "net"}
  /\ cur \in 0..(MaxTaps + 1) /\ alive \in BOOLEAN /\ main \in {"idle", "destroying"}
  /\ inbox \in Seq(Message)
  /\ taps \in 0..MaxTaps

(* Coroutines that only publish a status may be of any instance.           *)
Loose == {"idle", "resumed", "lost"}
Own(c) == co[c].pc \notin Loose => co[c].i \in Inst /\ co[c].i <= cur

Serving(i) == alive /\ main = "idle" /\ i = cur

Unborn(x) ==
  ~x.isProxyRunning /\ ~x.engineStarting /\ ~x.isRestarting /\ ~x.cancelled /\ x.loops = {}

(* Every instance that is going, or gone, has been told to stop.           *)
Instances ==
  /\ alive => cur >= 1 /\ ~ins[cur].cancelled
  /\ main = "destroying" => alive
  /\ \A i \in Inst : i <= cur /\ ~Serving(i) => ins[i].stopRequested
  /\ \A i \in Inst : i > cur => Unborn(ins[i])
  /\ \A c \in Co : Own(c)

HasDestroy(q) == \E n \in 1..Len(q) : q[n] = "DESTROY"
Once(q) == \A m, n \in 1..Len(q) : q[m] = "DESTROY" /\ q[n] = "DESTROY" => m = n
Intents(q) == IF HasDestroy(q) THEN Len(q) - 1 ELSE Len(q)

(* A new instance needs an intent, and those are bounded by the taps.      *)
Queue ==
  /\ Once(inbox)
  /\ HasDestroy(inbox) => alive /\ main = "idle"
  /\ cur + Intents(inbox) + taps <= MaxTaps + 1

(* Who will stop an engine that runs                                       *)
Stoppable == native # "off" => (alive /\ main = "idle") \/ \E c \in Co : co[c].pc = "started"

Starting == {"start", "monitor", "await", "assign", "native", "started", "publish",
             "fail1", "fail2", "fail3"}
Restarting == {"restart1", "restart2", "restart3", "relaunch"}
Busy(i, pcs) == \E c \in Co : co[c].i = i /\ co[c].pc \in pcs

(* Who will clear a flag that is set                                       *)
Clearable ==
  \A i \in Inst : ~ins[i].cancelled =>
    /\ ins[i].engineStarting => Busy(i, Starting)
    /\ ins[i].isRestarting => Busy(i, Restarting)

Inv == Instances /\ Queue /\ Stoppable /\ Clearable
IInv == Shapes /\ Inv
-----------------------------------------------------------------------------
(* The queue of the main thread                                            *)

(* AskDestroy asks once, whatever is in the queue.                         *)
LEMMA AskDestroyFacts ==
  ASSUME NEW q \in Seq(Message), Once(q)
  PROVE  /\ AskDestroy(q) \in Seq(Message) /\ Once(AskDestroy(q))
         /\ Intents(AskDestroy(q)) = Intents(q)
<1>1. CASE HasDestroy(q)
  BY <1>1 DEF AskDestroy, HasDestroy
<1>2. CASE ~HasDestroy(q)
  <2>1. AskDestroy(q) = Append(q, "DESTROY")
    BY <1>2 DEF AskDestroy, HasDestroy
  <2>2. /\ Append(q, "DESTROY") \in Seq(Message)
        /\ Len(Append(q, "DESTROY")) = Len(q) + 1
        /\ \A n \in 1..Len(q) : Append(q, "DESTROY")[n] = q[n]
        /\ Append(q, "DESTROY")[Len(q) + 1] = "DESTROY"
    BY DEF Message
  <2>3. Len(q) \in Nat
    OBVIOUS
  <2> QED BY <1>2, <2>1, <2>2, <2>3 DEF Once, HasDestroy, Intents
<1> QED BY <1>1, <1>2

(* A tap adds an intent.                                                   *)
LEMMA AppendFacts ==
  ASSUME NEW q \in Seq(Message), Once(q), NEW m \in Message \ {"DESTROY"}
  PROVE  /\ Append(q, m) \in Seq(Message) /\ Once(Append(q, m))
         /\ HasDestroy(Append(q, m)) <=> HasDestroy(q)
         /\ Intents(Append(q, m)) = Intents(q) + 1
<1>1. /\ Append(q, m) \in Seq(Message)
      /\ Len(Append(q, m)) = Len(q) + 1
      /\ \A n \in 1..Len(q) : Append(q, m)[n] = q[n]
      /\ Append(q, m)[Len(q) + 1] = m
  OBVIOUS
<1>2. Len(q) \in Nat
  OBVIOUS
<1>3. HasDestroy(Append(q, m)) <=> HasDestroy(q)
  BY <1>1, <1>2 DEF HasDestroy
<1> QED BY <1>1, <1>2, <1>3 DEF Once, HasDestroy, Intents

(* A message is taken.                                                     *)
LEMMA TailFacts ==
  ASSUME NEW q \in Seq(Message), q # <<>>, Once(q)
  PROVE  /\ Head(q) \in Message
         /\ Tail(q) \in Seq(Message) /\ Once(Tail(q))
         /\ Head(q) = "DESTROY" => HasDestroy(q) /\ ~HasDestroy(Tail(q))
         /\ Head(q) = "DESTROY" => Intents(Tail(q)) = Intents(q)
         /\ Head(q) # "DESTROY" => (HasDestroy(Tail(q)) <=> HasDestroy(q))
         /\ Head(q) # "DESTROY" => Intents(Tail(q)) = Intents(q) - 1
<1>1. /\ Tail(q) \in Seq(Message)
      /\ Len(q) \in Nat /\ Len(q) >= 1 /\ Len(Tail(q)) = Len(q) - 1
      /\ \A n \in 1..Len(Tail(q)) : Tail(q)[n] = q[n + 1]
      /\ Head(q) = q[1] /\ Head(q) \in Message
  OBVIOUS
<1>2. Once(Tail(q))
  BY <1>1 DEF Once
<1>3. Head(q) = "DESTROY" => HasDestroy(q) /\ ~HasDestroy(Tail(q))
  BY <1>1 DEF Once, HasDestroy
<1>4. Head(q) # "DESTROY" => (HasDestroy(Tail(q)) <=> HasDestroy(q))
  <2>1. ASSUME HasDestroy(q), Head(q) # "DESTROY" PROVE HasDestroy(Tail(q))
    <3>1. PICK n \in 1..Len(q) : q[n] = "DESTROY"
      BY <2>1 DEF HasDestroy
    <3>2. n - 1 \in 1..Len(Tail(q)) /\ Tail(q)[n - 1] = "DESTROY"
      BY <1>1, <2>1, <3>1
    <3> QED BY <3>2 DEF HasDestroy
  <2>2. ASSUME HasDestroy(Tail(q)) PROVE HasDestroy(q)
    BY <1>1, <2>2 DEF HasDestroy
  <2> QED BY <2>1, <2>2
<1> QED BY <1>1, <1>2, <1>3, <1>4 DEF Intents

-----------------------------------------------------------------------------
(* A step of a coroutine                                                   *)

(* The flag of instance j was not, or is still, the coroutine's to clear.  *)
Keeps(j, c, pcs, was) ==
  \/ co'[c].i = j /\ co'[c].pc \in pcs
  \/ was /\ ~(co[c].i = j /\ co[c].pc \in pcs)
  \/ ins[j].cancelled

(* What every step of a coroutine does to the parts of the invariant       *)
Advances(c) ==
  /\ UNCHANGED <<cur, alive, main, taps>>
  /\ co[c].pc # "idle"
  /\ \A d \in Co : d # c => co'[d] = co[d]
  /\ co'[c].pc \in Loose \/ (co'[c].i = co[c].i /\ co[c].pc \notin Loose)
  /\ \A j \in Inst : /\ ins'[j].stopRequested = ins[j].stopRequested
                     /\ ins'[j].cancelled = ins[j].cancelled
                     /\ j > cur => ins'[j] = ins[j]
  /\ inbox' = inbox \/ (alive /\ main = "idle" /\ inbox' = AskDestroy(inbox))
  /\ native' # "off" => \/ co'[c].pc = "started"
                        \/ native # "off" /\ co[c].pc # "started"
                        \/ ~ins[co[c].i].stopRequested /\ co[c].pc = "started"
  /\ \A j \in Inst : /\ ins'[j].engineStarting => Keeps(j, c, Starting, ins[j].engineStarting)
                     /\ ins'[j].isRestarting => Keeps(j, c, Restarting, ins[j].isRestarting)

(* A step of that kind preserves every part of the invariant.              *)
LEMMA AdvanceKeeps ==
  ASSUME IInv, NEW c \in Co, Advances(c), Shapes'
  PROVE  Inv'
<1> USE ServiceAssumption
<1>1. Instances'
  <2>1. \A d \in Co : Own(d)'
    BY DEF IInv, Shapes, Inv, Instances, Own, Advances, Loose
  <2>2. alive' => cur' >= 1 /\ ~ins'[cur'].cancelled
    BY DEF IInv, Shapes, Inv, Instances, Advances, Inst
  <2>3. \A i \in Inst : i <= cur' /\ ~Serving(i)' => ins'[i].stopRequested
    BY DEF IInv, Shapes, Inv, Instances, Advances, Serving
  <2>4. \A i \in Inst : i > cur' => Unborn(ins'[i])
    BY DEF IInv, Shapes, Inv, Instances, Advances
  <2> QED BY <2>1, <2>2, <2>3, <2>4 DEF IInv, Inv, Instances, Advances
<1>2. Queue'
  <2>1. CASE inbox' = inbox
    BY <2>1 DEF IInv, Inv, Queue, Advances
  <2>2. CASE inbox' = AskDestroy(inbox) /\ alive /\ main = "idle"
    BY <2>2, AskDestroyFacts DEF IInv, Shapes, Inv, Queue, Advances
  <2> QED BY <2>1, <2>2 DEF Advances
<1>3. Stoppable'
  <2> SUFFICES ASSUME native' # "off", ~(alive /\ main = "idle")
               PROVE  \E d \in Co : co'[d].pc = "started"
    BY DEF Stoppable, Advances
  <2>1. CASE co'[c].pc = "started"
    BY <2>1
  <2>2. CASE native # "off" /\ co[c].pc # "started"
    <3>1. PICK d \in Co : co[d].pc = "started"
      BY <2>2 DEF IInv, Inv, Stoppable
    <3> QED BY <2>2, <3>1 DEF Advances
  <2>3. CASE ~ins[co[c].i].stopRequested /\ co[c].pc = "started"
    BY <2>3 DEF IInv, Inv, Instances, Own, Loose, Serving
  <2> QED BY <2>1, <2>2, <2>3 DEF Advances
<1>4. Clearable'
  <2> SUFFICES ASSUME NEW j \in Inst, ~ins'[j].cancelled
               PROVE  /\ ins'[j].engineStarting => Busy(j, Starting)'
                      /\ ins'[j].isRestarting => Busy(j, Restarting)'
    BY DEF Clearable
  <2>0. ~ins[j].cancelled
    BY DEF Advances
  <2>1. ASSUME NEW pcs, NEW was, Keeps(j, c, pcs, was), was => Busy(j, pcs)
        PROVE  \E d \in Co : co'[d].i = j /\ co'[d].pc \in pcs
    BY <2>0, <2>1 DEF Keeps, Busy, Advances
  <2>2. ASSUME ins'[j].engineStarting PROVE Busy(j, Starting)'
    <3>1. Keeps(j, c, Starting, ins[j].engineStarting)
      BY <2>2 DEF Advances
    <3>2. ins[j].engineStarting => Busy(j, Starting)
      BY <2>0 DEF IInv, Inv, Clearable
    <3>3. \E d \in Co : co'[d].i = j /\ co'[d].pc \in Starting
      BY <2>1, <3>1, <3>2
    <3> QED BY <3>3 DEF Busy, Starting
  <2>3. ASSUME ins'[j].isRestarting PROVE Busy(j, Restarting)'
    <3>1. Keeps(j, c, Restarting, ins[j].isRestarting)
      BY <2>3 DEF Advances
    <3>2. ins[j].isRestarting => Busy(j, Restarting)
      BY <2>0 DEF IInv, Inv, Clearable
    <3>3. \E d \in Co : co'[d].i = j /\ co'[d].pc \in Restarting
      BY <2>1, <3>1, <3>2
    <3> QED BY <3>3 DEF Busy, Restarting
  <2> QED BY <2>2, <2>3
<1> QED BY <1>1, <1>2, <1>3, <1>4 DEF Inv

(* Where the coroutine is, and that asking for the end leaves a queue      *)
Placed(c) ==
  /\ co[c].pc \notin Loose => co[c].i \in Inst /\ co[c].i <= cur
  /\ cur \in Nat /\ Inst \subseteq Nat
  /\ AskDestroy(inbox) \in Seq(Message)

(* A coroutine that acts on an instance acts on one that exists.           *)
LEMMA PlacedHolds ==
  ASSUME IInv, NEW c \in Co
  PROVE  Placed(c)
<1>1. (co[c].pc \notin Loose => co[c].i \in Inst /\ co[c].i <= cur) /\ cur \in Nat
  BY ServiceAssumption DEF IInv, Shapes, Inv, Instances, Own, Inst
<1>2. Inst \subseteq Nat
  BY ServiceAssumption DEF Inst
<1>3. AskDestroy(inbox) \in Seq(Message)
  BY AskDestroyFacts DEF IInv, Shapes, Inv, Queue
<1> QED BY <1>1, <1>2, <1>3 DEF Placed

(* return@launch after stopSelf() clears the flag of the start.            *)
LEMMA AbortAdvances ==
  ASSUME IInv, NEW c \in Co, NEW pc \in {"start", "await", "started"}, CoStep(c, pc),
         StartAborts(c), native' = "off" \/ (native' = native /\ pc # "started")
  PROVE  Advances(c) /\ Shapes'
<1>1. Placed(c)
  BY PlacedHolds
<1>2. co[c].pc = pc /\ UNCHANGED <<cur, alive, main, taps>>
  BY DEF CoStep
<1>3. co[c].i \in Inst /\ co[c].i <= cur /\ cur \in Nat /\ Inst \subseteq Nat
  BY <1>1, <1>2 DEF Placed, Loose
<1>4. co'[c] = Idle /\ DOMAIN co' = Co /\ \A d \in Co : d # c => co'[d] = co[d]
  BY DEF StartAborts, End, IInv, Shapes
<1>5. /\ DOMAIN ins' = Inst /\ \A j \in Inst : DOMAIN ins'[j] = Fields
      /\ \A j \in Inst : j # co[c].i => ins'[j] = ins[j]
      /\ ~ins'[co[c].i].engineStarting
      /\ ins'[co[c].i].isRestarting = ins[co[c].i].isRestarting
      /\ ins'[co[c].i].stopRequested = ins[co[c].i].stopRequested
      /\ ins'[co[c].i].cancelled = ins[co[c].i].cancelled
  BY <1>3 DEF StartAborts, IInv, Shapes, Fields
<1>6. inbox' = inbox \/ (alive /\ main = "idle" /\ inbox' = AskDestroy(inbox))
  BY DEF StartAborts, stopSelf
<1>7. Shapes'
  BY <1>1, <1>2, <1>4, <1>5, <1>6 DEF Placed, IInv, Shapes, Idle
<1>8. Advances(c)
  BY <1>2, <1>3, <1>4, <1>5, <1>6
     DEF Advances, Keeps, Starting, Restarting, Loose, Idle
<1> QED BY <1>7, <1>8

(* A start that finds stopRequested clears its flag, asks for the end and  *)
(* goes.                                                                   *)
LEMMA Start1Advances ==
  ASSUME IInv, NEW c \in Co,
         Start1(c)
  PROVE  Advances(c) /\ Shapes'
<1>1. Placed(c)
  BY PlacedHolds
<1>2. CASE StartAborts(c)
  BY <1>2, AbortAdvances DEF Start1
<1>3. CASE Goto(c, "monitor") /\ UNCHANGED <<ins, inbox>>
  <2>1. Shapes'
    BY <1>1, <1>3 DEF Placed, Start1, CoStep, Goto, IInv, Shapes
  <2>2. Advances(c)
    BY <1>1, <1>3 DEF Placed, Start1, CoStep, Goto, IInv, Shapes, Advances, Keeps, Starting,
         Restarting, Loose
  <2> QED BY <2>1, <2>2
<1> QED BY <1>2, <1>3 DEF Start1

(* Setting isProxyRunning and monitoring leaves the flags alone.           *)
LEMMA Start2Advances ==
  ASSUME IInv, NEW c \in Co,
         Start2(c)
  PROVE  Advances(c) /\ Shapes'
<1>1. Placed(c)
  BY PlacedHolds
<1>2. Shapes'
  BY <1>1 DEF Placed, Start2, CoStep, Goto, SameStatus, IInv, Shapes, Fields, Idle
<1>3. Advances(c)
  BY <1>1 DEF Placed, Start2, CoStep, Goto, SameStatus, IInv, Shapes, Fields, Advances, Keeps,
       Starting, Restarting, Loose, Idle
<1> QED BY <1>2, <1>3

(* However awaitNetwork ends, the flag is cleared or the start goes on or  *)
(* fails.                                                                  *)
LEMMA Start3Advances ==
  ASSUME IInv, NEW c \in Co,
         Start3(c)
  PROVE  Advances(c) /\ Shapes'
<1>1. Placed(c)
  BY PlacedHolds
<1>2. CASE StartAborts(c)
  BY <1>2, AbortAdvances DEF Start3
<1>3. CASE /\ \/ Goto(c, "fail1")
              \/ co' = [co EXCEPT ![c].pc = "assign", ![c].net = ins[co[c].i].monitored]
           /\ UNCHANGED <<ins, inbox>>
  <2>1. Shapes'
    BY <1>1, <1>3 DEF Placed, Start3, CoStep, Goto, IInv, Shapes
  <2>2. Advances(c)
    BY <1>1, <1>3 DEF Placed, Start3, CoStep, Goto, IInv, Shapes, Advances, Keeps, Starting,
         Restarting, Loose
  <2> QED BY <2>1, <2>2
<1> QED BY <1>2, <1>3 DEF Start3

(* A network that cannot be used leads to failStop, with the flag still    *)
(* held.                                                                   *)
LEMMA Start4Advances ==
  ASSUME IInv, NEW c \in Co,
         Start4(c)
  PROVE  Advances(c) /\ Shapes'
<1>1. Placed(c)
  BY PlacedHolds
<1>2. Shapes'
  BY <1>1 DEF Placed, Start4, CoStep, Goto, SameStatus, IInv, Shapes, Fields, Idle
<1>3. Advances(c)
  BY <1>1 DEF Placed, Start4, CoStep, Goto, SameStatus, IInv, Shapes, Fields, Advances, Keeps,
       Starting, Restarting, Loose, Idle
<1> QED BY <1>2, <1>3

(* The coroutine that turns the engine on is the one that checks the stop  *)
(* next.                                                                   *)
LEMMA Start5Advances ==
  ASSUME IInv, NEW c \in Co,
         Start5(c)
  PROVE  Advances(c) /\ Shapes'
<1>1. Placed(c)
  BY PlacedHolds
<1>2. Shapes'
  BY <1>1 DEF Placed, Start5, CoStep, Goto, SameStatus, IInv, Shapes, Fields, Idle
<1>3. Advances(c)
  BY <1>1 DEF Placed, Start5, CoStep, Goto, SameStatus, IInv, Shapes, Fields, Advances, Keeps,
       Starting, Restarting, Loose, Idle
<1> QED BY <1>2, <1>3

(* A start that was stopped meanwhile turns the engine off before it goes. *)
LEMMA Start6Advances ==
  ASSUME IInv, NEW c \in Co,
         Start6(c)
  PROVE  Advances(c) /\ Shapes'
<1>1. Placed(c)
  BY PlacedHolds
<1>2. CASE StartAborts(c) /\ native' = "off"
  BY <1>2, AbortAdvances DEF Start6
<1>3. CASE /\ ~StopMeanwhile(ins[co[c].i])
           /\ ins' = [ins EXCEPT ![co[c].i].loops = NewLoops(ins[co[c].i]),
                                 ![co[c].i].failures = 0]
           /\ Goto(c, "publish") /\ UNCHANGED <<inbox, native>>
  <2>1. Shapes'
    BY <1>1, <1>3 DEF Placed, Start6, CoStep, Goto, IInv, Shapes, Fields
  <2>2. co[c].pc = "started" /\ UNCHANGED <<cur, alive, main, taps>>
    BY DEF Start6, CoStep
  <2>3. co[c].i \in Inst /\ co[c].i <= cur /\ cur \in Nat /\ Inst \subseteq Nat
    BY <1>1, <2>2 DEF Placed, Loose
  <2>4. /\ \A j \in Inst : j # co[c].i => ins'[j] = ins[j]
        /\ ins'[co[c].i].engineStarting = ins[co[c].i].engineStarting
        /\ ins'[co[c].i].isRestarting = ins[co[c].i].isRestarting
        /\ ins'[co[c].i].stopRequested = ins[co[c].i].stopRequested
        /\ ins'[co[c].i].cancelled = ins[co[c].i].cancelled
    BY <1>3, <2>3 DEF IInv, Shapes, Fields
  <2>5. /\ co'[c].pc = "publish" /\ co'[c].i = co[c].i
        /\ \A d \in Co : d # c => co'[d] = co[d]
    BY <1>3 DEF Goto, IInv, Shapes
  <2>6. ~ins[co[c].i].stopRequested /\ inbox' = inbox
    BY <1>3 DEF StopMeanwhile
  <2>7. \A j \in Inst :
          /\ ins'[j].engineStarting => Keeps(j, c, Starting, ins[j].engineStarting)
          /\ ins'[j].isRestarting => Keeps(j, c, Restarting, ins[j].isRestarting)
    BY <2>2, <2>3, <2>4, <2>5 DEF Keeps, Starting, Restarting
  <2>8. \A j \in Inst : j > cur => j # co[c].i
    BY <2>3
  <2>9. Advances(c)
    BY <2>2, <2>4, <2>5, <2>6, <2>7, <2>8 DEF Advances, Keeps, Loose
  <2> QED BY <2>1, <2>9
<1> QED BY <1>2, <1>3 DEF Start6

(* A start that has succeeded clears its flag as it ends.                  *)
LEMMA Start7Advances ==
  ASSUME IInv, NEW c \in Co,
         Start7(c)
  PROVE  Advances(c) /\ Shapes'
<1>1. Placed(c)
  BY PlacedHolds
<1>2. Shapes'
  BY <1>1 DEF Placed, Start7, CoStep, StartDone, End, IInv, Shapes, Fields, Idle
<1>3. Advances(c)
  BY <1>1 DEF Placed, Start7, CoStep, StartDone, End, IInv, Shapes, Fields, Advances, Keeps,
       Starting, Restarting, Loose, Idle
<1> QED BY <1>2, <1>3

(* failStop keeps the flag of the start until it is through.               *)
LEMMA Fail1Advances ==
  ASSUME IInv, NEW c \in Co,
         Fail1(c)
  PROVE  Advances(c) /\ Shapes'
<1>1. Placed(c)
  BY PlacedHolds
<1>2. Shapes'
  BY <1>1 DEF Placed, Fail1, CoStep, Goto, IInv, Shapes, Fields, Idle
<1>3. Advances(c)
  BY <1>1 DEF Placed, Fail1, CoStep, Goto, IInv, Shapes, Fields, Advances, Keeps, Starting,
       Restarting, Loose, Idle
<1> QED BY <1>2, <1>3

(* failStop stops the engine.                                              *)
LEMMA Fail2Advances ==
  ASSUME IInv, NEW c \in Co,
         Fail2(c)
  PROVE  Advances(c) /\ Shapes'
<1>1. Placed(c)
  BY PlacedHolds
<1>2. Shapes'
  BY <1>1 DEF Placed, Fail2, CoStep, Goto, SameStatus, IInv, Shapes, Fields, Idle
<1>3. Advances(c)
  BY <1>1 DEF Placed, Fail2, CoStep, Goto, SameStatus, IInv, Shapes, Fields, Advances, Keeps,
       Starting, Restarting, Loose, Idle
<1> QED BY <1>2, <1>3

(* failStop ends with the flag cleared, whether it tries again or not.     *)
LEMMA Fail3Advances ==
  ASSUME IInv, NEW c \in Co,
         Fail3(c)
  PROVE  Advances(c) /\ Shapes'
<1> DEFINE i == co[c].i
<1>1. Placed(c)
  BY PlacedHolds
<1>2. i \in Inst /\ i <= cur /\ cur \in Nat /\ Inst \subseteq Nat
  BY <1>1 DEF Placed, Fail3, CoStep, Loose
<1>3. /\ DOMAIN ins' = Inst /\ \A j \in Inst : DOMAIN ins'[j] = Fields
      /\ \A j \in Inst : j # i => ins'[j] = ins[j]
      /\ ~ins'[i].engineStarting
      /\ ins'[i].isRestarting = ins[i].isRestarting
      /\ ins'[i].stopRequested = ins[i].stopRequested
      /\ ins'[i].cancelled = ins[i].cancelled
  <2> DEFINE x == [Release(ins[i]) EXCEPT !.engineStarting = FALSE]
  <2>1. CASE ins' = [ins EXCEPT ![i] = [x EXCEPT !.retriesLeft = @ - 1]]
    BY <1>2, <2>1 DEF Release, IInv, Shapes, Fields
  <2>2. CASE ins' = [ins EXCEPT ![i] = x]
    BY <1>2, <2>2 DEF Release, IInv, Shapes, Fields
  <2> QED BY <2>1, <2>2 DEF Fail3
<1>4. co[c].pc = "fail3" /\ UNCHANGED <<cur, alive, main, taps, native>>
  BY DEF Fail3, CoStep
<1>5. /\ DOMAIN co' = Co /\ DOMAIN co'[c] = {"pc", "i", "net"}
      /\ \A d \in Co : d # c => co'[d] = co[d]
      /\ co'[c].pc = "idle" \/ (co'[c].pc = "retry" /\ co'[c].i = i)
  BY DEF Fail3, Goto, End, Idle, IInv, Shapes
<1>6. inbox' = inbox \/ (alive /\ main = "idle" /\ inbox' = AskDestroy(inbox))
  BY DEF Fail3, stopSelf
<1> HIDE DEF i
<1>7. Shapes'
  BY <1>1, <1>3, <1>4, <1>5, <1>6 DEF Placed, IInv, Shapes
<1>8. Advances(c)
  BY <1>2, <1>3, <1>4, <1>5, <1>6 DEF i, Advances, Keeps, Starting, Restarting, Loose
<1> QED BY <1>7, <1>8

(* startProxy refused within a restart clears isRestarting; otherwise it   *)
(* is held.                                                                *)
LEMMA GuardAdvances ==
  ASSUME IInv, NEW c \in Co, NEW from, NEW to,
         \/ from = "retry" /\ to = "launch"
         \/ from = "restart3" /\ to = "relaunch",
         Guard(c, from, to)
  PROVE  Advances(c) /\ Shapes'
<1>1. Placed(c)
  BY PlacedHolds
<1>2. Shapes'
  BY <1>1 DEF Placed, Guard, CoStep, End, Goto, SameStatus, IInv, Shapes, Fields, Idle
<1>3. Advances(c)
  <2>1. CASE Goto(c, to) /\ ins' = ins
    BY <1>1, <2>1 DEF Placed, Guard, CoStep, Goto, IInv, Shapes, Fields, Advances, Keeps,
         Starting, Restarting, Loose, Idle
  <2>2. CASE /\ End(c) /\ from = "retry"
             /\ ins' = [ins EXCEPT ![co[c].i].isRestarting = IF from = "retry" THEN @ ELSE FALSE]
    BY <1>1, <2>2 DEF Placed, Guard, CoStep, End, IInv, Shapes, Fields, Advances, Keeps,
         Starting, Restarting, Loose, Idle
  <2>3. CASE /\ End(c) /\ from = "restart3"
             /\ ins' = [ins EXCEPT ![co[c].i].isRestarting = IF from = "retry" THEN @ ELSE FALSE]
    BY <1>1, <2>3 DEF Placed, Guard, CoStep, End, IInv, Shapes, Fields, Advances, Keeps,
         Starting, Restarting, Loose, Idle
  <2> QED BY <2>1, <2>2, <2>3 DEF Guard
<1> QED BY <1>2, <1>3

(* The start that takes over from a restart trades one flag for the other. *)
LEMMA BeginAdvances ==
  ASSUME IInv, NEW c \in Co, NEW from \in {"launch", "relaunch"},
         Begin(c, from)
  PROVE  Advances(c) /\ Shapes'
<1>1. Placed(c)
  BY PlacedHolds
<1>2. Shapes'
  BY <1>1 DEF Placed, Begin, CoStep, Goto, IInv, Shapes, Fields, Idle
<1>3. Advances(c)
  <2>1. CASE from = "launch"
    BY <1>1, <2>1 DEF Placed, Begin, CoStep, Goto, IInv, Shapes, Fields, Advances, Keeps,
         Starting, Restarting, Loose, Idle
  <2>2. CASE from = "relaunch"
    BY <1>1, <2>2 DEF Placed, Begin, CoStep, Goto, IInv, Shapes, Fields, Advances, Keeps,
         Starting, Restarting, Loose, Idle
  <2> QED BY <2>1, <2>2
<1> QED BY <1>2, <1>3

(* restartProxy sets its flag and goes on to clear it.                     *)
LEMMA Restart0Advances ==
  ASSUME IInv, NEW c \in Co,
         Restart0(c)
  PROVE  Advances(c) /\ Shapes'
<1>1. Placed(c)
  BY PlacedHolds
<1>2. Shapes'
  BY <1>1 DEF Placed, Restart0, CoStep, Goto, IInv, Shapes, Fields, Idle
<1>3. Advances(c)
  BY <1>1 DEF Placed, Restart0, CoStep, Goto, IInv, Shapes, Fields, Advances, Keeps, Starting,
       Restarting, Loose, Idle
<1> QED BY <1>2, <1>3

(* restartProxy clears isProxyRunning with its flag held.                  *)
LEMMA Restart1Advances ==
  ASSUME IInv, NEW c \in Co,
         Restart1(c)
  PROVE  Advances(c) /\ Shapes'
<1>1. Placed(c)
  BY PlacedHolds
<1>2. Shapes'
  BY <1>1 DEF Placed, Restart1, CoStep, Goto, SameStatus, IInv, Shapes, Fields, Idle
<1>3. Advances(c)
  BY <1>1 DEF Placed, Restart1, CoStep, Goto, SameStatus, IInv, Shapes, Fields, Advances, Keeps,
       Starting, Restarting, Loose, Idle
<1> QED BY <1>2, <1>3

(* restartProxy stops the engine with its flag held.                       *)
LEMMA Restart2Advances ==
  ASSUME IInv, NEW c \in Co,
         Restart2(c)
  PROVE  Advances(c) /\ Shapes'
<1>1. Placed(c)
  BY PlacedHolds
<1>2. Shapes'
  BY <1>1 DEF Placed, Restart2, CoStep, Goto, SameStatus, IInv, Shapes, Fields, Idle
<1>3. Advances(c)
  BY <1>1 DEF Placed, Restart2, CoStep, Goto, SameStatus, IInv, Shapes, Fields, Advances, Keeps,
       Starting, Restarting, Loose, Idle
<1> QED BY <1>2, <1>3

(* The coroutine of stopProxy stops the engine.                            *)
LEMMA Clean1Advances ==
  ASSUME IInv, NEW c \in Co,
         Clean1(c)
  PROVE  Advances(c) /\ Shapes'
<1>1. Placed(c)
  BY PlacedHolds
<1>2. Shapes'
  BY <1>1 DEF Placed, Clean1, CoStep, Goto, SameStatus, IInv, Shapes, Fields, Idle
<1>3. Advances(c)
  BY <1>1 DEF Placed, Clean1, CoStep, Goto, SameStatus, IInv, Shapes, Fields, Advances, Keeps,
       Starting, Restarting, Loose, Idle
<1> QED BY <1>2, <1>3

(* The coroutine of stopProxy releases the network and asks for the end.   *)
LEMMA Clean2Advances ==
  ASSUME IInv, NEW c \in Co,
         Clean2(c)
  PROVE  Advances(c) /\ Shapes'
<1>1. Placed(c)
  BY PlacedHolds
<1>2. Shapes'
  BY <1>1 DEF Placed, Clean2, CoStep, Release, stopSelf, End, SameStatus, IInv, Shapes, Fields,
       Idle
<1>3. Advances(c)
  BY <1>1 DEF Placed, Clean2, CoStep, Release, stopSelf, End, SameStatus, IInv, Shapes, Fields,
       Advances, Keeps, Starting, Restarting, Loose, Idle
<1> QED BY <1>2, <1>3

(* A status update touches neither flag nor engine.                        *)
LEMMA PublishAdvances ==
  ASSUME IInv, NEW c \in Co, NEW pc \in {"resumed", "lost"}, NEW s,
         Publish(c, pc, s)
  PROVE  Advances(c) /\ Shapes'
<1>1. Placed(c)
  BY PlacedHolds
<1>2. Shapes'
  BY <1>1 DEF Placed, Publish, CoStep, End, IInv, Shapes, Fields, Idle
<1>3. Advances(c)
  BY <1>1 DEF Placed, Publish, CoStep, End, IInv, Shapes, Fields, Advances, Keeps, Starting,
       Restarting, Loose, Idle
<1> QED BY <1>2, <1>3

(* Only an instance that is gone has its coroutines cancelled.             *)
LEMMA CancelledAdvances ==
  ASSUME IInv, NEW c \in Co,
         Cancelled(c)
  PROVE  Advances(c) /\ Shapes'
<1>1. Placed(c)
  BY PlacedHolds
<1>2. Shapes'
  BY <1>1 DEF Placed, Cancelled, CoStep, End, SameStatus, IInv, Shapes, Fields, Idle
<1>3. Advances(c)
  BY <1>1 DEF Placed, Cancelled, CoStep, End, SameStatus, IInv, Shapes, Fields, Advances, Keeps,
       Starting, Restarting, Loose, Idle
<1> QED BY <1>2, <1>3

(* Every step of a coroutine is of that kind.                              *)
LEMMA CoroutineAdvances ==
  ASSUME IInv, NEW c \in Co, Coroutine(c)
  PROVE  Advances(c) /\ Shapes'
<1>1. ASSUME Retry(c) PROVE Advances(c) /\ Shapes'
  BY <1>1, GuardAdvances, BeginAdvances DEF Retry
<1>2. ASSUME Restart(c) PROVE Advances(c) /\ Shapes'
  BY <1>2, Restart0Advances, Restart1Advances, Restart2Advances, GuardAdvances, BeginAdvances
     DEF Restart
<1>3. ASSUME \/ Start1(c) \/ Start2(c) \/ Start3(c) \/ Start4(c) \/ Start5(c) \/ Start6(c)
             \/ Start7(c)
      PROVE  Advances(c) /\ Shapes'
  BY <1>3, Start1Advances, Start2Advances, Start3Advances, Start4Advances, Start5Advances,
       Start6Advances, Start7Advances
<1>4. ASSUME Fail1(c) \/ Fail2(c) \/ Fail3(c) \/ Clean1(c) \/ Clean2(c) \/ Cancelled(c)
      PROVE  Advances(c) /\ Shapes'
  BY <1>4, Fail1Advances, Fail2Advances, Fail3Advances, Clean1Advances, Clean2Advances,
       CancelledAdvances
<1>5. ASSUME Publish(c, "resumed", "RUNNING") \/ Publish(c, "lost", "PAUSED")
      PROVE  Advances(c) /\ Shapes'
  BY <1>5, PublishAdvances
<1> QED BY <1>1, <1>2, <1>3, <1>4, <1>5 DEF Coroutine

(* Every step of a coroutine preserves the invariant.                      *)
LEMMA CoroutineKeeps ==
  ASSUME IInv, NEW c \in Co, Coroutine(c)
  PROVE  IInv'
BY CoroutineAdvances, AdvanceKeeps DEF IInv
-----------------------------------------------------------------------------
(* The other threads                                                       *)

(* A new coroutine takes the place of none.                                *)
Launched(i, pc) ==
  \E c \in Co : /\ co[c].pc = "idle"
                /\ co'[c].pc = pc /\ co'[c].i = i
                /\ \A d \in Co : d # c => co'[d] = co[d]

(* launch finds a free place and fills it.                                 *)
LEMMA LaunchFacts ==
  ASSUME IInv, NEW i, NEW pc, Launch(i, pc)
  PROVE  /\ Launched(i, pc)
         /\ DOMAIN co' = Co /\ \A c \in Co : DOMAIN co'[c] = {"pc", "i", "net"}
BY DEF IInv, Shapes, Launch, FirstFree, Launched

(* Nobody's coroutine is lost when another is launched.                    *)
LEMMA BusyStays ==
  ASSUME NEW i, NEW pc, Launched(i, pc) \/ co' = co, NEW j, NEW pcs, "idle" \notin pcs,
         NEW c \in Co, co[c].i = j, co[c].pc \in pcs
  PROVE  \E d \in Co : co'[d].i = j /\ co'[d].pc \in pcs
BY DEF Launched

(* What a step of another thread does that leaves the service as it is     *)
Leaves(i, pc) ==
  /\ UNCHANGED <<cur, alive, main, inbox>>
  /\ taps' = taps
  /\ native' # "off" => native # "off"
  /\ co' = co \/ (Launched(i, pc) /\ pc \notin Starting \union Restarting /\
                  (pc \notin Loose => i \in Inst /\ i <= cur))
  /\ \A j \in Inst : /\ ins'[j].stopRequested = ins[j].stopRequested
                     /\ ins'[j].cancelled = ins[j].cancelled
                     /\ ins'[j].engineStarting = ins[j].engineStarting
                     /\ ins'[j].isRestarting = ins[j].isRestarting
                     /\ ins'[j].isProxyRunning = ins[j].isProxyRunning
                     /\ ins[j].loops = {} => ins'[j].loops = {}

(* Such a step preserves the invariant.                                    *)
LEMMA LeaveKeeps ==
  ASSUME IInv, Shapes', NEW i, NEW pc, Leaves(i, pc)
  PROVE  IInv'
<1>1. Instances'
  <2>1. \A d \in Co : Own(d)'
    BY DEF IInv, Shapes, Inv, Instances, Own, Leaves, Launched, Loose
  <2>2. alive' => cur' >= 1 /\ ~ins'[cur'].cancelled
    BY DEF IInv, Shapes, Inv, Instances, Leaves, Inst
  <2>3. \A j \in Inst : j <= cur' /\ ~Serving(j)' => ins'[j].stopRequested
    BY DEF IInv, Inv, Instances, Leaves, Serving
  <2>4. \A j \in Inst : j > cur' => Unborn(ins'[j])
    BY DEF IInv, Inv, Instances, Leaves, Unborn
  <2> QED BY <2>1, <2>2, <2>3, <2>4 DEF IInv, Inv, Instances, Leaves
<1>2. Queue'
  BY DEF IInv, Inv, Queue, Leaves
<1>3. Stoppable'
  BY DEF IInv, Inv, Stoppable, Leaves, Launched
<1>4. Clearable'
  <2> SUFFICES ASSUME NEW j \in Inst, ~ins'[j].cancelled
               PROVE  /\ ins'[j].engineStarting => Busy(j, Starting)'
                      /\ ins'[j].isRestarting => Busy(j, Restarting)'
    BY DEF Clearable
  <2>1. "idle" \notin Starting /\ "idle" \notin Restarting
    BY DEF Starting, Restarting
  <2>2. co' = co \/ Launched(i, pc)
    BY DEF Leaves
  <2>3. ASSUME ins'[j].engineStarting PROVE Busy(j, Starting)'
    <3>1. PICK c \in Co : co[c].i = j /\ co[c].pc \in Starting
      BY <2>3 DEF IInv, Inv, Clearable, Busy, Leaves
    <3>2. \E d \in Co : co'[d].i = j /\ co'[d].pc \in Starting
      BY <2>1, <2>2, <3>1, BusyStays
    <3> QED BY <3>2 DEF Busy, Starting
  <2>4. ASSUME ins'[j].isRestarting PROVE Busy(j, Restarting)'
    <3>1. PICK c \in Co : co[c].i = j /\ co[c].pc \in Restarting
      BY <2>4 DEF IInv, Inv, Clearable, Busy, Leaves
    <3>2. \E d \in Co : co'[d].i = j /\ co'[d].pc \in Restarting
      BY <2>1, <2>2, <3>1, BusyStays
    <3> QED BY <3>2 DEF Busy, Restarting
  <2> QED BY <2>3, <2>4
<1> QED BY <1>1, <1>2, <1>3, <1>4 DEF IInv, Inv

(* The loops, the callback thread and the system                           *)
LEMMA OthersKeep ==
  ASSUME IInv,
         \/ \E i \in Inst : HealthCheck(i) \/ Watchdog(i) \/ \E loop \in Loops : LoopEnds(i, loop)
         \/ TakeEvent \/ handleNetworkChange
         \/ \E n \in Nets \cup {NoNet} : NetworkChanges(n)
         \/ EngineDies
  PROVE  IInv'
<1>1. ASSUME NEW i \in Inst, HealthCheck(i) \/ Watchdog(i) \/ \E loop \in Loops : LoopEnds(i, loop)
      PROVE  IInv'
  <2>1. PICK loop \in Loops : LoopStep(i, loop)
    BY <1>1 DEF HealthCheck, Watchdog, LoopEnds, Loops
  <2>2. i <= cur
    BY <2>1 DEF IInv, Shapes, Inv, Instances, Unborn, LoopStep, Inst
  <2>3. /\ \/ ins' = [ins EXCEPT ![i].failures = 0]
           \/ ins' = [ins EXCEPT ![i].failures = @ + 1]
           \/ \E l \in Loops : ins' = [ins EXCEPT ![i].loops = @ \ {l}]
        /\ co' = co \/ Launch(i, "trigger")
    BY <1>1 DEF HealthCheck, Watchdog, LoopEnds, CallRestart, Loops
  <2>4. Leaves(i, "trigger") /\ Shapes'
    BY <2>1, <2>2, <2>3, LaunchFacts DEF LoopStep, Leaves, IInv, Shapes, Fields, Starting,
         Restarting, Loose
  <2> QED BY <2>4, LeaveKeeps
<1>2. CASE TakeEvent
  <2>1. Leaves(0, "lost") /\ Shapes'
    BY <1>2 DEF TakeEvent, Leaves, IInv, Shapes, Fields
  <2> QED BY <2>1, LeaveKeeps
<1>3. CASE handleNetworkChange
  <2>1. /\ ins' = ins \/ ins' = [ins EXCEPT ![cb.i].cellularNetwork = NewNetwork]
        /\ \E pc \in {"lost", "resumed"} : co' = co \/ Launch(cb.i, pc)
        /\ UNCHANGED <<cur, alive, main, inbox, native, taps>>
    BY <1>3 DEF handleNetworkChange
  <2>2. PICK pc \in {"lost", "resumed"} : co' = co \/ Launch(cb.i, pc)
    BY <2>1
  <2>3. Leaves(cb.i, pc) /\ Shapes'
    BY <2>1, <2>2, LaunchFacts DEF Leaves, IInv, Shapes, Fields, Starting, Restarting, Loose
  <2> QED BY <2>3, LeaveKeeps
<1>4. CASE (\E n \in Nets \cup {NoNet} : NetworkChanges(n)) \/ EngineDies
  <2>1. Leaves(0, "lost") /\ Shapes'
    BY <1>4 DEF NetworkChanges, EngineDies, Leaves, IInv, Shapes
  <2> QED BY <2>1, LeaveKeeps
<1> QED BY <1>1, <1>2, <1>3, <1>4
-----------------------------------------------------------------------------
(* The button and the main thread                                          *)

(* A tap only adds an intent, which one tap less pays for.                 *)
LEMMA TapKeeps ==
  ASSUME IInv, Tap
  PROVE  IInv'
<1> USE ServiceAssumption
<1>1. PICK m \in Message \ {"DESTROY"} : inbox' = Append(inbox, m)
  BY DEF Tap, Message
<1>2. /\ inbox' \in Seq(Message) /\ Once(inbox')
      /\ HasDestroy(inbox') <=> HasDestroy(inbox)
      /\ Intents(inbox') = Intents(inbox) + 1
  BY <1>1, AppendFacts DEF IInv, Shapes, Inv, Queue
<1>3. /\ taps' = taps - 1 /\ taps > 0
      /\ UNCHANGED <<ins, cur, alive, main, co, native>>
  BY DEF Tap
<1>4. Shapes'
  BY <1>2, <1>3 DEF IInv, Shapes
<1>5. Len(inbox) \in Nat
  BY DEF IInv, Shapes
<1>6. Queue'
  BY <1>2, <1>3, <1>5 DEF IInv, Shapes, Inv, Queue, Intents
<1>7. Instances'
  BY <1>3 DEF IInv, Inv, Instances, Own, Serving
<1>8. Stoppable'
  BY <1>3 DEF IInv, Inv, Stoppable
<1>9. Clearable'
  BY <1>3 DEF IInv, Inv, Clearable, Busy
<1> QED BY <1>4, <1>6, <1>7, <1>8, <1>9 DEF IInv, Inv

(* An intent always finds an instance that may be there.                   *)
LEMMA ReceiveFacts ==
  ASSUME IInv, NEW kinds, "DESTROY" \notin kinds, Receive(kinds)
  PROVE  /\ Target \in Inst /\ Target >= cur
         /\ ~alive => Unborn(ins[Target])
         /\ ~ins[Target].cancelled
         /\ cur' = Target /\ alive' /\ main = "idle"
         /\ Tail(inbox) \in Seq(Message) /\ Once(Tail(inbox))
         /\ Target + Intents(Tail(inbox)) + taps <= MaxTaps + 1
<1> USE ServiceAssumption
<1>1. /\ Tail(inbox) \in Seq(Message) /\ Once(Tail(inbox))
      /\ HasDestroy(Tail(inbox)) <=> HasDestroy(inbox)
      /\ Intents(Tail(inbox)) = Intents(inbox) - 1
  BY TailFacts DEF Receive, IInv, Shapes, Inv, Queue
<1>2. Len(inbox) \in Nat /\ Len(inbox) >= 1 /\ Len(Tail(inbox)) = Len(inbox) - 1
  BY DEF Receive, IInv, Shapes
<1>3. CASE alive
  BY <1>1, <1>2, <1>3 DEF Receive, Target, IInv, Shapes, Inv, Instances, Queue, Intents, Inst
<1>4. CASE ~alive
  <2>1. ~HasDestroy(inbox) /\ Intents(inbox) = Len(inbox)
    BY <1>4 DEF IInv, Inv, Queue, Intents
  <2>2. Target = cur + 1 /\ Target \in Inst
    BY <1>2, <1>4, <2>1 DEF Target, IInv, Shapes, Inv, Queue, Inst
  <2>3. Unborn(ins[Target])
    BY <2>2 DEF IInv, Shapes, Inv, Instances
  <2> QED BY <1>1, <1>2, <1>4, <2>1, <2>2, <2>3 DEF Receive, IInv, Shapes, Inv, Queue, Unborn
<1> QED BY <1>3, <1>4

(* What handling an intent does to the parts of the invariant              *)
Handles(i) ==
  /\ main' = main /\ native' = native /\ taps' = taps
  /\ inbox' = Tail(inbox) \/ inbox' = AskDestroy(Tail(inbox))
  /\ \A j \in Inst : j # i => ins'[j] = ins[j]
  /\ ins'[i].cancelled = ins[i].cancelled
  /\ ins'[i].isRestarting = ins[i].isRestarting
  /\ \/ co' = co /\ ins'[i].engineStarting = ins[i].engineStarting
     \/ Launched(i, "start")
     \/ Launched(i, "clean1") /\ ins'[i].engineStarting = ins[i].engineStarting

(* A START or STOP intent preserves the invariant.                         *)
LEMMA HandleKeeps ==
  ASSUME IInv, Shapes', NEW kinds, "DESTROY" \notin kinds, Receive(kinds), Handles(Target)
  PROVE  IInv'
<1> USE ServiceAssumption
<1>0. /\ Target \in Inst /\ Target >= cur
      /\ ~alive => Unborn(ins[Target])
      /\ ~ins[Target].cancelled
      /\ cur' = Target /\ alive' /\ main = "idle"
      /\ Tail(inbox) \in Seq(Message) /\ Once(Tail(inbox))
      /\ Target + Intents(Tail(inbox)) + taps <= MaxTaps + 1
  BY ReceiveFacts
<1>1. Instances'
  <2>1. \A d \in Co : Own(d)'
    <3> SUFFICES ASSUME NEW d \in Co, co'[d].pc \notin Loose
                 PROVE  co'[d].i \in Inst /\ co'[d].i <= cur'
      BY DEF Own
    <3>1. CASE co'[d] = co[d]
      BY <1>0, <3>1 DEF IInv, Shapes, Inv, Instances, Own, Inst
    <3>2. CASE co'[d].i = Target
      BY <1>0, <3>2 DEF Inst
    <3> QED BY <3>1, <3>2 DEF Handles, Launched
  <2>2. alive' => cur' >= 1 /\ ~ins'[cur'].cancelled
    BY <1>0 DEF Handles, Inst
  <2>3. \A j \in Inst : j <= cur' /\ ~Serving(j)' => ins'[j].stopRequested
    <3> SUFFICES ASSUME NEW j \in Inst, j <= cur', ~Serving(j)'
                 PROVE  ins'[j].stopRequested
      OBVIOUS
    <3>1. j # Target
      BY <1>0 DEF Serving, Handles
    <3>2. j <= cur /\ ~Serving(j)
      BY <1>0, <3>1 DEF Target, Serving, IInv, Shapes, Inst
    <3> QED BY <3>1, <3>2 DEF IInv, Inv, Instances, Handles
  <2>4. \A j \in Inst : j > cur' => Unborn(ins'[j])
    BY <1>0 DEF IInv, Shapes, Inv, Instances, Handles, Inst
  <2> QED BY <1>0, <2>1, <2>2, <2>3, <2>4 DEF Instances
<1>2. Queue'
  BY <1>0, AskDestroyFacts DEF Queue, Handles
<1>3. Stoppable'
  BY <1>0 DEF Stoppable, Handles
<1>4. Clearable'
  <2> SUFFICES ASSUME NEW j \in Inst, ~ins'[j].cancelled
               PROVE  /\ ins'[j].engineStarting => Busy(j, Starting)'
                      /\ ins'[j].isRestarting => Busy(j, Restarting)'
    BY DEF Clearable
  <2>1. "idle" \notin Starting /\ "idle" \notin Restarting /\ "start" \in Starting
    BY DEF Starting, Restarting
  <2>2. PICK pc : co' = co \/ Launched(Target, pc)
    BY DEF Handles
  <2>3. ASSUME ins'[j].engineStarting PROVE Busy(j, Starting)'
    <3>1. CASE j = Target /\ Launched(Target, "start")
      <4>1. \E d \in Co : co'[d].i = j /\ co'[d].pc \in Starting
        BY <2>1, <3>1 DEF Launched
      <4> QED BY <4>1 DEF Busy, Starting
    <3>2. CASE ~(j = Target /\ Launched(Target, "start"))
      <4>1. PICK c \in Co : co[c].i = j /\ co[c].pc \in Starting
        BY <2>3, <3>2 DEF IInv, Inv, Clearable, Busy, Handles
      <4>2. \E d \in Co : co'[d].i = j /\ co'[d].pc \in Starting
        BY <2>1, <2>2, <4>1, BusyStays
      <4> QED BY <4>2 DEF Busy, Starting
    <3> QED BY <3>1, <3>2
  <2>4. ASSUME ins'[j].isRestarting PROVE Busy(j, Restarting)'
    <3>1. PICK c \in Co : co[c].i = j /\ co[c].pc \in Restarting
      BY <2>4 DEF IInv, Inv, Clearable, Busy, Handles
    <3>2. \E d \in Co : co'[d].i = j /\ co'[d].pc \in Restarting
      BY <2>1, <2>2, <3>1, BusyStays
    <3> QED BY <3>2 DEF Busy, Restarting
  <2> QED BY <2>3, <2>4
<1> QED BY <1>1, <1>2, <1>3, <1>4 DEF IInv, Inv

(* onStartCommand with ACTION_START_PROXY preserves the invariant.         *)
LEMMA OnStartKeeps ==
  ASSUME IInv, OnStart
  PROVE  IInv'
<1> USE ServiceAssumption
<1>1. Receive({"START", "AUTO_START"})
  BY DEF OnStart
<1>2. /\ Target \in Inst /\ cur' = Target /\ alive' /\ Tail(inbox) \in Seq(Message)
  BY <1>1, ReceiveFacts
<1> DEFINE x == [ins[Target] EXCEPT !.stopRequested = FALSE,
                          !.retriesLeft = IF Head(inbox) = "AUTO_START"
                                          THEN Retries ELSE 0]
<1>3. /\ main' = main /\ native' = native /\ taps' = taps /\ inbox' = Tail(inbox)
      /\ \/ co' = co /\ ins' = [ins EXCEPT ![Target] = x]
         \/ /\ Launch(Target, "start")
            /\ ins' = [ins EXCEPT ![Target] = [x EXCEPT !.engineStarting = TRUE]]
  BY DEF OnStart
<1>4. Handles(Target) /\ Shapes'
  <2>1. CASE co' = co /\ ins' = [ins EXCEPT ![Target] = x]
    BY <1>2, <1>3, <2>1 DEF Handles, IInv, Shapes, Fields, Inst
  <2>2. CASE /\ Launch(Target, "start")
             /\ ins' = [ins EXCEPT ![Target] = [x EXCEPT !.engineStarting = TRUE]]
    <3>1. /\ Launched(Target, "start")
          /\ DOMAIN co' = Co /\ \A c \in Co : DOMAIN co'[c] = {"pc", "i", "net"}
      BY <2>2, LaunchFacts
    <3>2. Shapes'
      BY <1>2, <1>3, <2>2, <3>1 DEF IInv, Shapes, Fields, Inst
    <3>3. Handles(Target)
      BY <1>2, <1>3, <2>2, <3>1 DEF Handles, IInv, Shapes, Fields
    <3> QED BY <3>2, <3>3
  <2> QED BY <1>3, <2>1, <2>2
<1> QED BY <1>1, <1>4, HandleKeeps

(* onStartCommand with ACTION_STOP_PROXY preserves the invariant.          *)
LEMMA OnStopKeeps ==
  ASSUME IInv, OnStop
  PROVE  IInv'
<1> USE ServiceAssumption
<1>1. Receive({"STOP"})
  BY DEF OnStop
<1>2. /\ Target \in Inst /\ cur' = Target /\ alive' /\ Tail(inbox) \in Seq(Message)
      /\ AskDestroy(Tail(inbox)) \in Seq(Message)
  BY <1>1, ReceiveFacts, AskDestroyFacts
<1> DEFINE x == [ins[Target] EXCEPT !.retriesLeft = 0, !.loops = {}, !.stopRequested = TRUE]
<1>3. /\ main' = main /\ native' = native /\ taps' = taps
      /\ \/ /\ co' = co /\ ins' = [ins EXCEPT ![Target] = x]
            /\ inbox' = AskDestroy(Tail(inbox))
         \/ /\ Launch(Target, "clean1")
            /\ ins' = [ins EXCEPT ![Target] = [x EXCEPT !.isProxyRunning = FALSE]]
            /\ inbox' = Tail(inbox)
  BY DEF OnStop, EarlyStop
<1>4. Handles(Target) /\ Shapes'
  <2>1. CASE /\ co' = co /\ ins' = [ins EXCEPT ![Target] = x]
             /\ inbox' = AskDestroy(Tail(inbox))
    BY <1>2, <1>3, <2>1 DEF Handles, IInv, Shapes, Fields, Inst
  <2>2. CASE /\ Launch(Target, "clean1")
             /\ ins' = [ins EXCEPT ![Target] = [x EXCEPT !.isProxyRunning = FALSE]]
             /\ inbox' = Tail(inbox)
    <3>1. /\ Launched(Target, "clean1")
          /\ DOMAIN co' = Co /\ \A c \in Co : DOMAIN co'[c] = {"pc", "i", "net"}
      BY <2>2, LaunchFacts
    <3>2. Shapes'
      BY <1>2, <1>3, <2>2, <3>1 DEF IInv, Shapes, Fields, Inst
    <3>3. Handles(Target)
      BY <1>2, <1>3, <2>2, <3>1 DEF Handles, IInv, Shapes, Fields
    <3> QED BY <3>2, <3>3
  <2> QED BY <1>3, <2>1, <2>2
<1> QED BY <1>1, <1>4, HandleKeeps

(* onDestroy stops the engine and tells the instance so; it can only be    *)
(* running while there is an instance.                                     *)
LEMMA OnDestroyKeeps ==
  ASSUME IInv, OnDestroy
  PROVE  IInv'
<1> USE ServiceAssumption
<1>1. /\ Tail(inbox) \in Seq(Message) /\ Once(Tail(inbox))
      /\ ~HasDestroy(Tail(inbox)) /\ Intents(Tail(inbox)) = Intents(inbox)
      /\ HasDestroy(inbox)
  BY TailFacts DEF OnDestroy, IInv, Shapes, Inv, Queue
<1>2. alive /\ main = "idle" /\ cur \in Inst /\ ~ins[cur].cancelled
  BY <1>1 DEF IInv, Shapes, Inv, Queue, Instances, Inst
<1>3. /\ inbox' = Tail(inbox) /\ main' = "destroying" /\ native' = "off"
      /\ UNCHANGED <<cur, alive, co, taps>>
  BY DEF OnDestroy
<1>4. /\ DOMAIN ins' = Inst /\ \A i \in Inst : DOMAIN ins'[i] = Fields
      /\ \A j \in Inst : j # cur => ins'[j] = ins[j]
      /\ ins'[cur].stopRequested /\ ~ins'[cur].cancelled
      /\ ins'[cur].engineStarting = ins[cur].engineStarting
      /\ ins'[cur].isRestarting = ins[cur].isRestarting
  BY <1>2 DEF OnDestroy, IInv, Shapes, Fields
<1>5. Shapes'
  BY <1>1, <1>3, <1>4 DEF IInv, Shapes
<1>6. Instances'
  BY <1>2, <1>3, <1>4 DEF IInv, Shapes, Inv, Instances, Own, Serving, Inst
<1>7. Queue'
  BY <1>1, <1>3 DEF IInv, Inv, Queue
<1>8. Stoppable'
  BY <1>3 DEF Stoppable
<1>9. Clearable'
  BY <1>2, <1>3, <1>4 DEF IInv, Inv, Clearable, Busy
<1> QED BY <1>5, <1>6, <1>7, <1>8, <1>9 DEF IInv, Inv

(* When the instance is gone its scope is cancelled, and an engine that    *)
(* runs is one that a coroutine has just started.                          *)
LEMMA DestroyedKeeps ==
  ASSUME IInv, Destroyed
  PROVE  IInv'
<1> USE ServiceAssumption
<1>1. alive /\ main = "destroying" /\ cur \in Inst /\ ins[cur].stopRequested
  BY DEF Destroyed, IInv, Shapes, Inv, Instances, Serving, Inst
<1>2. main' = "idle" /\ alive' = FALSE /\ UNCHANGED <<cur, inbox, co, native, taps>>
  BY DEF Destroyed
<1>3. /\ DOMAIN ins' = Inst /\ \A i \in Inst : DOMAIN ins'[i] = Fields
      /\ \A j \in Inst : j # cur => ins'[j] = ins[j]
      /\ ins'[cur].stopRequested /\ ins'[cur].cancelled
  BY <1>1 DEF Destroyed, Release, IInv, Shapes, Fields
<1>4. Shapes'
  BY <1>2, <1>3 DEF IInv, Shapes
<1>5. Instances'
  BY <1>1, <1>2, <1>3 DEF IInv, Shapes, Inv, Instances, Own, Serving, Inst
<1>6. Queue'
  BY <1>1, <1>2 DEF IInv, Inv, Queue
<1>7. Stoppable'
  BY <1>1, <1>2 DEF IInv, Inv, Stoppable
<1>8. Clearable'
  BY <1>2, <1>3 DEF IInv, Inv, Clearable, Busy
<1> QED BY <1>4, <1>5, <1>6, <1>7, <1>8 DEF IInv, Inv
-----------------------------------------------------------------------------
(* The invariant and the theorems                                          *)

(* At first there is no instance, no engine and no coroutine.              *)
LEMMA Initial == Init => IInv
<1> SUFFICES ASSUME Init PROVE IInv
  OBVIOUS
<1> USE ServiceAssumption
<1>1. inbox \in Seq(Message) /\ Len(inbox) \in 0..1 /\ ~HasDestroy(inbox)
  <2>1. CASE inbox = <<>>
    BY <2>1 DEF HasDestroy
  <2>2. CASE inbox = <<"AUTO_START">>
    BY <2>2 DEF HasDestroy, Message
  <2> QED BY <2>1, <2>2 DEF Init
<1>2. Shapes
  <2>1. DOMAIN Fresh = Fields /\ DOMAIN Idle = {"pc", "i", "net"}
    BY DEF Fresh, Fields, Idle
  <2>2. ins = [i \in Inst |-> Fresh] /\ co = [c \in Co |-> Idle]
    BY DEF Init
  <2>3. /\ DOMAIN ins = Inst /\ \A i \in Inst : DOMAIN ins[i] = Fields
        /\ DOMAIN co = Co /\ \A c \in Co : DOMAIN co[c] = {"pc", "i", "net"}
    BY <2>1, <2>2
  <2>4. cur = 0 /\ alive = FALSE /\ main = "idle" /\ taps = MaxTaps
    BY DEF Init
  <2>5. cur \in 0..(MaxTaps + 1) /\ taps \in 0..MaxTaps
    BY <2>4
  <2>6. alive \in BOOLEAN /\ main \in {"idle", "destroying"}
    BY <2>4
  <2> QED BY <1>1, <2>3, <2>5, <2>6 DEF Shapes
<1>3. Instances
  BY DEF Init, Instances, Serving, Unborn, Fresh, Own, Loose, Idle, Inst
<1>4. Queue
  BY <1>1 DEF Init, Queue, Once, HasDestroy, Intents
<1>5. Stoppable
  BY DEF Init, Stoppable
<1>6. Clearable
  BY DEF Init, Clearable, Fresh
<1> QED BY <1>2, <1>3, <1>4, <1>5, <1>6 DEF IInv, Inv

(* Every step of the system preserves the invariant.                       *)
LEMMA Inductive == IInv /\ [Next]_vars => IInv'
<1> SUFFICES ASSUME IInv, [Next]_vars PROVE IInv'
  OBVIOUS
<1>1. CASE Tap
  BY <1>1, TapKeeps
<1>2. CASE MainThread
  BY <1>2, OnStartKeeps, OnStopKeeps, OnDestroyKeeps, DestroyedKeeps DEF MainThread
<1>3. ASSUME NEW c \in Co, Coroutine(c) PROVE IInv'
  BY <1>3, CoroutineKeeps
<1>4. CASE \/ \E i \in Inst : \/ HealthCheck(i) \/ Watchdog(i)
                              \/ \E loop \in Loops : LoopEnds(i, loop)
           \/ TakeEvent \/ handleNetworkChange
           \/ \E n \in Nets \cup {NoNet} : NetworkChanges(n)
           \/ EngineDies
  BY <1>4, OthersKeep
<1>5. CASE UNCHANGED vars
  BY <1>5 DEF vars, IInv, Shapes, Inv, Instances, Own, Serving, Queue, Stoppable, Clearable, Busy
<1> QED BY <1>1, <1>2, <1>3, <1>4, <1>5 DEF Next

(* The invariant holds in every state of every behaviour.                  *)
LEMMA Always == Spec => []IInv
BY Initial, Inductive, PTL DEF Spec

(* README: the stop flag prevents zombie listeners. When the service is    *)
(* gone and its coroutines are done, the engine does not run: whatever     *)
(* starts it late looks at stopRequested afterwards and stops it, and that *)
(* flag cannot be reset by a new START, which goes to a new instance.      *)
THEOREM EngineStopsWithService == Spec => []NoZombie
<1>1. IInv => NoZombie
  BY DEF IInv, Inv, Stoppable, NoZombie, Settled, Idle
<1> QED BY <1>1, Always, PTL

(* engineStarting and isRestarting disable watchdog, restarts and LAN      *)
(* refresh: each way a start, a failure, a retry or a restart can end      *)
(* clears the flag it holds, or hands it to the coroutine that takes over. *)
THEOREM FlagsEndWithTheirHolder == Spec => []FlagsReleased
<1>1. IInv => FlagsReleased
  <2> SUFFICES ASSUME IInv, Settled, alive
               PROVE  ~ins[cur].engineStarting /\ ~ins[cur].isRestarting
    BY DEF FlagsReleased
  <2>1. cur \in Inst /\ ~ins[cur].cancelled
    BY ServiceAssumption DEF IInv, Shapes, Inv, Instances, Inst
  <2>2. \A c \in Co : co[c].pc \notin Starting \union Restarting
    BY DEF Settled, Idle, Starting, Restarting
  <2> QED BY <2>1, <2>2 DEF IInv, Inv, Clearable, Busy
<1> QED BY <1>1, Always, PTL
-----------------------------------------------------------------------------
(* A service that runs is watched                                          *)

(* The coroutine of a stop, those that are to start the service or to set  *)
(* isProxyRunning, and those that are to launch the watchdog or to clear   *)
(* isProxyRunning                                                          *)
Leaving == {"clean1", "clean2"}
Reviving == {"start", "monitor", "fail2", "fail3", "retry", "launch", "restart2", "restart3",
             "relaunch"}
Settling == {"await", "assign", "native", "started", "fail1", "trigger", "restart1"}

(* Unless its end has been asked for, or is about to be, the instance has  *)
(* not been stopped; it runs or a coroutine works at it, and where it runs *)
(* the watchdog is there or a coroutine is about to launch it.             *)
Watched ==
  alive /\ main = "idle" =>
    \/ HasDestroy(inbox) \/ Busy(cur, Leaving)
    \/ /\ ~ins[cur].stopRequested
       /\ ins[cur].isProxyRunning \/ Busy(cur, Reviving)
       /\ ~ins[cur].isProxyRunning \/ "watchdog" \in ins[cur].loops \/ Busy(cur, Settling)

(* The end is asked for, whatever was in the queue.                        *)
LEMMA AskDestroyAsks ==
  ASSUME NEW q \in Seq(Message)
  PROVE  HasDestroy(AskDestroy(q))
<1>1. CASE HasDestroy(q)
  BY <1>1 DEF AskDestroy, HasDestroy
<1>2. CASE ~HasDestroy(q)
  <2>1. AskDestroy(q) = Append(q, "DESTROY")
    BY <1>2 DEF AskDestroy, HasDestroy
  <2>2. Len(q) \in Nat /\ Len(Append(q, "DESTROY")) = Len(q) + 1
    BY DEF Message
  <2>3. Append(q, "DESTROY")[Len(q) + 1] = "DESTROY"
    BY DEF Message
  <2> QED BY <2>1, <2>2, <2>3 DEF HasDestroy
<1> QED BY <1>1, <1>2

(* A coroutine of the living instance passes on what it answers for: the   *)
(* end, isProxyRunning, or the watchdog of a service that runs.            *)
Hands(c) ==
  LET x == ins[cur]
      y == ins'[cur]
      to(pcs) == co'[c].i = cur /\ co'[c].pc \in pcs
  IN /\ co[c].pc \in Leaving => to(Leaving)
     /\ \/ x.stopRequested \/ y.isProxyRunning \/ to(Reviving)
        \/ ~x.isProxyRunning /\ co[c].pc \notin Reviving
     /\ \/ x.stopRequested \/ ~y.isProxyRunning \/ "watchdog" \in y.loops \/ to(Settling)
        \/ x.isProxyRunning /\ "watchdog" \notin x.loops /\ co[c].pc \notin Settling

(* A coroutine of another instance leaves the living one alone.            *)
Tends(c) ==
  /\ co[c].i = cur => HasDestroy(inbox') \/ Hands(c)
  /\ co[c].i # cur => /\ ins'[cur].isProxyRunning = ins[cur].isProxyRunning
                      /\ "watchdog" \in ins[cur].loops => "watchdog" \in ins'[cur].loops

(* The living instance, and what a coroutine that asks for its end does    *)
Living ==
  /\ IInv /\ alive /\ main = "idle"
  /\ cur \in Inst /\ DOMAIN ins = Inst /\ DOMAIN ins[cur] = Fields /\ ~ins[cur].cancelled
  /\ DOMAIN co = Co /\ HasDestroy(AskDestroy(inbox))

(* An instance that is alive exists and is not cancelled.                  *)
LEMMA LivingHolds ==
  ASSUME IInv, alive, main = "idle"
  PROVE  Living
<1>1. cur \in Inst /\ ~ins[cur].cancelled
  BY ServiceAssumption DEF IInv, Shapes, Inv, Instances, Inst
<1>2. HasDestroy(AskDestroy(inbox))
  BY AskDestroyAsks DEF IInv, Shapes
<1> QED BY <1>1, <1>2 DEF Living, IInv, Shapes

(* A step like this keeps the watch.                                       *)
LEMMA TendsKeeps ==
  ASSUME Living, NEW c \in Co, Advances(c), Tends(c), Watched
  PROVE  Watched'
<1>1. /\ UNCHANGED <<cur, alive, main>> /\ cur \in Inst
      /\ \A d \in Co : d # c => co'[d] = co[d]
      /\ ins'[cur].stopRequested = ins[cur].stopRequested
  BY DEF Living, Advances
<1>2. HasDestroy(inbox) => HasDestroy(inbox')
  BY DEF Living, Advances
<1>3. ASSUME NEW pcs, Busy(cur, pcs),
             co[c].i = cur /\ co[c].pc \in pcs => co'[c].i = cur /\ co'[c].pc \in pcs
      PROVE  \E d \in Co : co'[d].i = cur /\ co'[d].pc \in pcs
  BY <1>1, <1>3 DEF Busy
<1>4. CASE HasDestroy(inbox')
  BY <1>4 DEF Watched
<1>5. CASE Busy(cur, Leaving) /\ ~HasDestroy(inbox')
  <2>1. \E d \in Co : co'[d].i = cur /\ co'[d].pc \in Leaving
    BY <1>3, <1>5 DEF Tends, Hands
  <2> QED BY <1>1, <2>1 DEF Watched, Busy, Leaving
<1>6. CASE ~Busy(cur, Leaving) /\ ~HasDestroy(inbox')
  <2>0. /\ ~ins[cur].stopRequested
        /\ ins[cur].isProxyRunning \/ Busy(cur, Reviving)
        /\ ~ins[cur].isProxyRunning \/ "watchdog" \in ins[cur].loops \/ Busy(cur, Settling)
    BY <1>2, <1>6 DEF Watched, Living
  <2>1. ins'[cur].isProxyRunning \/ \E d \in Co : co'[d].i = cur /\ co'[d].pc \in Reviving
    <3>1. CASE co[c].i # cur
      BY <1>3, <2>0, <3>1 DEF Tends
    <3>2. CASE co[c].i = cur
      <4>1. \/ ins'[cur].isProxyRunning \/ (co'[c].i = cur /\ co'[c].pc \in Reviving)
            \/ ~ins[cur].isProxyRunning /\ co[c].pc \notin Reviving
        BY <1>6, <2>0, <3>2 DEF Tends, Hands
      <4> QED BY <1>3, <2>0, <4>1
    <3> QED BY <3>1, <3>2
  <2>2. \/ ~ins'[cur].isProxyRunning \/ "watchdog" \in ins'[cur].loops
        \/ \E d \in Co : co'[d].i = cur /\ co'[d].pc \in Settling
    <3>1. CASE co[c].i # cur
      BY <1>3, <2>0, <3>1 DEF Tends
    <3>2. CASE co[c].i = cur
      <4>1. \/ ~ins'[cur].isProxyRunning \/ "watchdog" \in ins'[cur].loops
            \/ (co'[c].i = cur /\ co'[c].pc \in Settling)
            \/ /\ ins[cur].isProxyRunning /\ "watchdog" \notin ins[cur].loops
               /\ co[c].pc \notin Settling
        BY <1>6, <2>0, <3>2 DEF Tends, Hands
      <4> QED BY <1>3, <2>0, <4>1
    <3> QED BY <3>1, <3>2
  <2> QED BY <1>1, <2>0, <2>1, <2>2 DEF Watched, Busy, Reviving, Settling
<1> QED BY <1>4, <1>5, <1>6

(* A start that has been stopped asks for the end.                         *)
LEMMA AbortTends ==
  ASSUME Living, NEW c \in Co, StartAborts(c)
  PROVE  Tends(c)
<1>1. co[c].i = cur => HasDestroy(inbox')
  BY DEF StartAborts, stopSelf, Living
<1>2. co[c].i # cur => ins'[cur] = ins[cur]
  BY DEF StartAborts, Living
<1> QED BY <1>1, <1>2 DEF Tends

(* The first steps of startProxy's coroutine.                              *)
LEMMA StartTends ==
  ASSUME Living, NEW c \in Co,
         Start1(c) \/ Start2(c) \/ Start3(c) \/ Start4(c) \/ Start5(c)
  PROVE  Tends(c)
<1>1. CASE StartAborts(c)
  BY <1>1, AbortTends
<1>2. CASE Start1(c) /\ Goto(c, "monitor") /\ ins' = ins
  BY <1>2 DEF Start1, CoStep, Goto, Living, Tends, Hands, Leaving, Reviving, Settling
<1>3. CASE Start2(c)
  <2>1. co[c].pc = "monitor" /\ co'[c].i = co[c].i /\ co'[c].pc = "await"
    BY <1>3 DEF Start2, CoStep, Goto, Living, IInv, Shapes
  <2>2. /\ co[c].i = cur => ins'[cur].isProxyRunning
        /\ co[c].i # cur => ins'[cur] = ins[cur]
    BY <1>3 DEF Start2, Living, Fields
  <2> QED BY <2>1, <2>2 DEF Tends, Hands, Leaving, Reviving, Settling
<1>4. CASE Start3(c) /\ ~StartAborts(c)
  <2>1. /\ co[c].pc = "await" /\ ins' = ins
        /\ \/ Goto(c, "fail1")
           \/ co' = [co EXCEPT ![c].pc = "assign", ![c].net = ins[co[c].i].monitored]
    BY <1>4 DEF Start3, CoStep
  <2>2. co'[c].i = co[c].i /\ co'[c].pc \in Settling
    BY <2>1 DEF Goto, Living, IInv, Shapes, Settling
  <2> QED BY <2>1, <2>2 DEF Tends, Hands, Leaving, Reviving, Settling
<1>5. CASE Start4(c)
  <2>1. co[c].pc = "assign" /\ co'[c].i = co[c].i /\ co'[c].pc \in Settling
    BY <1>5 DEF Start4, CoStep, Goto, Living, IInv, Shapes, Settling
  <2>2. /\ ins'[cur].isProxyRunning = ins[cur].isProxyRunning
        /\ ins'[cur].loops = ins[cur].loops
    BY <1>5 DEF Start4, Living, Fields
  <2> QED BY <2>1, <2>2 DEF Tends, Hands, Leaving, Reviving, Settling
<1>6. CASE Start5(c)
  <2>1. co[c].pc = "native" /\ co'[c].i = co[c].i /\ co'[c].pc \in Settling /\ ins' = ins
    BY <1>6 DEF Start5, CoStep, Goto, Living, IInv, Shapes, Settling
  <2> QED BY <2>1 DEF Tends, Hands, Leaving, Reviving, Settling
<1> QED BY <1>1, <1>2, <1>3, <1>4, <1>5, <1>6 DEF Start1

(* Where the engine has started the watchdog is launched before the        *)
(* coroutine ends.                                                         *)
LEMMA StartedTends ==
  ASSUME Living, NEW c \in Co, Start6(c) \/ Start7(c)
  PROVE  Tends(c)
<1>1. CASE StartAborts(c)
  BY <1>1, AbortTends
<1>2. CASE Start6(c) /\ ~StartAborts(c)
  <2>1. /\ co[c].pc = "started"
        /\ ins' = [ins EXCEPT ![co[c].i].loops = Loops, ![co[c].i].failures = 0]
    BY <1>2 DEF Start6, CoStep, NewLoops
  <2>2. co[c].i = cur => "watchdog" \in ins'[cur].loops
    BY <2>1 DEF Living, Fields, Loops
  <2>3. ins'[cur].isProxyRunning = ins[cur].isProxyRunning
    BY <2>1 DEF Living, Fields
  <2>4. co[c].i # cur => ins'[cur].loops = ins[cur].loops
    BY <2>1 DEF Living
  <2> QED BY <2>1, <2>2, <2>3, <2>4 DEF Tends, Hands, Leaving, Reviving, Settling
<1>3. CASE Start7(c)
  <2>1. co[c].pc = "publish"
    BY <1>3 DEF Start7, CoStep
  <2>2. /\ ins'[cur].isProxyRunning = ins[cur].isProxyRunning
        /\ ins'[cur].loops = ins[cur].loops
    BY <1>3 DEF Start7, StartDone, Living, Fields
  <2> QED BY <2>1, <2>2 DEF Tends, Hands, Leaving, Reviving, Settling
<1> QED BY <1>1, <1>2, <1>3 DEF Start6

(* failStop clears isProxyRunning and then tries again or asks for the end.*)
LEMMA FailTends ==
  ASSUME Living, NEW c \in Co, Fail1(c) \/ Fail2(c) \/ Fail3(c)
  PROVE  Tends(c)
<1>1. CASE Fail1(c)
  <2>1. co[c].pc = "fail1" /\ co'[c].i = co[c].i /\ co'[c].pc = "fail2"
    BY <1>1 DEF Fail1, CoStep, Goto, Living, IInv, Shapes
  <2>2. /\ co[c].i = cur => ~ins'[cur].isProxyRunning
        /\ co[c].i # cur => ins'[cur] = ins[cur]
    BY <1>1 DEF Fail1, Living, Fields
  <2> QED BY <2>1, <2>2 DEF Tends, Hands, Leaving, Reviving, Settling
<1>2. CASE Fail2(c)
  <2>1. co[c].pc = "fail2" /\ co'[c].i = co[c].i /\ co'[c].pc = "fail3" /\ ins' = ins
    BY <1>2 DEF Fail2, CoStep, Goto, Living, IInv, Shapes
  <2> QED BY <2>1 DEF Tends, Hands, Leaving, Reviving, Settling
<1>3. CASE Fail3(c)
  <2>1. co[c].pc = "fail3"
    BY <1>3 DEF Fail3, CoStep
  <2>2. /\ ins'[cur].isProxyRunning = ins[cur].isProxyRunning
        /\ ins'[cur].loops = ins[cur].loops
    <3> DEFINE i == co[c].i
               x == [Release(ins[i]) EXCEPT !.engineStarting = FALSE]
    <3>1. CASE i # cur
      BY <1>3, <3>1 DEF Fail3, Living
    <3>2. CASE i = cur /\ ins' = [ins EXCEPT ![i] = [x EXCEPT !.retriesLeft = @ - 1]]
      BY <3>2 DEF Release, Living, Fields
    <3>3. CASE i = cur /\ ins' = [ins EXCEPT ![i] = x]
      BY <3>3 DEF Release, Living, Fields
    <3> QED BY <1>3, <3>1, <3>2, <3>3 DEF Fail3
  <2>3. CASE Goto(c, "retry")
    <3>1. co'[c].i = co[c].i /\ co'[c].pc = "retry"
      BY <2>3 DEF Goto, Living, IInv, Shapes
    <3> QED BY <2>1, <2>2, <3>1 DEF Tends, Hands, Leaving, Reviving, Settling
  <2>4. CASE stopSelf(co[c].i)
    <3>1. co[c].i = cur => HasDestroy(inbox')
      BY <2>4 DEF stopSelf, Living
    <3> QED BY <2>2, <3>1 DEF Tends
  <2> QED BY <1>3, <2>3, <2>4 DEF Fail3
<1> QED BY <1>1, <1>2, <1>3

(* startProxy is refused only where the service has been stopped or runs.  *)
LEMMA GuardTends ==
  ASSUME Living, NEW c \in Co, NEW from \in {"retry", "restart3"},
         NEW to \in {"launch", "relaunch"}, Guard(c, from, to)
  PROVE  Tends(c)
<1>1. co[c].pc = from
  BY DEF Guard, CoStep
<1>2. /\ ins'[cur].isProxyRunning = ins[cur].isProxyRunning
      /\ ins'[cur].loops = ins[cur].loops
  BY DEF Guard, Living, Fields
<1>3. CASE co[c].i # cur
  BY <1>2, <1>3 DEF Tends
<1>4. CASE co[c].i = cur /\ StartRefused(ins[cur])
  BY <1>1, <1>2, <1>4 DEF StartRefused, Tends, Hands, Leaving, Reviving, Settling
<1>5. CASE co[c].i = cur /\ Goto(c, to)
  <2>1. co'[c].i = co[c].i /\ co'[c].pc = to
    BY <1>5 DEF Goto, Living, IInv, Shapes
  <2> QED BY <1>1, <1>2, <1>5, <2>1 DEF Tends, Hands, Leaving, Reviving, Settling
<1> QED BY <1>3, <1>4, <1>5 DEF Guard

(* The start begins.                                                       *)
LEMMA BeginTends ==
  ASSUME Living, NEW c \in Co, NEW from \in {"launch", "relaunch"}, Begin(c, from)
  PROVE  Tends(c)
<1>1. co[c].pc = from /\ co'[c].i = co[c].i /\ co'[c].pc = "start"
  BY DEF Begin, CoStep, Goto, Living, IInv, Shapes
<1>2. /\ ins'[cur].isProxyRunning = ins[cur].isProxyRunning
      /\ ins'[cur].loops = ins[cur].loops
  BY DEF Begin, Living, Fields
<1> QED BY <1>1, <1>2 DEF Tends, Hands, Leaving, Reviving, Settling

(* restartProxy clears isProxyRunning on its way to a new start.           *)
LEMMA RestartTends ==
  ASSUME Living, NEW c \in Co, Restart0(c) \/ Restart1(c) \/ Restart2(c)
  PROVE  Tends(c)
<1>1. CASE Restart0(c)
  <2>1. co[c].pc = "trigger" /\ co'[c].i = co[c].i /\ co'[c].pc = "restart1"
    BY <1>1 DEF Restart0, CoStep, Goto, Living, IInv, Shapes
  <2>2. /\ ins'[cur].isProxyRunning = ins[cur].isProxyRunning
        /\ ins'[cur].loops = ins[cur].loops
    BY <1>1 DEF Restart0, Living, Fields
  <2> QED BY <2>1, <2>2 DEF Tends, Hands, Leaving, Reviving, Settling
<1>2. CASE Restart1(c)
  <2>1. co[c].pc = "restart1" /\ co'[c].i = co[c].i /\ co'[c].pc = "restart2"
    BY <1>2 DEF Restart1, CoStep, Goto, Living, IInv, Shapes
  <2>2. /\ co[c].i = cur => ~ins'[cur].isProxyRunning
        /\ co[c].i # cur => ins'[cur] = ins[cur]
    BY <1>2 DEF Restart1, Living, Fields
  <2> QED BY <2>1, <2>2 DEF Tends, Hands, Leaving, Reviving, Settling
<1>3. CASE Restart2(c)
  <2>1. co[c].pc = "restart2" /\ co'[c].i = co[c].i /\ co'[c].pc = "restart3"
    BY <1>3 DEF Restart2, CoStep, Goto, Living, IInv, Shapes
  <2>2. /\ ins'[cur].isProxyRunning = ins[cur].isProxyRunning
        /\ ins'[cur].loops = ins[cur].loops
    BY <1>3 DEF Restart2, Living, Fields
  <2> QED BY <2>1, <2>2 DEF Tends, Hands, Leaving, Reviving, Settling
<1> QED BY <1>1, <1>2, <1>3

(* The coroutine of stopProxy ends by asking for the end of the service;   *)
(* status updates touch nothing; only another instance can be cancelled.   *)
LEMMA EndTends ==
  ASSUME Living, NEW c \in Co,
         \/ Clean1(c) \/ Clean2(c) \/ Cancelled(c)
         \/ Publish(c, "resumed", "RUNNING") \/ Publish(c, "lost", "PAUSED")
  PROVE  Tends(c)
<1>1. CASE Clean1(c)
  <2>1. co[c].pc = "clean1" /\ co'[c].i = co[c].i /\ co'[c].pc = "clean2" /\ ins' = ins
    BY <1>1 DEF Clean1, CoStep, Goto, Living, IInv, Shapes
  <2> QED BY <2>1 DEF Tends, Hands, Leaving, Reviving, Settling
<1>2. CASE Clean2(c)
  <2>1. co[c].i = cur => HasDestroy(inbox')
    BY <1>2 DEF Clean2, stopSelf, Living
  <2>2. co[c].i # cur => ins'[cur] = ins[cur]
    BY <1>2 DEF Clean2, Living
  <2> QED BY <2>1, <2>2 DEF Tends
<1>3. CASE Cancelled(c)
  <2>1. co[c].i # cur /\ ins' = ins
    BY <1>3 DEF Cancelled, Living
  <2> QED BY <2>1 DEF Tends
<1>4. CASE Publish(c, "resumed", "RUNNING") \/ Publish(c, "lost", "PAUSED")
  <2>1. co[c].pc \in {"resumed", "lost"} /\ ins' = ins
    BY <1>4 DEF Publish, CoStep
  <2> QED BY <2>1 DEF Tends, Hands, Leaving, Reviving, Settling
<1> QED BY <1>1, <1>2, <1>3, <1>4

(* Every step of a coroutine keeps the watch.                              *)
LEMMA CoroutineWatches ==
  ASSUME IInv, Watched, NEW c \in Co, Coroutine(c)
  PROVE  Watched'
<1>1. Advances(c)
  BY CoroutineAdvances
<1>2. CASE alive /\ main = "idle"
  <2>1. Living
    BY <1>2, LivingHolds
  <2>2. Tends(c)
    <3>1. ASSUME Retry(c) PROVE Tends(c)
      BY <2>1, <3>1, GuardTends, BeginTends DEF Retry
    <3>2. ASSUME Restart(c) PROVE Tends(c)
      BY <2>1, <3>2, RestartTends, GuardTends, BeginTends DEF Restart
    <3> QED BY <2>1, <3>1, <3>2, StartTends, StartedTends, FailTends, EndTends DEF Coroutine
  <2> QED BY <1>1, <2>1, <2>2, TendsKeeps
<1>3. CASE ~(alive /\ main = "idle")
  BY <1>1, <1>3 DEF Watched, Advances
<1> QED BY <1>2, <1>3

(* What a step of another thread may do to the watch                       *)
Minds(i, pc) ==
  /\ UNCHANGED <<cur, alive, main>>
  /\ HasDestroy(inbox) => HasDestroy(inbox')
  /\ co' = co \/ Launched(i, pc)
  /\ alive =>
       /\ ins'[cur].stopRequested = ins[cur].stopRequested
       /\ ins'[cur].isProxyRunning = ins[cur].isProxyRunning
       /\ \/ "watchdog" \in ins[cur].loops => "watchdog" \in ins'[cur].loops
          \/ ins[cur].stopRequested \/ ~ins[cur].isProxyRunning
          \/ Launched(cur, "trigger")

(* Such a step keeps the watch: a watchdog goes only where the service is  *)
(* not to run, or where it has launched a restart.                         *)
LEMMA MindsKeep ==
  ASSUME Watched, NEW i, NEW pc, Minds(i, pc)
  PROVE  Watched'
<1> SUFFICES ASSUME alive, main = "idle", ~HasDestroy(inbox')
             PROVE  Watched'
  BY DEF Watched, Minds
<1>1. UNCHANGED <<cur, alive, main>> /\ ~HasDestroy(inbox)
  BY DEF Minds
<1>2. ASSUME NEW pcs, "idle" \notin pcs, Busy(cur, pcs)
      PROVE  \E d \in Co : co'[d].i = cur /\ co'[d].pc \in pcs
  BY <1>2, BusyStays DEF Busy, Minds
<1>3. "idle" \notin Leaving /\ "idle" \notin Reviving /\ "idle" \notin Settling
  BY DEF Leaving, Reviving, Settling
<1>4. CASE Busy(cur, Leaving)
  <2>1. \E d \in Co : co'[d].i = cur /\ co'[d].pc \in Leaving
    BY <1>2, <1>3, <1>4
  <2> QED BY <1>1, <2>1 DEF Watched, Busy, Leaving
<1>5. CASE ~Busy(cur, Leaving)
  <2>0. /\ ~ins[cur].stopRequested
        /\ ins[cur].isProxyRunning \/ Busy(cur, Reviving)
        /\ ~ins[cur].isProxyRunning \/ "watchdog" \in ins[cur].loops \/ Busy(cur, Settling)
    BY <1>1, <1>5 DEF Watched
  <2>1. ins'[cur].isProxyRunning \/ \E d \in Co : co'[d].i = cur /\ co'[d].pc \in Reviving
    BY <1>2, <1>3, <2>0 DEF Minds
  <2>2. \/ ~ins'[cur].isProxyRunning \/ "watchdog" \in ins'[cur].loops
        \/ \E d \in Co : co'[d].i = cur /\ co'[d].pc \in Settling
    <3>1. CASE Launched(cur, "trigger")
      <4>1. \E d \in Co : co'[d].i = cur /\ co'[d].pc = "trigger"
        BY <3>1 DEF Launched
      <4> QED BY <4>1 DEF Settling
    <3>2. CASE ~Launched(cur, "trigger")
      BY <1>2, <1>3, <2>0, <3>2 DEF Minds
    <3> QED BY <3>1, <3>2
  <2>3. ~ins'[cur].stopRequested
    BY <2>0 DEF Minds
  <2> QED BY <1>1, <2>1, <2>2, <2>3 DEF Watched, Busy, Reviving, Settling
<1> QED BY <1>4, <1>5

(* The loops keep the watch.                                               *)
LEMMA LoopsWatch ==
  ASSUME IInv, Watched, NEW i \in Inst,
         HealthCheck(i) \/ Watchdog(i) \/ \E loop \in Loops : LoopEnds(i, loop)
  PROVE  Watched'
<1>1. DOMAIN ins = Inst /\ (alive => cur \in Inst /\ DOMAIN ins[cur] = Fields)
  BY ServiceAssumption DEF IInv, Shapes, Inv, Instances, Inst
<1>2. UNCHANGED <<cur, alive, main, inbox>>
  BY DEF HealthCheck, Watchdog, LoopEnds, LoopStep
<1>3. ASSUME NEW l, ins' = [ins EXCEPT ![i].loops = @ \ {l}], alive
      PROVE  /\ ins'[cur].stopRequested = ins[cur].stopRequested
             /\ ins'[cur].isProxyRunning = ins[cur].isProxyRunning
             /\ ins'[cur].loops = IF i = cur THEN ins[cur].loops \ {l} ELSE ins[cur].loops
  BY <1>1, <1>3 DEF Fields
<1>4. CASE HealthCheck(i)
  <2>1. /\ \/ ins' = [ins EXCEPT ![i].failures = 0]
           \/ ins' = [ins EXCEPT ![i].failures = @ + 1]
           \/ ins' = [ins EXCEPT ![i].loops = @ \ {"health"}]
        /\ co' = co \/ Launch(i, "trigger")
    BY <1>4 DEF HealthCheck, CallRestart
  <2>2. ASSUME alive
        PROVE  /\ ins'[cur].stopRequested = ins[cur].stopRequested
               /\ ins'[cur].isProxyRunning = ins[cur].isProxyRunning
               /\ "watchdog" \in ins[cur].loops => "watchdog" \in ins'[cur].loops
    <3>1. CASE \/ ins' = [ins EXCEPT ![i].failures = 0]
               \/ ins' = [ins EXCEPT ![i].failures = @ + 1]
      BY <1>1, <2>2, <3>1 DEF Fields
    <3>2. CASE ins' = [ins EXCEPT ![i].loops = @ \ {"health"}]
      BY <1>3, <2>2, <3>2
    <3> QED BY <2>1, <3>1, <3>2
  <2>3. co' = co \/ Launched(i, "trigger")
    BY <2>1, LaunchFacts
  <2>4. Minds(i, "trigger")
    BY <1>2, <2>2, <2>3 DEF Minds
  <2> QED BY <2>4, MindsKeep
<1>5. CASE Watchdog(i)
  <2>1. /\ MayRestart(ins[i])
        /\ ins' = [ins EXCEPT ![i].loops = @ \ {"watchdog"}]
    BY <1>5 DEF Watchdog, CallRestart, MayRestart
  <2>2. Launched(i, "trigger")
    BY <1>5, <2>1, LaunchFacts DEF Watchdog, CallRestart
  <2>3. Minds(i, "trigger")
    BY <1>2, <1>3, <2>1, <2>2 DEF Minds
  <2> QED BY <2>3, MindsKeep
<1>6. CASE \E loop \in Loops : LoopEnds(i, loop)
  <2>1. PICK loop \in Loops : LoopEnds(i, loop)
    BY <1>6
  <2>2. /\ ins' = [ins EXCEPT ![i].loops = @ \ {loop}] /\ co' = co
        /\ ~ins[i].isProxyRunning \/ (loop = "watchdog" /\ ins[i].stopRequested)
    BY <2>1 DEF LoopEnds
  <2>3. Minds(i, "trigger")
    BY <1>2, <1>3, <2>2 DEF Minds
  <2> QED BY <2>3, MindsKeep
<1> QED BY <1>4, <1>5, <1>6

(* The button, the callback thread and the system keep the watch.          *)
LEMMA OthersWatch ==
  ASSUME IInv, Watched,
         \/ Tap \/ TakeEvent \/ handleNetworkChange
         \/ \E n \in Nets \cup {NoNet} : NetworkChanges(n)
         \/ EngineDies
  PROVE  Watched'
<1>1. DOMAIN ins = Inst /\ (alive => cur \in Inst /\ DOMAIN ins[cur] = Fields)
  BY ServiceAssumption DEF IInv, Shapes, Inv, Instances, Inst
<1>2. CASE Tap
  <2>1. PICK m \in Message \ {"DESTROY"} : inbox' = Append(inbox, m)
    BY <1>2 DEF Tap, Message
  <2>2. HasDestroy(inbox) => HasDestroy(inbox')
    BY <2>1, AppendFacts DEF IInv, Shapes, Inv, Queue
  <2>3. Minds(0, "lost")
    BY <1>2, <2>2 DEF Tap, Minds
  <2> QED BY <2>3, MindsKeep
<1>3. CASE TakeEvent
  <2>1. Minds(0, "lost")
    BY <1>1, <1>3 DEF TakeEvent, Minds, Fields
  <2> QED BY <2>1, MindsKeep
<1>4. CASE handleNetworkChange
  <2>1. /\ ins' = ins \/ ins' = [ins EXCEPT ![cb.i].cellularNetwork = NewNetwork]
        /\ \E pc \in {"lost", "resumed"} : co' = co \/ Launch(cb.i, pc)
        /\ UNCHANGED <<cur, alive, main, inbox>>
    BY <1>4 DEF handleNetworkChange
  <2>2. PICK pc \in {"lost", "resumed"} : co' = co \/ Launch(cb.i, pc)
    BY <2>1
  <2>3. co' = co \/ Launched(cb.i, pc)
    BY <2>2, LaunchFacts
  <2>4. Minds(cb.i, pc)
    BY <1>1, <2>1, <2>3 DEF Minds, Fields
  <2> QED BY <2>4, MindsKeep
<1>5. CASE (\E n \in Nets \cup {NoNet} : NetworkChanges(n)) \/ EngineDies
  <2>1. Minds(0, "lost")
    BY <1>5 DEF NetworkChanges, EngineDies, Minds
  <2> QED BY <2>1, MindsKeep
<1> QED BY <1>2, <1>3, <1>4, <1>5

(* A START that is not refused launches the start of the service; one that *)
(* is refused finds a service that runs, and only takes back its stop.     *)
LEMMA OnStartWatches ==
  ASSUME IInv, Watched, OnStart
  PROVE  Watched'
<1> USE ServiceAssumption
<1>1. Receive({"START", "AUTO_START"})
  BY DEF OnStart
<1>2. /\ Target \in Inst /\ cur' = Target /\ alive' /\ main = "idle" /\ main' = "idle"
      /\ ~alive => Unborn(ins[Target])
      /\ inbox' = Tail(inbox)
  BY <1>1, ReceiveFacts DEF OnStart
<1>3. HasDestroy(inbox) => HasDestroy(inbox')
  BY <1>1, <1>2, TailFacts DEF Receive, IInv, Shapes, Inv, Queue
<1> DEFINE x == [ins[Target] EXCEPT !.stopRequested = FALSE,
                          !.retriesLeft = IF Head(inbox) = "AUTO_START"
                                          THEN Retries ELSE 0]
<1>4. /\ x.isProxyRunning = ins[Target].isProxyRunning /\ x.loops = ins[Target].loops
      /\ ~x.stopRequested
  BY <1>2 DEF IInv, Shapes, Fields
<1>5. CASE StartRefused(x) /\ co' = co /\ ins' = [ins EXCEPT ![Target] = x]
  <2>1. ins'[Target] = x /\ ins[Target].isProxyRunning
    BY <1>2, <1>4, <1>5 DEF StartRefused, IInv, Shapes
  <2>2. alive /\ Target = cur
    BY <1>2, <2>1 DEF Unborn, Target
  <2> HIDE DEF x
  <2> QED BY <1>2, <1>3, <1>4, <1>5, <2>1, <2>2 DEF Watched, Busy, Leaving, Reviving, Settling
<1>6. CASE /\ ~StartRefused(x) /\ Launch(Target, "start")
           /\ ins' = [ins EXCEPT ![Target] = [x EXCEPT !.engineStarting = TRUE]]
  <2>1. Launched(Target, "start")
    BY <1>6, LaunchFacts
  <2>2. ~ins'[Target].stopRequested /\ ~ins'[Target].isProxyRunning
    BY <1>2, <1>6 DEF StartRefused, IInv, Shapes, Fields
  <2>3. \E d \in Co : co'[d].i = Target /\ co'[d].pc \in Reviving
    BY <2>1 DEF Launched, Reviving
  <2> QED BY <1>2, <2>2, <2>3 DEF Watched, Busy, Reviving
<1> QED BY <1>5, <1>6 DEF OnStart

(* A STOP asks for the end at once or launches the coroutine that will.    *)
LEMMA OnStopWatches ==
  ASSUME IInv, OnStop
  PROVE  Watched'
<1>1. Receive({"STOP"})
  BY DEF OnStop
<1>2. Tail(inbox) \in Seq(Message) /\ cur' = Target
  BY <1>1, ReceiveFacts
<1>3. CASE inbox' = AskDestroy(Tail(inbox))
  <2>1. HasDestroy(inbox')
    BY <1>2, <1>3, AskDestroyAsks
  <2> QED BY <2>1 DEF Watched
<1>4. CASE Launch(Target, "clean1")
  <2>1. \E d \in Co : co'[d].i = Target /\ co'[d].pc \in Leaving
    BY <1>4, LaunchFacts DEF Launched, Leaving
  <2> QED BY <1>2, <2>1 DEF Watched, Busy, Leaving
<1> QED BY <1>3, <1>4 DEF OnStop, EarlyStop

(* The watch is kept by every step of the system.                          *)
LEMMA WatchInductive == IInv /\ Watched /\ [Next]_vars => Watched'
<1> SUFFICES ASSUME IInv, Watched, [Next]_vars PROVE Watched'
  OBVIOUS
<1>1. CASE MainThread
  <2>1. CASE OnDestroy \/ Destroyed
    BY <2>1 DEF OnDestroy, Destroyed, Watched
  <2> QED BY <1>1, <2>1, OnStartWatches, OnStopWatches DEF MainThread
<1>2. ASSUME NEW c \in Co, Coroutine(c) PROVE Watched'
  BY <1>2, CoroutineWatches
<1>3. ASSUME NEW i \in Inst,
             HealthCheck(i) \/ Watchdog(i) \/ \E loop \in Loops : LoopEnds(i, loop)
      PROVE  Watched'
  BY <1>3, LoopsWatch
<1>4. CASE \/ Tap \/ TakeEvent \/ handleNetworkChange
           \/ \E n \in Nets \cup {NoNet} : NetworkChanges(n)
           \/ EngineDies
  BY <1>4, OthersWatch
<1>5. CASE UNCHANGED vars
  BY <1>5 DEF vars, Watched, HasDestroy, Busy
<1> QED BY <1>1, <1>2, <1>3, <1>4, <1>5 DEF Next

(* A service that says it runs is watched: wherever the coroutines and the *)
(* main thread come to rest with the service alive, it has not been        *)
(* stopped, so that something would still be at work at it unless          *)
(* isProxyRunning is set and the watchdog, which restarts a dead engine,   *)
(* is there.                                                               *)
THEOREM RunningServiceWatched == Spec => []RunningIsWatched
<1>1. Init => Watched
  BY DEF Init, Watched
<1>2. IInv /\ Watched => RunningIsWatched
  <2> SUFFICES ASSUME Watched, Settled, alive
               PROVE  ins[cur].isProxyRunning /\ "watchdog" \in ins[cur].loops
    BY DEF RunningIsWatched
  <2>1. main = "idle" /\ ~HasDestroy(inbox)
    BY DEF Settled, HasDestroy
  <2>2. ~Busy(cur, Leaving) /\ ~Busy(cur, Reviving) /\ ~Busy(cur, Settling)
    BY DEF Settled, Busy, Idle, Leaving, Reviving, Settling
  <2> QED BY <2>1, <2>2 DEF Watched
<1> QED BY <1>1, <1>2, Always, WatchInductive, PTL DEF Spec
===============================================================================
