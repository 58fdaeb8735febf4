---------------------------- MODULE SocketsProofs ----------------------------
(****************************************************************************)
(* What Sockets promises of descriptor numbers and of the race, for every     *)
(* number of requests, addresses and descriptors: a socket in use belongs to  *)
(* its connection alone, a served connection stays armed, and an open Java    *)
(* socket has somebody who will close it.                                     *)
(*                                                                          *)
(* The argument: every reference that somebody relies on leads to the socket  *)
(* it was made for, so that two holders of one number are two holders of one  *)
(* socket; and a socket has at most two holders, its Java object and the      *)
(* number given to C, whose numbers differ.                                   *)
(****************************************************************************)
EXTENDS Sockets, SequenceTheorems, TLAPS

------------------------------------------------------------------------------
(* The inductive invariant.                                                   *)

Progress == {"none", "queued", "connecting", "won", "withdraws", "done"}
Places == {"accept", "create", "await", "abandon", "reclaim", "dup", "dup_udp", "refuse",
           "handoff", "session", "live", "close_client", "release", "close_target",
           "no_slot", "away_client", "away_target", "done"}

(* A stamp names the sockets of its own request. *)
Stamps == {s \in [stamp : Requests, fds : SUBSET (0..MaxFd), inodes : SUBSET Sockets] :
             \A x \in s.inodes : x[1] = s.stamp}

Types ==
  /\ fdtab \in [Fds -> Sockets \union {NoSocket}]
  /\ jfd \in [Candidates -> 0..MaxFd]
  /\ attempt \in [Candidates -> Progress]
  /\ winner \in [Requests -> Candidates \union {NoSocket}]
  /\ abandoned \in [Requests -> BOOLEAN]
  /\ latch \in [Requests -> BOOLEAN]
  /\ pc \in [Requests -> Places]
  /\ target \in [Requests -> Candidates \union {NoSocket}]
  /\ client_fd \in [Requests -> 0..MaxFd]
  /\ target_fd \in [Requests -> 0..MaxFd]
  /\ active \in [Fds -> Candidates \union {NoSocket}]
  /\ epoll \subseteq Registrations
  /\ ring \in Seq(Stamps)
  /\ stuck \in [stamp : Requests \union {NoRequest}, count : 0..(Threshold - 1)]

(* The places at which the client's number, and C's number of the target, are open. *)
HasClient(r) == pc[r] \notin {"accept", "release", "close_target", "away_target", "done"}
HasTarget(r) == Held(r) \/ pc[r] \in {"close_target", "away_client", "away_target"}
HasJava(r) == Held(r) \/ pc[r] \in {"dup", "dup_udp"}
Fresh(r) == pc[r] \in {"accept", "create"}

(* What an attempt knows of its race. *)
Attempted(c) ==
  LET r == c[1] IN
  /\ attempt[c] # "none" => pc[r] \in {"await", "abandon"} \/ abandoned[r] \/ latch[r]
  /\ attempt[c] \in {"queued", "withdraws"} => jfd[c] = 0
  /\ attempt[c] = "withdraws" => abandoned[r]
  /\ attempt[c] = "connecting" => jfd[c] # 0
  /\ attempt[c] = "won" /\ ~abandoned[r] => winner[r] = c /\ ~latch[r]
  /\ winner[r] = c => attempt[c] \in {"won", "withdraws", "done"}
  /\ winner[r] = c /\ pc[r] \in {"await", "abandon"} => jfd[c] # 0
  /\ Fresh(r) => attempt[c] = "none" /\ jfd[c] = 0

(* What the thread that waits for a race knows of it. *)
Awaited(r) ==
  /\ winner[r] # NoSocket => winner[r][1] = r
  /\ abandoned[r] => pc[r] \in {"reclaim", "refuse", "done"}
  /\ pc[r] = "reclaim" => abandoned[r]
  /\ latch[r] /\ ~abandoned[r] => winner[r] # NoSocket /\ attempt[winner[r]] = "done"
  /\ Fresh(r) => winner[r] = NoSocket /\ ~latch[r]

(* The socket that was chosen is out of the race for good. *)
Chosen(r) ==
  /\ target[r] # NoSocket => target[r][1] = r /\ attempt[target[r]] \in {"none", "done"}
  /\ pc[r] \in {"accept", "create", "await"} => target[r] = NoSocket
  /\ HasTarget(r) => target[r] # NoSocket
  /\ HasJava(r) => target[r] # NoSocket /\ jfd[target[r]] # 0

RaceInv ==
  /\ \A c \in Candidates : Attempted(c)
  /\ \A r \in Requests : Awaited(r)
  /\ \A r \in Requests : Chosen(r)

(* Numbers that are relied upon lead to their sockets. *)
JavaNumbers == \A c \in Candidates : jfd[c] # 0 => fdtab[jfd[c]] = c
ClientNumbers == \A r \in Requests : HasClient(r) => client_fd[r] \in Fds /\ fdtab[client_fd[r]] = ClientOf(r)
TargetNumbers ==
  \A r \in Requests : HasTarget(r) =>
    /\ target_fd[r] \in Fds /\ fdtab[target_fd[r]] = target[r]
    /\ jfd[target[r]] # target_fd[r]
MapEntries ==
  /\ \A r \in Requests : Held(r) => active[target_fd[r]] = target[r]
  /\ \A n \in Fds : active[n] # NoSocket => target[active[n][1]] = active[n]

FdInv == JavaNumbers /\ ClientNumbers /\ TargetNumbers /\ MapEntries

IInv == Types /\ RaceInv /\ FdInv /\ StaysArmed /\ NoOrphan

------------------------------------------------------------------------------
(* Sockets, numbers and stamps.                                                *)

(* A candidate is not a client, and a socket tells its request (ClientOf). *)
LEMMA SocketFacts ==
  /\ NoSocket \notin Candidates
  /\ \A c \in Candidates : c \in Sockets /\ c # NoSocket /\ c[1] \in Requests
  /\ \A r \in Requests : /\ ClientOf(r) \in Sockets /\ ClientOf(r) # NoSocket
                         /\ ClientOf(r)[1] = r /\ ClientOf(r) \notin Candidates
BY SocketsAssumption DEF Sockets, Candidates, ClientOf

(* Number 0 is no descriptor number. *)
LEMMA NumberFacts == \A n : n \in Fds <=> n \in 0..MaxFd /\ n # 0
BY SocketsAssumption DEF Fds

(* What a step does to the tables when a Java socket is closed: no number that   *)
(* leads to another socket, and none that C relies upon, is touched.              *)
JavaGone(c) ==
  /\ fdtab' \in [Fds -> Sockets \union {NoSocket}]
  /\ jfd' \in [Candidates -> 0..MaxFd]
  /\ jfd'[c] = 0 /\ \A d \in Candidates : d # c => jfd'[d] = jfd[d]
  /\ \A m \in Fds : fdtab[m] # c => fdtab'[m] = fdtab[m]
  /\ \A r \in Requests : HasTarget(r) => fdtab'[target_fd[r]] = target[r]
  /\ epoll' = Alive(epoll, fdtab')

(* Closing a Java socket frees its number and harms nobody else.           *)
LEMMA JavaCloses ==
  ASSUME IInv, NEW c \in Candidates, CloseJava(c)
  PROVE  JavaGone(c)
<1> USE SocketFacts, NumberFacts DEF IInv, Types, FdInv
<1>1. fdtab' \in [Fds -> Sockets \union {NoSocket}] BY DEF CloseJava, Closed
<1>2. jfd' \in [Candidates -> 0..MaxFd] BY SocketsAssumption DEF CloseJava
<1>3. jfd'[c] = 0 /\ \A d \in Candidates : d # c => jfd'[d] = jfd[d] BY DEF CloseJava
<1>4. \A m \in Fds : m # jfd[c] => fdtab'[m] = fdtab[m] BY DEF CloseJava, Closed
<1>5. \A m \in Fds : fdtab[m] # c => fdtab'[m] = fdtab[m] BY <1>4 DEF JavaNumbers
<1>6. ASSUME NEW r \in Requests, HasTarget(r) PROVE fdtab'[target_fd[r]] = target[r]
  <2>1. target_fd[r] \in Fds /\ fdtab[target_fd[r]] = target[r] /\ jfd[target[r]] # target_fd[r]
    BY <1>6 DEF TargetNumbers
  <2>2. CASE target[r] = c BY <2>1, <2>2, <1>4
  <2>3. CASE target[r] # c BY <2>1, <2>3, <1>5
  <2> QED BY <2>2, <2>3
<1> QED BY <1>1, <1>2, <1>3, <1>5, <1>6 DEF JavaGone, CloseJava

(* What a step does to the table when a number is given out. *)
Taken(n, s) ==
  /\ n \in Fds /\ fdtab[n] = NoSocket
  /\ fdtab' \in [Fds -> Sockets \union {NoSocket}]
  /\ fdtab'[n] = s /\ \A m \in Fds : fdtab[m] # NoSocket => fdtab'[m] = fdtab[m]

(* The lowest free number is given to a new socket, and no other changes.  *)
LEMMA NumberOpens ==
  ASSUME Types, NEW n \in Fds, NEW s \in Sockets, Lowest(n), fdtab' = Opened(n, s)
  PROVE  Taken(n, s)
BY SocketFacts DEF Types, Taken, Lowest, Free, Opened

(* What a step does to the table when C closes a number. *)
Given(n, s) ==
  /\ n \in Fds /\ fdtab[n] = s
  /\ fdtab' \in [Fds -> Sockets \union {NoSocket}]
  /\ \A m \in Fds : m # n => fdtab'[m] = fdtab[m]
  /\ \A m \in Fds : fdtab[m] # s => fdtab'[m] = fdtab[m]

(* Closing a number leaves every other number as it was.                   *)
LEMMA NumberCloses ==
  ASSUME Types, NEW n \in Fds, fdtab' = Closed(n)
  PROVE  Given(n, fdtab[n])
BY DEF Types, Given, Closed

(* The registrations of a served connection survive the closing of any number  *)
(* that its sockets do not need.                                                *)
LEMMA ArmedWhileOpen ==
  ASSUME Types, Types', StaysArmed, ClientNumbers', TargetNumbers',
         client_fd' = client_fd, target_fd' = target_fd, target' = target,
         \A r \in Requests : pc'[r] = "live" => pc[r] = "live",
         epoll' = Alive(epoll, fdtab')
  PROVE  StaysArmed'
<1> SUFFICES ASSUME NEW r \in Requests, pc'[r] = "live"
             PROVE  {Registration(r, ClientOf(r), client_fd[r]),
                     Registration(r, target[r], target_fd[r])} \subseteq epoll'
  BY DEF StaysArmed
<1>1. /\ Registration(r, ClientOf(r), client_fd[r]) \in epoll
      /\ Registration(r, target[r], target_fd[r]) \in epoll
  BY DEF StaysArmed
<1>2. client_fd[r] \in Fds /\ fdtab'[client_fd[r]] = ClientOf(r)
  BY DEF ClientNumbers, HasClient
<1>3. target_fd[r] \in Fds /\ fdtab'[target_fd[r]] = target[r]
  BY DEF TargetNumbers, HasTarget, Held
<1>4. /\ Registration(r, ClientOf(r), client_fd[r]).socket = ClientOf(r)
      /\ Registration(r, target[r], target_fd[r]).socket = target[r]
  BY DEF Registration
<1> QED BY <1>1, <1>2, <1>3, <1>4 DEF Alive

(* A closed Java socket leaves the numbers of the others to them. *)
LEMMA JavaNumbersStay ==
  ASSUME Types, JavaNumbers, NEW c \in Candidates, JavaGone(c)
  PROVE  JavaNumbers'
<1> SUFFICES ASSUME NEW d \in Candidates, jfd'[d] # 0 PROVE fdtab'[jfd'[d]] = d
  BY DEF JavaNumbers
<1>1. d # c /\ jfd'[d] = jfd[d] BY DEF JavaGone
<1>2. jfd[d] \in Fds BY <1>1, NumberFacts DEF Types
<1>3. fdtab[jfd[d]] = d BY <1>1 DEF JavaNumbers
<1> QED BY <1>1, <1>2, <1>3 DEF JavaGone

------------------------------------------------------------------------------
(* The attempts of a race.                                                     *)

(* HappyEyeballs.attempt opens a socket, unless the race is over. *)
LEMMA AttemptStartsKeeps ==
  ASSUME IInv, NEW c \in Candidates,
         AttemptStarts(c)
  PROVE  IInv'
<1>1. CASE winner[c[1]] # NoSocket \/ abandoned[c[1]]
  <2>0. /\ attempt[c] = "queued"
        /\ attempt' = [attempt EXCEPT ![c] = "done"]
        /\ UNCHANGED <<fdtab, jfd, winner, abandoned, latch, pc, target, client_fd, target_fd,
                       active, epoll, ring, stuck>>
    BY <1>1 DEF AttemptStarts, race, purger
  <2>1. Types'
    BY <1>1, <2>0, SocketFacts, NumberFacts, SocketsAssumption DEF IInv, Types, Progress, Places
  <2>2. (\A d \in Candidates : Attempted(d))'
    BY <1>1, <2>0, SocketFacts, NumberFacts DEF IInv, Types, RaceInv, Chosen, Attempted, Awaited,
         Fresh
  <2>3. (\A q \in Requests : Awaited(q))'
    BY <1>1, <2>0, SocketFacts, NumberFacts DEF IInv, Types, RaceInv, Attempted, Awaited, Fresh
  <2>4. (\A q \in Requests : Chosen(q))'
    BY <1>1, <2>0, SocketFacts, NumberFacts DEF IInv, Types, RaceInv, Attempted, Awaited, Chosen,
         HasTarget, HasJava, Held, Fresh
  <2>5. JavaNumbers'
    BY <1>1, <2>0, SocketFacts, NumberFacts DEF IInv, Types, FdInv, JavaNumbers
  <2>6. ClientNumbers'
    BY <1>1, <2>0, SocketFacts, NumberFacts DEF IInv, Types, FdInv, ClientNumbers, HasClient
  <2>7. TargetNumbers'
    BY <1>1, <2>0, SocketFacts, NumberFacts DEF IInv, Types, RaceInv, Chosen, FdInv, JavaNumbers,
         TargetNumbers, HasTarget, Held, HasJava
  <2>8. MapEntries'
    BY <1>1, <2>0, SocketFacts, NumberFacts DEF IInv, Types, RaceInv, Chosen, HasJava, FdInv,
         TargetNumbers, HasTarget, MapEntries, Held
  <2>9. StaysArmed'
    BY <1>1, <2>0, SocketFacts, NumberFacts DEF IInv, Types, StaysArmed
  <2>10. NoOrphan'
    BY <1>1, <2>0, SocketFacts, NumberFacts DEF IInv, Types, RaceInv, Attempted, Awaited, Chosen,
         HasJava, Held, NoOrphan, Fresh
  <2> QED BY <2>1, <2>2, <2>3, <2>4, <2>5, <2>6, <2>7, <2>8, <2>9, <2>10 DEF IInv, RaceInv, FdInv
<1>2. CASE ~(winner[c[1]] # NoSocket \/ abandoned[c[1]])
  <2>0. /\ attempt[c] = "queued"
        /\ \E n \in Fds : Taken(n, c) /\ jfd' = [jfd EXCEPT ![c] = n]
        /\ attempt' = [attempt EXCEPT ![c] = "connecting"]
        /\ UNCHANGED <<winner, abandoned, latch, pc, target, client_fd, target_fd, active, epoll,
                       ring, stuck>>
    BY <1>2, NumberOpens, SocketFacts DEF AttemptStarts, race, purger, IInv
  <2>1. Types'
    BY <1>2, <2>0, SocketFacts, NumberFacts, SocketsAssumption DEF IInv, Types, Progress, Places,
         Taken
  <2>2. (\A d \in Candidates : Attempted(d))'
    BY <1>2, <2>0, SocketFacts, NumberFacts DEF IInv, Types, RaceInv, Chosen, Attempted, Awaited,
         Fresh, Taken
  <2>3. (\A q \in Requests : Awaited(q))'
    BY <1>2, <2>0, SocketFacts, NumberFacts DEF IInv, Types, RaceInv, Attempted, Awaited, Fresh,
         Taken
  <2>4. (\A q \in Requests : Chosen(q))'
    BY <1>2, <2>0, SocketFacts, NumberFacts DEF IInv, Types, RaceInv, Attempted, Awaited, Chosen,
         HasTarget, HasJava, Held, Fresh, Taken
  <2>5. JavaNumbers'
    BY <1>2, <2>0, SocketFacts, NumberFacts DEF IInv, Types, FdInv, JavaNumbers, Taken
  <2>6. ClientNumbers'
    BY <1>2, <2>0, SocketFacts, NumberFacts DEF IInv, Types, FdInv, ClientNumbers, HasClient,
         Taken
  <2>7. TargetNumbers'
    BY <1>2, <2>0, SocketFacts, NumberFacts DEF IInv, Types, RaceInv, Chosen, FdInv, JavaNumbers,
         TargetNumbers, HasTarget, Held, HasJava, Taken
  <2>8. MapEntries'
    BY <1>2, <2>0, SocketFacts, NumberFacts DEF IInv, Types, RaceInv, Chosen, HasJava, FdInv,
         TargetNumbers, HasTarget, MapEntries, Held, Taken
  <2>9. StaysArmed'
    BY <1>2, <2>0, SocketFacts, NumberFacts DEF IInv, Types, StaysArmed, Taken
  <2>10. NoOrphan'
    BY <1>2, <2>0, SocketFacts, NumberFacts DEF IInv, Types, RaceInv, Attempted, Awaited, Chosen,
         HasJava, Held, NoOrphan, Fresh, Taken
  <2> QED BY <2>1, <2>2, <2>3, <2>4, <2>5, <2>6, <2>7, <2>8, <2>9, <2>10 DEF IInv, RaceInv, FdInv
<1> QED BY <1>1, <1>2 DEF AttemptStarts

(* An attempt that fails closes its socket. *)
LEMMA AttemptFailsKeeps ==
  ASSUME IInv, NEW c \in Candidates,
         AttemptFails(c)
  PROVE  IInv'
<1>0. /\ attempt[c] = "connecting"
      /\ JavaGone(c)
      /\ attempt' = [attempt EXCEPT ![c] = "done"]
      /\ UNCHANGED <<winner, abandoned, latch, pc, target, client_fd, target_fd, active, ring,
                     stuck>>
  BY JavaCloses DEF AttemptFails, race, purger
<1>1. Types'
  BY <1>0, SocketFacts, NumberFacts, SocketsAssumption DEF IInv, Types, Progress, Places,
       JavaGone, Alive
<1>2. (\A d \in Candidates : Attempted(d))'
  <2> SUFFICES ASSUME NEW d \in Candidates PROVE Attempted(d)' OBVIOUS
  <2>1. Attempted(d) /\ Awaited(d[1]) /\ d[1] \in Requests
    BY SocketFacts DEF IInv, RaceInv
  <2>2. CASE d = c
    BY <1>0, <2>1, <2>2 DEF IInv, Types, RaceInv, Chosen, HasJava, Held, Attempted, Awaited,
         Fresh, JavaGone
  <2>3. CASE d # c
    BY <1>0, <2>1, <2>3 DEF IInv, Types, Attempted, Awaited, Fresh, JavaGone
  <2> QED BY <2>2, <2>3
<1>3. (\A q \in Requests : Awaited(q))'
  BY <1>0, SocketFacts, NumberFacts DEF IInv, Types, RaceInv, Attempted, Awaited, Fresh, JavaGone
<1>4. (\A q \in Requests : Chosen(q))'
  BY <1>0, SocketFacts, NumberFacts DEF IInv, Types, RaceInv, Attempted, Awaited, Chosen,
       HasTarget, HasJava, Held, Fresh, JavaGone
<1>5. JavaNumbers'
  BY <1>0, JavaNumbersStay DEF IInv, FdInv
<1>6. ClientNumbers'
  BY <1>0, SocketFacts, NumberFacts DEF IInv, Types, FdInv, ClientNumbers, HasClient, JavaGone
<1>7. TargetNumbers'
  BY <1>0, SocketFacts, NumberFacts DEF IInv, Types, RaceInv, Chosen, FdInv, JavaNumbers,
       TargetNumbers, HasTarget, Held, HasJava, JavaGone
<1>8. MapEntries'
  BY <1>0, SocketFacts, NumberFacts DEF IInv, Types, RaceInv, Chosen, HasJava, FdInv,
       TargetNumbers, HasTarget, MapEntries, Held, JavaGone
<1>9. StaysArmed'
  BY <1>0, <1>1, <1>6, <1>7, ArmedWhileOpen DEF IInv, JavaGone
<1>10. NoOrphan'
  BY <1>0, SocketFacts, NumberFacts DEF IInv, Types, RaceInv, Attempted, Awaited, Chosen,
       HasJava, Held, NoOrphan, Fresh, JavaGone
<1> QED BY <1>1, <1>2, <1>3, <1>4, <1>5, <1>6, <1>7, <1>8, <1>9, <1>10 DEF IInv, RaceInv, FdInv

(* The first attempt that connects wins, any other closes its socket. *)
LEMMA AttemptConnectsKeeps ==
  ASSUME IInv, NEW c \in Candidates,
         AttemptConnects(c)
  PROVE  IInv'
<1>1. CASE winner[c[1]] = NoSocket
  <2>0. /\ attempt[c] = "connecting"
        /\ winner' = [winner EXCEPT ![c[1]] = c]
        /\ attempt' = [attempt EXCEPT ![c] = "won"]
        /\ UNCHANGED <<fdtab, jfd, abandoned, latch, pc, target, client_fd, target_fd, active,
                       epoll, ring, stuck>>
    BY <1>1 DEF AttemptConnects, race, purger
  <2>1. Types'
    BY <1>1, <2>0, SocketFacts, NumberFacts, SocketsAssumption DEF IInv, Types, Progress, Places
  <2>2. (\A d \in Candidates : Attempted(d))'
    BY <1>1, <2>0, SocketFacts, NumberFacts DEF IInv, Types, RaceInv, Chosen, Attempted, Awaited,
         Fresh
  <2>3. (\A q \in Requests : Awaited(q))'
    BY <1>1, <2>0, SocketFacts, NumberFacts DEF IInv, Types, RaceInv, Attempted, Awaited, Fresh
  <2>4. (\A q \in Requests : Chosen(q))'
    BY <1>1, <2>0, SocketFacts, NumberFacts DEF IInv, Types, RaceInv, Attempted, Awaited, Chosen,
         HasTarget, HasJava, Held, Fresh
  <2>5. JavaNumbers'
    BY <1>1, <2>0, SocketFacts, NumberFacts DEF IInv, Types, FdInv, JavaNumbers
  <2>6. ClientNumbers'
    BY <1>1, <2>0, SocketFacts, NumberFacts DEF IInv, Types, FdInv, ClientNumbers, HasClient
  <2>7. TargetNumbers'
    BY <1>1, <2>0, SocketFacts, NumberFacts DEF IInv, Types, RaceInv, Chosen, FdInv, JavaNumbers,
         TargetNumbers, HasTarget, Held, HasJava
  <2>8. MapEntries'
    BY <1>1, <2>0, SocketFacts, NumberFacts DEF IInv, Types, RaceInv, Chosen, HasJava, FdInv,
         TargetNumbers, HasTarget, MapEntries, Held
  <2>9. StaysArmed'
    BY <1>1, <2>0, SocketFacts, NumberFacts DEF IInv, Types, StaysArmed
  <2>10. NoOrphan'
    BY <1>1, <2>0, SocketFacts, NumberFacts DEF IInv, Types, RaceInv, Attempted, Awaited, Chosen,
         HasJava, Held, NoOrphan, Fresh
  <2> QED BY <2>1, <2>2, <2>3, <2>4, <2>5, <2>6, <2>7, <2>8, <2>9, <2>10 DEF IInv, RaceInv, FdInv
<1>2. CASE winner[c[1]] # NoSocket
  <2>0. /\ attempt[c] = "connecting"
        /\ JavaGone(c)
        /\ attempt' = [attempt EXCEPT ![c] = "done"]
        /\ UNCHANGED <<winner, abandoned, latch, pc, target, client_fd, target_fd, active, ring,
                       stuck>>
    BY <1>2, JavaCloses DEF AttemptConnects, race, purger
  <2>1. Types'
    BY <1>2, <2>0, SocketFacts, NumberFacts, SocketsAssumption DEF IInv, Types, Progress, Places,
         JavaGone, Alive
  <2>2. (\A d \in Candidates : Attempted(d))'
    <3> SUFFICES ASSUME NEW d \in Candidates PROVE Attempted(d)' OBVIOUS
    <3>1. Attempted(d) /\ Awaited(d[1]) /\ d[1] \in Requests
      BY SocketFacts DEF IInv, RaceInv
    <3>2. CASE d = c
      BY <1>2, <2>0, <3>1, <3>2 DEF IInv, Types, RaceInv, Chosen, HasJava, Held, Attempted,
           Awaited, Fresh, JavaGone
    <3>3. CASE d # c
      BY <1>2, <2>0, <3>1, <3>3 DEF IInv, Types, Attempted, Awaited, Fresh, JavaGone
    <3> QED BY <3>2, <3>3
  <2>3. (\A q \in Requests : Awaited(q))'
    BY <1>2, <2>0, SocketFacts, NumberFacts DEF IInv, Types, RaceInv, Attempted, Awaited, Fresh,
         JavaGone
  <2>4. (\A q \in Requests : Chosen(q))'
    BY <1>2, <2>0, SocketFacts, NumberFacts DEF IInv, Types, RaceInv, Attempted, Awaited, Chosen,
         HasTarget, HasJava, Held, Fresh, JavaGone
  <2>5. JavaNumbers'
    BY <1>2, <2>0, JavaNumbersStay DEF IInv, FdInv
  <2>6. ClientNumbers'
    BY <1>2, <2>0, SocketFacts, NumberFacts DEF IInv, Types, FdInv, ClientNumbers, HasClient,
         JavaGone
  <2>7. TargetNumbers'
    BY <1>2, <2>0, SocketFacts, NumberFacts DEF IInv, Types, RaceInv, Chosen, FdInv, JavaNumbers,
         TargetNumbers, HasTarget, Held, HasJava, JavaGone
  <2>8. MapEntries'
    BY <1>2, <2>0, SocketFacts, NumberFacts DEF IInv, Types, RaceInv, Chosen, HasJava, FdInv,
         TargetNumbers, HasTarget, MapEntries, Held, JavaGone
  <2>9. StaysArmed'
    BY <1>2, <2>0, <2>1, <2>6, <2>7, ArmedWhileOpen DEF IInv, JavaGone
  <2>10. NoOrphan'
    BY <1>2, <2>0, SocketFacts, NumberFacts DEF IInv, Types, RaceInv, Attempted, Awaited, Chosen,
         HasJava, Held, NoOrphan, Fresh, JavaGone
  <2> QED BY <2>1, <2>2, <2>3, <2>4, <2>5, <2>6, <2>7, <2>8, <2>9, <2>10 DEF IInv, RaceInv, FdInv
<1> QED BY <1>1, <1>2 DEF AttemptConnects

(* A winner that nobody waits for closes its socket, any other opens the latch. *)
LEMMA AttemptReportsKeeps ==
  ASSUME IInv, NEW c \in Candidates,
         AttemptReports(c)
  PROVE  IInv'
<1>1. CASE abandoned[c[1]]
  <2>0. /\ attempt[c] = "won"
        /\ JavaGone(c)
        /\ attempt' = [attempt EXCEPT ![c] = "withdraws"]
        /\ UNCHANGED <<winner, abandoned, latch, pc, target, client_fd, target_fd, active, ring,
                       stuck>>
    BY <1>1, JavaCloses DEF AttemptReports, race, purger
  <2>1. Types'
    BY <1>1, <2>0, SocketFacts, NumberFacts, SocketsAssumption DEF IInv, Types, Progress, Places,
         JavaGone, Alive
  <2>2. (\A d \in Candidates : Attempted(d))'
    <3> SUFFICES ASSUME NEW d \in Candidates PROVE Attempted(d)' OBVIOUS
    <3>1. Attempted(d) /\ Awaited(d[1]) /\ d[1] \in Requests
      BY SocketFacts DEF IInv, RaceInv
    <3>2. CASE d = c
      BY <1>1, <2>0, <3>1, <3>2 DEF IInv, Types, RaceInv, Chosen, HasJava, Held, Attempted,
           Awaited, Fresh, JavaGone
    <3>3. CASE d # c
      BY <1>1, <2>0, <3>1, <3>3 DEF IInv, Types, Attempted, Awaited, Fresh, JavaGone
    <3> QED BY <3>2, <3>3
  <2>3. (\A q \in Requests : Awaited(q))'
    BY <1>1, <2>0, SocketFacts, NumberFacts DEF IInv, Types, RaceInv, Attempted, Awaited, Fresh,
         JavaGone
  <2>4. (\A q \in Requests : Chosen(q))'
    BY <1>1, <2>0, SocketFacts, NumberFacts DEF IInv, Types, RaceInv, Attempted, Awaited, Chosen,
         HasTarget, HasJava, Held, Fresh, JavaGone
  <2>5. JavaNumbers'
    BY <1>1, <2>0, JavaNumbersStay DEF IInv, FdInv
  <2>6. ClientNumbers'
    BY <1>1, <2>0, SocketFacts, NumberFacts DEF IInv, Types, FdInv, ClientNumbers, HasClient,
         JavaGone
  <2>7. TargetNumbers'
    BY <1>1, <2>0, SocketFacts, NumberFacts DEF IInv, Types, RaceInv, Chosen, FdInv, JavaNumbers,
         TargetNumbers, HasTarget, Held, HasJava, JavaGone
  <2>8. MapEntries'
    BY <1>1, <2>0, SocketFacts, NumberFacts DEF IInv, Types, RaceInv, Chosen, HasJava, FdInv,
         TargetNumbers, HasTarget, MapEntries, Held, JavaGone
  <2>9. StaysArmed'
    BY <1>1, <2>0, <2>1, <2>6, <2>7, ArmedWhileOpen DEF IInv, JavaGone
  <2>10. NoOrphan'
    BY <1>1, <2>0, SocketFacts, NumberFacts DEF IInv, Types, RaceInv, Attempted, Awaited, Chosen,
         HasJava, Held, NoOrphan, Fresh, JavaGone
  <2> QED BY <2>1, <2>2, <2>3, <2>4, <2>5, <2>6, <2>7, <2>8, <2>9, <2>10 DEF IInv, RaceInv, FdInv
<1>2. CASE ~abandoned[c[1]]
  <2>0. /\ attempt[c] = "won"
        /\ latch' = [latch EXCEPT ![c[1]] = TRUE]
        /\ attempt' = [attempt EXCEPT ![c] = "done"]
        /\ UNCHANGED <<fdtab, jfd, winner, abandoned, pc, target, client_fd, target_fd, active,
                       epoll, ring, stuck>>
    BY <1>2 DEF AttemptReports, race, purger
  <2>1. Types'
    BY <1>2, <2>0, SocketFacts, NumberFacts, SocketsAssumption DEF IInv, Types, Progress, Places
  <2>2. (\A d \in Candidates : Attempted(d))'
    BY <1>2, <2>0, SocketFacts, NumberFacts DEF IInv, Types, RaceInv, Chosen, Attempted, Awaited,
         Fresh
  <2>3. (\A q \in Requests : Awaited(q))'
    BY <1>2, <2>0, SocketFacts, NumberFacts DEF IInv, Types, RaceInv, Attempted, Awaited, Fresh
  <2>4. (\A q \in Requests : Chosen(q))'
    BY <1>2, <2>0, SocketFacts, NumberFacts DEF IInv, Types, RaceInv, Attempted, Awaited, Chosen,
         HasTarget, HasJava, Held, Fresh
  <2>5. JavaNumbers'
    BY <1>2, <2>0, SocketFacts, NumberFacts DEF IInv, Types, FdInv, JavaNumbers
  <2>6. ClientNumbers'
    BY <1>2, <2>0, SocketFacts, NumberFacts DEF IInv, Types, FdInv, ClientNumbers, HasClient
  <2>7. TargetNumbers'
    BY <1>2, <2>0, SocketFacts, NumberFacts DEF IInv, Types, RaceInv, Chosen, FdInv, JavaNumbers,
         TargetNumbers, HasTarget, Held, HasJava
  <2>8. MapEntries'
    BY <1>2, <2>0, SocketFacts, NumberFacts DEF IInv, Types, RaceInv, Chosen, HasJava, FdInv,
         TargetNumbers, HasTarget, MapEntries, Held
  <2>9. StaysArmed'
    BY <1>2, <2>0, SocketFacts, NumberFacts DEF IInv, Types, StaysArmed
  <2>10. NoOrphan'
    BY <1>2, <2>0, SocketFacts, NumberFacts DEF IInv, Types, RaceInv, Attempted, Awaited, Chosen,
         HasJava, Held, NoOrphan, Fresh
  <2> QED BY <2>1, <2>2, <2>3, <2>4, <2>5, <2>6, <2>7, <2>8, <2>9, <2>10 DEF IInv, RaceInv, FdInv
<1> QED BY <1>1, <1>2 DEF AttemptReports

(* A winner that came too late is no winner. *)
LEMMA AttemptWithdrawsKeeps ==
  ASSUME IInv, NEW c \in Candidates,
         AttemptWithdraws(c)
  PROVE  IInv'
<1>0. /\ attempt[c] = "withdraws"
      /\ winner' = [winner EXCEPT ![c[1]] = IF @ = c THEN NoSocket ELSE @]
      /\ attempt' = [attempt EXCEPT ![c] = "done"]
      /\ UNCHANGED <<fdtab, jfd, abandoned, latch, pc, target, client_fd, target_fd, active,
                     epoll, ring, stuck>>
  BY DEF AttemptWithdraws, race, purger
<1>1. Types'
  BY <1>0, SocketFacts, NumberFacts, SocketsAssumption DEF IInv, Types, Progress, Places
<1>2. (\A d \in Candidates : Attempted(d))'
  BY <1>0, SocketFacts, NumberFacts DEF IInv, Types, RaceInv, Chosen, Attempted, Awaited, Fresh
<1>3. (\A q \in Requests : Awaited(q))'
  BY <1>0, SocketFacts, NumberFacts DEF IInv, Types, RaceInv, Attempted, Awaited, Fresh
<1>4. (\A q \in Requests : Chosen(q))'
  BY <1>0, SocketFacts, NumberFacts DEF IInv, Types, RaceInv, Attempted, Awaited, Chosen,
       HasTarget, HasJava, Held, Fresh
<1>5. JavaNumbers'
  BY <1>0, SocketFacts, NumberFacts DEF IInv, Types, FdInv, JavaNumbers
<1>6. ClientNumbers'
  BY <1>0, SocketFacts, NumberFacts DEF IInv, Types, FdInv, ClientNumbers, HasClient
<1>7. TargetNumbers'
  BY <1>0, SocketFacts, NumberFacts DEF IInv, Types, RaceInv, Chosen, FdInv, JavaNumbers,
       TargetNumbers, HasTarget, Held, HasJava
<1>8. MapEntries'
  BY <1>0, SocketFacts, NumberFacts DEF IInv, Types, RaceInv, Chosen, HasJava, FdInv,
       TargetNumbers, HasTarget, MapEntries, Held
<1>9. StaysArmed'
  BY <1>0, SocketFacts, NumberFacts DEF IInv, Types, StaysArmed
<1>10. NoOrphan'
  BY <1>0, SocketFacts, NumberFacts DEF IInv, Types, RaceInv, Attempted, Awaited, Chosen,
       HasJava, Held, NoOrphan, Fresh
<1> QED BY <1>1, <1>2, <1>3, <1>4, <1>5, <1>6, <1>7, <1>8, <1>9, <1>10 DEF IInv, RaceInv, FdInv

------------------------------------------------------------------------------
(* The thread that creates a socket.                                           *)

(* A client is accepted. *)
LEMMA AcceptKeeps ==
  ASSUME IInv, NEW r \in Requests,
         Accept(r)
  PROVE  IInv'
<1>0. /\ pc[r] = "accept"
      /\ pc' = [pc EXCEPT ![r] = "create"]
      /\ \E n \in Fds : Taken(n, ClientOf(r)) /\ client_fd' = [client_fd EXCEPT ![r] = n]
      /\ UNCHANGED <<jfd, attempt, winner, abandoned, latch, target, target_fd, active, epoll,
                     ring, stuck>>
  BY NumberOpens, SocketFacts DEF Accept, Goto, race, purger, IInv
<1>1. Types'
  BY <1>0, SocketFacts, NumberFacts, SocketsAssumption DEF IInv, Types, Progress, Places, Taken
<1>2. (\A d \in Candidates : Attempted(d))'
  BY <1>0, SocketFacts, NumberFacts DEF IInv, Types, RaceInv, Chosen, Attempted, Awaited, Fresh,
       Taken
<1>3. (\A q \in Requests : Awaited(q))'
  BY <1>0, SocketFacts, NumberFacts DEF IInv, Types, RaceInv, Attempted, Awaited, Fresh, Taken
<1>4. (\A q \in Requests : Chosen(q))'
  BY <1>0, SocketFacts, NumberFacts DEF IInv, Types, RaceInv, Attempted, Awaited, Chosen,
       HasTarget, HasJava, Held, Fresh, Taken
<1>5. JavaNumbers'
  BY <1>0, SocketFacts, NumberFacts DEF IInv, Types, FdInv, JavaNumbers, Taken
<1>6. ClientNumbers'
  BY <1>0, SocketFacts, NumberFacts DEF IInv, Types, FdInv, ClientNumbers, HasClient, Taken
<1>7. TargetNumbers'
  BY <1>0, SocketFacts, NumberFacts DEF IInv, Types, RaceInv, Chosen, FdInv, JavaNumbers,
       TargetNumbers, HasTarget, Held, HasJava, Taken
<1>8. MapEntries'
  BY <1>0, SocketFacts, NumberFacts DEF IInv, Types, RaceInv, Chosen, HasJava, FdInv,
       TargetNumbers, HasTarget, MapEntries, Held, Taken
<1>9. StaysArmed'
  BY <1>0, SocketFacts, NumberFacts DEF IInv, Types, StaysArmed, Taken
<1>10. NoOrphan'
  BY <1>0, SocketFacts, NumberFacts DEF IInv, Types, RaceInv, Attempted, Awaited, Chosen,
       HasJava, Held, NoOrphan, Fresh, Taken
<1> QED BY <1>1, <1>2, <1>3, <1>4, <1>5, <1>6, <1>7, <1>8, <1>9, <1>10 DEF IInv, RaceInv, FdInv

(* The attempts of one address each are queued. *)
LEMMA CreateTcpKeeps ==
  ASSUME IInv, NEW r \in Requests, CreateTcp(r)
  PROVE  IInv'
<1> PICK found \in Answers[r] :
      /\ attempt' = [c \in Candidates |->
            IF c[1] = r /\ c[2] \in found THEN "queued" ELSE attempt[c]]
      /\ Goto(r, IF found = {} THEN "refuse" ELSE "await")
  BY DEF CreateTcp
<1>0. /\ pc[r] = "create"
      /\ pc' = [pc EXCEPT ![r] = IF found = {} THEN "refuse" ELSE "await"]
      /\ \A c \in Candidates : attempt'[c] = attempt[c] \/ (attempt'[c] = "queued" /\ c[1] = r /\ found # {})
      /\ attempt' \in [Candidates -> Progress]
      /\ UNCHANGED <<fdtab, jfd, winner, abandoned, latch, target, client_fd, target_fd, active,
                     epoll, ring, stuck>>
  BY DEF CreateTcp, Goto, race, purger, IInv, Types, Progress
<1>1. Types'
  BY <1>0, SocketFacts, NumberFacts, SocketsAssumption DEF IInv, Types, Progress, Places
<1>2. (\A d \in Candidates : Attempted(d))'
  BY <1>0, SocketFacts, NumberFacts DEF IInv, Types, RaceInv, Chosen, Attempted, Awaited, Fresh
<1>3. (\A q \in Requests : Awaited(q))'
  BY <1>0, SocketFacts, NumberFacts DEF IInv, Types, RaceInv, Attempted, Awaited, Fresh
<1>4. (\A q \in Requests : Chosen(q))'
  BY <1>0, SocketFacts, NumberFacts DEF IInv, Types, RaceInv, Attempted, Awaited, Chosen,
       HasTarget, HasJava, Held, Fresh
<1>5. JavaNumbers'
  BY <1>0, SocketFacts, NumberFacts DEF IInv, Types, FdInv, JavaNumbers
<1>6. ClientNumbers'
  BY <1>0, SocketFacts, NumberFacts DEF IInv, Types, FdInv, ClientNumbers, HasClient
<1>7. TargetNumbers'
  BY <1>0, SocketFacts, NumberFacts DEF IInv, Types, RaceInv, Chosen, FdInv, JavaNumbers,
       TargetNumbers, HasTarget, Held, HasJava
<1>8. MapEntries'
  BY <1>0, SocketFacts, NumberFacts DEF IInv, Types, RaceInv, Chosen, HasJava, FdInv,
       TargetNumbers, HasTarget, MapEntries, Held
<1>9. StaysArmed'
  BY <1>0, SocketFacts, NumberFacts DEF IInv, Types, StaysArmed
<1>10. NoOrphan'
  BY <1>0, SocketFacts, NumberFacts DEF IInv, Types, RaceInv, Attempted, Awaited, Chosen,
       HasJava, Held, NoOrphan, Fresh
<1> QED BY <1>1, <1>2, <1>3, <1>4, <1>5, <1>6, <1>7, <1>8, <1>9, <1>10 DEF IInv, RaceInv, FdInv

(* A session has one socket and no race. *)
LEMMA CreateUdpKeeps ==
  ASSUME IInv, NEW r \in Requests, CreateUdp(r)
  PROVE  IInv'
<1> DEFINE c == <<r, CHOOSE a \in Addrs : TRUE>>
<1>a. c \in Candidates /\ c[1] = r
  BY SocketsAssumption DEF Candidates
<1>b. \E n \in Fds : /\ Lowest(n) /\ fdtab' = Opened(n, c)
                     /\ jfd' = [jfd EXCEPT ![c] = n]
                     /\ target' = [target EXCEPT ![r] = c]
  BY DEF CreateUdp
<1> HIDE DEF c
<1>0. /\ c \in Candidates /\ c[1] = r
      /\ pc[r] = "create"
      /\ pc' = [pc EXCEPT ![r] = "dup_udp"]
      /\ \E n \in Fds : Taken(n, c) /\ jfd' = [jfd EXCEPT ![c] = n]
      /\ target' = [target EXCEPT ![r] = c]
      /\ UNCHANGED <<attempt, winner, abandoned, latch, client_fd, target_fd, active, epoll,
                     ring, stuck>>
  BY <1>a, <1>b, NumberOpens, SocketFacts DEF CreateUdp, Goto, race, purger, IInv
<1>1. Types'
  BY <1>0, SocketFacts, NumberFacts, SocketsAssumption DEF IInv, Types, Progress, Places, Taken
<1>2. (\A d \in Candidates : Attempted(d))'
  BY <1>0, SocketFacts, NumberFacts DEF IInv, Types, RaceInv, Chosen, Attempted, Awaited, Fresh,
       Taken
<1>3. (\A q \in Requests : Awaited(q))'
  BY <1>0, SocketFacts, NumberFacts DEF IInv, Types, RaceInv, Attempted, Awaited, Fresh, Taken
<1>4. (\A q \in Requests : Chosen(q))'
  BY <1>0, SocketFacts, NumberFacts DEF IInv, Types, RaceInv, Attempted, Awaited, Chosen,
       HasTarget, HasJava, Held, Fresh, Taken
<1>5. JavaNumbers'
  BY <1>0, SocketFacts, NumberFacts DEF IInv, Types, FdInv, JavaNumbers, Taken
<1>6. ClientNumbers'
  BY <1>0, SocketFacts, NumberFacts DEF IInv, Types, FdInv, ClientNumbers, HasClient, Taken
<1>7. TargetNumbers'
  BY <1>0, SocketFacts, NumberFacts DEF IInv, Types, RaceInv, Chosen, FdInv, JavaNumbers,
       TargetNumbers, HasTarget, Held, HasJava, Taken
<1>8. MapEntries'
  BY <1>0, SocketFacts, NumberFacts DEF IInv, Types, RaceInv, Chosen, HasJava, FdInv,
       TargetNumbers, HasTarget, MapEntries, Held, Taken
<1>9. StaysArmed'
  BY <1>0, SocketFacts, NumberFacts DEF IInv, Types, StaysArmed, Taken
<1>10. NoOrphan'
  BY <1>0, SocketFacts, NumberFacts DEF IInv, Types, RaceInv, Attempted, Awaited, Chosen,
       HasJava, Held, NoOrphan, Fresh, Taken
<1> QED BY <1>1, <1>2, <1>3, <1>4, <1>5, <1>6, <1>7, <1>8, <1>9, <1>10 DEF IInv, RaceInv, FdInv

(* The winner is taken, or the deadline has passed. *)
LEMMA AwaitReturnsKeeps ==
  ASSUME IInv, NEW r \in Requests,
         AwaitReturns(r)
  PROVE  IInv'
<1>1. CASE latch[r] /\ winner[r] # NoSocket
  <2>0. /\ pc[r] = "await"
        /\ pc' = [pc EXCEPT ![r] = "dup"]
        /\ target' = [target EXCEPT ![r] = winner[r]]
        /\ UNCHANGED <<fdtab, jfd, attempt, winner, abandoned, latch, client_fd, target_fd,
                       active, epoll, ring, stuck>>
    BY <1>1 DEF AwaitReturns, Goto, race, purger
  <2>1. Types'
    BY <1>1, <2>0, SocketFacts, NumberFacts, SocketsAssumption DEF IInv, Types, Progress, Places
  <2>2. (\A d \in Candidates : Attempted(d))'
    BY <1>1, <2>0, SocketFacts, NumberFacts DEF IInv, Types, RaceInv, Chosen, Attempted, Awaited,
         Fresh
  <2>3. (\A q \in Requests : Awaited(q))'
    BY <1>1, <2>0, SocketFacts, NumberFacts DEF IInv, Types, RaceInv, Attempted, Awaited, Fresh
  <2>4. (\A q \in Requests : Chosen(q))'
    <3> SUFFICES ASSUME NEW q \in Requests PROVE Chosen(q)' OBVIOUS
    <3>1. Chosen(q) /\ Awaited(q) BY DEF IInv, RaceInv
    <3>2. CASE q = r
      <4>1. /\ winner[r] \in Candidates /\ winner[r][1] = r /\ attempt[winner[r]] = "done"
            /\ jfd[winner[r]] # 0
        BY <1>1, <2>0, <3>1, <3>2 DEF IInv, Types, RaceInv, Awaited, Attempted
      <4> QED BY <1>1, <2>0, <3>2, <4>1 DEF IInv, Types, Chosen, HasTarget, HasJava, Held
    <3>3. CASE q # r
      BY <2>0, <3>1, <3>3 DEF IInv, Types, Chosen, HasTarget, HasJava, Held
    <3> QED BY <3>2, <3>3
  <2>5. JavaNumbers'
    BY <1>1, <2>0, SocketFacts, NumberFacts DEF IInv, Types, FdInv, JavaNumbers
  <2>6. ClientNumbers'
    BY <1>1, <2>0, SocketFacts, NumberFacts DEF IInv, Types, FdInv, ClientNumbers, HasClient
  <2>7. TargetNumbers'
    BY <1>1, <2>0, SocketFacts, NumberFacts DEF IInv, Types, RaceInv, Chosen, FdInv, JavaNumbers,
         TargetNumbers, HasTarget, Held, HasJava
  <2>8. MapEntries'
    BY <1>1, <2>0, SocketFacts, NumberFacts DEF IInv, Types, RaceInv, Chosen, HasJava, FdInv,
         TargetNumbers, HasTarget, MapEntries, Held
  <2>9. StaysArmed'
    BY <1>1, <2>0, SocketFacts, NumberFacts DEF IInv, Types, StaysArmed
  <2>10. NoOrphan'
    BY <1>1, <2>0, SocketFacts, NumberFacts DEF IInv, Types, RaceInv, Attempted, Awaited, Chosen,
         HasJava, Held, NoOrphan, Fresh
  <2> QED BY <2>1, <2>2, <2>3, <2>4, <2>5, <2>6, <2>7, <2>8, <2>9, <2>10 DEF IInv, RaceInv, FdInv
<1>2. CASE ~(latch[r] /\ winner[r] # NoSocket)
  <2>0. /\ pc[r] = "await"
        /\ pc' = [pc EXCEPT ![r] = "abandon"]
        /\ UNCHANGED <<fdtab, jfd, attempt, winner, abandoned, latch, target, client_fd,
                       target_fd, active, epoll, ring, stuck>>
    BY <1>2 DEF AwaitReturns, Goto, race, purger
  <2>1. Types'
    BY <1>2, <2>0, SocketFacts, NumberFacts, SocketsAssumption DEF IInv, Types, Progress, Places
  <2>2. (\A d \in Candidates : Attempted(d))'
    BY <1>2, <2>0, SocketFacts, NumberFacts DEF IInv, Types, RaceInv, Chosen, Attempted, Awaited,
         Fresh
  <2>3. (\A q \in Requests : Awaited(q))'
    BY <1>2, <2>0, SocketFacts, NumberFacts DEF IInv, Types, RaceInv, Attempted, Awaited, Fresh
  <2>4. (\A q \in Requests : Chosen(q))'
    BY <1>2, <2>0, SocketFacts, NumberFacts DEF IInv, Types, RaceInv, Attempted, Awaited, Chosen,
         HasTarget, HasJava, Held, Fresh
  <2>5. JavaNumbers'
    BY <1>2, <2>0, SocketFacts, NumberFacts DEF IInv, Types, FdInv, JavaNumbers
  <2>6. ClientNumbers'
    BY <1>2, <2>0, SocketFacts, NumberFacts DEF IInv, Types, FdInv, ClientNumbers, HasClient
  <2>7. TargetNumbers'
    BY <1>2, <2>0, SocketFacts, NumberFacts DEF IInv, Types, RaceInv, Chosen, FdInv, JavaNumbers,
         TargetNumbers, HasTarget, Held, HasJava
  <2>8. MapEntries'
    BY <1>2, <2>0, SocketFacts, NumberFacts DEF IInv, Types, RaceInv, Chosen, HasJava, FdInv,
         TargetNumbers, HasTarget, MapEntries, Held
  <2>9. StaysArmed'
    BY <1>2, <2>0, SocketFacts, NumberFacts DEF IInv, Types, StaysArmed
  <2>10. NoOrphan'
    BY <1>2, <2>0, SocketFacts, NumberFacts DEF IInv, Types, RaceInv, Attempted, Awaited, Chosen,
         HasJava, Held, NoOrphan, Fresh
  <2> QED BY <2>1, <2>2, <2>3, <2>4, <2>5, <2>6, <2>7, <2>8, <2>9, <2>10 DEF IInv, RaceInv, FdInv
<1> QED BY <1>1, <1>2 DEF AwaitReturns

(* The race is given up. *)
LEMMA AbandonKeeps ==
  ASSUME IInv, NEW r \in Requests,
         Abandon(r)
  PROVE  IInv'
<1>0. /\ pc[r] = "abandon"
      /\ pc' = [pc EXCEPT ![r] = "reclaim"]
      /\ abandoned' = [abandoned EXCEPT ![r] = TRUE]
      /\ UNCHANGED <<fdtab, jfd, attempt, winner, latch, target, client_fd, target_fd, active,
                     epoll, ring, stuck>>
  BY DEF Abandon, Goto, race, purger
<1>1. Types'
  BY <1>0, SocketFacts, NumberFacts, SocketsAssumption DEF IInv, Types, Progress, Places
<1>2. (\A d \in Candidates : Attempted(d))'
  BY <1>0, SocketFacts, NumberFacts DEF IInv, Types, RaceInv, Chosen, Attempted, Awaited, Fresh
<1>3. (\A q \in Requests : Awaited(q))'
  BY <1>0, SocketFacts, NumberFacts DEF IInv, Types, RaceInv, Attempted, Awaited, Fresh
<1>4. (\A q \in Requests : Chosen(q))'
  BY <1>0, SocketFacts, NumberFacts DEF IInv, Types, RaceInv, Attempted, Awaited, Chosen,
       HasTarget, HasJava, Held, Fresh
<1>5. JavaNumbers'
  BY <1>0, SocketFacts, NumberFacts DEF IInv, Types, FdInv, JavaNumbers
<1>6. ClientNumbers'
  BY <1>0, SocketFacts, NumberFacts DEF IInv, Types, FdInv, ClientNumbers, HasClient
<1>7. TargetNumbers'
  BY <1>0, SocketFacts, NumberFacts DEF IInv, Types, RaceInv, Chosen, FdInv, JavaNumbers,
       TargetNumbers, HasTarget, Held, HasJava
<1>8. MapEntries'
  BY <1>0, SocketFacts, NumberFacts DEF IInv, Types, RaceInv, Chosen, HasJava, FdInv,
       TargetNumbers, HasTarget, MapEntries, Held
<1>9. StaysArmed'
  BY <1>0, SocketFacts, NumberFacts DEF IInv, Types, StaysArmed
<1>10. NoOrphan'
  BY <1>0, SocketFacts, NumberFacts DEF IInv, Types, RaceInv, Attempted, Awaited, Chosen,
       HasJava, Held, NoOrphan, Fresh
<1> QED BY <1>1, <1>2, <1>3, <1>4, <1>5, <1>6, <1>7, <1>8, <1>9, <1>10 DEF IInv, RaceInv, FdInv

(* A winner that came before the flag is closed. *)
LEMMA ReclaimKeeps ==
  ASSUME IInv, NEW r \in Requests,
         Reclaim(r)
  PROVE  IInv'
<1>1. CASE winner[r] = NoSocket
  <2>0. /\ pc[r] = "reclaim"
        /\ pc' = [pc EXCEPT ![r] = "refuse"]
        /\ winner' = [winner EXCEPT ![r] = NoSocket]
        /\ UNCHANGED <<fdtab, jfd, attempt, abandoned, latch, target, client_fd, target_fd,
                       active, epoll, ring, stuck>>
    BY <1>1 DEF Reclaim, Goto, race, purger
  <2>1. Types'
    BY <1>1, <2>0, SocketFacts, NumberFacts, SocketsAssumption DEF IInv, Types, Progress, Places
  <2>2. (\A d \in Candidates : Attempted(d))'
    BY <1>1, <2>0, SocketFacts, NumberFacts DEF IInv, Types, RaceInv, Chosen, Attempted, Awaited,
         Fresh
  <2>3. (\A q \in Requests : Awaited(q))'
    BY <1>1, <2>0, SocketFacts, NumberFacts DEF IInv, Types, RaceInv, Attempted, Awaited, Fresh
  <2>4. (\A q \in Requests : Chosen(q))'
    BY <1>1, <2>0, SocketFacts, NumberFacts DEF IInv, Types, RaceInv, Attempted, Awaited, Chosen,
         HasTarget, HasJava, Held, Fresh
  <2>5. JavaNumbers'
    BY <1>1, <2>0, SocketFacts, NumberFacts DEF IInv, Types, FdInv, JavaNumbers
  <2>6. ClientNumbers'
    BY <1>1, <2>0, SocketFacts, NumberFacts DEF IInv, Types, FdInv, ClientNumbers, HasClient
  <2>7. TargetNumbers'
    BY <1>1, <2>0, SocketFacts, NumberFacts DEF IInv, Types, RaceInv, Chosen, FdInv, JavaNumbers,
         TargetNumbers, HasTarget, Held, HasJava
  <2>8. MapEntries'
    BY <1>1, <2>0, SocketFacts, NumberFacts DEF IInv, Types, RaceInv, Chosen, HasJava, FdInv,
         TargetNumbers, HasTarget, MapEntries, Held
  <2>9. StaysArmed'
    BY <1>1, <2>0, SocketFacts, NumberFacts DEF IInv, Types, StaysArmed
  <2>10. NoOrphan'
    BY <1>1, <2>0, SocketFacts, NumberFacts DEF IInv, Types, RaceInv, Attempted, Awaited, Chosen,
         HasJava, Held, NoOrphan, Fresh
  <2> QED BY <2>1, <2>2, <2>3, <2>4, <2>5, <2>6, <2>7, <2>8, <2>9, <2>10 DEF IInv, RaceInv, FdInv
<1>2. CASE winner[r] # NoSocket
  <2>0. /\ winner[r] \in Candidates
        /\ pc[r] = "reclaim"
        /\ pc' = [pc EXCEPT ![r] = "refuse"]
        /\ winner' = [winner EXCEPT ![r] = NoSocket]
        /\ JavaGone(winner[r])
        /\ UNCHANGED <<attempt, abandoned, latch, target, client_fd, target_fd, active, ring,
                       stuck>>
    BY <1>2, JavaCloses DEF Reclaim, Goto, race, purger, IInv, Types
  <2>1. Types'
    BY <1>2, <2>0, SocketFacts, NumberFacts, SocketsAssumption DEF IInv, Types, Progress, Places,
         JavaGone, Alive
  <2>2. (\A d \in Candidates : Attempted(d))'
    <3> SUFFICES ASSUME NEW d \in Candidates PROVE Attempted(d)' OBVIOUS
    <3>1. Attempted(d) /\ Awaited(d[1]) /\ d[1] \in Requests
      BY SocketFacts DEF IInv, RaceInv
    <3>2. CASE d = winner[r]
      BY <1>2, <2>0, <3>1, <3>2 DEF IInv, Types, RaceInv, Chosen, HasJava, Held, Attempted,
           Awaited, Fresh, JavaGone
    <3>3. CASE d # winner[r]
      BY <1>2, <2>0, <3>1, <3>3, SocketFacts DEF IInv, Types, Attempted, Awaited, Fresh, JavaGone
    <3> QED BY <3>2, <3>3
  <2>3. (\A q \in Requests : Awaited(q))'
    BY <1>2, <2>0, SocketFacts, NumberFacts DEF IInv, Types, RaceInv, Attempted, Awaited, Fresh,
         JavaGone
  <2>4. (\A q \in Requests : Chosen(q))'
    BY <1>2, <2>0, SocketFacts, NumberFacts DEF IInv, Types, RaceInv, Attempted, Awaited, Chosen,
         HasTarget, HasJava, Held, Fresh, JavaGone
  <2>5. JavaNumbers'
    BY <1>2, <2>0, JavaNumbersStay DEF IInv, FdInv
  <2>6. ClientNumbers'
    BY <1>2, <2>0, SocketFacts, NumberFacts DEF IInv, Types, FdInv, ClientNumbers, HasClient,
         JavaGone
  <2>7. TargetNumbers'
    BY <1>2, <2>0, SocketFacts, NumberFacts DEF IInv, Types, RaceInv, Chosen, FdInv, JavaNumbers,
         TargetNumbers, HasTarget, Held, HasJava, JavaGone
  <2>8. MapEntries'
    BY <1>2, <2>0, SocketFacts, NumberFacts DEF IInv, Types, RaceInv, Chosen, HasJava, FdInv,
         TargetNumbers, HasTarget, MapEntries, Held, JavaGone
  <2>9. StaysArmed'
    BY <1>2, <2>0, <2>1, <2>6, <2>7, ArmedWhileOpen DEF IInv, JavaGone
  <2>10. NoOrphan'
    BY <1>2, <2>0, SocketFacts, NumberFacts DEF IInv, Types, RaceInv, Attempted, Awaited, Chosen,
         HasJava, Held, NoOrphan, Fresh, JavaGone
  <2> QED BY <2>1, <2>2, <2>3, <2>4, <2>5, <2>6, <2>7, <2>8, <2>9, <2>10 DEF IInv, RaceInv, FdInv
<1> QED BY <1>1, <1>2 DEF Reclaim

(* The second number and its entry in the map; or both fail and the socket is closed. *)
LEMMA DupKeeps ==
  ASSUME IInv, NEW r \in Requests, Dup(r)
  PROVE  IInv'
<1>a. target[r] \in Candidates /\ target[r] \in Sockets /\ pc[r] \in {"dup", "dup_udp"}
  BY SocketFacts DEF Dup, IInv, Types, RaceInv, Chosen, HasJava
<1>1. ASSUME NEW n \in Fds, Lowest(n), fdtab' = Opened(n, target[r]),
             target_fd' = [target_fd EXCEPT ![r] = n], active' = [active EXCEPT ![n] = target[r]],
             Goto(r, IF pc[r] = "dup" THEN "handoff" ELSE "session"), UNCHANGED <<jfd, epoll>>
      PROVE  IInv'
  <2>0. /\ Taken(n, target[r])
        /\ pc' = [pc EXCEPT ![r] = IF pc[r] = "dup" THEN "handoff" ELSE "session"]
        /\ target_fd' = [target_fd EXCEPT ![r] = n]
        /\ active' = [active EXCEPT ![n] = target[r]]
        /\ UNCHANGED <<jfd, attempt, winner, abandoned, latch, target, client_fd, epoll, ring,
                       stuck>>
    BY <1>1, <1>a, NumberOpens DEF Dup, Goto, race, purger, IInv
  <2>1. Types'
    BY <1>a, <2>0, SocketFacts, NumberFacts, SocketsAssumption DEF IInv, Types, Progress, Places,
         Taken
  <2>2. (\A d \in Candidates : Attempted(d))'
    BY <1>a, <2>0, SocketFacts, NumberFacts DEF IInv, Types, RaceInv, Chosen, Attempted, Awaited,
         Fresh, Taken
  <2>3. (\A q \in Requests : Awaited(q))'
    BY <1>a, <2>0, SocketFacts, NumberFacts DEF IInv, Types, RaceInv, Attempted, Awaited, Fresh,
         Taken
  <2>4. (\A q \in Requests : Chosen(q))'
    BY <1>a, <2>0, SocketFacts, NumberFacts DEF IInv, Types, RaceInv, Attempted, Awaited, Chosen,
         HasTarget, HasJava, Held, Fresh, Taken
  <2>5. JavaNumbers'
    BY <1>a, <2>0, SocketFacts, NumberFacts DEF IInv, Types, FdInv, JavaNumbers, Taken
  <2>6. ClientNumbers'
    BY <1>a, <2>0, SocketFacts, NumberFacts DEF IInv, Types, FdInv, ClientNumbers, HasClient,
         Taken
  <2>7. TargetNumbers'
    BY <1>a, <2>0, SocketFacts, NumberFacts DEF IInv, Types, RaceInv, Chosen, FdInv, JavaNumbers,
         TargetNumbers, HasTarget, Held, HasJava, Taken
  <2>8. MapEntries'
    BY <1>a, <2>0, SocketFacts, NumberFacts DEF IInv, Types, RaceInv, Chosen, HasJava, FdInv,
         TargetNumbers, HasTarget, MapEntries, Held, Taken
  <2>9. StaysArmed'
    BY <1>a, <2>0, SocketFacts, NumberFacts DEF IInv, Types, StaysArmed, Taken
  <2>10. NoOrphan'
    BY <1>a, <2>0, SocketFacts, NumberFacts DEF IInv, Types, RaceInv, Attempted, Awaited, Chosen,
         HasJava, Held, NoOrphan, Fresh, Taken
  <2> QED BY <2>1, <2>2, <2>3, <2>4, <2>5, <2>6, <2>7, <2>8, <2>9, <2>10 DEF IInv, RaceInv, FdInv
<1>2. ASSUME CloseJava(target[r]), Goto(r, "refuse"), UNCHANGED <<target_fd, active>>
      PROVE  IInv'
  <2>0. /\ JavaGone(target[r])
        /\ pc' = [pc EXCEPT ![r] = "refuse"]
        /\ UNCHANGED <<attempt, winner, abandoned, latch, target, client_fd, target_fd, active,
                       ring, stuck>>
    BY <1>2, <1>a, JavaCloses DEF Dup, Goto, race, purger
  <2>1. Types'
    BY <1>a, <2>0, SocketFacts, NumberFacts, SocketsAssumption DEF IInv, Types, Progress, Places,
         JavaGone, Alive
  <2>2. (\A d \in Candidates : Attempted(d))'
    <3> SUFFICES ASSUME NEW d \in Candidates PROVE Attempted(d)' OBVIOUS
    <3>1. Attempted(d) /\ Awaited(d[1]) /\ d[1] \in Requests
      BY SocketFacts DEF IInv, RaceInv
    <3>2. CASE d = target[r]
      BY <1>a, <2>0, <3>1, <3>2 DEF IInv, Types, RaceInv, Chosen, HasJava, Held, Attempted,
           Awaited, Fresh, JavaGone
    <3>3. CASE d # target[r]
      BY <1>a, <2>0, <3>1, <3>3 DEF IInv, Types, Attempted, Awaited, Fresh, JavaGone
    <3> QED BY <3>2, <3>3
  <2>3. (\A q \in Requests : Awaited(q))'
    BY <1>a, <2>0, SocketFacts, NumberFacts DEF IInv, Types, RaceInv, Attempted, Awaited, Fresh,
         JavaGone
  <2>4. (\A q \in Requests : Chosen(q))'
    BY <1>a, <2>0, SocketFacts, NumberFacts DEF IInv, Types, RaceInv, Attempted, Awaited, Chosen,
         HasTarget, HasJava, Held, Fresh, JavaGone
  <2>5. JavaNumbers'
    BY <1>a, <2>0, JavaNumbersStay DEF IInv, FdInv
  <2>6. ClientNumbers'
    BY <1>a, <2>0, SocketFacts, NumberFacts DEF IInv, Types, FdInv, ClientNumbers, HasClient,
         JavaGone
  <2>7. TargetNumbers'
    BY <1>a, <2>0, SocketFacts, NumberFacts DEF IInv, Types, RaceInv, Chosen, FdInv, JavaNumbers,
         TargetNumbers, HasTarget, Held, HasJava, JavaGone
  <2>8. MapEntries'
    BY <1>a, <2>0, SocketFacts, NumberFacts DEF IInv, Types, RaceInv, Chosen, HasJava, FdInv,
         TargetNumbers, HasTarget, MapEntries, Held, JavaGone
  <2>9. StaysArmed'
    BY <1>a, <2>0, <2>1, <2>6, <2>7, ArmedWhileOpen DEF IInv, JavaGone
  <2>10. NoOrphan'
    BY <1>a, <2>0, SocketFacts, NumberFacts DEF IInv, Types, RaceInv, Attempted, Awaited, Chosen,
         HasJava, Held, NoOrphan, Fresh, JavaGone
  <2> QED BY <2>1, <2>2, <2>3, <2>4, <2>5, <2>6, <2>7, <2>8, <2>9, <2>10 DEF IInv, RaceInv, FdInv
<1> QED BY <1>1, <1>2 DEF Dup

------------------------------------------------------------------------------
(* The C side and the purger.                                                  *)

(* A refused client is closed. *)
LEMMA RefuseKeeps ==
  ASSUME IInv, NEW r \in Requests,
         Refuse(r)
  PROVE  IInv'
<1>0. /\ pc[r] = "refuse"
      /\ pc' = [pc EXCEPT ![r] = "done"]
      /\ Given(client_fd[r], ClientOf(r))
      /\ UNCHANGED <<jfd, attempt, winner, abandoned, latch, target, client_fd, target_fd,
                     active, epoll, ring, stuck>>
  BY NumberCloses DEF Refuse, Goto, race, purger, IInv, FdInv, ClientNumbers, HasClient
<1>1. Types'
  BY <1>0, SocketFacts, NumberFacts, SocketsAssumption DEF IInv, Types, Progress, Places, Given
<1>2. (\A d \in Candidates : Attempted(d))'
  BY <1>0, SocketFacts, NumberFacts DEF IInv, Types, RaceInv, Chosen, Attempted, Awaited, Fresh,
       Given
<1>3. (\A q \in Requests : Awaited(q))'
  BY <1>0, SocketFacts, NumberFacts DEF IInv, Types, RaceInv, Attempted, Awaited, Fresh, Given
<1>4. (\A q \in Requests : Chosen(q))'
  BY <1>0, SocketFacts, NumberFacts DEF IInv, Types, RaceInv, Attempted, Awaited, Chosen,
       HasTarget, HasJava, Held, Fresh, Given
<1>5. JavaNumbers'
  BY <1>0, SocketFacts, NumberFacts DEF IInv, Types, FdInv, JavaNumbers, Given
<1>6. ClientNumbers'
  BY <1>0, SocketFacts, NumberFacts DEF IInv, Types, FdInv, ClientNumbers, HasClient, Given
<1>7. TargetNumbers'
  BY <1>0, SocketFacts, NumberFacts DEF IInv, Types, RaceInv, Chosen, FdInv, JavaNumbers,
       TargetNumbers, HasTarget, Held, HasJava, Given
<1>8. MapEntries'
  BY <1>0, SocketFacts, NumberFacts DEF IInv, Types, RaceInv, Chosen, HasJava, FdInv,
       TargetNumbers, HasTarget, MapEntries, Held, Given
<1>9. StaysArmed'
  BY <1>0, SocketFacts, NumberFacts DEF IInv, Types, StaysArmed, Given
<1>10. NoOrphan'
  BY <1>0, SocketFacts, NumberFacts DEF IInv, Types, RaceInv, Attempted, Awaited, Chosen,
       HasJava, Held, NoOrphan, Fresh, Given
<1> QED BY <1>1, <1>2, <1>3, <1>4, <1>5, <1>6, <1>7, <1>8, <1>9, <1>10 DEF IInv, RaceInv, FdInv

(* A connection without a slot, one that failed, and one that is armed and stamped. *)
LEMMA HandoffKeeps ==
  ASSUME IInv, NEW r \in Requests, Handoff(r)
  PROVE  IInv'
<1>1. ASSUME NEW there \in {"no_slot", "close_client"}, Goto(r, there), UNCHANGED <<epoll, ring>>
      PROVE  IInv'
  <2>0. /\ pc[r] = "handoff"
        /\ there \in {"no_slot", "close_client"}
        /\ pc' = [pc EXCEPT ![r] = there]
        /\ UNCHANGED <<fdtab, jfd, attempt, winner, abandoned, latch, target, client_fd,
                       target_fd, active, epoll, ring, stuck>>
    BY <1>1 DEF Handoff, Goto, race
  <2>1. Types'
    BY <2>0, SocketFacts, NumberFacts, SocketsAssumption DEF IInv, Types, Progress, Places
  <2>2. (\A d \in Candidates : Attempted(d))'
    BY <2>0, SocketFacts, NumberFacts DEF IInv, Types, RaceInv, Chosen, Attempted, Awaited, Fresh
  <2>3. (\A q \in Requests : Awaited(q))'
    BY <2>0, SocketFacts, NumberFacts DEF IInv, Types, RaceInv, Attempted, Awaited, Fresh
  <2>4. (\A q \in Requests : Chosen(q))'
    BY <2>0, SocketFacts, NumberFacts DEF IInv, Types, RaceInv, Attempted, Awaited, Chosen,
         HasTarget, HasJava, Held, Fresh
  <2>5. JavaNumbers'
    BY <2>0, SocketFacts, NumberFacts DEF IInv, Types, FdInv, JavaNumbers
  <2>6. ClientNumbers'
    BY <2>0, SocketFacts, NumberFacts DEF IInv, Types, FdInv, ClientNumbers, HasClient
  <2>7. TargetNumbers'
    BY <2>0, SocketFacts, NumberFacts DEF IInv, Types, RaceInv, Chosen, FdInv, JavaNumbers,
         TargetNumbers, HasTarget, Held, HasJava
  <2>8. MapEntries'
    BY <2>0, SocketFacts, NumberFacts DEF IInv, Types, RaceInv, Chosen, HasJava, FdInv,
         TargetNumbers, HasTarget, MapEntries, Held
  <2>9. StaysArmed'
    BY <2>0, SocketFacts, NumberFacts DEF IInv, Types, StaysArmed
  <2>10. NoOrphan'
    BY <2>0, SocketFacts, NumberFacts DEF IInv, Types, RaceInv, Attempted, Awaited, Chosen,
         HasJava, Held, NoOrphan, Fresh
  <2> QED BY <2>1, <2>2, <2>3, <2>4, <2>5, <2>6, <2>7, <2>8, <2>9, <2>10 DEF IInv, RaceInv, FdInv
<1>2. CASE /\ Goto(r, "live")
           /\ epoll' = epoll \union {Registration(r, ClientOf(r), client_fd[r]),
                                     Registration(r, target[r], target_fd[r])}
           /\ ring' = (IF Len(ring) = RingSize THEN Tail(ring) ELSE ring) \o <<Stamp(r)>>
  <2>0. /\ pc[r] = "handoff"
        /\ pc' = [pc EXCEPT ![r] = "live"]
        /\ epoll' = epoll \union {Registration(r, ClientOf(r), client_fd[r]),
                                  Registration(r, target[r], target_fd[r])}
        /\ ring' = (IF Len(ring) = RingSize THEN Tail(ring) ELSE ring) \o <<Stamp(r)>>
        /\ UNCHANGED <<fdtab, jfd, attempt, winner, abandoned, latch, target, client_fd,
                       target_fd, active, stuck>>
    BY <1>2 DEF Handoff, Goto, race
  <2>1. Types'
    <3>0. /\ target[r] \in Sockets /\ target[r][1] = r
          /\ client_fd[r] \in Fds /\ target_fd[r] \in Fds
      <4>1. target[r] \in Candidates /\ target[r][1] = r
        BY <2>0, SocketFacts DEF IInv, Types, RaceInv, Chosen, HasJava, Held
      <4>2. client_fd[r] \in Fds /\ target_fd[r] \in Fds
        BY <2>0 DEF IInv, FdInv, ClientNumbers, HasClient, TargetNumbers, HasTarget, Held
      <4> QED BY <4>1, <4>2, SocketFacts
    <3>1. Stamp(r) \in Stamps
      <4>1. {client_fd[r], target_fd[r]} \in SUBSET (0..MaxFd)
        BY <3>0, NumberFacts
      <4>2. {ClientOf(r), target[r]} \in SUBSET Sockets
        BY <3>0, SocketFacts
      <4>3. \A x \in {ClientOf(r), target[r]} : x[1] = r
        BY <3>0, SocketFacts
      <4> QED BY <4>1, <4>2, <4>3 DEF Stamp, Stamps
    <3>2. ring' \in Seq(Stamps)
      <4>1. Tail(ring) \in Seq(Stamps) \/ Len(ring) # RingSize
        BY SocketsAssumption DEF IInv, Types
      <4>2. <<Stamp(r)>> \in Seq(Stamps)
        BY <3>1
      <4> QED BY <2>0, <4>1, <4>2 DEF IInv, Types
    <3>3. epoll' \subseteq Registrations
      <4>1. Registration(r, ClientOf(r), client_fd[r]) \in Registrations
        BY <3>0, SocketFacts DEF Registration, Registrations
      <4>2. Registration(r, target[r], target_fd[r]) \in Registrations
        BY <3>0 DEF Registration, Registrations
      <4> QED BY <2>0, <4>1, <4>2 DEF IInv, Types
    <3> QED BY <2>0, <3>2, <3>3 DEF IInv, Types, Places
  <2>2. (\A d \in Candidates : Attempted(d))'
    BY <2>0, SocketFacts, NumberFacts DEF IInv, Types, RaceInv, Chosen, Attempted, Awaited, Fresh
  <2>3. (\A q \in Requests : Awaited(q))'
    BY <2>0, SocketFacts, NumberFacts DEF IInv, Types, RaceInv, Attempted, Awaited, Fresh
  <2>4. (\A q \in Requests : Chosen(q))'
    BY <2>0, SocketFacts, NumberFacts DEF IInv, Types, RaceInv, Attempted, Awaited, Chosen,
         HasTarget, HasJava, Held, Fresh
  <2>5. JavaNumbers'
    BY <2>0, SocketFacts, NumberFacts DEF IInv, Types, FdInv, JavaNumbers
  <2>6. ClientNumbers'
    BY <2>0, SocketFacts, NumberFacts DEF IInv, Types, FdInv, ClientNumbers, HasClient
  <2>7. TargetNumbers'
    BY <2>0, SocketFacts, NumberFacts DEF IInv, Types, RaceInv, Chosen, FdInv, JavaNumbers,
         TargetNumbers, HasTarget, Held, HasJava
  <2>8. MapEntries'
    BY <2>0, SocketFacts, NumberFacts DEF IInv, Types, RaceInv, Chosen, HasJava, FdInv,
         TargetNumbers, HasTarget, MapEntries, Held
  <2>9. StaysArmed'
    BY <2>0, SocketFacts, NumberFacts DEF IInv, Types, StaysArmed
  <2>10. NoOrphan'
    BY <2>0, SocketFacts, NumberFacts DEF IInv, Types, RaceInv, Attempted, Awaited, Chosen,
         HasJava, Held, NoOrphan, Fresh
  <2> QED BY <2>1, <2>2, <2>3, <2>4, <2>5, <2>6, <2>7, <2>8, <2>9, <2>10 DEF IInv, RaceInv, FdInv
<1> QED BY <1>1, <1>2 DEF Handoff

(* The places from which, and to which, conn_finalize and its relatives go. *)
ClientStep(here, there) ==
  \/ here \in {"close_client", "live", "session"} /\ there = "release"
  \/ here = "away_client" /\ there = "away_target"
ReleaseStep(here, there) ==
  \/ here = "release" /\ there = "close_target"
  \/ here = "no_slot" /\ there = "away_client"

(* The client is closed. *)
LEMMA CloseClientKeeps ==
  ASSUME IInv, NEW r \in Requests, NEW here, NEW there,
         ClientStep(here, there), CloseClient(r, here, there)
  PROVE  IInv'
<1>s. (here \in {"close_client", "live", "session"} /\ there = "release") \/ (here = "away_client" /\ there = "away_target")
  BY DEF ClientStep
<1>0. /\ pc[r] = here
      /\ pc' = [pc EXCEPT ![r] = there]
      /\ (here \in {"close_client", "live", "session"} /\ there = "release") \/ (here = "away_client" /\ there = "away_target")
      /\ Given(client_fd[r], ClientOf(r))
      /\ epoll' = Alive(epoll, fdtab')
      /\ UNCHANGED <<jfd, attempt, winner, abandoned, latch, target, client_fd, target_fd,
                     active, ring, stuck>>
  BY <1>s, NumberCloses DEF CloseClient, Goto, race, purger, IInv, FdInv, ClientNumbers, HasClient
<1>1. Types'
  BY <1>0, SocketFacts, NumberFacts, SocketsAssumption DEF IInv, Types, Progress, Places, Given,
       Alive
<1>2. (\A d \in Candidates : Attempted(d))'
  BY <1>0, SocketFacts, NumberFacts DEF IInv, Types, RaceInv, Chosen, Attempted, Awaited, Fresh,
       Given
<1>3. (\A q \in Requests : Awaited(q))'
  BY <1>0, SocketFacts, NumberFacts DEF IInv, Types, RaceInv, Attempted, Awaited, Fresh, Given
<1>4. (\A q \in Requests : Chosen(q))'
  BY <1>0, SocketFacts, NumberFacts DEF IInv, Types, RaceInv, Attempted, Awaited, Chosen,
       HasTarget, HasJava, Held, Fresh, Given
<1>5. JavaNumbers'
  BY <1>0, SocketFacts, NumberFacts DEF IInv, Types, FdInv, JavaNumbers, Given
<1>6. ClientNumbers'
  <2> SUFFICES ASSUME NEW q \in Requests, HasClient(q)'
               PROVE  client_fd[q] \in Fds /\ fdtab'[client_fd[q]] = ClientOf(q)
    BY <1>0 DEF ClientNumbers
  <2>1. q # r
    BY <1>0 DEF IInv, Types, HasClient
  <2>2. client_fd[q] \in Fds /\ fdtab[client_fd[q]] = ClientOf(q)
    BY <1>0, <2>1 DEF IInv, Types, FdInv, ClientNumbers, HasClient
  <2>3. ClientOf(q) # ClientOf(r)
    BY <2>1, SocketFacts
  <2> QED BY <1>0, <2>2, <2>3 DEF Given
<1>7. TargetNumbers'
  BY <1>0, SocketFacts, NumberFacts DEF IInv, Types, RaceInv, Chosen, FdInv, JavaNumbers,
       TargetNumbers, HasTarget, Held, HasJava, Given
<1>8. MapEntries'
  BY <1>0, SocketFacts, NumberFacts DEF IInv, Types, RaceInv, Chosen, HasJava, FdInv,
       TargetNumbers, HasTarget, MapEntries, Held, Given
<1>9. StaysArmed'
  BY <1>0, <1>1, <1>6, <1>7, ArmedWhileOpen DEF IInv, JavaGone
<1>10. NoOrphan'
  BY <1>0, SocketFacts, NumberFacts DEF IInv, Types, RaceInv, Attempted, Awaited, Chosen,
       HasJava, Held, NoOrphan, Fresh, Given
<1> QED BY <1>1, <1>2, <1>3, <1>4, <1>5, <1>6, <1>7, <1>8, <1>9, <1>10 DEF IInv, RaceInv, FdInv

(* Kotlin takes the number out of the map and closes its socket, or is not reached. *)
LEMMA ReleaseKeeps ==
  ASSUME IInv, NEW r \in Requests, NEW here, NEW there,
         ReleaseStep(here, there), Release(r, here, there)
  PROVE  IInv'
<1>s. (here = "release" /\ there = "close_target") \/ (here = "no_slot" /\ there = "away_client")
  BY DEF ReleaseStep
<1>1. CASE r \in Failing \/ active[target_fd[r]] = NoSocket
  <2>0. /\ pc[r] = here
        /\ pc' = [pc EXCEPT ![r] = there]
        /\ (here = "release" /\ there = "close_target") \/ (here = "no_slot" /\ there = "away_client")
        /\ r \in Failing
        /\ UNCHANGED <<fdtab, jfd, attempt, winner, abandoned, latch, target, client_fd,
                       target_fd, active, epoll, ring, stuck>>
    BY <1>s, <1>1, SocketFacts DEF Release, Goto, race, purger, IInv, FdInv, MapEntries, Held,
         RaceInv, Chosen, HasJava
  <2>1. Types'
    BY <1>1, <2>0, SocketFacts, NumberFacts, SocketsAssumption DEF IInv, Types, Progress, Places
  <2>2. (\A d \in Candidates : Attempted(d))'
    BY <1>1, <2>0, SocketFacts, NumberFacts DEF IInv, Types, RaceInv, Chosen, Attempted, Awaited,
         Fresh
  <2>3. (\A q \in Requests : Awaited(q))'
    BY <1>1, <2>0, SocketFacts, NumberFacts DEF IInv, Types, RaceInv, Attempted, Awaited, Fresh
  <2>4. (\A q \in Requests : Chosen(q))'
    BY <1>1, <2>0, SocketFacts, NumberFacts DEF IInv, Types, RaceInv, Attempted, Awaited, Chosen,
         HasTarget, HasJava, Held, Fresh
  <2>5. JavaNumbers'
    BY <1>1, <2>0, SocketFacts, NumberFacts DEF IInv, Types, FdInv, JavaNumbers
  <2>6. ClientNumbers'
    BY <1>1, <2>0, SocketFacts, NumberFacts DEF IInv, Types, FdInv, ClientNumbers, HasClient
  <2>7. TargetNumbers'
    BY <1>1, <2>0, SocketFacts, NumberFacts DEF IInv, Types, RaceInv, Chosen, FdInv, JavaNumbers,
         TargetNumbers, HasTarget, Held, HasJava
  <2>8. MapEntries'
    BY <1>1, <2>0, SocketFacts, NumberFacts DEF IInv, Types, RaceInv, Chosen, HasJava, FdInv,
         TargetNumbers, HasTarget, MapEntries, Held
  <2>9. StaysArmed'
    BY <1>1, <2>0, SocketFacts, NumberFacts DEF IInv, Types, StaysArmed
  <2>10. NoOrphan'
    BY <1>1, <2>0, SocketFacts, NumberFacts DEF IInv, Types, RaceInv, Attempted, Awaited, Chosen,
         HasJava, Held, NoOrphan, Fresh
  <2> QED BY <2>1, <2>2, <2>3, <2>4, <2>5, <2>6, <2>7, <2>8, <2>9, <2>10 DEF IInv, RaceInv, FdInv
<1>2. CASE ~(r \in Failing \/ active[target_fd[r]] = NoSocket)
  <2>0. /\ pc[r] = here
        /\ pc' = [pc EXCEPT ![r] = there]
        /\ (here = "release" /\ there = "close_target") \/ (here = "no_slot" /\ there = "away_client")
        /\ target[r] \in Candidates
        /\ JavaGone(target[r])
        /\ active' = [active EXCEPT ![target_fd[r]] = NoSocket]
        /\ UNCHANGED <<attempt, winner, abandoned, latch, target, client_fd, target_fd, ring,
                       stuck>>
    BY <1>s, <1>2, JavaCloses DEF Release, Goto, race, purger, IInv, Types, FdInv, MapEntries,
         Held, RaceInv, Chosen, HasJava
  <2>1. Types'
    BY <1>2, <2>0, SocketFacts, NumberFacts, SocketsAssumption DEF IInv, Types, Progress, Places,
         JavaGone, Alive
  <2>2. (\A d \in Candidates : Attempted(d))'
    <3> SUFFICES ASSUME NEW d \in Candidates PROVE Attempted(d)' OBVIOUS
    <3>1. Attempted(d) /\ Awaited(d[1]) /\ d[1] \in Requests
      BY SocketFacts DEF IInv, RaceInv
    <3>2. CASE d = target[r]
      BY <1>2, <2>0, <3>1, <3>2 DEF IInv, Types, RaceInv, Chosen, HasJava, Held, Attempted,
           Awaited, Fresh, JavaGone
    <3>3. CASE d # target[r]
      BY <1>2, <2>0, <3>1, <3>3 DEF IInv, Types, Attempted, Awaited, Fresh, JavaGone
    <3> QED BY <3>2, <3>3
  <2>3. (\A q \in Requests : Awaited(q))'
    BY <1>2, <2>0, SocketFacts, NumberFacts DEF IInv, Types, RaceInv, Attempted, Awaited, Fresh,
         JavaGone
  <2>4. (\A q \in Requests : Chosen(q))'
    BY <1>2, <2>0, SocketFacts, NumberFacts DEF IInv, Types, RaceInv, Attempted, Awaited, Chosen,
         HasTarget, HasJava, Held, Fresh, JavaGone
  <2>5. JavaNumbers'
    BY <1>2, <2>0, JavaNumbersStay DEF IInv, FdInv
  <2>6. ClientNumbers'
    BY <1>2, <2>0, SocketFacts, NumberFacts DEF IInv, Types, FdInv, ClientNumbers, HasClient,
         JavaGone
  <2>7. TargetNumbers'
    BY <1>2, <2>0, SocketFacts, NumberFacts DEF IInv, Types, RaceInv, Chosen, FdInv, JavaNumbers,
         TargetNumbers, HasTarget, Held, HasJava, JavaGone
  <2>8. MapEntries'
    <3>1. ASSUME NEW q \in Requests, Held(q)' PROVE active'[target_fd[q]] = target[q]
      <4>1. Held(q)
        BY <2>0, <3>1 DEF IInv, Types, Held
      <4>2. active[target_fd[q]] = target[q] /\ fdtab[target_fd[q]] = target[q] /\ target_fd[q] \in Fds
        BY <4>1 DEF IInv, FdInv, MapEntries, TargetNumbers, HasTarget
      <4>3. q # r
        BY <2>0, <3>1 DEF IInv, Types, Held
      <4>4. target[q][1] = q /\ target[r][1] = r
        BY <2>0, <4>1, SocketFacts DEF IInv, RaceInv, Chosen, HasJava
      <4>5. fdtab[target_fd[r]] = target[r]
        BY <2>0 DEF IInv, FdInv, TargetNumbers, HasTarget, Held
      <4> QED BY <2>0, <4>2, <4>3, <4>4, <4>5 DEF IInv, Types
    <3>2. ASSUME NEW n \in Fds, active'[n] # NoSocket PROVE target'[active'[n][1]] = active'[n]
      BY <2>0, <3>2 DEF IInv, Types, FdInv, MapEntries
    <3> QED BY <2>0, <3>1, <3>2 DEF MapEntries
  <2>9. StaysArmed'
    BY <1>2, <2>0, <2>1, <2>6, <2>7, ArmedWhileOpen DEF IInv, JavaGone
  <2>10. NoOrphan'
    BY <1>2, <2>0, SocketFacts, NumberFacts DEF IInv, Types, RaceInv, Attempted, Awaited, Chosen,
         HasJava, Held, NoOrphan, Fresh, JavaGone
  <2> QED BY <2>1, <2>2, <2>3, <2>4, <2>5, <2>6, <2>7, <2>8, <2>9, <2>10 DEF IInv, RaceInv, FdInv
<1> QED BY <1>1, <1>2 DEF Release

(* The number of C is closed. *)
LEMMA CloseTargetKeeps ==
  ASSUME IInv, NEW r \in Requests, NEW here, NEW there,
         here \in {"close_target", "away_target"} /\ there = "done",
         CloseTarget(r, here, there)
  PROVE  IInv'
<1>0. /\ pc[r] = here
      /\ pc' = [pc EXCEPT ![r] = there]
      /\ here \in {"close_target", "away_target"} /\ there = "done"
      /\ target[r] \in Candidates /\ target[r][1] = r /\ jfd[target[r]] # target_fd[r]
      /\ Given(target_fd[r], target[r])
      /\ epoll' = Alive(epoll, fdtab')
      /\ UNCHANGED <<jfd, attempt, winner, abandoned, latch, target, client_fd, target_fd,
                     active, ring, stuck>>
  BY NumberCloses DEF CloseTarget, Goto, race, purger, IInv, Types, RaceInv, Chosen, FdInv,
       TargetNumbers, HasTarget
<1>1. Types'
  BY <1>0, SocketFacts, NumberFacts, SocketsAssumption DEF IInv, Types, Progress, Places, Given,
       Alive
<1>2. (\A d \in Candidates : Attempted(d))'
  BY <1>0, SocketFacts, NumberFacts DEF IInv, Types, RaceInv, Chosen, Attempted, Awaited, Fresh,
       Given
<1>3. (\A q \in Requests : Awaited(q))'
  BY <1>0, SocketFacts, NumberFacts DEF IInv, Types, RaceInv, Attempted, Awaited, Fresh, Given
<1>4. (\A q \in Requests : Chosen(q))'
  BY <1>0, SocketFacts, NumberFacts DEF IInv, Types, RaceInv, Attempted, Awaited, Chosen,
       HasTarget, HasJava, Held, Fresh, Given
<1>5. JavaNumbers'
  BY <1>0, SocketFacts, NumberFacts DEF IInv, Types, FdInv, JavaNumbers, Given
<1>6. ClientNumbers'
  BY <1>0, SocketFacts, NumberFacts DEF IInv, Types, FdInv, ClientNumbers, HasClient, Given
<1>7. TargetNumbers'
  BY <1>0, SocketFacts, NumberFacts DEF IInv, Types, RaceInv, Chosen, FdInv, JavaNumbers,
       TargetNumbers, HasTarget, Held, HasJava, Given
<1>8. MapEntries'
  BY <1>0, SocketFacts, NumberFacts DEF IInv, Types, RaceInv, Chosen, HasJava, FdInv,
       TargetNumbers, HasTarget, MapEntries, Held, Given
<1>9. StaysArmed'
  BY <1>0, <1>1, <1>6, <1>7, ArmedWhileOpen DEF IInv, JavaGone
<1>10. NoOrphan'
  BY <1>0, SocketFacts, NumberFacts DEF IInv, Types, RaceInv, Attempted, Awaited, Chosen,
       HasJava, Held, NoOrphan, Fresh, Given
<1> QED BY <1>1, <1>2, <1>3, <1>4, <1>5, <1>6, <1>7, <1>8, <1>9, <1>10 DEF IInv, RaceInv, FdInv

(* The service closes what is left in the map, when no connection is left. *)
LEMMA CloseAllKeeps ==
  ASSUME IInv, CloseAll
  PROVE  IInv'
<1> DEFINE left == {active[n] : n \in Fds} \ {NoSocket}
<1>0. /\ \A r \in Requests : pc[r] \in {"accept", "done"}
      /\ fdtab' = [n \in Fds |-> IF \E c \in left : jfd[c] = n THEN NoSocket ELSE fdtab[n]]
      /\ jfd' = [c \in Candidates |-> IF c \in left THEN 0 ELSE jfd[c]]
      /\ active' = [n \in Fds |-> NoSocket]
      /\ epoll' = {}
      /\ UNCHANGED <<attempt, winner, abandoned, latch, pc, target, client_fd, target_fd, ring,
                     stuck>>
  BY DEF CloseAll, race, purger
<1>a. left \subseteq Candidates
  BY DEF IInv, Types
<1> HIDE DEF left
<1>1. Types'
  BY <1>0, <1>a, SocketFacts, NumberFacts, SocketsAssumption DEF IInv, Types, Progress, Places
<1>2. (\A d \in Candidates : Attempted(d))'
  <2> SUFFICES ASSUME NEW d \in Candidates PROVE Attempted(d)' OBVIOUS
  <2>1. Attempted(d) /\ d[1] \in Requests
    BY SocketFacts DEF IInv, RaceInv
  <2>2. d \in left => attempt[d] \in {"none", "done"}
    BY SocketFacts DEF left, IInv, FdInv, MapEntries, RaceInv, Chosen
  <2> QED BY <1>0, <2>1, <2>2 DEF IInv, Types, Attempted, Fresh
<1>3. (\A q \in Requests : Awaited(q))'
  BY <1>0, <1>a, SocketFacts, NumberFacts DEF IInv, Types, RaceInv, Attempted, Awaited, Fresh
<1>4. (\A q \in Requests : Chosen(q))'
  BY <1>0, <1>a, SocketFacts, NumberFacts DEF IInv, Types, RaceInv, Attempted, Awaited, Chosen,
       HasTarget, HasJava, Held, Fresh
<1>5. JavaNumbers'
  BY <1>0, <1>a, SocketFacts, NumberFacts DEF IInv, Types, FdInv, JavaNumbers
<1>6. ClientNumbers'
  BY <1>0, <1>a, SocketFacts, NumberFacts DEF IInv, Types, FdInv, ClientNumbers, HasClient
<1>7. TargetNumbers'
  BY <1>0, <1>a, SocketFacts, NumberFacts DEF IInv, Types, RaceInv, Chosen, FdInv, JavaNumbers,
       TargetNumbers, HasTarget, Held, HasJava
<1>8. MapEntries'
  BY <1>0, <1>a, SocketFacts, NumberFacts DEF IInv, Types, RaceInv, Chosen, HasJava, FdInv,
       TargetNumbers, HasTarget, MapEntries, Held
<1>9. StaysArmed'
  BY <1>0, <1>a, SocketFacts, NumberFacts DEF IInv, Types, StaysArmed
<1>10. NoOrphan'
  BY <1>0, <1>a, SocketFacts, NumberFacts DEF IInv, Types, RaceInv, Attempted, Awaited, Chosen,
       HasJava, Held, NoOrphan, Fresh
<1> QED BY <1>1, <1>2, <1>3, <1>4, <1>5, <1>6, <1>7, <1>8, <1>9, <1>10 DEF IInv, RaceInv, FdInv

(* The purger only takes registrations of sockets that the stamp names, which are *)
(* those of the connection that has ended (FastPath, Scan).                       *)
LEMMA GhostEventKeeps ==
  ASSUME IInv, NEW r \in Requests, NEW scan \in BOOLEAN, GhostEvent(r, scan)
  PROVE  IInv'
<1>a. /\ pc[r] = "done"
      /\ epoll' = epoll \/ epoll' = StampPurge(r, scan)
      /\ UNCHANGED <<fdtab, jfd, attempt, winner, abandoned, latch, pc, target, client_fd,
                     target_fd, active, ring>>
  BY DEF GhostEvent, Ghost, race
<1>b. stuck' \in [stamp : Requests \union {NoRequest}, count : 0..(Threshold - 1)]
  BY SocketsAssumption DEF GhostEvent, IInv, Types
<1>c. ASSUME NEW g \in epoll, g \notin epoll' PROVE g.socket[1] = r
  <2> DEFINE hits == {i \in 1..Len(ring) : ring[i].stamp = r}
  <2>1. PICK i \in hits : fdtab[g.fd] = g.socket /\ fdtab[g.fd] \in ring[i].inodes
    BY <1>a, <1>c DEF StampPurge, Deleted, FastPath, Scan
  <2>2. ring[i] \in Stamps /\ ring[i].stamp = r
    BY DEF IInv, Types
  <2> QED BY <2>1, <2>2 DEF Stamps
<1>d. epoll' \subseteq epoll
  BY <1>a DEF StampPurge, Deleted
<1>0. UNCHANGED <<fdtab, jfd, attempt, winner, abandoned, latch, pc, target, client_fd,
                  target_fd, active, ring>>
  BY <1>a
<1>1. Types'
  BY <1>0, <1>b, <1>d, SocketFacts, NumberFacts, SocketsAssumption DEF IInv, Types, Progress,
       Places
<1>2. (\A d \in Candidates : Attempted(d))'
  BY <1>0, SocketFacts, NumberFacts DEF IInv, Types, RaceInv, Chosen, Attempted, Awaited, Fresh
<1>3. (\A q \in Requests : Awaited(q))'
  BY <1>0, SocketFacts, NumberFacts DEF IInv, Types, RaceInv, Attempted, Awaited, Fresh
<1>4. (\A q \in Requests : Chosen(q))'
  BY <1>0, SocketFacts, NumberFacts DEF IInv, Types, RaceInv, Attempted, Awaited, Chosen,
       HasTarget, HasJava, Held, Fresh
<1>5. JavaNumbers'
  BY <1>0, SocketFacts, NumberFacts DEF IInv, Types, FdInv, JavaNumbers
<1>6. ClientNumbers'
  BY <1>0, SocketFacts, NumberFacts DEF IInv, Types, FdInv, ClientNumbers, HasClient
<1>7. TargetNumbers'
  BY <1>0, SocketFacts, NumberFacts DEF IInv, Types, RaceInv, Chosen, FdInv, JavaNumbers,
       TargetNumbers, HasTarget, Held, HasJava
<1>8. MapEntries'
  BY <1>0, SocketFacts, NumberFacts DEF IInv, Types, RaceInv, Chosen, HasJava, FdInv,
       TargetNumbers, HasTarget, MapEntries, Held
<1>9. StaysArmed'
  <2> SUFFICES ASSUME NEW q \in Requests, pc[q] = "live"
               PROVE  {Registration(q, ClientOf(q), client_fd[q]),
                       Registration(q, target[q], target_fd[q])} \subseteq epoll'
    BY <1>0 DEF StaysArmed, Registration
  <2>1. /\ Registration(q, ClientOf(q), client_fd[q]) \in epoll
        /\ Registration(q, target[q], target_fd[q]) \in epoll
    BY DEF IInv, StaysArmed
  <2>2. /\ Registration(q, ClientOf(q), client_fd[q]).socket[1] = q
        /\ Registration(q, target[q], target_fd[q]).socket[1] = q
    BY SocketFacts DEF IInv, RaceInv, Chosen, HasJava, Held, Registration
  <2>3. q # r
    BY <1>a
  <2> QED BY <2>1, <2>2, <2>3, <1>c
<1>10. NoOrphan'
  BY <1>0, SocketFacts, NumberFacts DEF IInv, Types, RaceInv, Attempted, Awaited, Chosen,
       HasJava, Held, NoOrphan, Fresh
<1> QED BY <1>1, <1>2, <1>3, <1>4, <1>5, <1>6, <1>7, <1>8, <1>9, <1>10 DEF IInv, RaceInv, FdInv

------------------------------------------------------------------------------
(* The invariant.                                                              *)

(* At first no socket is open and no race is under way.                    *)
LEMMA Initial == Init => IInv
<1> SUFFICES ASSUME Init PROVE IInv OBVIOUS
<1>1. Types
  <2>1. <<>> \in Seq(Stamps) OBVIOUS
  <2> QED BY <2>1, SocketsAssumption DEF Init, Types, Progress, Places
<1>2. RaceInv
  BY SocketFacts DEF Init, RaceInv, Attempted, Awaited, Chosen, Fresh, HasTarget, HasJava, Held
<1>3. FdInv
  BY SocketFacts DEF Init, FdInv, JavaNumbers, ClientNumbers, TargetNumbers, MapEntries,
       HasClient, HasTarget, Held
<1>4. StaysArmed /\ NoOrphan
  BY DEF Init, StaysArmed, NoOrphan
<1> QED BY <1>1, <1>2, <1>3, <1>4 DEF IInv

(* The steps of conn_finalize and of the two ways to it. *)
LEMMA ReleasesKeep ==
  ASSUME IInv, NEW r \in Requests, Finalize(r) \/ TurnAway(r) \/ Finished(r)
  PROVE  IInv'
<1>1. CASE Finalize(r)
  <2>1. CASE CloseClient(r, "close_client", "release")
    <3>1. ClientStep("close_client", "release") BY DEF ClientStep
    <3> QED BY <2>1, <3>1, CloseClientKeeps
  <2>2. CASE Release(r, "release", "close_target")
    <3>1. ReleaseStep("release", "close_target") BY DEF ReleaseStep
    <3> QED BY <2>2, <3>1, ReleaseKeeps
  <2>3. CASE CloseTarget(r, "close_target", "done") BY <2>3, CloseTargetKeeps
  <2> QED BY <1>1, <2>1, <2>2, <2>3 DEF Finalize
<1>2. CASE TurnAway(r)
  <2>1. CASE Release(r, "no_slot", "away_client")
    <3>1. ReleaseStep("no_slot", "away_client") BY DEF ReleaseStep
    <3> QED BY <2>1, <3>1, ReleaseKeeps
  <2>2. CASE CloseClient(r, "away_client", "away_target")
    <3>1. ClientStep("away_client", "away_target") BY DEF ClientStep
    <3> QED BY <2>2, <3>1, CloseClientKeeps
  <2>3. CASE CloseTarget(r, "away_target", "done") BY <2>3, CloseTargetKeeps
  <2> QED BY <1>2, <2>1, <2>2, <2>3 DEF TurnAway
<1>3. CASE Finished(r)
  <2>1. CASE CloseClient(r, "live", "release")
    <3>1. ClientStep("live", "release") BY DEF ClientStep
    <3> QED BY <2>1, <3>1, CloseClientKeeps
  <2>2. CASE CloseClient(r, "session", "release")
    <3>1. ClientStep("session", "release") BY DEF ClientStep
    <3> QED BY <2>2, <3>1, CloseClientKeeps
  <2> QED BY <1>3, <2>1, <2>2 DEF Finished
<1> QED BY <1>1, <1>2, <1>3

(* Every step preserves the invariant.                                     *)
LEMMA Inductive == IInv /\ [Next]_vars => IInv'
<1> SUFFICES ASSUME IInv, [Next]_vars PROVE IInv' OBVIOUS
<1>1. ASSUME NEW c \in Candidates, Attempt(c) PROVE IInv'
  BY <1>1, AttemptStartsKeeps, AttemptFailsKeeps, AttemptConnectsKeeps, AttemptReportsKeeps,
     AttemptWithdrawsKeeps DEF Attempt
<1>2. ASSUME NEW r \in Requests, Create(r) PROVE IInv'
  BY <1>2, CreateTcpKeeps, CreateUdpKeeps, AwaitReturnsKeeps, AbandonKeeps, ReclaimKeeps,
     DupKeeps DEF Create
<1>3. ASSUME NEW r \in Requests, Accept(r) \/ Serve(r) \/ Finished(r) PROVE IInv'
  BY <1>2, <1>3, AcceptKeeps, RefuseKeeps, HandoffKeeps, ReleasesKeep DEF Serve
<1>4. ASSUME NEW r \in Requests, NEW scan \in BOOLEAN, GhostEvent(r, scan) PROVE IInv'
  BY <1>4, GhostEventKeeps
<1>5. CASE CloseAll
  BY <1>5, CloseAllKeeps
<1>6. CASE UNCHANGED vars
  BY <1>6 DEF vars, race, purger, IInv, Types, RaceInv, Attempted, Awaited, Chosen, Fresh,
       HasTarget, HasJava, Held, FdInv, JavaNumbers, ClientNumbers, HasClient, TargetNumbers,
       MapEntries, StaysArmed, Registration, NoOrphan
<1> QED BY <1>1, <1>3, <1>4, <1>5, <1>6 DEF Next

(* The invariant holds in every state of every behaviour.                  *)
LEMMA Always == Spec => []IInv
BY Initial, Inductive, PTL DEF Spec

(* The types of the tables, and a stuck counter that never reaches the threshold     *)
(* without being reset (ghost_stuck_track).                                          *)
THEOREM SocketsTyped == Spec => []TypeOK
<1>1. IInv => TypeOK
  BY SocketsAssumption DEF IInv, Types, TypeOK
<1> QED BY <1>1, Always, PTL

(* Every number that C or Kotlin relies upon leads to its own socket, and the map    *)
(* from C's number to it: no release, late winner or reused number of another        *)
(* request closes the socket of a connection in use (the order in conn_finalize).    *)
THEOREM SocketStaysOwn == Spec => []OwnSocket
<1>1. IInv => OwnSocket
  <2> SUFFICES ASSUME IInv, NEW r \in Requests
               PROVE  /\ Held(r) => fdtab[target_fd[r]] = target[r] /\ active[target_fd[r]] = target[r]
                      /\ Held(r) \/ pc[r] \in {"dup", "dup_udp"} =>
                           jfd[target[r]] # 0 /\ fdtab[jfd[target[r]]] = target[r]
    BY DEF OwnSocket
  <2>1. Held(r) => fdtab[target_fd[r]] = target[r] /\ active[target_fd[r]] = target[r]
    BY DEF IInv, FdInv, TargetNumbers, HasTarget, MapEntries
  <2>2. ASSUME HasJava(r) PROVE jfd[target[r]] # 0 /\ fdtab[jfd[target[r]]] = target[r]
    BY <2>2 DEF IInv, Types, RaceInv, Chosen, FdInv, JavaNumbers
  <2> QED BY <2>1, <2>2 DEF HasJava
<1> QED BY <1>1, Always, PTL

(* The purger never takes a registration of a connection that a worker serves: a     *)
(* stamp names the sockets of its own request, and a number is only used when it     *)
(* leads to one of them (stamp_purge).                                               *)
THEOREM ServedStaysArmed == Spec => []StaysArmed
<1>1. IInv => StaysArmed BY DEF IInv
<1> QED BY <1>1, Always, PTL

(* An open Java socket has somebody who will close it, whichever side of a race is   *)
(* late (HappyEyeballs.attempt and the wait of 50 ms).                               *)
THEOREM EverySocketHasACloser == Spec => []NoOrphan
<1>1. IInv => NoOrphan BY DEF IInv
<1> QED BY <1>1, Always, PTL
===============================================================================
