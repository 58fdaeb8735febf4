------------------------------- MODULE Sockets -------------------------------
(****************************************************************************)
(* The sockets of the proxy across the border between Kotlin and C: the race *)
(* of connection attempts (HappyEyeballs), the map activeSockets keyed by    *)
(* descriptor numbers, the two references to one socket that the native copy *)
(* of detachFd() makes, their release in conn_finalize, and the purger of    *)
(* epoll registrations that outlive their connection.                        *)
(*                                                                          *)
(* The kernel gives the lowest free number to what is opened, and a socket   *)
(* dies with its last number. Every request has a client socket and one      *)
(* candidate for each address its name may resolve to. Registrations carry   *)
(* the request as the stamp gen<<32|slot, which is never used twice (see     *)
(* FreshTenant in ConnSlots).                                                *)
(****************************************************************************)
EXTENDS Integers, Sequences

CONSTANTS
  Requests,   \* connections and UDP sessions the handshake threads serve
  Addrs,      \* addresses of the targets
  Answers,    \* Answers[r]: what the name of request r may resolve to
  Udp,        \* the requests that may ask for a UDP session
  MaxFd,      \* the bound: numbers the process uses
  RingSize,   \* STAMP_RING_SIZE
  Threshold,  \* GHOST_PURGE_THRESHOLD
  Failing,    \* the requests whose release Kotlin does not carry out
  NoSocket, NoRequest

Fds == 1..MaxFd
Candidates == Requests \X Addrs
ClientOf(r) == <<r, "client">>
Sockets == Candidates \union {ClientOf(r) : r \in Requests}

ASSUME SocketsAssumption ==
  /\ MaxFd \in Nat /\ RingSize \in Nat \ {0} /\ Threshold \in Nat \ {0}
  /\ Failing \subseteq Requests /\ Udp \subseteq Requests
  /\ Answers \in [Requests -> SUBSET SUBSET Addrs]
  /\ Addrs # {} /\ "client" \notin Addrs /\ NoSocket \notin Sockets /\ NoRequest \notin Requests

VARIABLES
  fdtab,     \* the process's descriptor table
  jfd,       \* jfd[c]: number held by the Java socket c, 0 if closed
  attempt,   \* attempt[c]: place of the attempt to connect c
  winner, abandoned, latch,  \* of the race of a request
  pc,        \* place of the thread that serves a request
  target,    \* target[r]: the socket that createSocketBoundToNetwork returns
  client_fd, target_fd,      \* the numbers C holds
  active,    \* activeSockets
  epoll,     \* registrations of the TCP workers
  ring,      \* g_stamp_ring, the oldest stamp first
  stuck      \* the one entry of g_stuck that is used

race == <<attempt, winner, abandoned, latch>>
purger == <<ring, stuck>>
vars == <<fdtab, jfd, race, pc, target, client_fd, target_fd, active, epoll, purger>>

Init ==
  /\ fdtab = [n \in Fds |-> NoSocket]
  /\ jfd = [c \in Candidates |-> 0]
  /\ attempt = [c \in Candidates |-> "none"]
  /\ winner = [r \in Requests |-> NoSocket]
  /\ abandoned = [r \in Requests |-> FALSE]
  /\ latch = [r \in Requests |-> FALSE]
  /\ pc = [r \in Requests |-> "accept"]
  /\ target = [r \in Requests |-> NoSocket]
  /\ client_fd = [r \in Requests |-> 0]
  /\ target_fd = [r \in Requests |-> 0]
  /\ active = [n \in Fds |-> NoSocket]
  /\ epoll = {}
  /\ ring = <<>>
  /\ stuck = [stamp |-> NoRequest, count |-> 0]

------------------------------------------------------------------------------
(* The kernel.                                                                *)

Free(n) == fdtab[n] = NoSocket
Lowest(n) == Free(n) /\ \A m \in Fds : Free(m) => n <= m

Opened(n, s) == [fdtab EXCEPT ![n] = s]
(* Number 0 stands for a Java socket that is already closed: nothing to do. *)
Closed(n) == [m \in Fds |-> IF m = n THEN NoSocket ELSE fdtab[m]]
(* A registration goes with the last number of its socket. *)
Alive(regs, table) == {g \in regs : \E n \in Fds : table[n] = g.socket}

(* EPOLL_CTL_DEL finds a registration by the number and the socket behind it. *)
Deleted(regs, numbers) == {g \in regs : ~(g.fd \in numbers /\ fdtab[g.fd] = g.socket)}

CloseJava(c) ==
  /\ fdtab' = Closed(jfd[c])
  /\ jfd' = [jfd EXCEPT ![c] = 0]
  /\ epoll' = Alive(epoll, fdtab')

------------------------------------------------------------------------------
(* HappyEyeballs.attempt, run by a thread of connectExecutor for each address. *)

AttemptStarts(c) ==
  /\ attempt[c] = "queued"
  /\ IF winner[c[1]] # NoSocket \/ abandoned[c[1]]
     THEN attempt' = [attempt EXCEPT ![c] = "done"] /\ UNCHANGED <<fdtab, jfd>>
     ELSE \E n \in Fds :
            /\ Lowest(n)
            /\ fdtab' = Opened(n, c)
            /\ jfd' = [jfd EXCEPT ![c] = n]
            /\ attempt' = [attempt EXCEPT ![c] = "connecting"]
  /\ UNCHANGED <<winner, abandoned, latch, pc, target, client_fd, target_fd, active, epoll, purger>>

AttemptFails(c) ==
  /\ attempt[c] = "connecting"
  /\ CloseJava(c)
  /\ attempt' = [attempt EXCEPT ![c] = "done"]
  /\ UNCHANGED <<winner, abandoned, latch, pc, target, client_fd, target_fd, active, purger>>

(* connect() has returned: the first one wins, the others close their socket. *)
AttemptConnects(c) ==
  /\ attempt[c] = "connecting"
  /\ IF winner[c[1]] = NoSocket
     THEN /\ winner' = [winner EXCEPT ![c[1]] = c]
          /\ attempt' = [attempt EXCEPT ![c] = "won"]
          /\ UNCHANGED <<fdtab, jfd, epoll>>
     ELSE /\ CloseJava(c)
          /\ attempt' = [attempt EXCEPT ![c] = "done"]
          /\ UNCHANGED winner
  /\ UNCHANGED <<abandoned, latch, pc, target, client_fd, target_fd, active, purger>>

(* Mutant: a winner does not look whether anybody still waits for it. *)
AttemptReportsAlways(c) ==
  /\ attempt[c] = "won"
  /\ latch' = [latch EXCEPT ![c[1]] = TRUE]
  /\ attempt' = [attempt EXCEPT ![c] = "done"]
  /\ UNCHANGED <<fdtab, jfd, winner, abandoned, pc, target, client_fd, target_fd, active, epoll, purger>>

AttemptReports(c) ==
  /\ attempt[c] = "won"
  /\ IF abandoned[c[1]]
     THEN /\ CloseJava(c)
          /\ attempt' = [attempt EXCEPT ![c] = "withdraws"]
          /\ UNCHANGED latch
     ELSE /\ latch' = [latch EXCEPT ![c[1]] = TRUE]
          /\ attempt' = [attempt EXCEPT ![c] = "done"]
          /\ UNCHANGED <<fdtab, jfd, epoll>>
  /\ UNCHANGED <<winner, abandoned, pc, target, client_fd, target_fd, active, purger>>

AttemptWithdraws(c) ==
  /\ attempt[c] = "withdraws"
  /\ winner' = [winner EXCEPT ![c[1]] = IF @ = c THEN NoSocket ELSE @]
  /\ attempt' = [attempt EXCEPT ![c] = "done"]
  /\ UNCHANGED <<fdtab, jfd, abandoned, latch, pc, target, client_fd, target_fd, active, epoll, purger>>

------------------------------------------------------------------------------
(* createSocketBoundToNetwork, called by a handshake thread.                  *)

Goto(r, place) == pc' = [pc EXCEPT ![r] = place]

Accept(r) ==
  /\ pc[r] = "accept" /\ Goto(r, "create")
  /\ \E n \in Fds :
       /\ Lowest(n)
       /\ fdtab' = Opened(n, ClientOf(r))
       /\ client_fd' = [client_fd EXCEPT ![r] = n]
  /\ UNCHANGED <<jfd, race, target, target_fd, active, epoll, purger>>

(* No address, or no usable network, is a refusal at once. IPv6 starts at once   *)
(* and IPv4 after a delay: each attempt may be late for any time.               *)
CreateTcp(r) ==
  /\ pc[r] = "create"
  /\ \E found \in Answers[r] :
       /\ attempt' = [c \in Candidates |->
            IF c[1] = r /\ c[2] \in found THEN "queued" ELSE attempt[c]]
       /\ Goto(r, IF found = {} THEN "refuse" ELSE "await")
  /\ UNCHANGED <<fdtab, jfd, winner, abandoned, latch, target, client_fd, target_fd, active, epoll, purger>>

CreateUdp(r) ==
  /\ pc[r] = "create" /\ r \in Udp /\ Goto(r, "dup_udp")
  /\ LET c == <<r, CHOOSE a \in Addrs : TRUE>> IN
     \E n \in Fds :
       /\ Lowest(n)
       /\ fdtab' = Opened(n, c)
       /\ jfd' = [jfd EXCEPT ![c] = n]
       /\ target' = [target EXCEPT ![r] = c]
  /\ UNCHANGED <<race, client_fd, target_fd, active, epoll, purger>>

(* latch.await returns TRUE, or FALSE at the deadline. *)
AwaitReturns(r) ==
  /\ pc[r] = "await"
  /\ IF latch[r] /\ winner[r] # NoSocket
     THEN Goto(r, "dup") /\ target' = [target EXCEPT ![r] = winner[r]]
     ELSE Goto(r, "abandon") /\ UNCHANGED target
  /\ UNCHANGED <<fdtab, jfd, race, client_fd, target_fd, active, epoll, purger>>

Abandon(r) ==
  /\ pc[r] = "abandon" /\ Goto(r, "reclaim")
  /\ abandoned' = [abandoned EXCEPT ![r] = TRUE]
  /\ UNCHANGED <<fdtab, jfd, attempt, winner, latch, target, client_fd, target_fd, active, epoll, purger>>

(* Mutant: a winner that came before the flag is forgotten. *)
ReclaimForgets(r) ==
  /\ pc[r] = "reclaim" /\ Goto(r, "refuse")
  /\ winner' = [winner EXCEPT ![r] = NoSocket]
  /\ UNCHANGED <<fdtab, jfd, epoll, attempt, abandoned, latch, target, client_fd, target_fd, active, purger>>

(* After 50 ms: a winner that came before the flag is closed here. *)
Reclaim(r) ==
  /\ pc[r] = "reclaim" /\ Goto(r, "refuse")
  /\ winner' = [winner EXCEPT ![r] = NoSocket]
  /\ IF winner[r] = NoSocket THEN UNCHANGED <<fdtab, jfd, epoll>> ELSE CloseJava(winner[r])
  /\ UNCHANGED <<attempt, abandoned, latch, target, client_fd, target_fd, active, purger>>

(* ParcelFileDescriptor.fromSocket and detachFd: a second number, for C, and its *)
(* entry in the map.                                                             *)
Dup(r) ==
  /\ pc[r] \in {"dup", "dup_udp"}
  /\ \/ \E n \in Fds :
          /\ Lowest(n)
          /\ fdtab' = Opened(n, target[r])
          /\ target_fd' = [target_fd EXCEPT ![r] = n]
          /\ active' = [active EXCEPT ![n] = target[r]]
          /\ Goto(r, IF pc[r] = "dup" THEN "handoff" ELSE "session")
          /\ UNCHANGED <<jfd, epoll>>
     \/ CloseJava(target[r]) /\ Goto(r, "refuse") /\ UNCHANGED <<target_fd, active>>
  /\ UNCHANGED <<race, target, client_fd, purger>>

------------------------------------------------------------------------------
(* The C side.                                                                *)

(* A refused client is told so and closed. *)
Refuse(r) ==
  /\ pc[r] = "refuse" /\ Goto(r, "done")
  /\ fdtab' = Closed(client_fd[r])
  /\ UNCHANGED <<jfd, race, target, client_fd, target_fd, active, epoll, purger>>

Registration(r, s, n) == [stamp |-> r, socket |-> s, fd |-> n]
Stamp(r) == [stamp |-> r, fds |-> {client_fd[r], target_fd[r]}, inodes |-> {ClientOf(r), target[r]}]

(* handoff_to_worker: no slot, a failure that ends in conn_finalize, or both    *)
(* registrations and ghost_stamp_record.                                       *)
Handoff(r) ==
  /\ pc[r] = "handoff"
  /\ \/ Goto(r, "no_slot") /\ UNCHANGED <<epoll, ring>>
     \/ Goto(r, "close_client") /\ UNCHANGED <<epoll, ring>>
     \/ /\ Goto(r, "live")
        /\ epoll' = epoll \union {Registration(r, ClientOf(r), client_fd[r]),
                                  Registration(r, target[r], target_fd[r])}
        /\ ring' = (IF Len(ring) = RingSize THEN Tail(ring) ELSE ring) \o <<Stamp(r)>>
  /\ UNCHANGED <<fdtab, jfd, race, target, client_fd, target_fd, active, stuck>>

CloseClient(r, here, there) ==
  /\ pc[r] = here /\ Goto(r, there)
  /\ fdtab' = Closed(client_fd[r])
  /\ epoll' = Alive(epoll, fdtab')
  /\ UNCHANGED <<jfd, race, target, client_fd, target_fd, active, purger>>

(* release_java_socket: onSocketClosed takes the number out of the map and closes *)
(* what it finds there, unless the call does not get through.                     *)
Release(r, here, there) ==
  /\ pc[r] = here /\ Goto(r, there)
  /\ IF r \in Failing \/ active[target_fd[r]] = NoSocket
     THEN UNCHANGED <<fdtab, jfd, active, epoll>>
     ELSE /\ CloseJava(active[target_fd[r]])
          /\ active' = [active EXCEPT ![target_fd[r]] = NoSocket]
  /\ UNCHANGED <<race, target, client_fd, target_fd, purger>>

CloseTarget(r, here, there) ==
  /\ pc[r] = here /\ Goto(r, there)
  /\ fdtab' = Closed(target_fd[r])
  /\ epoll' = Alive(epoll, fdtab')
  /\ UNCHANGED <<jfd, race, target, client_fd, target_fd, active, purger>>

(* Mutant: the number is closed before Kotlin has been told. *)
CloseThenRelease(r) ==
  \/ CloseClient(r, "close_client", "release")
  \/ CloseTarget(r, "release", "close_target")
  \/ Release(r, "close_target", "done")

(* conn_finalize and udp_conn_finalize. *)
Finalize(r) ==
  \/ CloseClient(r, "close_client", "release")
  \/ Release(r, "release", "close_target")
  \/ CloseTarget(r, "close_target", "done")

(* A worker of either kind is done with the connection and begins to finalize it. *)
Finished(r) == CloseClient(r, "live", "release") \/ CloseClient(r, "session", "release")

(* The way out of handoff_to_worker without a slot. *)
TurnAway(r) ==
  \/ Release(r, "no_slot", "away_client")
  \/ CloseClient(r, "away_client", "away_target")
  \/ CloseTarget(r, "away_target", "done")

(* The service has stopped the engine, which closes the workers' epoll sets, and *)
(* closes what is left in the map.                                               *)
CloseAll ==
  /\ \A r \in Requests : pc[r] \in {"accept", "done"}
  /\ \E n \in Fds : active[n] # NoSocket
  /\ LET left == {active[n] : n \in Fds} \ {NoSocket} IN
     /\ fdtab' = [n \in Fds |-> IF \E c \in left : jfd[c] = n THEN NoSocket ELSE fdtab[n]]
     /\ jfd' = [c \in Candidates |-> IF c \in left THEN 0 ELSE jfd[c]]
  /\ active' = [n \in Fds |-> NoSocket]
  /\ epoll' = {}
  /\ UNCHANGED <<race, pc, target, client_fd, target_fd, purger>>

------------------------------------------------------------------------------
(* The purger.                                                                *)

(* A connection is gone and the registration of its socket is not: level-      *)
(* triggered epoll reports it in every round, and the check of the generation  *)
(* drops it (CONN_EV_STALE, CONN_EV_INACTIVE).                                 *)
Ghost(r) == pc[r] = "done" /\ \E g \in epoll : g.stamp = r

(* Mutant: the recorded numbers are taken as they are. *)
FastPathBlind(stamp) == stamp.fds

(* The recorded numbers, if they still belong to the recorded sockets. *)
FastPath(stamp) == {n \in stamp.fds : fdtab[n] \in stamp.inodes}

(* /proc/self/fd: every number of the recorded sockets; at most once in 200 ms. *)
Scan(stamp) == {n \in Fds : fdtab[n] \in stamp.inodes}

(* stamp_purge: the registrations that are left. *)
StampPurge(r, scan) ==
  LET hits == {i \in 1..Len(ring) : ring[i].stamp = r}
      numbers == UNION {FastPath(ring[i]) \union (IF scan THEN Scan(ring[i]) ELSE {}) : i \in hits}
  IN Deleted(epoll, numbers)

(* ghost_stuck_track: (u64 >> 13) & 511 is 0 for every stamp, since a slot index   *)
(* is below 8192, so that all stamps share one entry; a purge is due whenever the  *)
(* count is a multiple of the threshold.                                           *)
GhostEvent(r, scan) ==
  /\ Ghost(r)
  /\ LET count == (IF stuck.stamp = r THEN stuck.count ELSE 0) + 1
         due == count = Threshold
     IN /\ stuck' = [stamp |-> r, count |-> IF due THEN 0 ELSE count]
        /\ epoll' = IF due THEN StampPurge(r, scan) ELSE epoll
  /\ UNCHANGED <<fdtab, jfd, race, pc, target, client_fd, target_fd, active, ring>>

------------------------------------------------------------------------------
Attempt(c) ==
  \/ AttemptStarts(c) \/ AttemptFails(c) \/ AttemptConnects(c)
  \/ AttemptReports(c) \/ AttemptWithdraws(c)

Create(r) ==
  \/ CreateTcp(r) \/ CreateUdp(r) \/ AwaitReturns(r) \/ Abandon(r)
  \/ Reclaim(r) \/ Dup(r)

Serve(r) == Create(r) \/ Refuse(r) \/ Handoff(r) \/ Finalize(r) \/ TurnAway(r)

Next ==
  \/ \E c \in Candidates : Attempt(c)
  \/ \E r \in Requests : Accept(r) \/ Serve(r) \/ Finished(r)
  \/ \E r \in Requests, scan \in BOOLEAN : GhostEvent(r, scan)
  \/ CloseAll

Spec == Init /\ [][Next]_vars

(* Threads are scheduled and connect() has a time limit. Nothing makes a peer end *)
(* a connection or the user stop the proxy.                                       *)
FairSpec ==
  /\ Spec
  /\ \A c \in Candidates : WF_vars(Attempt(c))
  /\ \A r \in Requests : WF_vars(Serve(r))

(* Besides, level-triggered epoll reports a ghost in every round, and 200 ms pass *)
(* between two purges, so that the table of numbers is scanned again and again.   *)
ScannedPurge(r) == GhostEvent(r, TRUE) /\ stuck'.count = 0
StormSpec ==
  /\ FairSpec
  /\ \A r \in Requests : WF_vars(GhostEvent(r, TRUE)) /\ SF_vars(ScannedPurge(r))

------------------------------------------------------------------------------
Registrations == [stamp : Requests, socket : Sockets, fd : Fds]

TypeOK ==
  /\ fdtab \in [Fds -> Sockets \union {NoSocket}]
  /\ jfd \in [Candidates -> 0..MaxFd]
  /\ winner \in [Requests -> Candidates \union {NoSocket}]
  /\ target \in [Requests -> Candidates \union {NoSocket}]
  /\ active \in [Fds -> Candidates \union {NoSocket}]
  /\ epoll \subseteq Registrations
  /\ stuck.count \in 0..Threshold

(* The places where C, or the thread that creates a socket for it, relies on both  *)
(* references and on the entry in the map.                                         *)
Held(r) == pc[r] \in {"handoff", "live", "session", "close_client", "release", "no_slot"}

(* A socket in use belongs to its connection alone: its two numbers are open, and   *)
(* the map leads from C's number to it. No release, late winner or reused number of *)
(* another request has closed it (the order in conn_finalize).                      *)
OwnSocket ==
  \A r \in Requests :
    /\ Held(r) => /\ fdtab[target_fd[r]] = target[r]
                  /\ active[target_fd[r]] = target[r]
    /\ Held(r) \/ pc[r] \in {"dup", "dup_udp"} =>
         jfd[target[r]] # 0 /\ fdtab[jfd[target[r]]] = target[r]

(* A connection that a worker serves is armed with both sockets: the purger never    *)
(* takes the registration of a number that has passed to somebody else.              *)
StaysArmed ==
  \A r \in Requests : pc[r] = "live" =>
    {Registration(r, ClientOf(r), client_fd[r]), Registration(r, target[r], target_fd[r])} \subseteq epoll

(* An open Java socket has somebody who will close it: its attempt, the thread that   *)
(* waits for the race, or C by way of the map. A winner that comes too late is closed *)
(* by one of the two sides (HappyEyeballs.attempt, the 50 ms wait). Left are only the *)
(* sockets whose release did not reach Kotlin.                                        *)
NoOrphan ==
  \A c \in Candidates : jfd[c] # 0 =>
    LET r == c[1] IN
    \/ attempt[c] \in {"connecting", "won"}
    \/ winner[r] = c /\ pc[r] \in {"await", "abandon", "reclaim"}
    \/ target[r] = c /\ (Held(r) \/ pc[r] \in {"dup", "dup_udp"})
    \/ target[r] = c /\ r \in Failing

(* Whatever the race, the failures and the order of the closes, a request that has    *)
(* ended leaves none of its sockets open.                                             *)
Drains ==
  \A r \in Requests \ Failing :
    pc[r] \in {"refuse", "no_slot", "close_client", "release"}
      ~> \A n \in Fds : fdtab[n] # NoSocket => fdtab[n][1] # r

(* The comment on the purger: whoever holds the socket, the registration is removed   *)
(* and the hot loop is cut. It does not hold (README, section 3).                     *)
StormCut == \A r \in Requests : Ghost(r) ~> ~Ghost(r)
===============================================================================
