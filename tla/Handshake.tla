------------------------------ MODULE Handshake ------------------------------
(****************************************************************************)
(* One client on a handshake thread (handle_handshake_fd): negotiation of    *)
(* the method, RFC 1929 credentials while the user changes them, the request *)
(* and the replies, byte by byte; and, once a UDP session is up, the headers *)
(* of the datagrams that pass in both directions.                            *)
(*                                                                          *)
(* The client follows the protocol or breaks it, may send its request        *)
(* without waiting for the answer to its greeting, may send data right after *)
(* the request, and may fall silent inside any message, which ends the recv  *)
(* of the handshake by its timeout of 3 s or by the end of the stream. What  *)
(* the shared limits and the sockets answer is an input here: the counters   *)
(* are in ConnSlots and UdpSession, the sockets in Sockets.                   *)
(****************************************************************************)
EXTENDS Wire, FiniteSets

CONSTANTS
  Settings,    \* pairs <<user, password>> the user may configure
  MaxCred,     \* sizeof(g_auth_user) - 1
  MaxChanges,  \* the bound: calls of setSocks5Auth during the handshake
  Greetings,   \* the methods a client may offer
  Credentials, \* pairs a client may offer
  Asks,        \* requests a client may send
  Payload,     \* what the client sends after its request
  LocalAddrs,  \* addresses of the server's end of the control connection
  RelayPort,   \* port of the relay socket, two bytes
  Peers,       \* addresses a client may have
  Senders,     \* addresses datagrams come from on the LAN
  Origins,     \* addresses datagrams come from on the 5G side
  Datagrams,   \* what arrives from the LAN
  Data,        \* payloads from the 5G side
  Nothing

(* Lengths travel in one byte, an IPv4 address has 4 bytes, an IPv6 address   *)
(* 16, a port two.                                                           *)
ASSUME HandshakeAssumption ==
  /\ MaxCred \in 1..255 /\ MaxChanges \in Nat
  /\ \A g \in Greetings : g \in Seq(Byte) /\ Len(g) <= 255
  /\ \A c \in Credentials : /\ c \in Seq(Byte) \X Seq(Byte)
                            /\ Len(c[1]) \in 1..MaxCred /\ Len(c[2]) \in 0..MaxCred
  /\ \A a \in Asks :
       /\ a \in [ver : Byte, cmd : Byte, rsv : Byte, atyp : Byte, host : Seq(Byte), port : Byte \X Byte]
       /\ a.atyp = SOCKS5_ATYP_IPV4 => Len(a.host) = 4
       /\ a.atyp = SOCKS5_ATYP_IPV6 => Len(a.host) = 16
       /\ Len(a.host) <= 255
  /\ Payload \in Seq(Byte) /\ Data \subseteq Seq(Byte) /\ Datagrams \subseteq Seq(Byte)
  /\ RelayPort \in Byte \X Byte /\ \A o \in Origins : o.port \in Byte \X Byte
  /\ \A sa \in (LocalAddrs \ {Nothing}) \union Peers \union Senders \union {o.sa : o \in Origins} :
       /\ sa \in [v6 : BOOLEAN, addr : Seq(Byte)]
       /\ Len(sa.addr) = IF sa.v6 THEN 16 ELSE 4
  /\ Nothing \notin Greetings /\ Nothing # <<0>> /\ Nothing \notin Credentials
  /\ Nothing \notin Asks /\ Nothing \notin Senders
  /\ Nothing \notin [host : [atyp : Byte, addr : Seq(Byte)], port : Seq(Byte), data : Seq(Byte)]

VARIABLES
  auth,     \* g_auth_enabled, g_auth_user, g_auth_pass
  changes,  \* calls of set_auth so far
  inForce,  \* history: the configurations in force since the handshake began
  pc,       \* where the handshake thread is
  fate,     \* history: how the handshake ended
  snap,     \* auth_user, auth_pass and the method the thread has chosen
  offered,  \* the methods it has read
  req,      \* the request it has read
  egress,   \* the 5G socket of this client exists
  stream,   \* bytes of the client not yet read
  silent,   \* the client sends nothing more in time
  said,     \* history: what the client has said
  outbox,   \* the messages the client has been sent
  home,     \* the addresses at the two ends of the control connection
  src,      \* client_src_addr of the session
  last      \* history: the last datagram and what was made of it

config == <<auth, changes, inForce>>
thread == <<pc, fate, snap, offered, req, egress>>
client == <<stream, silent, said>>
relay == <<src, last>>
vars == <<config, thread, client, outbox, home, relay>>

Off == [on |-> FALSE, user |-> <<>>, pass |-> <<>>]
Cut(s) == IF Len(s) > MaxCred THEN Take(s, 0, MaxCred) ELSE s
Stored(s) == IF s[1] = <<>> \/ s[2] = <<>> THEN Off
             ELSE [on |-> TRUE, user |-> Cut(s[1]), pass |-> Cut(s[2])]

Ended == {"handed over", "associated", "closed"}

TypeOK ==
  /\ auth \in {Stored(s) : s \in Settings} /\ auth \in inForce
  /\ inForce \subseteq {Stored(s) : s \in Settings}
  /\ changes \in 0..MaxChanges
  /\ pc \in {"greeting", "method", "auth", "request", "connect", "udp"} \union Ended
  /\ silent \in BOOLEAN /\ egress \in BOOLEAN
  /\ src \in Senders \union {Nothing}

Init ==
  /\ auth \in {Stored(s) : s \in Settings}
  /\ changes = 0 /\ inForce = {auth}
  /\ pc = "greeting" /\ fate = "open" /\ snap = Off /\ offered = <<>> /\ req = Nothing
  /\ egress = FALSE
  /\ stream = <<>> /\ silent = FALSE
  /\ said = [methods |-> Nothing, creds |-> Nothing, ask |-> Nothing]
  /\ outbox = <<>>
  /\ home \in [local : LocalAddrs, peer : Peers]
  /\ src = Nothing /\ last = Nothing

(****************************************************************************)
(* The client                                                                *)
(****************************************************************************)
AskBytes(a) ==
  <<a.ver, a.cmd, a.rsv, a.atyp>>
    \o (IF a.atyp = SOCKS5_ATYP_DOMAIN THEN <<Len(a.host)>> ELSE <<>>) \o a.host \o a.port
Heard(msg) == outbox # <<>> /\ outbox[Len(outbox)] = msg

(* The bytes are sent, or only the first of them                             *)
Sends(bytes) ==
  /\ ~silent
  /\ \/ stream' = stream \o bytes /\ silent' = silent
     \/ \E n \in 0..(Len(bytes) - 1) : stream' = stream \o Take(bytes, 0, n) /\ silent' = TRUE
  /\ UNCHANGED <<config, thread, outbox, home, relay>>

ClientGreets ==
  /\ said.methods = Nothing
  /\ \E g \in Greetings :
       /\ Sends(<<5, Len(g)>> \o g)
       /\ said' = [said EXCEPT !.methods = g]

(* Greeting, request and data at once, by a client that offers no password   *)
ClientHurries ==
  /\ said.methods = Nothing
  /\ \E a \in Asks :
       /\ Sends(<<5, 1, 0>> \o AskBytes(a) \o Payload)
       /\ said' = [said EXCEPT !.methods = <<0>>, !.ask = a]

ClientAuthenticates ==
  /\ Heard(<<5, 2>>) /\ said.creds = Nothing
  /\ \E c \in Credentials :
       /\ Sends(<<1, Len(c[1])>> \o c[1] \o <<Len(c[2])>> \o c[2])
       /\ said' = [said EXCEPT !.creds = c]

ClientAsks ==
  /\ (Heard(<<5, 0>>) \/ Heard(<<1, 0>>)) /\ said.ask = Nothing
  /\ \E a \in Asks :
       /\ Sends(AskBytes(a) \o Payload)
       /\ said' = [said EXCEPT !.ask = a]

(****************************************************************************)
(* The configuration, changed from Kotlin at any time                        *)
(****************************************************************************)
socks5_server_set_auth ==
  /\ changes < MaxChanges /\ pc \notin Ended
  /\ \E s \in Settings :
       /\ auth' = Stored(s)
       /\ inForce' = inForce \union {Stored(s)}
  /\ changes' = changes + 1
  /\ UNCHANGED <<thread, client, outbox, home, relay>>

(****************************************************************************)
(* The handshake thread                                                      *)
(****************************************************************************)
Says(msg) == outbox' = Append(outbox, msg)
Closes(why) == pc' = "closed" /\ fate' = why

(* recv of a message: it breaks the protocol or does not come in time        *)
Misread(r) ==
  /\ r.is = "bad" \/ (r.is = "short" /\ silent)
  /\ Closes("rejected")
  /\ UNCHANGED <<config, snap, offered, req, egress, client, outbox, home, relay>>
Consume(r) == stream' = From(stream, r.used)

ReadGreeting ==
  LET r == GreetingIn(stream)
  IN /\ pc = "greeting"
     /\ \/ Misread(r)
        \/ /\ r.is = "whole"
           /\ Consume(r) /\ offered' = r.value /\ pc' = "method"
           /\ UNCHANGED <<config, fate, snap, req, egress, silent, said, outbox, home, relay>>

SelectMethod ==
  LET desired == IF auth.on THEN 2 ELSE 0
  IN /\ pc = "method"
     /\ snap' = auth
     /\ IF socks5_method_offered(offered, desired)
        THEN /\ Says(<<5, desired>>) /\ pc' = IF auth.on THEN "auth" ELSE "request"
             /\ UNCHANGED fate
        ELSE Says(<<5, 255>>) /\ Closes("refused")
     /\ UNCHANGED <<config, offered, req, egress, client, home, relay>>

(* Mutant: the password of the moment with the user name of the snapshot. *)
ExpectedTorn == [user |-> snap.user, pass |-> auth.pass]

(* The pair do_auth_check compares with                                      *)
Expected == [user |-> snap.user, pass |-> snap.pass]

do_auth_check ==
  LET r == CredentialsIn(stream)
  IN /\ pc = "auth"
     /\ \/ Misread(r)
        \/ /\ r.is = "whole"
           /\ Consume(r)
           /\ IF socks5_check_credentials(r.value.user, r.value.pass, Expected)
              THEN Says(<<1, 0>>) /\ pc' = "request" /\ UNCHANGED fate
              ELSE Says(<<1, 1>>) /\ Closes("refused")
           /\ UNCHANGED <<config, snap, offered, req, egress, silent, said, home, relay>>

ReadRequest ==
  LET r == RequestIn(stream)
  IN /\ pc = "request"
     /\ \/ Misread(r)
        \/ /\ r.is = "whole"
           /\ Consume(r) /\ req' = r.value
           /\ IF r.value.cmd = 1 THEN pc' = "connect" /\ UNCHANGED fate
              ELSE IF socks5_is_supported_cmd(r.value.cmd) THEN pc' = "udp" /\ UNCHANGED fate
              ELSE Closes("unsupported")
           /\ UNCHANGED <<config, snap, offered, egress, silent, said, outbox, home, relay>>

(* At the limit the connection is closed without a reply                     *)
Connect ==
  /\ pc = "connect"
  /\ \/ Closes("full") /\ UNCHANGED <<egress, outbox>>
     \/ Closes("unreachable") /\ Says(ZeroReply(4)) /\ UNCHANGED egress
     \/ pc' = "handed over" /\ fate' = "served" /\ egress' = TRUE /\ Says(ZeroReply(0))
  /\ UNCHANGED <<config, snap, offered, req, client, home, relay>>

(* The answer to 0x03 names the server's end of the control connection and   *)
(* the port of the relay socket; if getsockname fails, zeros                 *)
BndReply ==
  IF home.local = Nothing THEN ZeroReply(0)
  ELSE LET sa == Plain(home.local) IN socks5_encode_reply(0, sa.v6, sa.addr, RelayPort)

(* Mutant: success is told before the 5G socket exists. *)
StartReplyFirst ==
  /\ pc = "udp"
  /\ Says(IF req.cmd = 3 THEN BndReply ELSE ZeroReply(0))
  /\ \/ Closes("unreachable") /\ UNCHANGED egress
     \/ egress' = TRUE /\ pc' = "associated" /\ fate' = "served"
  /\ UNCHANGED <<config, snap, offered, req, client, home, relay>>

udp_start_session ==
  /\ pc = "udp"
  /\ \/ Closes("full") /\ Says(ZeroReply(1)) /\ UNCHANGED egress
     \/ Closes("no memory") /\ UNCHANGED <<egress, outbox>>
     \/ req.cmd = 3 /\ Closes("no relay socket") /\ Says(ZeroReply(1)) /\ UNCHANGED egress
     \/ Closes("unreachable") /\ Says(ZeroReply(4)) /\ UNCHANGED egress
     \/ /\ egress' = TRUE
        /\ Says(IF req.cmd = 3 THEN BndReply ELSE ZeroReply(0))
        /\ \/ pc' = "associated" /\ fate' = "served"
           \/ Closes("not registered")
  /\ UNCHANGED <<config, snap, offered, req, client, home, relay>>

(****************************************************************************)
(* Datagrams of a session. 0x03: a datagram of the relay socket, dropped if  *)
(* it comes from another host; its sender becomes the address of the answers.*)
(* 0x04: the body of a frame of the stream (UdpSession reassembles it)       *)
(****************************************************************************)
Sent(h, d) == [host |-> [atyp |-> h.atyp, addr |-> h.addr], port |-> h.port, data |-> From(d, h.hlen)]
RouteOf(h, d) == IF h.hlen > 0 /\ Len(d) > h.hlen THEN Sent(h, d) ELSE Nothing

(* last is only history: that the 5G side sends something, which is always   *)
(* possible and changes nothing else, between two datagrams of the LAN leaves *)
(* out no state of the session                                                *)
Looked == last # Nothing => last.way = "down"

udp_local_event ==
  /\ pc = "associated" /\ req.cmd = 3 /\ Looked
  /\ \E from \in Senders, d \in Datagrams :
       LET h == socks5_udp_parse(d)
           taken == h.hlen > 0 /\ same_ip(from, home.peer)
       IN /\ src' = IF taken THEN from ELSE src
          /\ last' = [way |-> "up", from |-> from, bytes |-> d,
                      out |-> IF taken THEN RouteOf(h, d) ELSE Nothing]
  /\ UNCHANGED <<config, thread, client, outbox, home>>

FrameArrives ==
  /\ pc = "associated" /\ req.cmd = 4 /\ Looked
  /\ \E d \in Datagrams :
       last' = [way |-> "up", from |-> home.peer, bytes |-> d,
                out |-> RouteOf(socks5_udp_parse(d), d)]
  /\ UNCHANGED <<config, thread, client, outbox, home, src>>

(* The answer of the 5G side: nobody to send it to before the first datagram *)
udp_remote_event ==
  /\ pc = "associated"
  /\ \E o \in Origins, p \in Data :
       LET sa == Plain(o.sa)
           d == socks5_udp_encode(sa.v6, sa.addr, o.port) \o p
           frame == <<Len(d) \div 256, Len(d) % 256>> \o d
       IN last' = [way |-> "down", origin |-> o, data |-> p,
                   to |-> IF req.cmd = 3 THEN src ELSE home.peer,
                   bytes |-> IF req.cmd = 3 THEN d ELSE frame]
  /\ UNCHANGED <<config, thread, client, outbox, home, src>>

Next ==
  \/ ClientGreets \/ ClientHurries \/ ClientAuthenticates \/ ClientAsks
  \/ socks5_server_set_auth
  \/ ReadGreeting \/ SelectMethod \/ do_auth_check \/ ReadRequest
  \/ Connect \/ udp_start_session
  \/ udp_local_event \/ FrameArrives \/ udp_remote_event

Spec == Init /\ [][Next]_vars
(****************************************************************************)
(* What the protocol says, independently of the code's offsets                *)
(****************************************************************************)
WellFormed(atyp, addr) ==
  \/ atyp = 1 /\ Len(addr) = 4
  \/ atyp = 4 /\ Len(addr) = 16
  \/ atyp = 3 /\ Len(addr) \in 1..255
ValidAsk(a) == a.ver = 5 /\ a.rsv = 0 /\ WellFormed(a.atyp, a.host)
LengthField(host) == IF host.atyp = 3 THEN <<Len(host.addr)>> ELSE <<>>
DatagramFor(host, port, data) ==
  <<0, 0, 0, host.atyp>> \o LengthField(host) \o host.addr \o port \o data
HostOf(sa) ==
  IF ~sa.v6 THEN [atyp |-> 1, addr |-> sa.addr]
  ELSE IF \A i \in 1..12 : sa.addr[i] = (IF i > 10 THEN 255 ELSE 0)
  THEN [atyp |-> 1, addr |-> SubSeq(sa.addr, 13, 16)]
  ELSE [atyp |-> 4, addr |-> sa.addr]

(* A client is let in by c, a configuration                                   *)
Admits(c) ==
  IF c.on THEN (\E i \in DOMAIN said.methods : said.methods[i] = 2) /\ said.creds = <<c.user, c.pass>>
  ELSE \E i \in DOMAIN said.methods : said.methods[i] = 0

(* Authentication is atomic: a client whose request is read was let in by    *)
(* one configuration that was in force during its handshake, never by a user *)
(* name of one and a password of another, and one that is refused was        *)
(* refused by such a configuration, although the user may change the         *)
(* credentials between the choice of the method and their check.             *)
Authorized ==
  /\ pc \in {"request", "connect", "udp", "handed over", "associated"} => \E c \in inForce : Admits(c)
  /\ fate = "refused" => \E c \in inForce : ~Admits(c)

(* The recv calls take exactly the bytes of the handshake: what the server   *)
(* acts on is what the client asked for, data sent right behind the request  *)
(* is left for the forwarder, and only a client that breaks the protocol or  *)
(* falls silent is rejected.                                                 *)
Understood ==
  /\ req # Nothing =>
       LET a == said.ask
       IN /\ ValidAsk(a)
          /\ req = [cmd |-> a.cmd, atyp |-> a.atyp, host |-> a.host, port |-> a.port[1] * 256 + a.port[2]]
          /\ stream = SubSeq(Payload, 1, Len(stream))
  /\ fate = "rejected" => \/ silent
                          \/ said.methods = <<>>
                          \/ said.ask # Nothing /\ ~ValidAsk(said.ask)

(* The client learns the truth: at most one answer, the last thing it hears, *)
(* success exactly if the 5G socket of its request exists (a black hole      *)
(* otherwise: the client waits and never retries), "host unreachable"        *)
(* exactly if there is none, and for 0x03 an address and a port that are     *)
(* those of the relay, in the family they belong to.                         *)
Told ==
  LET answers == {i \in DOMAIN outbox : Len(outbox[i]) > 2}
      m == outbox[Len(outbox)]
      n == Len(m)
      success == answers # {} /\ m[2] = 0
  IN /\ answers \subseteq {Len(outbox)}
     /\ success <=> egress
     /\ (answers # {} /\ m[2] = 4) <=> fate = "unreachable"
     /\ fate = "served" => success
     /\ (success /\ req.cmd = 3 /\ home.local # Nothing) =>
          /\ HostOf(home.local) = [atyp |-> m[4], addr |-> SubSeq(m, 5, n - 2)]
          /\ RelayPort = SubSeq(m, n - 1, n)

(* Datagrams keep their destination, origin and data: one from the client's  *)
(* host, in either form of its address, that is a correct request with data  *)
(* is sent to the destination it names and no other is; an answer goes to    *)
(* the client's host only and names the origin in its own family.            *)
RoutedRight ==
  last # Nothing =>
    IF last.way = "up"
    THEN LET mine == HostOf(last.from) = HostOf(home.peer)
             x == last.out
         IN IF x # Nothing
            THEN mine /\ x.data # <<>> /\ WellFormed(x.host.atyp, x.host.addr)
                   /\ last.bytes = DatagramFor(x.host, x.port, x.data)
            ELSE mine => ~\E a \in Asks, n \in 1..Len(last.bytes) :
                   /\ WellFormed(a.atyp, a.host)
                   /\ last.bytes = DatagramFor([atyp |-> a.atyp, addr |-> a.host], a.port,
                                               SubSeq(last.bytes, n, Len(last.bytes)))
    ELSE LET d == DatagramFor(HostOf(last.origin.sa), last.origin.port, last.data)
         IN /\ last.to # Nothing => HostOf(last.to) = HostOf(home.peer)
            /\ last.bytes = IF req.cmd = 3 THEN d ELSE <<Len(d) \div 256, Len(d) % 256>> \o d
=============================================================================
