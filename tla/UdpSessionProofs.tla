-------------------------- MODULE UdpSessionProofs --------------------------
(***************************************************************************)
(* Proofs about UdpSession for every number of slots and clients, every    *)
(* size of bucket, frame and socket buffer and every load: the counter is  *)
(* exact and nothing but what a full bucket has lost survives a stop, the  *)
(* masks fit, and frames stay whole in both directions.                    *)
(***************************************************************************)
EXTENDS UdpSession, FunctionTheorems, FiniteSetTheorems, SequenceTheorems, TLAPS

Session ==
  [gen : Nat, magic : BOOLEAN, active : BOOLEAN, refs : Int, client : Clients \cup {0},
   local : BOOLEAN, remote : BOOLEAN, armed : SUBSET Roles, clientOut : BOOLEAN,
   remoteIn : BOOLEAN, hdr : Seq(Byte), body : Seq(Byte), expect : Nat, out : Nat,
   outLen : Nat, outOff : Nat, src : BOOLEAN, closed : BOOLEAN, registered : BOOLEAN]

Peer ==
  [cmd : {0, 3, 4}, open : BOOLEAN, reply : {"none", "SUCCEEDED", "FAILURE", "UNREACHABLE"},
   in : Seq(Byte), next : Byte, gone : BOOLEAN, routed : Nat, garbled : BOOLEAN,
   sent : Seq(Byte), read : Nat, queue : Nat, taken : Nat, lan : SUBSET Kinds, why : Why]

Places == {"none", "acquire", "refuse", "open", "remote", "link", "linked", "unref", "finalize", "done"}

(* A pool thread holds a slot that no list has. *)
Building == {"open", "remote", "link", "unref"}

LoopPc == {"wait", "events", "gc", "exit"}
StopPc == {"drain", "batch", "lastbatch", "again", "closed"}

Event == [s : Slots, gen : Nat, role : Roles, in : BOOLEAN]

Left == [asks : Int, bytes : Int, leaves : Int, datagrams : Int,
         others : 0..Cardinality(Slots), bucket : Nat \ {0}]

Types ==
  /\ u \in [Slots -> Session] /\ net \in [Clients -> Peer]
  /\ free \in Seq(Slots) /\ count \in Int
  /\ st \in [Clients -> Places] /\ slot \in [Clients -> Slots \cup {NoSlot}]
  /\ list \in SUBSET Slots /\ touched \in SUBSET Slots
  /\ wpc \in LoopPc \cup StopPc
  /\ batch \in SUBSET (Event \cup {StopEvent}) /\ cur \in Event \cup {NoEvent}
  /\ garbage \in SUBSET Slots /\ todo \in SUBSET Slots /\ fin \in Slots \cup {NoSlot}
  /\ stopping \in BOOLEAN /\ stop \in {"no", "flag", "pipe"}
  /\ lost \in SUBSET Clients
  /\ load \in Left

(* Where the worker is in its loop. *)
Phase ==
  /\ stopping <=> wpc \in StopPc
  /\ wpc \in {"lastbatch", "again", "closed"} => list = {}
  /\ cur # NoEvent => wpc = "events" /\ cur.s \in list /\ u[cur.s].registered
  /\ wpc \notin Unrefs => todo = {} /\ fin = NoSlot

Finishing(s) == fin = s \/ \E k \in Clients : st[k] = "finalize" /\ slot[k] = s

Leftover(s) == s \in garbage /\ wpc \in {"events", "exit", "drain", "batch", "lastbatch"}

Owned(s) ==
  \/ s \in list \cup todo \/ Leftover(s)
  \/ \E k \in Clients : slot[k] = s /\ (st[k] \in Building \/ k \in lost)

Elements(q) == {q[i] : i \in 1..Len(q)}

Distinct(q) == \A i, j \in 1..Len(q) : q[i] = q[j] => i = j

Free == Elements(free)

(* The slots of the other workers *)
Others == {s \in Slots : u[s].gen = 1 /\ s \notin Free}

(* A slot is free, has its reference or is being finalized. *)
Refs ==
  /\ Distinct(free)
  /\ \A j, k \in Clients : st[j] = "finalize" /\ st[k] = "finalize" /\ slot[j] = slot[k] => j = k
  /\ \A k \in Clients : st[k] = "finalize" => slot[k] # fin
  /\ \A s \in Slots :
       /\ u[s].refs <= 1
       /\ u[s].refs = 1 => s \notin Free /\ ~Finishing(s) /\ Owned(s)
       /\ Finishing(s) => s \notin Free
       /\ u[s].refs # 1 /\ ~Finishing(s) /\ u[s].gen > 1 => s \in Free

(* Slots of this worker *)
Own ==
  /\ \A s \in Slots : u[s].gen > 0 /\ (u[s].refs = 1 => u[s].gen > 1)
  /\ \A s \in list \cup todo \cup garbage : u[s].gen > 1
  /\ fin # NoSlot => u[fin].gen > 1
  /\ \A k \in Clients : slot[k] # NoSlot => u[slot[k]].gen > 1
  /\ \A k \in Clients : st[k] \in {"none", "acquire", "refuse"} => slot[k] = NoSlot
  /\ \A k \in Clients : st[k] \in Building \cup {"linked", "finalize"} => slot[k] # NoSlot
  /\ Cardinality(Others) = load.others

(* The session of a client whose pool thread has let go of it *)
Settled(s) ==
  /\ u[s].refs = 1 /\ u[s].client # 0
  /\ slot[u[s].client] = s /\ st[u[s].client] \in {"linked", "done"}

Listed ==
  /\ \A s \in list : Settled(s) /\ ~u[s].closed /\ u[s].magic
  /\ list \cap todo = {}
  /\ wpc = "events" => \A s \in garbage : Settled(s) /\ s \notin list
  /\ wpc # "again" => \A s \in todo : Settled(s)
  /\ \A k \in lost : /\ slot[k] # NoSlot /\ Settled(slot[k]) /\ u[slot[k]].client = k
                     /\ slot[k] \notin list \cup todo \cup garbage
                     /\ \A j \in Clients : st[j] \in Building => slot[j] # slot[k]

Built ==
  /\ wpc \notin {"again", "closed"} =>
       \A k \in Clients : st[k] \in Building => u[slot[k]].refs = 1 /\ u[slot[k]].client = k
  /\ ~stopping =>
       /\ \A k \in Clients : st[k] = "linked" =>
            slot[k] \in list /\ u[slot[k]].client = k /\ ~u[slot[k]].registered
       /\ \A k \in Clients : st[k] \in Building => ~u[slot[k]].registered
       /\ \A s \in Slots : u[s].magic /\ ~u[s].closed /\ u[s].registered => s \in list

(* Who is still connected has a thread or a session. *)
Connected ==
  \A k \in Clients : net[k].open =>
    \/ st[k] \in {"acquire", "refuse"}
    \/ slot[k] # NoSlot /\ u[slot[k]].client = k /\ slot[k] \notin Free

Counted ==
  count = Cardinality({k \in Clients : st[k] \in {"acquire", "refuse"}})
            + Cardinality(Slots) - Len(free)

-----------------------------------------------------------------------------
InFrame(b) == b[1] \in DOMAIN BodyLen /\ b[2] \in 1..(2 + BodyLen[b[1]])

NextIn(c) == IF c.in = <<>> THEN c.next ELSE c.in[1]

(* What a client has on its way are the next bytes of its frames. *)
Consecutive(c) ==
  /\ c.next[1] \in DOMAIN BodyLen => InFrame(c.next)
  /\ \A i \in 1..Len(c.in) :
       InFrame(c.in[i]) /\ Successor(c.in[i]) = IF i = Len(c.in) THEN c.next ELSE c.in[i + 1]

Wrote(c) ==
  /\ \A n \in 1..Len(c.sent) :
       c.sent[n] = <<((n - 1) \div OutFrame) + 1, ((n - 1) % OutFrame) + 1>>
  /\ c.read <= Len(c.sent) /\ Len(c.sent) - c.read <= SockBuf

PeerOK(c) == Consecutive(c) /\ Wrote(c) /\ ~c.garbled

FreshPeer(c) == c.routed = 0 /\ c.taken = 0 /\ c.sent = <<>> /\ NextIn(c) = <<1, 1>>

Idle(x) ==
  /\ x.hdr = <<>> /\ x.body = <<>> /\ x.outLen = 0 /\ x.outOff = 0
  /\ ~x.clientOut /\ ~x.closed /\ x.magic

(* Header and body are the beginning of frame f, the next byte is at.       *)
ReadSoFar(hdr, body, expect, f, at) ==
  /\ Len(hdr) <= 2 /\ \A i \in 1..Len(hdr) : hdr[i] = <<f, i>>
  /\ \A i \in 1..Len(body) : body[i] = <<f, 2 + i>>
  /\ Len(hdr) < 2 => body = <<>>
  /\ Len(hdr) = 2 => f \in DOMAIN BodyLen /\ expect = BodyLen[f] /\ Len(body) < expect
  /\ at = <<f, Len(hdr) + Len(body) + 1>>

(* A session that has read the beginning of the client's next frame *)
Reading(x, c) == ReadSoFar(x.hdr, x.body, x.expect, c.routed + 1, NextIn(c))

(* ... and has sent all of the last datagram but what it still holds *)
Sending(x, c) ==
  /\ Len(c.sent) + (x.outLen - x.outOff) = c.taken * OutFrame
  /\ x.outLen > 0 => x.out = c.taken

Buffered(x) ==
  /\ x.outLen \in {0, OutFrame} /\ x.outOff \in 0..x.outLen
  /\ x.outOff = x.outLen => x.outLen = 0
  /\ Len(x.hdr) <= 2 /\ (x.body # <<>> => Len(x.body) < x.expect)

Masked(x) == ~x.local => (x.remoteIn <=> x.outLen = 0) /\ (x.clientOut <=> x.outLen > 0)

Data ==
  /\ \A s \in Slots : Buffered(u[s])
  /\ \A k \in Clients : PeerOK(net[k])
  /\ \A k \in Clients : st[k] \in {"none", "acquire", "open", "remote", "link"} => FreshPeer(net[k])
  /\ ~stopping => \A k \in Clients : st[k] \in {"open", "remote", "link"} => Idle(u[slot[k]])
  /\ \A s \in list : LET c == net[u[s].client] IN Reading(u[s], c) /\ Sending(u[s], c)
  /\ \A s \in list \ {cur.s} : Masked(u[s])

(* A session and its client, while a handler may be at work *)
HData(x, c) ==
  /\ x \in Session /\ c \in Peer /\ Buffered(x) /\ PeerOK(c)
  /\ Reading(x, c) /\ Sending(x, c)
-----------------------------------------------------------------------------
(* Operators *)

(* The smaller of two numbers. *)
LEMMA MinOfTwo ==
  ASSUME NEW a \in Int, NEW b \in Int
  PROVE  Min({a, b}) = IF a <= b THEN a ELSE b
<1> DEFINE m == IF a <= b THEN a ELSE b
<1>1. m \in {a, b} /\ \A y \in {a, b} : m <= y
  OBVIOUS
<1>2. \A x \in {a, b} : (\A y \in {a, b} : x <= y) => x = m
  OBVIOUS
<1> QED BY <1>1, <1>2 DEF Min

(* Frame and position of the byte at offset r of frame q + 1. *)
LEMMA DivMod ==
  ASSUME NEW F \in Nat \ {0}, NEW q \in Nat, NEW r \in 0..(F - 1)
  PROVE  (q * F + r) \div F = q /\ (q * F + r) % F = r
  OBVIOUS

(* Functions that agree everywhere are the same.                            *)
LEMMA SameFunction ==
  ASSUME NEW S, NEW T, NEW f \in [S -> T], NEW g \in [S -> T], \A i \in S : f[i] = g[i]
  PROVE  f = g
  OBVIOUS

(* What identifies a session and its place stays as it is in y. *)
Kept(x, y) ==
  /\ y.gen = x.gen /\ y.magic = x.magic /\ y.refs = x.refs /\ y.client = x.client
  /\ y.closed = x.closed /\ y.registered = x.registered

(* Space in the client's socket is a number. *)
LEMMA SpaceType ==
  ASSUME NEW c \in Peer, Wrote(c)
  PROVE  Space(c) \in Nat /\ Space(c) <= SockBuf
<1>1. Len(c.sent) \in Nat /\ c.read \in Nat /\ SockBuf \in Nat
  BY UdpSessionAssumption, LenProperties DEF Peer
<1> QED BY <1>1 DEF Space, Wrote

(* The place of the n-th byte sent to a client in the frames of the datagrams *)
InPlace(n) == <<((n - 1) \div OutFrame) + 1, ((n - 1) % OutFrame) + 1>>

InPlaces(bytes) == \A i \in 1..Len(bytes) : bytes[i] = InPlace(i)

(* The bytes of frame f behind the first off *)
Following(bytes, f, off) == \A j \in 1..Len(bytes) : bytes[j] = <<f, off + j>>

(* Bytes off + 1 .. off + n of the frame that was sent up to off are the next. *)
LEMMA SentGrows ==
  ASSUME NEW sent \in Seq(Byte), NEW new \in Seq(Byte), NEW taken \in Nat, NEW off \in Nat,
         InPlaces(sent), Following(new, taken, off), new # <<>>,
         off + Len(new) <= OutFrame, Len(sent) + (OutFrame - off) = taken * OutFrame
  PROVE  InPlaces(sent \o new)
<1>1. OutFrame \in Nat \ {0}
  BY UdpSessionAssumption
<1>2. PICK L \in Nat, n \in Nat :
        /\ L = Len(sent) /\ n = Len(new) /\ n > 0 /\ off + n <= OutFrame
        /\ L + (OutFrame - off) = taken * OutFrame
        /\ \A i \in 1..L : sent[i] = InPlace(i)
        /\ \A j \in 1..n : new[j] = <<taken, off + j>>
  BY LenProperties, EmptySeq DEF InPlaces, Following
<1>3. /\ sent \o new \in Seq(Byte) /\ Len(sent \o new) = L + n
      /\ \A i \in 1..(L + n) : (sent \o new)[i] = IF i <= L THEN sent[i] ELSE new[i - L]
  BY <1>2, ConcatProperties
<1>4. ASSUME NEW i \in 1..(L + n)
      PROVE  (sent \o new)[i] = InPlace(i)
  <2>1. CASE i <= L
    BY <2>1, <1>2, <1>3
  <2>2. CASE i > L
    <3>1. taken # 0
      BY <1>2, <1>1
    <3>2. PICK q \in Nat : taken = q + 1
      <4>1. taken - 1 \in Nat /\ taken = (taken - 1) + 1
        BY <1>2, <3>1
      <4> QED BY <1>2, <4>1
    <3>3. q * OutFrame \in Nat /\ taken * OutFrame = q * OutFrame + OutFrame
      BY <1>2, <3>2, <1>1
    <3>4. PICK r \in 0..(OutFrame - 1) : r + 1 = off + (i - L)
      <4>1. off + (i - L) - 1 \in 0..(OutFrame - 1)
        BY <1>2, <2>2, <1>1
      <4> QED BY <1>2, <4>1
    <3>5. i - 1 = q * OutFrame + r
      <4>1. PICK m \in Nat : m = q * OutFrame
        BY <1>2, <3>3
      <4>2. L + (OutFrame - off) = m + OutFrame
        BY <1>2, <4>1, <3>3
      <4>3. i - 1 = m + r
        BY <1>2, <4>2, <3>4, <1>1
      <4> QED BY <1>2, <4>1, <4>3
    <3>6. (i - 1) \div OutFrame = q /\ (i - 1) % OutFrame = r
      <4>1. (q * OutFrame + r) \div OutFrame = q /\ (q * OutFrame + r) % OutFrame = r
        BY <1>1, <3>2, <3>4, DivMod
      <4> QED BY <4>1, <3>5
    <3>7. i - L \in 1..n
      BY <1>2, <2>2
    <3>8. (sent \o new)[i] = <<taken, off + (i - L)>>
      BY <1>2, <2>2, <3>7, <1>3
    <3> QED BY <1>2, <3>2, <3>4, <3>6, <3>8 DEF InPlace
  <2> QED BY <2>1, <2>2, <1>2
<1> QED BY <1>2, <1>3, <1>4 DEF InPlaces

(* udp_flush_out sends the bytes that follow the last ones.                 *)
LEMMA FlushKeeps ==
  ASSUME NEW x \in Session, NEW c \in Peer, NEW end, Buffered(x), PeerOK(c), Sending(x, c)
  PROVE  LET o == udp_flush_out(x, c, end)
         IN /\ o.x \in Session /\ o.c \in Peer /\ o.end = end
            /\ Buffered(o.x) /\ PeerOK(o.c) /\ Sending(o.x, o.c)
            /\ Kept(x, o.x) /\ o.x.local = x.local
            /\ o.x.hdr = x.hdr /\ o.x.body = x.body /\ o.x.expect = x.expect
            /\ o.c.in = c.in /\ o.c.next = c.next /\ o.c.routed = c.routed /\ o.c.open = c.open
<1> DEFINE n == Min({x.outLen - x.outOff, Space(c)})
           new == [j \in 1..n |-> <<x.out, x.outOff + j>>]
           sent == c.sent \o new
           len == IF x.outOff + n = x.outLen THEN 0 ELSE x.outLen
           off == IF x.outOff + n = x.outLen THEN 0 ELSE x.outOff + n
           y == [x EXCEPT !.outLen = len, !.outOff = off]
           d == [c EXCEPT !.sent = sent]
           o == udp_flush_out(x, c, end)
           L == Len(c.sent)
<1>1. OutFrame \in Nat \ {0} /\ SockBuf \in Nat \ {0}
  BY UdpSessionAssumption
<1>2. /\ x.outLen \in {0, OutFrame} /\ x.outOff \in 0..x.outLen /\ x.out \in Nat
      /\ c.sent \in Seq(Byte) /\ c.taken \in Nat /\ c.read \in Nat
  BY DEF Session, Peer, Buffered
<1>3. L \in Nat
  BY <1>2, LenProperties
<1>4. Space(c) \in Nat /\ Space(c) = SockBuf - (L - c.read)
  BY SpaceType DEF PeerOK, Space
<1>5. n \in Nat /\ n <= x.outLen - x.outOff /\ n <= Space(c)
  <2>1. x.outLen - x.outOff \in Nat
    BY <1>1, <1>2
  <2> QED BY <2>1, <1>4, MinOfTwo
<1>6. o = Turn(y, d, end)
  BY DEF udp_flush_out
<1> HIDE DEF n, len, off, y, d, o, new, sent
<1>7. sent \in Seq(Byte) /\ Len(sent) = L + n /\ InPlaces(sent)
  <2>1. InPlaces(c.sent)
    BY DEF PeerOK, Wrote, InPlace, InPlaces
  <2>2. \A j \in 1..n : <<x.out, x.outOff + j>> \in Byte
    BY <1>1, <1>2, <1>5 DEF Byte
  <2>3. new \in [1..n -> Byte] /\ \A j \in 1..n : new[j] = <<x.out, x.outOff + j>>
    BY <2>2 DEF new
  <2>4. new \in Seq(Byte) /\ Len(new) = n
    BY <2>3, <1>5, SeqDef
  <2>5. sent \in Seq(Byte) /\ Len(sent) = L + n
    BY <2>4, <1>2, ConcatProperties DEF sent
  <2>6. CASE n = 0
    <3>1. new = <<>>
      BY <2>4, <2>6, EmptySeq
    <3>2. sent = c.sent
      BY <3>1, <1>2, ConcatEmptySeq DEF sent
    <3> QED BY <3>2, <2>1, <2>5
  <2>7. CASE n # 0
    <3>1. x.outLen = OutFrame /\ n > 0 /\ x.outOff + n <= OutFrame /\ x.outOff \in Nat
      BY <2>7, <1>1, <1>2, <1>5
    <3>2. x.out = c.taken /\ L + (OutFrame - x.outOff) = c.taken * OutFrame
      BY <3>1, <1>1 DEF Sending
    <3>3. Following(new, c.taken, x.outOff) /\ new # <<>>
      BY <3>1, <3>2, <2>3, <2>4, EmptySeq DEF Following
    <3> QED BY <3>1, <3>2, <3>3, <2>1, <2>4, <2>5, <1>2, SentGrows DEF sent
  <2> QED BY <2>6, <2>7
<1>8. /\ d \in Peer /\ d.sent = sent /\ d.in = c.in /\ d.next = c.next /\ d.routed = c.routed
      /\ d.open = c.open /\ d.garbled = c.garbled /\ d.taken = c.taken /\ d.read = c.read
  BY <1>7 DEF d, Peer
<1>9. len \in Nat /\ off \in Nat
  BY <1>1, <1>2, <1>5 DEF len, off
<1>10. /\ y \in Session /\ Kept(x, y) /\ y.local = x.local /\ y.hdr = x.hdr /\ y.body = x.body
       /\ y.expect = x.expect /\ y.out = x.out /\ y.outLen = len /\ y.outOff = off
  BY <1>9 DEF y, Session, Kept
<1>11. /\ len \in {0, OutFrame} /\ off \in 0..len /\ (off = len => len = 0)
       /\ len - off = x.outLen - x.outOff - n /\ (len > 0 => x.outLen > 0)
  <2>1. CASE x.outOff + n = x.outLen
    BY <2>1, <1>1, <1>2, <1>5 DEF len, off
  <2>2. CASE x.outOff + n # x.outLen
    <3>1. len = x.outLen /\ off = x.outOff + n
      BY <2>2 DEF len, off
    <3> QED BY <3>1, <2>2, <1>1, <1>2, <1>5
  <2> QED BY <2>1, <2>2
<1>12. Buffered(y)
  BY <1>10, <1>11 DEF Buffered
<1>13. Sending(y, d)
  <2>1. Len(d.sent) + (y.outLen - y.outOff) = L + (x.outLen - x.outOff)
    <3>1. Len(d.sent) = L + n /\ y.outLen - y.outOff = x.outLen - x.outOff - n
      BY <1>7, <1>8, <1>10, <1>11
    <3>2. x.outLen \in Int /\ x.outOff \in Int
      BY <1>1, <1>2
    <3> HIDE DEF L
    <3> QED BY <3>1, <3>2, <1>3, <1>5
  <2> QED BY <2>1, <1>8, <1>10, <1>11 DEF Sending
<1>14. Wrote(d)
  <2>1. d.read <= Len(d.sent) /\ Len(d.sent) - d.read <= SockBuf
    <3>1. c.read <= L
      BY DEF PeerOK, Wrote
    <3> QED BY <3>1, <1>1, <1>2, <1>3, <1>4, <1>5, <1>7, <1>8
  <2> QED BY <2>1, <1>7, <1>8 DEF Wrote, InPlace, InPlaces
<1>15. Consecutive(d)
  BY <1>8 DEF PeerOK, Consecutive, NextIn
<1> QED
  BY <1>6, <1>8, <1>10, <1>12, <1>13, <1>14, <1>15 DEF PeerOK, Turn, o

(* What a turn of a handler leaves of a session and its client: unless the  *)
(* session is to be closed, everything a handler relies on.                 *)
GoodTurn(x, c, o) ==
  /\ o.x \in Session /\ o.c \in Peer /\ Buffered(o.x) /\ PeerOK(o.c)
  /\ Kept(x, o.x) /\ o.c.open = c.open
  /\ o.end \in Why \cup {"MORE"}
  /\ o.end \in {"MORE", "NONE"} => HData(o.x, o.c)

(* A turn that changes nothing is a good one. *)
LEMMA StillTurn ==
  ASSUME NEW x, NEW c, HData(x, c), NEW end \in Why \cup {"MORE"}
  PROVE  GoodTurn(x, c, Turn(x, c, end))
  BY DEF GoodTurn, HData, Turn, Kept

(* udp_remote_event takes a datagram only when nothing waits to be sent.    *)
LEMMA RemoteKeeps ==
  ASSUME NEW x, NEW c, HData(x, c)
  PROVE  GoodTurn(x, c, udp_remote_event(x, c))
<1> USE DEF HData
<1>1. c.queue \in Nat /\ c.taken \in Nat /\ x.outLen \in {0, OutFrame} /\ x.outLen \in Nat
  BY DEF Peer, Session, Buffered
<1>2. CASE c.queue = 0 \/ (~x.local /\ OutBusy(x))
  <2>1. udp_remote_event(x, c) = Turn(x, c, "NONE")
    BY <1>1, <1>2 DEF udp_remote_event
  <2> QED BY <2>1, StillTurn DEF Why
<1>3. CASE c.queue > 0 /\ x.local
  <2> DEFINE d == [c EXCEPT !.queue = @ - 1]
  <2>1. udp_remote_event(x, c) = Turn(x, d, "MORE")
    BY <1>1, <1>3 DEF udp_remote_event
  <2>2. /\ d \in Peer /\ d.in = c.in /\ d.next = c.next /\ d.routed = c.routed /\ d.open = c.open
        /\ d.garbled = c.garbled /\ d.taken = c.taken /\ d.read = c.read /\ d.sent = c.sent
    BY SMTT(20), <1>1, <1>3 DEF Peer
  <2> HIDE DEF d
  <2>3. PeerOK(d) /\ Reading(x, d) /\ Sending(x, d)
    BY <2>2 DEF PeerOK, Reading, Sending, Consecutive, Wrote, NextIn
  <2> QED BY <2>1, <2>2, <2>3 DEF GoodTurn, Turn, Kept
<1>4. CASE c.queue > 0 /\ ~x.local /\ ~OutBusy(x)
  <2> DEFINE q == c.queue - 1
             t == c.taken + 1
             d == [c EXCEPT !.queue = q, !.taken = t]
             y == [x EXCEPT !.out = t, !.outLen = OutFrame, !.outOff = 0]
             o == udp_flush_out(y, d, "MORE")
  <2>1. udp_remote_event(x, c) = o
    BY <1>1, <1>4 DEF udp_remote_event
  <2>2. /\ OutFrame \in Nat \ {0} /\ x.outLen = 0 /\ x.outOff = 0
        /\ q \in Nat /\ t \in Nat /\ t = c.taken + 1
    BY SMTT(20), <1>1, <1>4, UdpSessionAssumption DEF OutBusy, Buffered
  <2> HIDE DEF q, t
  <2>3. /\ d \in Peer /\ d.in = c.in /\ d.next = c.next /\ d.routed = c.routed /\ d.open = c.open
        /\ d.garbled = c.garbled /\ d.taken = t /\ d.read = c.read /\ d.sent = c.sent
    BY <2>2 DEF Peer
  <2>4. /\ y \in Session /\ Kept(x, y) /\ y.hdr = x.hdr /\ y.body = x.body
        /\ y.expect = x.expect /\ y.out = t /\ y.outLen = OutFrame /\ y.outOff = 0
    BY <2>2 DEF Session, Kept
  <2> HIDE DEF d, y
  <2>5. PeerOK(d)
    BY <2>3 DEF PeerOK, Consecutive, Wrote, NextIn
  <2>6. Buffered(y)
    BY <2>2, <2>4 DEF Buffered
  <2>7. Sending(y, d)
    <3>1. PICK l \in Nat, m \in Nat : l = Len(c.sent) /\ m = c.taken
      <4>1. c.sent \in Seq(Byte)
        BY DEF Peer
      <4> QED BY <4>1, <1>1, LenProperties
    <3>2. l = m * OutFrame
      BY <2>2, <3>1 DEF Sending
    <3>3. m * OutFrame \in Nat /\ (m + 1) * OutFrame = m * OutFrame + OutFrame
      BY <2>2, <3>1
    <3>4. l + (OutFrame - 0) = (m + 1) * OutFrame
      BY <2>2, <3>1, <3>2, <3>3
    <3> QED BY <2>2, <2>3, <2>4, <3>1, <3>4 DEF Sending
  <2>8. /\ o.x \in Session /\ o.c \in Peer /\ o.end = "MORE"
        /\ Buffered(o.x) /\ PeerOK(o.c) /\ Sending(o.x, o.c) /\ Kept(y, o.x)
        /\ o.x.hdr = y.hdr /\ o.x.body = y.body /\ o.x.expect = y.expect
        /\ o.c.in = d.in /\ o.c.next = d.next /\ o.c.routed = d.routed /\ o.c.open = d.open
    BY <2>3, <2>4, <2>5, <2>6, <2>7, FlushKeeps
  <2> HIDE DEF o
  <2>9. Reading(o.x, o.c)
    <3>1. /\ o.x.hdr = x.hdr /\ o.x.body = x.body /\ o.x.expect = x.expect
          /\ NextIn(o.c) = NextIn(c) /\ o.c.routed = c.routed
      BY <2>3, <2>4, <2>8 DEF NextIn
    <3> QED BY <3>1 DEF Reading
  <2>10. Kept(x, o.x)
    BY <2>4, <2>8 DEF Kept
  <2> QED BY <2>1, <2>3, <2>8, <2>9, <2>10 DEF GoodTurn
<1> QED BY <1>1, <1>2, <1>3, <1>4

(* The client's next byte is taken from the stream.                         *)
LEMMA TailConsecutive ==
  ASSUME NEW c \in Peer, Consecutive(c), c.in # <<>>
  PROVE  LET d == [c EXCEPT !.in = Tail(@)]
         IN /\ d \in Peer /\ Consecutive(d) /\ NextIn(d) = Successor(Head(c.in))
            /\ Head(c.in) = NextIn(c) /\ InFrame(Head(c.in)) /\ Head(c.in) \in Byte
            /\ d.routed = c.routed /\ d.garbled = c.garbled /\ d.sent = c.sent
            /\ d.read = c.read /\ d.taken = c.taken /\ d.open = c.open
<1>1. PICK q \in Seq(Byte) : q = c.in
  BY DEF Peer
<1>2. PICK t \in Seq(Byte) : t = Tail(q) /\ Len(t) = Len(q) - 1 /\ \A i \in 1..Len(t) : t[i] = q[i + 1]
  <2>1. q # <<>>
    BY <1>1
  <2>2. /\ Tail(q) \in Seq(Byte) /\ Len(Tail(q)) = Len(q) - 1
        /\ \A i \in 1..Len(Tail(q)) : Tail(q)[i] = q[i + 1]
    BY <2>1, HeadTailProperties
  <2> QED BY <2>2
<1>3. Len(q) \in Nat \ {0} /\ Len(t) \in Nat /\ Head(q) = q[1] /\ Head(q) \in Byte
  BY <1>1, EmptySeq, LenProperties, HeadTailProperties
<1> DEFINE d == [c EXCEPT !.in = t]
<1>4. /\ d \in Peer /\ d.in = t /\ d.next = c.next
      /\ d.routed = c.routed /\ d.garbled = c.garbled /\ d.sent = c.sent
      /\ d.read = c.read /\ d.taken = c.taken /\ d.open = c.open
  BY <1>2 DEF Peer
<1>5. [c EXCEPT !.in = Tail(@)] = d
  BY <1>1, <1>2
<1> HIDE DEF d
<1>6. /\ c.next[1] \in DOMAIN BodyLen => InFrame(c.next)
      /\ \A i \in 1..Len(q) :
           InFrame(q[i]) /\ Successor(q[i]) = IF i = Len(q) THEN c.next ELSE q[i + 1]
  BY <1>1 DEF Consecutive
<1>7. \A i \in 1..Len(t) :
        InFrame(t[i]) /\ Successor(t[i]) = IF i = Len(t) THEN c.next ELSE t[i + 1]
  <2> SUFFICES ASSUME NEW i \in 1..Len(t)
               PROVE  InFrame(t[i]) /\ Successor(t[i]) = IF i = Len(t) THEN c.next ELSE t[i + 1]
    OBVIOUS
  <2>1. i + 1 \in 1..Len(q) /\ t[i] = q[i + 1] /\ (i = Len(t) <=> i + 1 = Len(q))
    BY <1>2, <1>3
  <2>2. i # Len(t) => t[i + 1] = q[i + 2]
    BY <1>2, <1>3
  <2> QED BY <1>6, <2>1, <2>2
<1>8. Consecutive(d)
  BY <1>4, <1>6, <1>7 DEF Consecutive
<1>9. NextIn(d) = Successor(q[1])
  <2>1. CASE t = <<>>
    BY <2>1, <1>2, <1>3, <1>4, <1>6, EmptySeq DEF NextIn
  <2>2. CASE t # <<>>
    <3>1. Len(t) # 0 /\ 1 \in 1..Len(t) /\ 1 \in 1..Len(q) /\ Len(q) # 1
      BY <2>2, <1>2, <1>3, EmptySeq
    <3>2. t[1] = q[2]
      <4>1. t[1] = q[1 + 1]
        BY <3>1, <1>2
      <4> QED BY <4>1
    <3>3. Successor(q[1]) = q[2]
      <4>1. Successor(q[1]) = q[1 + 1]
        BY <3>1, <1>6
      <4> QED BY <4>1
    <3> QED BY <3>2, <3>3, <2>2, <1>4 DEF NextIn
  <2> QED BY <2>1, <2>2
<1>10. NextIn(c) = q[1] /\ InFrame(q[1])
  BY <1>1, <1>3, <1>6 DEF NextIn
<1> QED BY <1>1, <1>3, <1>4, <1>5, <1>8, <1>9, <1>10

(* ReadByte: header and body grow by the client's next byte, a frame that is *)
(* complete is the client's next one, and one of no length ends the session. *)
LEMMA ReadByteKeeps ==
  ASSUME NEW x, NEW c, HData(x, c), c.in # <<>>
  PROVE  GoodTurn(x, c, ReadByte(x, c))
<1> DEFINE b == Head(c.in)
           d == [c EXCEPT !.in = Tail(@)]
<1>1. /\ x \in Session /\ c \in Peer /\ Buffered(x) /\ Reading(x, c) /\ Sending(x, c)
      /\ Consecutive(c) /\ Wrote(c) /\ ~c.garbled
  BY DEF HData, PeerOK
<1>2. /\ d \in Peer /\ Consecutive(d) /\ NextIn(d) = Successor(b) /\ b = NextIn(c)
      /\ InFrame(b) /\ b \in Byte /\ d.routed = c.routed /\ d.garbled = c.garbled
      /\ d.sent = c.sent /\ d.read = c.read /\ d.taken = c.taken /\ d.open = c.open
  BY <1>1, TailConsecutive
<1> HIDE DEF d, b
<1>3. PICK hdr \in Seq(Byte), body \in Seq(Byte), f \in Nat \ {0}, expect \in Nat :
        hdr = x.hdr /\ body = x.body /\ f = c.routed + 1 /\ expect = x.expect
  <2>1. x.hdr \in Seq(Byte) /\ x.body \in Seq(Byte) /\ x.expect \in Nat
    BY <1>1 DEF Session
  <2>2. c.routed + 1 \in Nat \ {0}
    BY <1>1 DEF Peer
  <2> QED BY <2>1, <2>2
<1>4. PICK l \in Nat, m \in Nat : /\ l = Len(hdr) /\ m = Len(body)
                                  /\ (m = 0 <=> body = <<>>) /\ l <= 2
  <2>1. Len(hdr) \in Nat /\ Len(body) \in Nat /\ (Len(body) = 0 <=> body = <<>>)
    BY LenProperties, EmptySeq
  <2>2. Len(hdr) <= 2
    BY <1>1, <1>3 DEF Reading, ReadSoFar
  <2> QED BY <2>1, <2>2
<1>5. /\ \A i \in 1..l : hdr[i] = <<f, i>>
      /\ \A i \in 1..m : body[i] = <<f, 2 + i>>
      /\ l < 2 => body = <<>>
      /\ l = 2 => f \in DOMAIN BodyLen /\ expect = BodyLen[f] /\ m < expect
      /\ b = <<f, l + m + 1>>
  <2>1. ReadSoFar(hdr, body, expect, f, b)
    BY <1>1, <1>2, <1>3 DEF Reading
  <2> QED BY <2>1, <1>4 DEF ReadSoFar
<1>6. /\ PeerOK(d) /\ Sending(x, d)
      /\ \A y : /\ y.outLen = x.outLen /\ y.outOff = x.outOff /\ y.out = x.out
                => Sending(y, d)
  BY <1>1, <1>2 DEF PeerOK, Wrote, Sending
<1>7. BodyLen \in Seq(Nat) /\ f \in DOMAIN BodyLen /\ BodyLen[f] \in Nat
      /\ l + m + 1 <= 2 + BodyLen[f]
  <2>1. BodyLen \in [1..Len(BodyLen) -> Nat]
    BY UdpSessionAssumption, LenProperties
  <2>2. f \in DOMAIN BodyLen /\ l + m + 1 \in 1..(2 + BodyLen[f])
    BY <1>2, <1>5 DEF InFrame
  <2> QED BY <2>1, <2>2, <1>4, UdpSessionAssumption
<1> DEFINE h == Append(hdr, b)
<1>8. /\ h \in Seq(Byte) /\ Len(h) = l + 1 /\ \A i \in 1..l : h[i] = hdr[i]
      /\ h[l + 1] = b
  BY <1>2, <1>3, <1>4, AppendProperties
<1>9. CASE l = 0
  <2> DEFINE y == [x EXCEPT !.hdr = h]
  <2>1. ReadByte(x, c) = Turn(y, d, "MORE")
    BY <1>3, <1>8, <1>9 DEF ReadByte, b, d
  <2> HIDE DEF h
  <2>2. /\ y \in Session /\ Kept(x, y) /\ y.hdr = h /\ y.body = body /\ y.expect = expect
        /\ y.outLen = x.outLen /\ y.outOff = x.outOff /\ y.out = x.out
    BY <1>1, <1>3, <1>8 DEF Session, Kept
  <2> HIDE DEF y
  <2>3. Buffered(y)
    <3>1. Len(h) <= 2 /\ body = <<>>
      BY <1>4, <1>5, <1>8, <1>9
    <3> QED BY <3>1, <1>1, <2>2 DEF Buffered
  <2>4. Reading(y, d)
    <3>1. b = <<f, 1>> /\ NextIn(d) = <<f, 2>> /\ body = <<>> /\ m = 0
      BY <1>2, <1>4, <1>5, <1>7, <1>9 DEF Successor
    <3>2. Len(h) = 1 /\ h[1] = <<f, 1>>
      BY <3>1, <1>8, <1>9
    <3>3. \A i \in 1..1 : h[i] = <<f, i>>
      BY <3>2
    <3>4. d.routed + 1 = f /\ NextIn(d) = <<f, Len(h) + m + 1>>
      BY <3>1, <3>2, <1>2, <1>3
    <3>5. ReadSoFar(h, body, expect, f, NextIn(d))
      BY <3>1, <3>2, <3>3, <3>4, <1>4 DEF ReadSoFar
    <3> QED BY <3>4, <3>5, <2>2 DEF Reading
  <2> QED BY <2>1, <2>2, <2>3, <2>4, <1>1, <1>2, <1>6 DEF GoodTurn, HData, Turn
<1>10. CASE l = 1
  <2> DEFINE e == socks5_udp_tcp_frame_len(h)
             y == [x EXCEPT !.hdr = h, !.expect = e]
  <2>1. h[1] = <<f, 1>> /\ h[2] = <<f, 2>> /\ e = BodyLen[f]
    <3>1. b = <<f, 2>>
      BY <1>4, <1>5, <1>10
    <3>2. h[1] = <<f, 1>> /\ h[2] = <<f, 2>>
      BY <3>1, <1>5, <1>8, <1>10
    <3> HIDE DEF h
    <3> QED BY <3>2 DEF socks5_udp_tcp_frame_len
  <2>2. ReadByte(x, c) = Turn(y, d, IF e = 0 THEN "PROTO" ELSE "MORE")
    BY <1>3, <1>8, <1>10 DEF ReadByte, b, d
  <2> HIDE DEF h, e
  <2>3. /\ y \in Session /\ Kept(x, y) /\ y.hdr = h /\ y.body = body /\ y.expect = e
        /\ y.outLen = x.outLen /\ y.outOff = x.outOff /\ y.out = x.out
    BY <1>1, <1>3, <1>7, <1>8, <2>1 DEF Session, Kept
  <2> HIDE DEF y
  <2>4. body = <<>> /\ m = 0 /\ b = <<f, 2>> /\ Len(h) = 2
    BY <1>4, <1>5, <1>8, <1>10
  <2>5. Buffered(y)
    BY <1>1, <2>3, <2>4 DEF Buffered
  <2>6. e # 0 => Reading(y, d)
    <3> SUFFICES ASSUME e # 0
                 PROVE  Reading(y, d)
      OBVIOUS
    <3>1. NextIn(d) = <<f, 3>>
      BY <1>2, <1>7, <2>1, <2>4 DEF Successor
    <3>2. \A i \in 1..2 : h[i] = <<f, i>>
      BY <2>1
    <3>3. d.routed + 1 = f /\ Len(body) = 0
      BY <1>2, <1>3, <1>4, <2>4
    <3>4. ReadSoFar(h, body, e, f, NextIn(d))
      BY <3>1, <3>2, <3>3, <1>7, <2>1, <2>4 DEF ReadSoFar
    <3> QED BY <3>3, <3>4, <2>3 DEF Reading
  <2>7. CASE e = 0
    BY <2>2, <2>3, <2>5, <2>7, <1>2, <1>6 DEF GoodTurn, Turn, Why
  <2>8. CASE e # 0
    BY <2>2, <2>3, <2>5, <2>6, <2>8, <1>2, <1>6 DEF GoodTurn, HData, Turn
  <2> QED BY <2>7, <2>8
<1>11. CASE l = 2
  <2> DEFINE g == Append(body, b)
             y == [x EXCEPT !.body = g]
  <2>1. /\ g \in Seq(Byte) /\ Len(g) = m + 1 /\ \A i \in 1..m : g[i] = body[i]
        /\ g[m + 1] = b /\ b = <<f, 2 + (m + 1)>>
    BY <1>2, <1>3, <1>4, <1>5, <1>11, AppendProperties
  <2>2. \A i \in 1..(m + 1) : g[i] = <<f, 2 + i>>
    BY <2>1, <1>4, <1>5
  <2>3. ReadByte(x, c) = IF FrameComplete(y) THEN RouteFrame(y, d) ELSE Turn(y, d, "MORE")
    BY <1>3, <1>8, <1>11 DEF ReadByte, b, d
  <2> HIDE DEF g
  <2>4. /\ y \in Session /\ Kept(x, y) /\ y.hdr = hdr /\ y.body = g /\ y.expect = expect
        /\ y.outLen = x.outLen /\ y.outOff = x.outOff /\ y.out = x.out
    BY <1>1, <1>3, <2>1 DEF Session, Kept
  <2> HIDE DEF y
  <2>5. expect = BodyLen[f] /\ m < BodyLen[f]
    BY <1>5, <1>11
  <2>6. CASE m + 1 = BodyLen[f]
    <3>1. FrameComplete(y)
      BY <2>1, <2>4, <2>5, <2>6 DEF FrameComplete
    <3>2. g = FrameBody(f)
      <4>1. PICK N \in Nat : N = BodyLen[f] /\ N = m + 1
        BY <1>7, <2>6
      <4>2. PICK G \in [1..N -> Byte] : G = FrameBody(f) /\ \A i \in 1..N : G[i] = <<f, 2 + i>>
        <5> DEFINE H == [j \in 1..N |-> <<f, 2 + j>>]
        <5>1. \A j \in 1..N : <<f, 2 + j>> \in Byte
          BY <1>3, <4>1 DEF Byte
        <5>2. H \in [1..N -> Byte] /\ \A i \in 1..N : H[i] = <<f, 2 + i>>
          BY <5>1
        <5>3. H = FrameBody(f)
          BY <4>1 DEF FrameBody
        <5> QED BY <5>2, <5>3
      <4>3. g \in [1..N -> Byte] /\ \A i \in 1..N : g[i] = G[i]
        BY <2>1, <2>2, <4>1, <4>2, LenProperties
      <4>4. g = G
        BY <4>2, <4>3, SameFunction
      <4> QED BY <4>2, <4>4
    <3> DEFINE z == [y EXCEPT !.hdr = <<>>, !.body = <<>>, !.expect = 0]
               r == [d EXCEPT !.routed = f, !.garbled = FALSE]
    <3>3. RouteFrame(y, d) = Turn(z, r, "MORE")
      <4>1. d.routed + 1 = f /\ y.body = FrameBody(d.routed + 1) /\ d.garbled = FALSE
        BY <3>2, <1>1, <1>2, <1>3, <2>4 DEF Peer
      <4> HIDE DEF y, d
      <4>2. (d.garbled \/ ~(d.routed + 1 \in DOMAIN BodyLen /\ y.body = FrameBody(d.routed + 1))) = FALSE
        BY <4>1, <1>7
      <4> QED BY <4>1, <4>2 DEF RouteFrame, NextFrame
    <3>4. <<>> \in Seq(Byte) /\ Len(<<>>) = 0
      BY EmptySeq
    <3>5. /\ z \in Session /\ Kept(x, z) /\ z.hdr = <<>> /\ z.body = <<>>
          /\ z.outLen = x.outLen /\ z.outOff = x.outOff /\ z.out = x.out
      BY <2>4, <3>4 DEF Session, Kept
    <3>6. /\ r \in Peer /\ r.routed = f /\ ~r.garbled /\ r.in = d.in /\ r.next = d.next
          /\ r.sent = d.sent /\ r.read = d.read /\ r.taken = d.taken /\ r.open = d.open
      BY <1>2, <1>4 DEF Peer
    <3> HIDE DEF z, r
    <3>7. PeerOK(r)
      BY <3>6, <1>6 DEF PeerOK, Consecutive, Wrote
    <3>8. Sending(z, r) /\ Buffered(z)
      BY <3>4, <3>5, <3>6, <1>1, <1>6 DEF Sending, Buffered
    <3>9. NextIn(r) = <<f + 1, 1>>
      <4>1. b = <<f, 2 + BodyLen[f]>>
        BY <2>1, <2>6
      <4> QED BY <4>1, <3>6, <1>2, <1>7 DEF NextIn, Successor
    <3>10. Reading(z, r)
      <4>1. ReadSoFar(<<>>, <<>>, z.expect, f + 1, NextIn(r))
        BY <3>4, <3>9, <1>4 DEF ReadSoFar
      <4> QED BY <4>1, <3>5, <3>6 DEF Reading
    <3> QED BY <2>3, <3>1, <3>3, <3>5, <3>6, <3>7, <3>8, <3>10, <1>2 DEF GoodTurn, HData, Turn
  <2>7. CASE m + 1 # BodyLen[f]
    <3>1. ~FrameComplete(y)
      BY <2>1, <2>4, <2>5, <2>7 DEF FrameComplete
    <3>3. m + 1 < BodyLen[f]
      BY <1>7, <2>5, <2>7
    <3>2. Buffered(y)
      <4>1. Len(hdr) <= 2 /\ Len(g) < expect
        BY <3>3, <1>4, <2>1, <2>5
      <4> QED BY <4>1, <1>1, <2>4 DEF Buffered
    <3>4. NextIn(d) = <<f, 2 + (m + 1) + 1>>
      BY <3>3, <1>2, <1>4, <1>7, <2>1 DEF Successor
    <3>6. Len(y.hdr) = 2 /\ Len(y.body) = m + 1
      BY <1>4, <1>11, <2>1, <2>4
    <3>5. Reading(y, d)
      <4>1. Len(hdr) = 2 /\ Len(g) = m + 1 /\ d.routed + 1 = f
        BY <1>2, <1>3, <1>4, <1>11, <2>1
      <4>2. ReadSoFar(hdr, g, expect, f, NextIn(d))
        BY <3>3, <3>4, <4>1, <1>4, <1>5, <1>7, <1>11, <2>2, <2>5 DEF ReadSoFar
      <4> QED BY <4>1, <4>2, <2>4 DEF Reading
    <3> QED BY <2>3, <3>1, <3>2, <3>5, <2>4, <1>2, <1>6 DEF GoodTurn, HData, Turn
  <2> QED BY <2>6, <2>7
<1> QED BY <1>4, <1>9, <1>10, <1>11

(* A turn of any handler is a good one.                                     *)
LEMMA HandlerKeeps ==
  ASSUME NEW e \in Event, NEW x, NEW c, HData(x, c), NEW o \in HandlerTurns(e, x, c)
  PROVE  GoodTurn(x, c, o)
<1>1. x \in Session /\ c \in Peer /\ x.local \in BOOLEAN /\ c.gone \in BOOLEAN
  BY DEF HData, Session, Peer
<1>2. \A end \in {"PEER", "IO", "NONE"} : GoodTurn(x, c, Turn(x, c, end))
  BY StillTurn DEF Why
<1>3. CASE e.role = "client" /\ x.local
  BY <1>2, <1>3 DEF HandlerTurns, udp_ctrl_event
<1>4. CASE e.role = "client" /\ ~x.local
  <2>1. o = udp_client_data_event(x, c, e.in) \/ o = Turn(x, c, "IO")
    BY <1>4 DEF HandlerTurns
  <2>2. CASE o = udp_client_data_event(x, c, e.in)
    <3>1. CASE ~e.in
      BY <1>2, <2>2, <3>1 DEF udp_client_data_event
    <3>2. CASE e.in /\ c.in # <<>>
      <4>1. o = ReadByte(x, c)
        BY <2>2, <3>2 DEF udp_client_data_event
      <4> QED BY <4>1, <3>2, ReadByteKeeps
    <3>3. CASE e.in /\ c.in = <<>>
      <4>1. o = Turn(x, c, IF c.gone THEN "PEER" ELSE "NONE")
        BY <2>2, <3>3 DEF udp_client_data_event
      <4> QED BY <1>1, <1>2, <4>1
    <3> QED BY <3>1, <3>2, <3>3
  <2> QED BY <1>2, <2>1, <2>2
<1>5. CASE e.role = "local"
  <2> DEFINE src == x.src \/ "peer" \in c.lan
             y == [x EXCEPT !.src = src]
             d == [c EXCEPT !.lan = {}]
  <2>1. o = Turn(y, d, "NONE") \/ o = Turn(x, c, "IO")
    BY <1>5 DEF HandlerTurns, udp_local_event
  <2>2. src \in BOOLEAN
    BY <1>1 DEF Session
  <2> HIDE DEF src
  <2>3. /\ y \in Session /\ Kept(x, y) /\ y.hdr = x.hdr /\ y.body = x.body
        /\ y.expect = x.expect /\ y.out = x.out /\ y.outLen = x.outLen /\ y.outOff = x.outOff
    BY <1>1, <2>2 DEF Session, Kept
  <2>4. /\ d \in Peer /\ d.in = c.in /\ d.next = c.next /\ d.routed = c.routed /\ d.open = c.open
        /\ d.garbled = c.garbled /\ d.taken = c.taken /\ d.read = c.read /\ d.sent = c.sent
    BY <1>1 DEF Peer
  <2> HIDE DEF y, d
  <2>5. PeerOK(d)
    BY <2>4 DEF PeerOK, Consecutive, Wrote, NextIn, HData
  <2>6. Buffered(y) /\ Sending(y, d)
    BY <2>3, <2>4 DEF Buffered, Sending, HData
  <2>7. Reading(y, d)
    BY <2>3, <2>4 DEF Reading, NextIn, HData
  <2>8. GoodTurn(x, c, Turn(y, d, "NONE"))
    BY <2>3, <2>4, <2>5, <2>6, <2>7 DEF GoodTurn, HData, Turn, Why
  <2> QED BY <1>2, <2>1, <2>8
<1>6. CASE e.role = "remote"
  <2>1. o = udp_remote_event(x, c) \/ o = Turn(x, c, "IO")
    BY <1>6 DEF HandlerTurns
  <2> QED BY <1>2, <2>1, RemoteKeeps
<1> QED BY <1>1, <1>3, <1>4, <1>5, <1>6 DEF Event, Roles

(* udp_update_events brings the masks up to date and nothing else.          *)
LEMMA UpdateKeeps ==
  ASSUME NEW x, NEW c, HData(x, c)
  PROVE  LET y == udp_update_events(x)
         IN HData(y, c) /\ Kept(x, y) /\ Masked(y)
<1> DEFINE out == (x.outLen > 0)
           in == (x.outLen = 0)
           z == [x EXCEPT !.clientOut = out, !.remoteIn = in]
           y == udp_update_events(x)
<1>1. x \in Session /\ x.local \in BOOLEAN
  BY DEF HData, Session
<1>2. CASE x.local
  BY <1>1, <1>2 DEF udp_update_events, Kept, Masked
<1>3. CASE ~x.local
  <2>1. y = z
    BY <1>3 DEF udp_update_events, RemoteInterest
  <2>2. out \in BOOLEAN /\ in \in BOOLEAN
    OBVIOUS
  <2> HIDE DEF out, in
  <2>3. /\ z \in Session /\ Kept(x, z) /\ z.hdr = x.hdr /\ z.body = x.body
        /\ z.expect = x.expect /\ z.out = x.out /\ z.outLen = x.outLen /\ z.outOff = x.outOff
        /\ z.remoteIn = in /\ z.clientOut = out
    BY <1>1, <2>2 DEF Session, Kept
  <2> HIDE DEF z, y
  <2>4. Masked(z)
    BY <2>3 DEF Masked, out, in
  <2>5. Buffered(z) /\ Sending(z, c) /\ Reading(z, c)
    BY <2>3 DEF Buffered, Sending, Reading, HData
  <2> QED BY <2>1, <2>3, <2>4, <2>5 DEF HData, y
<1> QED BY <1>1, <1>2, <1>3
-----------------------------------------------------------------------------
(* Steps *)

(* A step that leaves the life of every session alone *)
Quiet ==
  /\ UNCHANGED <<free, count, st, slot, list, garbage, todo, fin, stopping, lost, wpc>>
  /\ load'.others = load.others
  /\ \A s \in Slots : Kept(u[s], u'[s])
  /\ \A k \in Clients : net'[k].open => net[k].open

Control == Refs /\ Own /\ Listed /\ Built /\ Connected /\ Counted

(* A quiet step disturbs nothing that is about the life of sessions.        *)
LEMMA QuietControl ==
  ASSUME Types, Control, Quiet
  PROVE  Control'
<1> USE DEF Types
<1>1. /\ free' = free /\ st' = st /\ slot' = slot /\ list' = list /\ garbage' = garbage
      /\ todo' = todo /\ fin' = fin /\ stopping' = stopping /\ lost' = lost /\ wpc' = wpc
      /\ count' = count /\ load'.others = load.others
      /\ \A s \in Slots :
           /\ u'[s].gen = u[s].gen /\ u'[s].magic = u[s].magic /\ u'[s].refs = u[s].refs
           /\ u'[s].client = u[s].client /\ u'[s].closed = u[s].closed
           /\ u'[s].registered = u[s].registered
      /\ \A k \in Clients : net'[k].open => net[k].open
  BY DEF Quiet, Kept
<1>2. Free' = Free
  BY <1>1 DEF Free
<1>3. \A s \in Slots : (Finishing(s)' <=> Finishing(s)) /\ (Owned(s)' <=> Owned(s)) /\ (Settled(s)' <=> Settled(s))
  BY <1>1 DEF Finishing, Owned, Settled, Leftover
<1>4. Refs'
  BY <1>1, <1>2, <1>3 DEF Refs, Control
<1>5. Own'
  <2>1. Others' = Others
    BY <1>1, <1>2 DEF Others
  <2> QED BY <1>1, <2>1 DEF Own, Control
<1>6. Listed'
  BY <1>1, <1>3 DEF Listed, Control
<1>7. Built'
  <2>1. \A k \in Clients : st[k] \in Building \cup {"linked"} => slot[k] \in Slots
    BY DEF Own, Control
  <2> QED BY <1>1, <2>1 DEF Built, Control
<1>8. Connected'
  <2>1. \A k \in Clients : slot[k] # NoSlot => slot[k] \in Slots
    OBVIOUS
  <2> QED BY <1>1, <1>2, <2>1 DEF Connected, Control
<1>9. Counted'
  BY <1>1 DEF Counted, Control
<1> QED BY <1>4, <1>5, <1>6, <1>7, <1>8, <1>9 DEF Control

IInv == Types /\ Phase /\ Control /\ Data

(* What a session holds of the traffic *)
SameData(x, y) ==
  /\ y.hdr = x.hdr /\ y.body = x.body /\ y.expect = x.expect /\ y.out = x.out
  /\ y.outLen = x.outLen /\ y.outOff = x.outOff
  /\ y.local = x.local /\ y.remoteIn = x.remoteIn /\ y.clientOut = x.clientOut

(* What a client has seen of it *)
SamePeer(c, d) ==
  d.routed = c.routed /\ d.taken = c.taken /\ d.sent = c.sent /\ NextIn(d) = NextIn(c)

FreshPlaces == {"none", "acquire", "open", "remote", "link"}

(* The session of a pool thread that has not linked it yet *)
IdleUntilLinked ==
  ~stopping => \A k \in Clients : st[k] \in {"open", "remote", "link"} => Idle(u[slot[k]])

(* A step that reads and sends nothing for a session keeps the data right.  *)
LEMMA SameDataStep ==
  ASSUME Types, Types', Data,
         \A s \in Slots : SameData(u[s], u'[s]) \/ (s \notin list' /\ Buffered(u'[s])),
         \A k \in Clients : PeerOK(net'[k]) /\ SamePeer(net[k], net'[k]),
         \A s \in list' : s \in list /\ u'[s].client = u[s].client /\ u[s].client # 0,
         \A s \in list' \ {cur'.s} : s \in list \ {cur.s} \/ Masked(u'[s]),
         \A k \in Clients : st'[k] \in FreshPlaces => st[k] \in FreshPlaces,
         IdleUntilLinked'
  PROVE  Data'
<1>1. \A s \in Slots : Buffered(u'[s])
  BY DEF Data, SameData, Buffered
<1>2. \A k \in Clients : st'[k] \in FreshPlaces => FreshPeer(net'[k])
  BY DEF Data, SamePeer, FreshPeer, FreshPlaces
<1>3. ASSUME NEW s \in list'
      PROVE  Reading(u'[s], net'[u'[s].client]) /\ Sending(u'[s], net'[u'[s].client])
  <2>1. PICK k \in Clients : k = u[s].client /\ k = u'[s].client
    <3>1. s \in Slots /\ u[s].client \in Clients \cup {0}
      BY DEF Types, Session
    <3> QED BY <3>1
  <2>2. Reading(u[s], net[k]) /\ Sending(u[s], net[k])
    BY <2>1 DEF Data
  <2>3. SameData(u[s], u'[s]) /\ SamePeer(net[k], net'[k])
    BY DEF Types
  <2> QED BY <2>1, <2>2, <2>3 DEF SameData, SamePeer, Reading, Sending
<1>4. ASSUME NEW s \in list' \ {cur'.s}
      PROVE  Masked(u'[s])
  <2>1. s \in Slots
    BY DEF Types
  <2> QED BY <2>1 DEF Data, SameData, Masked
<1> QED BY <1>1, <1>2, <1>3, <1>4 DEF Data, FreshPlaces, IdleUntilLinked

(* One more byte of the client's frames is on its way.                      *)
LEMMA AppendConsecutive ==
  ASSUME NEW c \in Peer, Consecutive(c), c.next[1] \in DOMAIN BodyLen
  PROVE  LET d == [c EXCEPT !.next = Successor(@), !.in = Append(@, c.next)]
         IN /\ d \in Peer /\ Consecutive(d) /\ NextIn(d) = NextIn(c)
            /\ d.routed = c.routed /\ d.garbled = c.garbled /\ d.sent = c.sent
            /\ d.read = c.read /\ d.taken = c.taken /\ d.open = c.open
<1>1. PICK q \in Seq(Byte), b \in Byte : q = c.in /\ b = c.next
  BY DEF Peer
<1>2. PICK m \in Nat : m = Len(q) /\ (m = 0 <=> q = <<>>)
  BY LenProperties, EmptySeq
<1>3. PICK t \in Seq(Byte) :
        t = Append(q, b) /\ Len(t) = m + 1 /\ (\A i \in 1..m : t[i] = q[i]) /\ t[m + 1] = b
  <2>1. /\ Append(q, b) \in Seq(Byte) /\ Len(Append(q, b)) = m + 1
        /\ \A i \in 1..m : Append(q, b)[i] = q[i]
        /\ Append(q, b)[m + 1] = b
    BY <1>1, <1>2, AppendProperties
  <2> QED BY <2>1
<1>4. PICK f \in Nat, p \in Nat : b = <<f, p>> /\ b[1] = f /\ b[2] = p
  BY DEF Byte
<1>5. InFrame(b) /\ f \in DOMAIN BodyLen /\ p \in 1..(2 + BodyLen[f])
  BY <1>1, <1>4 DEF Consecutive, InFrame
<1>6. BodyLen \in [1..Len(BodyLen) -> Nat] /\ DOMAIN BodyLen \subseteq Nat
  BY UdpSessionAssumption, LenProperties
<1>7. PICK a \in Byte : a = Successor(b) /\ (a[1] \in DOMAIN BodyLen => InFrame(a))
  <2>1. CASE p < 2 + BodyLen[f]
    <3>1. Successor(b) = <<f, p + 1>> /\ Successor(b) \in Byte
      BY <1>4, <2>1 DEF Successor, Byte
    <3>2. p + 1 \in 1..(2 + BodyLen[f])
      BY <2>1, <1>4, <1>5, <1>6
    <3> QED BY SMTT(20), <3>1, <3>2, <1>5 DEF InFrame
  <2>2. CASE ~(p < 2 + BodyLen[f])
    <3>1. Successor(b) = <<f + 1, 1>> /\ Successor(b) \in Byte
      BY <1>4, <2>2 DEF Successor, Byte
    <3>2. f + 1 \in DOMAIN BodyLen => 1 \in 1..(2 + BodyLen[f + 1])
      BY <1>6
    <3> QED BY <3>1, <3>2 DEF InFrame
  <2> QED BY <2>1, <2>2
<1> DEFINE d == [c EXCEPT !.next = a, !.in = t]
<1>8. /\ d \in Peer /\ d.in = t /\ d.next = a
      /\ d.routed = c.routed /\ d.garbled = c.garbled /\ d.sent = c.sent
      /\ d.read = c.read /\ d.taken = c.taken /\ d.open = c.open
  BY DEF Peer
<1>9. [c EXCEPT !.next = Successor(@), !.in = Append(@, c.next)] = d
  BY <1>1, <1>3, <1>7
<1> HIDE DEF d
<1>10. \A i \in 1..m : InFrame(q[i]) /\ Successor(q[i]) = IF i = m THEN b ELSE q[i + 1]
  BY <1>1, <1>2 DEF Consecutive
<1>11. \A i \in 1..(m + 1) :
         InFrame(t[i]) /\ Successor(t[i]) = IF i = m + 1 THEN a ELSE t[i + 1]
  <2> SUFFICES ASSUME NEW i \in 1..(m + 1)
               PROVE  InFrame(t[i]) /\ Successor(t[i]) = IF i = m + 1 THEN a ELSE t[i + 1]
    OBVIOUS
  <2>1. CASE i = m + 1
    BY <2>1, <1>3, <1>5, <1>7
  <2>2. CASE i < m
    <3>1. i \in 1..m /\ i + 1 \in 1..m /\ i # m /\ i # m + 1
      BY <2>2, <1>2
    <3> QED BY <3>1, <1>3, <1>10
  <2>3. CASE i = m
    <3>1. i \in 1..m /\ i # m + 1
      BY <2>3, <1>2
    <3> QED BY <2>3, <3>1, <1>3, <1>10
  <2> QED BY <2>1, <2>2, <2>3, <1>2
<1>12. Consecutive(d)
  BY <1>3, <1>7, <1>8, <1>11 DEF Consecutive
<1>13. NextIn(d) = NextIn(c)
  <2>1. t # <<>>
    BY <1>2, <1>3, EmptySeq
  <2>2. CASE m = 0
    BY <2>1, <2>2, <1>1, <1>2, <1>3, <1>8 DEF NextIn
  <2>3. CASE m # 0
    <3>1. 1 \in 1..m
      BY <2>3, <1>2
    <3> QED BY <3>1, <2>1, <2>3, <1>1, <1>2, <1>3, <1>8 DEF NextIn
  <2> QED BY <2>2, <2>3
<1> QED BY <1>8, <1>9, <1>12, <1>13

(* A step of a client, or of its surroundings, that concerns no session.    *)
LEMMA OutsideStep ==
  ASSUME IInv, Outside, NEW k \in Clients, NEW d \in Peer, PeerOK(d), SamePeer(net[k], d),
         d.open = net[k].open, net' = [net EXCEPT ![k] = d],
         load' \in Left, load'.others = load.others
  PROVE  IInv'
<1>1. /\ u' = u /\ free' = free /\ count' = count /\ st' = st /\ slot' = slot /\ list' = list
      /\ wpc' = wpc /\ batch' = batch /\ cur' = cur /\ touched' = touched /\ garbage' = garbage
      /\ todo' = todo /\ fin' = fin /\ stopping' = stopping /\ stop' = stop /\ lost' = lost
  BY DEF Outside, starting, worker
<1>2. Types /\ Phase /\ Control /\ Data
  BY DEF IInv
<1>3. /\ net' \in [Clients -> Peer] /\ net'[k] = d
      /\ \A j \in Clients : j # k => net'[j] = net[j]
  BY <1>2 DEF Types
<1>4. Types'
  BY <1>1, <1>2, <1>3 DEF Types
<1>5. Phase'
  BY <1>1, <1>2 DEF Phase
<1>6. Control'
  <2>1. Quiet
    BY <1>1, <1>2, <1>3 DEF Quiet, Kept
  <2> QED BY <2>1, <1>2, QuietControl
<1>7. Data'
  <2>1. \A s \in Slots : SameData(u[s], u'[s])
    BY <1>1 DEF SameData
  <2>2. \A j \in Clients : PeerOK(net'[j]) /\ SamePeer(net[j], net'[j])
    BY <1>2, <1>3 DEF Data, SamePeer
  <2>3. \A s \in list' : s \in list /\ u'[s].client = u[s].client /\ u[s].client # 0
    BY <1>1, <1>2 DEF Control, Listed, Settled
  <2>4. IdleUntilLinked'
    BY <1>1, <1>2 DEF Data, IdleUntilLinked
  <2> QED BY <2>1, <2>2, <2>3, <2>4, <1>1, <1>2, <1>4, SameDataStep
<1> QED BY <1>4, <1>5, <1>6, <1>7 DEF IInv

(* What clients and the 5G side do, and the stop.                           *)
LEMMA OutsideKeeps ==
  ASSUME IInv, NEW k \in Clients,
         ClientWrites(k) \/ ClientReads(k) \/ ClientLeaves(k) \/ Datagram(k) \/ Quit
  PROVE  IInv'
<1>1. /\ net \in [Clients -> Peer] /\ net[k] \in Peer /\ PeerOK(net[k]) /\ load \in Left
      /\ net[k].sent \in Seq(Byte) /\ Len(net[k].sent) \in Nat
  <2>1. net[k] \in Peer
    BY DEF IInv, Types
  <2> QED BY <2>1, LenProperties DEF IInv, Types, Data, Peer
<1>2. CASE ClientWrites(k)
  <2> DEFINE d == [net[k] EXCEPT !.next = Successor(@), !.in = Append(@, net[k].next)]
  <2>1. /\ Outside /\ net[k].next[1] \in DOMAIN BodyLen
        /\ load' = [load EXCEPT !.bytes = @ - 1]
        /\ net' = [net EXCEPT ![k].next = Successor(@), ![k].in = Append(@, net[k].next)]
    BY <1>2 DEF ClientWrites
  <2>2. net' = [net EXCEPT ![k] = d]
    BY <2>1, <1>1
  <2>3. load' \in Left /\ load'.others = load.others
    BY <2>1, <1>1 DEF Left
  <2>4. /\ d \in Peer /\ Consecutive(d) /\ NextIn(d) = NextIn(net[k])
        /\ d.routed = net[k].routed /\ d.garbled = net[k].garbled /\ d.sent = net[k].sent
        /\ d.read = net[k].read /\ d.taken = net[k].taken /\ d.open = net[k].open
    BY <2>1, <1>1, AppendConsecutive DEF PeerOK
  <2> HIDE DEF d
  <2>5. PeerOK(d) /\ SamePeer(net[k], d)
    BY <2>4, <1>1 DEF PeerOK, SamePeer, Wrote
  <2> QED BY <2>1, <2>2, <2>3, <2>4, <2>5, OutsideStep
<1>3. CASE ClientReads(k)
  <2> DEFINE read == net[k].read + 1
             d == [net[k] EXCEPT !.read = read]
  <2>1. /\ Outside /\ load' = load /\ net[k].read < Len(net[k].sent)
        /\ net' = [net EXCEPT ![k].read = @ + 1]
    BY <1>3 DEF ClientReads
  <2>2. net' = [net EXCEPT ![k] = d]
    BY <2>1, <1>1
  <2>4. net[k].read \in Nat /\ SockBuf \in Nat /\ read \in Nat /\ read = net[k].read + 1
    BY <1>1, UdpSessionAssumption DEF Peer
  <2> HIDE DEF read
  <2>3. /\ d \in Peer /\ d.in = net[k].in /\ d.next = net[k].next
        /\ d.routed = net[k].routed /\ d.garbled = net[k].garbled /\ d.sent = net[k].sent
        /\ d.read = read /\ d.taken = net[k].taken /\ d.open = net[k].open
    BY <1>1, <2>4 DEF Peer
  <2> HIDE DEF d
  <2>5. PeerOK(d) /\ SamePeer(net[k], d)
    <3>1. Wrote(d)
      BY <2>1, <2>3, <2>4, <1>1 DEF PeerOK, Wrote
    <3> QED BY <3>1, <2>3, <1>1 DEF PeerOK, SamePeer, Consecutive, NextIn
  <2> QED BY <2>1, <2>2, <2>3, <2>5, <1>1, OutsideStep
<1>4. CASE ClientLeaves(k)
  <2> DEFINE d == [net[k] EXCEPT !.gone = TRUE]
  <2>1. /\ Outside /\ load' = [load EXCEPT !.leaves = @ - 1]
        /\ net' = [net EXCEPT ![k].gone = TRUE]
    BY <1>4 DEF ClientLeaves
  <2>2. net' = [net EXCEPT ![k] = d]
    BY <2>1, <1>1
  <2>3. load' \in Left /\ load'.others = load.others
    BY <2>1, <1>1 DEF Left
  <2>4. /\ d \in Peer /\ d.in = net[k].in /\ d.next = net[k].next
        /\ d.routed = net[k].routed /\ d.garbled = net[k].garbled /\ d.sent = net[k].sent
        /\ d.read = net[k].read /\ d.taken = net[k].taken /\ d.open = net[k].open
    BY <1>1 DEF Peer
  <2> HIDE DEF d
  <2>5. PeerOK(d) /\ SamePeer(net[k], d)
    BY <2>4, <1>1 DEF PeerOK, SamePeer, Consecutive, Wrote, NextIn
  <2> QED BY <2>1, <2>2, <2>3, <2>4, <2>5, OutsideStep
<1>5. CASE Datagram(k)
  <2>1. /\ Outside /\ load' = [load EXCEPT !.datagrams = @ - 1]
        /\ \/ net' = [net EXCEPT ![k].queue = @ + 1]
           \/ \E kind \in Kinds : net' = [net EXCEPT ![k].lan = @ \cup {kind}]
    BY <1>5 DEF Datagram
  <2>2. load' \in Left /\ load'.others = load.others
    BY <2>1, <1>1 DEF Left
  <2>3. CASE net' = [net EXCEPT ![k].queue = @ + 1]
    <3> DEFINE queue == net[k].queue + 1
               d == [net[k] EXCEPT !.queue = queue]
    <3>1. net' = [net EXCEPT ![k] = d]
      BY <2>3, <1>1
    <3>4. queue \in Nat
      BY <1>1 DEF Peer
    <3> HIDE DEF queue
    <3>2. /\ d \in Peer /\ d.in = net[k].in /\ d.next = net[k].next
          /\ d.routed = net[k].routed /\ d.garbled = net[k].garbled /\ d.sent = net[k].sent
          /\ d.read = net[k].read /\ d.taken = net[k].taken /\ d.open = net[k].open
      BY <1>1, <3>4 DEF Peer
    <3> HIDE DEF d
    <3>3. PeerOK(d) /\ SamePeer(net[k], d)
      BY <3>2, <1>1 DEF PeerOK, SamePeer, Consecutive, Wrote, NextIn
    <3> QED BY <3>1, <3>2, <3>3, <2>1, <2>2, OutsideStep
  <2>4. ASSUME NEW kind \in Kinds, net' = [net EXCEPT ![k].lan = @ \cup {kind}]
        PROVE  IInv'
    <3> DEFINE lan == net[k].lan \cup {kind}
               d == [net[k] EXCEPT !.lan = lan]
    <3>1. net' = [net EXCEPT ![k] = d]
      BY <2>4, <1>1
    <3>2. lan \subseteq Kinds
      BY <1>1 DEF Peer
    <3> HIDE DEF lan
    <3>3. /\ d \in Peer /\ d.in = net[k].in /\ d.next = net[k].next
          /\ d.routed = net[k].routed /\ d.garbled = net[k].garbled /\ d.sent = net[k].sent
          /\ d.read = net[k].read /\ d.taken = net[k].taken /\ d.open = net[k].open
      BY <3>2, <1>1 DEF Peer
    <3> HIDE DEF d
    <3>4. PeerOK(d) /\ SamePeer(net[k], d)
      BY <3>3, <1>1 DEF PeerOK, SamePeer, Consecutive, Wrote, NextIn
    <3> QED BY <3>1, <3>3, <3>4, <2>1, <2>2, OutsideStep
  <2> QED BY <2>1, <2>3, <2>4
<1>6. CASE Quit
  <2>1. /\ u' = u /\ free' = free /\ count' = count /\ st' = st /\ slot' = slot /\ list' = list
        /\ wpc' = wpc /\ batch' = batch /\ cur' = cur /\ touched' = touched /\ garbage' = garbage
        /\ todo' = todo /\ fin' = fin /\ stopping' = stopping /\ lost' = lost
        /\ net' = net /\ load' = load /\ stop' \in {"flag", "pipe"}
    BY <1>6 DEF Quit, starting, worker
  <2>2. Types /\ Phase /\ Control /\ Data
    BY DEF IInv
  <2>3. Types'
    BY <2>1, <2>2 DEF Types
  <2>4. Phase'
    BY <2>1, <2>2 DEF Phase
  <2>5. Control'
    <3>1. Quiet
      BY <2>1 DEF Quiet, Kept
    <3> QED BY <3>1, <2>2, QuietControl
  <2>6. Data'
    BY <2>1, <2>2 DEF Data, Idle, Reading, NextIn
  <2> QED BY <2>3, <2>4, <2>5, <2>6 DEF IInv
<1> QED BY <1>2, <1>3, <1>4, <1>5, <1>6

(* A step of the worker from one place to another that touches no session   *)
WorkerMoves ==
  /\ UNCHANGED <<u, free, count, list, net, lost, st, slot, load, fin, cur, stop>>
  /\ stopping => stopping'

(* What is left to show for such a step                                      *)
LEMMA MoveStep ==
  ASSUME IInv, WorkerMoves, Types', Phase', Listed', Built',
         \A s \in Slots : Owned(s) => Owned(s)',
         \A s \in todo' \cup garbage' : s \in todo \cup garbage
  PROVE  IInv'
<1>1. /\ u' = u /\ free' = free /\ count' = count /\ st' = st /\ slot' = slot /\ list' = list
      /\ cur' = cur /\ fin' = fin /\ net' = net /\ load' = load /\ lost' = lost
      /\ stopping => stopping'
  BY DEF WorkerMoves
<1>2. Types /\ Phase /\ Control /\ Data
  BY DEF IInv
<1>3. Free' = Free /\ \A s \in Slots : Finishing(s)' <=> Finishing(s)
  BY <1>1 DEF Free, Finishing
<1>4. Refs'
  BY <1>1, <1>2, <1>3 DEF Control, Refs
<1>5. Own'
  <2>1. Others' = Others
    BY <1>1, <1>3 DEF Others
  <2> QED BY <1>1, <1>2, <2>1 DEF Own, Control
<1>6. Connected' /\ Counted'
  BY <1>1, <1>2, <1>3 DEF Control, Connected, Counted
<1>7. Data'
  BY <1>1, <1>2 DEF Data, Idle, Reading, NextIn
<1> QED BY <1>2, <1>4, <1>5, <1>6, <1>7 DEF IInv, Control

(* The worker's steps from one place to the next.                            *)
LEMMA MoveKeeps ==
  ASSUME IInv, StopSeen \/ LoopTest \/ ExitWorker \/ NextBatch \/ \E e \in batch : SkipEvent(e)
  PROVE  IInv'
<1>1. Types /\ Phase /\ Listed /\ Built /\ Own
  BY DEF IInv, Control
<1>2. CASE StopSeen \/ \E e \in batch : SkipEvent(e)
  <2>1. /\ WorkerMoves /\ touched' = touched /\ garbage' = garbage /\ todo' = todo
        /\ stopping' = stopping /\ wpc = "events" /\ wpc' \in {"events", "exit"}
        /\ batch' \subseteq batch /\ (cur = NoEvent \/ wpc' = "events")
    BY <1>2 DEF StopSeen, SkipEvent, WorkerStep, WorkerMoves
  <2>2. Types' /\ Phase'
    <3>1. Types'
      BY <1>1, <2>1 DEF Types, WorkerMoves, LoopPc
    <3>2. Phase'
      BY <1>1, <2>1 DEF Phase, WorkerMoves, LoopPc, StopPc, Unrefs
    <3> QED BY <3>1, <3>2
  <2>3. Listed' /\ Built'
    BY <1>1, <2>1 DEF Listed, Built, WorkerMoves, Settled
  <2>4. \A s \in Slots : Owned(s) => Owned(s)'
    BY <2>1 DEF WorkerMoves, Owned, Leftover
  <2> QED BY <2>1, <2>2, <2>3, <2>4, MoveStep
<1>3. CASE LoopTest
  <2>1. /\ WorkerMoves /\ touched' = touched /\ garbage' = garbage /\ todo' = todo /\ todo = {}
        /\ stopping' = stopping /\ wpc = "gc" /\ wpc' \in {"wait", "exit"} /\ fin = NoSlot
        /\ batch' = batch
    BY <1>3 DEF LoopTest, Unreffed, WorkerStep, WorkerMoves
  <2>2. Types' /\ Phase'
    <3>1. Types'
      BY <1>1, <2>1 DEF Types, WorkerMoves, LoopPc
    <3>2. Phase'
      BY <1>1, <2>1 DEF Phase, WorkerMoves, LoopPc, StopPc, Unrefs
    <3> QED BY <3>1, <3>2
  <2>3. Listed' /\ Built'
    BY <1>1, <2>1 DEF Listed, Built, WorkerMoves, Settled
  <2>4. \A s \in Slots : Owned(s) => Owned(s)'
    BY <2>1 DEF WorkerMoves, Owned, Leftover
  <2> QED BY <2>1, <2>2, <2>3, <2>4, MoveStep
<1>4. CASE ExitWorker
  <2>1. /\ WorkerMoves /\ touched' = touched /\ garbage' = garbage /\ todo' = todo
        /\ stopping' = TRUE /\ wpc = "exit" /\ wpc' = "drain" /\ batch' = batch
    BY <1>4 DEF ExitWorker, WorkerStep, WorkerMoves
  <2>2. Types' /\ Phase'
    BY <1>1, <2>1 DEF Types, Phase, WorkerMoves, LoopPc, StopPc, Unrefs
  <2>3. Listed' /\ Built'
    BY <1>1, <2>1 DEF Listed, Built, WorkerMoves, Settled
  <2>4. \A s \in Slots : Owned(s) => Owned(s)'
    BY <2>1 DEF WorkerMoves, Owned, Leftover
  <2> QED BY <2>1, <2>2, <2>3, <2>4, MoveStep
<1>5. CASE NextBatch
  <2>1. /\ WorkerMoves /\ touched' = touched /\ garbage' = garbage /\ fin = NoSlot
        /\ stopping' = stopping /\ batch' = batch /\ todo = {}
        /\ \/ wpc = "batch" /\ wpc' = "drain" /\ todo' = todo
           \/ wpc = "lastbatch" /\ wpc' = "again" /\ todo' = garbage
           \/ wpc = "again" /\ wpc' = "closed" /\ todo' = todo
    BY <1>5 DEF NextBatch, Unreffed, WorkerStep, WorkerMoves, LeftOver
  <2>2. Types' /\ Phase'
    BY <1>1, <2>1 DEF Types, Phase, WorkerMoves, LoopPc, StopPc, Unrefs
  <2>3. Listed' /\ Built'
    BY <1>1, <2>1 DEF Listed, Built, WorkerMoves, Settled, Phase
  <2>4. \A s \in Slots : Owned(s) => Owned(s)'
    BY <2>1 DEF WorkerMoves, Owned, Leftover
  <2>5. \A s \in todo' \cup garbage' : s \in todo \cup garbage
    BY <2>1
  <2> QED BY <2>1, <2>2, <2>3, <2>4, <2>5, MoveStep
<1> QED BY <1>2, <1>3, <1>4, <1>5

(* epoll_wait: the garbage of the last round is gone.                        *)
LEMMA EpollWaitKeeps ==
  ASSUME IInv, EpollWait
  PROVE  IInv'
<1>1. Types /\ Phase /\ Listed /\ Built /\ Own
  BY DEF IInv, Control
<1> DEFINE ready == UNION {Ready(s) : s \in Slots}
<1>2. /\ WorkerMoves /\ touched' = {} /\ garbage' = {} /\ todo' = todo
      /\ batch' \subseteq ready \cup {StopEvent}
      /\ stopping' = stopping /\ wpc = "wait" /\ wpc' = "events"
  <2>1. /\ WorkerMoves /\ touched' = {} /\ garbage' = {} /\ todo' = todo
        /\ stopping' = stopping /\ wpc = "wait" /\ wpc' = "events"
    BY DEF EpollWait, WorkerStep, WorkerMoves
  <2>2. batch' \in SUBSET (ready \cup (IF stop = "pipe" THEN {StopEvent} ELSE {}))
    BY DEF EpollWait
  <2> HIDE DEF ready
  <2> QED BY <2>1, <2>2
<1>3. \A s \in Slots : Ready(s) \subseteq Event
  <2>1. \A s \in Slots : u[s].gen \in Nat /\ u[s].armed \subseteq Roles
    BY <1>1 DEF Types, Session
  <2>2. ASSUME NEW s \in Slots, NEW e \in Ready(s)
        PROVE  e \in Event
    <3>1. PICK role \in u[s].armed, in \in BOOLEAN : e = [s |-> s, gen |-> u[s].gen, role |-> role, in |-> in]
      BY DEF Ready
    <3> QED BY <2>1, <3>1 DEF Event
  <2> QED BY <2>2
<1>4. Types' /\ Phase'
  <2>1. ready \subseteq Event
    BY <1>3
  <2> HIDE DEF ready
  <2> QED BY <1>1, <1>2, <2>1 DEF Types, Phase, WorkerMoves, LoopPc, StopPc, Unrefs
<1>5. Listed' /\ Built'
  BY <1>1, <1>2 DEF Listed, Built, WorkerMoves, Settled
<1>6. \A s \in Slots : Owned(s) => Owned(s)'
  BY <1>2 DEF WorkerMoves, Owned, Leftover
<1> QED BY <1>2, <1>4, <1>5, <1>6, MoveStep

(* What a handler finds at a session of the list                             *)
LEMMA ListedData ==
  ASSUME IInv, NEW s \in list
  PROVE  /\ s \in Slots /\ u[s].client \in Clients
         /\ HData(u[s], net[u[s].client])
         /\ st[u[s].client] \in {"linked", "done"} /\ slot[u[s].client] = s
<1>1. Types /\ Listed /\ Data
  BY DEF IInv, Control
<1>2. s \in Slots /\ u[s] \in Session
  BY <1>1 DEF Types
<1>3. PICK k \in Clients : k = u[s].client /\ slot[k] = s /\ st[k] \in {"linked", "done"}
  <2>1. u[s].client \in Clients \cup {0}
    BY <1>2 DEF Session
  <2>2. Settled(s)
    BY <1>1 DEF Listed
  <2> QED BY <2>1, <2>2 DEF Settled
<1>4. net[k] \in Peer /\ PeerOK(net[k]) /\ Buffered(u[s])
  BY <1>1, <1>2, <1>3 DEF Types, Data
<1>5. Reading(u[s], net[k]) /\ Sending(u[s], net[k])
  BY <1>1, <1>3 DEF Data
<1> QED BY <1>2, <1>3, <1>4, <1>5 DEF HData

(* A turn after which the session goes on.                                   *)
LEMMA TurnStep ==
  ASSUME IInv, NEW s \in list, NEW y, NEW d, HData(y, d), Kept(u[s], y),
         d.open = net[u[s].client].open,
         u' = [u EXCEPT ![s] = y], net' = [net EXCEPT ![u[s].client] = d],
         UNCHANGED <<free, count, list, lost, wpc, garbage, todo, fin, stopping, stop, st, slot,
                     load>>,
         wpc = "events", batch' \subseteq batch, touched' \subseteq Slots,
         cur' \in Event \cup {NoEvent}, cur' # NoEvent => cur'.s \in list /\ u[cur'.s].registered,
         s = cur'.s \/ (Masked(y) /\ s = cur.s), s # cur'.s \/ cur = NoEvent \/ cur.s = s
  PROVE  IInv'
<1>1. /\ free' = free /\ count' = count /\ st' = st /\ slot' = slot /\ list' = list
      /\ wpc' = wpc /\ garbage' = garbage /\ todo' = todo /\ fin' = fin /\ stopping' = stopping
      /\ stop' = stop /\ lost' = lost /\ load' = load
  OBVIOUS
<1>2. Types /\ Phase /\ Control /\ Data /\ Listed /\ Built
  BY DEF IInv, Control
<1>3. PICK k \in Clients : k = u[s].client /\ st[k] \in {"linked", "done"} /\ slot[k] = s
  BY ListedData
<1>4. s \in Slots /\ y \in Session /\ d \in Peer
  BY ListedData DEF HData
<1>5. /\ u' \in [Slots -> Session] /\ u'[s] = y /\ \A t \in Slots : t # s => u'[t] = u[t]
      /\ net' \in [Clients -> Peer] /\ net'[k] = d /\ \A j \in Clients : j # k => net'[j] = net[j]
  BY <1>2, <1>3, <1>4 DEF Types
<1>6. Types'
  BY <1>1, <1>2, <1>5 DEF Types
<1>7. Phase'
  <2>1. cur' # NoEvent => cur'.s \in Slots /\ u'[cur'.s].registered
    BY <1>1, <1>2, <1>4, <1>5 DEF Kept, Types
  <2> QED BY <1>1, <1>2, <2>1 DEF Phase
<1>8. Control'
  <2>1. Quiet
    BY <1>1, <1>3, <1>5 DEF Quiet, Kept
  <2> QED BY <2>1, <1>2, <1>6, QuietControl
<1>9. \A t \in list : t # s => u[t].client \in Clients /\ u[t].client # k
  <2>1. \A t \in list : u[t].client \in Clients /\ slot[u[t].client] = t
    BY ListedData
  <2> QED BY <2>1, <1>3
<1>10. Data'
  <2>1. \A t \in Slots : Buffered(u'[t])
    BY <1>2, <1>5 DEF Data, HData
  <2>2. \A j \in Clients : PeerOK(net'[j])
    BY <1>2, <1>5 DEF Data, HData
  <2>3. \A j \in Clients : st'[j] \in {"none", "acquire", "open", "remote", "link"} => FreshPeer(net'[j])
    BY <1>1, <1>2, <1>3, <1>5 DEF Data
  <2>4. ~stopping' => \A j \in Clients : st'[j] \in {"open", "remote", "link"} => Idle(u'[slot'[j]])
    <3>1. ASSUME ~stopping, NEW j \in Clients, st[j] \in {"open", "remote", "link"}
          PROVE  slot[j] \in Slots /\ slot[j] # s /\ Idle(u[slot[j]])
      <4>1. u[slot[j]].client = j
        BY <3>1, <1>2 DEF Built, Building, Phase, StopPc
      <4>2. Idle(u[slot[j]])
        BY <3>1, <1>2 DEF Data
      <4>3. slot[j] \in Slots
        BY <3>1, <1>2 DEF Control, Own, Building, Types
      <4> QED BY <3>1, <4>1, <4>2, <4>3, <1>3
    <3> QED BY <3>1, <1>1, <1>5
  <2>5. ASSUME NEW t \in list'
        PROVE  Reading(u'[t], net'[u'[t].client]) /\ Sending(u'[t], net'[u'[t].client])
    <3>1. CASE t = s
      <4>1. u'[t] = y /\ u'[t].client = k /\ net'[k] = d
        BY <3>1, <1>3, <1>5 DEF Kept
      <4> QED BY <4>1 DEF HData
    <3>2. CASE t # s
      <4>1. /\ t \in list /\ t \in Slots /\ u'[t] = u[t] /\ u[t].client \in Clients
            /\ net'[u[t].client] = net[u[t].client]
        BY <3>2, <1>1, <1>2, <1>5, <1>9 DEF Types
      <4> QED BY <4>1, <1>2 DEF Data
    <3> QED BY <3>1, <3>2
  <2>6. ASSUME NEW t \in list' \ {cur'.s}
        PROVE  Masked(u'[t])
    <3>1. t \in list /\ t \in Slots /\ t # cur'.s
      BY <1>1, <1>2 DEF Types
    <3>2. CASE t = s
      BY <3>1, <3>2, <1>5
    <3>3. CASE t # s
      <4>1. t # cur.s
        <5>1. CASE cur = NoEvent
          BY <5>1, <3>1, UdpSessionAssumption DEF NoEvent
        <5>2. CASE cur # NoEvent
          BY <5>2, <3>1, <3>3
        <5> QED BY <5>1, <5>2
      <4> QED BY <4>1, <3>1, <3>3, <1>2, <1>5 DEF Data
    <3> QED BY <3>2, <3>3
  <2> QED BY <2>1, <2>2, <2>3, <2>4, <2>5, <2>6 DEF Data
<1> QED BY <1>6, <1>7, <1>8, <1>10 DEF IInv

(* A handler begins: what is pending goes out first.                         *)
LEMMA BeginEventKeeps ==
  ASSUME IInv, NEW e \in batch, BeginEvent(e)
  PROVE  IInv'
<1> DEFINE s == e.s
           k == u[s].client
           o == IF e.role = "client" /\ OutBusy(u[s])
                THEN udp_flush_out(u[s], net[k], "MORE") ELSE Turn(u[s], net[k], "MORE")
<1>1. Types /\ Phase /\ Built
  BY DEF IInv, Control
<1>2. /\ cur = NoEvent /\ udp_event_check_slot(e) /\ batch' = batch \ {e} /\ e # StopEvent
      /\ touched' = touched \cup {s} /\ cur' = e /\ wpc = "events"
      /\ u' = [u EXCEPT ![s] = o.x] /\ net' = [net EXCEPT ![k] = o.c]
      /\ UNCHANGED <<free, count, list, lost, wpc, garbage, todo, fin, stopping, stop, st, slot,
                     load>>
  BY DEF BeginEvent, WorkerStep
<1>3. e \in Event /\ s \in Slots
  BY <1>1, <1>2 DEF Types, Event
<1>4. s \in list /\ u[s].registered
  BY <1>1, <1>2, <1>3 DEF udp_event_check_slot, Built, Phase, StopPc
<1>5. HData(u[s], net[k])
  BY <1>4, ListedData
<1>6. HData(o.x, o.c) /\ Kept(u[s], o.x) /\ o.c.open = net[k].open
  <2>1. CASE e.role = "client" /\ OutBusy(u[s])
    <3> DEFINE f == udp_flush_out(u[s], net[k], "MORE")
    <3>1. o = f
      BY <2>1
    <3>2. /\ f.x \in Session /\ f.c \in Peer
          /\ Buffered(f.x) /\ PeerOK(f.c) /\ Sending(f.x, f.c)
          /\ Kept(u[s], f.x) /\ f.x.hdr = u[s].hdr /\ f.x.body = u[s].body /\ f.x.expect = u[s].expect
          /\ f.c.in = net[k].in /\ f.c.next = net[k].next /\ f.c.routed = net[k].routed
          /\ f.c.open = net[k].open
      BY SMTT(20), <1>5, FlushKeeps DEF HData
    <3> HIDE DEF f
    <3>3. Reading(f.x, f.c)
      BY <3>2, <1>5 DEF HData, Reading, NextIn
    <3> HIDE DEF o
    <3> QED BY <3>1, <3>2, <3>3 DEF HData
  <2>2. CASE ~(e.role = "client" /\ OutBusy(u[s]))
    <3>1. o = Turn(u[s], net[k], "MORE")
      BY <2>2
    <3> HIDE DEF o
    <3> QED BY <3>1, <1>5 DEF Turn, Kept
  <2> QED BY <2>1, <2>2
<1> HIDE DEF o
<1>7. touched' \subseteq Slots
  BY <1>1, <1>2, <1>3 DEF Types
<1> QED BY <1>2, <1>3, <1>4, <1>6, <1>7, TurnStep

(* The sessions of gone are closed and leave the list: what becomes of them. *)
Closes(gone) ==
  /\ list' = list \ gone /\ cur' = NoEvent
  /\ \A t \in Slots :
       /\ u'[t].gen = u[t].gen /\ u'[t].magic = u[t].magic /\ u'[t].refs = u[t].refs
       /\ u'[t].client = u[t].client /\ u'[t].registered = u[t].registered
       /\ t \notin gone => u'[t].closed = u[t].closed
       /\ t \in gone => u'[t].closed
  /\ \A k \in Clients : net'[k].open => net[k].open
  /\ UNCHANGED <<free, count, st, slot, fin, stop, stopping, load>>
  /\ todo = {}
  /\ \/ /\ wpc = "events" /\ \A t \in gone : u[t].registered
        /\ \E fit \in SUBSET gone :
             /\ garbage' = garbage \cup fit
             /\ lost' = lost \cup {u[t].client : t \in gone \ fit}
        /\ (wpc' = "events" /\ todo' = todo) \/ (wpc' = "gc" /\ todo' = garbage')
     \/ /\ wpc = "drain" /\ garbage' = garbage /\ lost' = lost /\ todo' = gone
        /\ wpc' \in {"batch", "lastbatch"}

(* A session that a pool thread has not linked yet is in no list.            *)
LEMMA BuildingApart ==
  ASSUME IInv, wpc \notin {"again", "closed"}, NEW k \in Clients, st[k] \in Building
  PROVE  slot[k] \in Slots /\ slot[k] \notin list /\ u[slot[k]].client = k
<1>1. Types /\ Own /\ Listed /\ Built
  BY DEF IInv, Control
<1>2. slot[k] \in Slots /\ u[slot[k]].client = k
  BY <1>1 DEF Types, Own, Built
<1> QED BY <1>1, <1>2 DEF Listed, Settled, Building

(* Closing keeps the account of references: every one has an owner after it. *)
LEMMA CloseControl ==
  ASSUME IInv, Types', NEW gone \in SUBSET list, Closes(gone)
  PROVE  Control'
<1>1. Types /\ Phase /\ Control /\ Refs /\ Own /\ Listed /\ Built /\ Connected /\ Counted
  BY DEF IInv, Control
<1>2. /\ free' = free /\ st' = st /\ slot' = slot /\ list' = list \ gone /\ fin' = fin
      /\ stopping' = stopping /\ count' = count /\ load' = load /\ todo = {}
      /\ \A s \in Slots :
           /\ u'[s].gen = u[s].gen /\ u'[s].magic = u[s].magic /\ u'[s].refs = u[s].refs
           /\ u'[s].client = u[s].client /\ u'[s].registered = u[s].registered
           /\ s \notin gone => u'[s].closed = u[s].closed
           /\ s \in gone => u'[s].closed
      /\ \A k \in Clients : net'[k].open => net[k].open
  BY DEF Closes
<1>3. Free' = Free
  BY <1>2 DEF Free
<1>4. \A s \in Slots : (Finishing(s)' <=> Finishing(s)) /\ (Settled(s)' <=> Settled(s))
  BY <1>2 DEF Finishing, Settled
<1>5. \A s \in list : /\ s \in Slots /\ Settled(s) /\ u[s].client \in Clients /\ slot[u[s].client] = s
                      /\ u[s].gen > 1
  <2>1. \A s \in list : s \in Slots /\ Settled(s) /\ u[s].gen > 1
    BY <1>1 DEF Listed, Types, Own
  <2> QED BY <2>1, ListedData
<1>6. \A s \in Slots : Owned(s) => Owned(s)'
  <2> SUFFICES ASSUME NEW s \in Slots, Owned(s)
               PROVE  Owned(s)'
    OBVIOUS
  <2>1. CASE wpc = "events"
    <3>1. PICK fit \in SUBSET gone :
             /\ garbage' = garbage \cup fit
             /\ lost' = lost \cup {u[t].client : t \in gone \ fit}
      BY <2>1 DEF Closes
    <3>2. wpc' = "events" \/ (wpc' = "gc" /\ todo' = garbage')
      BY <2>1 DEF Closes
    <3>3. s \in gone => s \in fit \/ u[s].client \in lost'
      BY <3>1
    <3> QED BY <1>2, <1>5, <2>1, <3>1, <3>2, <3>3 DEF Owned, Leftover
  <2>2. CASE wpc = "drain"
    <3>1. garbage' = garbage /\ lost' = lost /\ todo' = gone /\ wpc' \in {"batch", "lastbatch"}
      BY <2>2 DEF Closes
    <3> QED BY <1>2, <2>2, <3>1 DEF Owned, Leftover
  <2> QED BY <2>1, <2>2 DEF Closes
<1>7. Refs'
  BY <1>1, <1>2, <1>3, <1>4, <1>6 DEF Refs
<1>8. garbage' \subseteq garbage \cup list /\ todo' \subseteq garbage \cup list
  BY <1>2 DEF Closes
<1>9. Own'
  <2>1. Others' = Others
    BY <1>2, <1>3 DEF Others
  <2>2. fin # NoSlot => fin \in Slots
    BY <1>1 DEF Types
  <2>3. \A k \in Clients : slot[k] # NoSlot => slot[k] \in Slots
    BY <1>1 DEF Types
  <2>4. list' \cup todo' \cup garbage' \subseteq list \cup garbage /\ list \cup garbage \subseteq Slots
    BY <1>1, <1>2, <1>8 DEF Types
  <2> QED BY <1>1, <1>2, <2>1, <2>2, <2>3, <2>4 DEF Own
<1>10. Listed'
  <2>1. \A s \in list' : Settled(s)' /\ ~u'[s].closed /\ u'[s].magic
    BY <1>1, <1>2, <1>4, <1>5 DEF Listed
  <2>2. CASE wpc = "events"
    <3>1. PICK fit \in SUBSET gone :
             /\ garbage' = garbage \cup fit
             /\ lost' = lost \cup {u[t].client : t \in gone \ fit}
      BY <2>2 DEF Closes
    <3>2. /\ (wpc' = "events" /\ todo' = {}) \/ (wpc' = "gc" /\ todo' = garbage')
          /\ garbage \subseteq Slots /\ \A s \in garbage : Settled(s) /\ s \notin list
      BY <2>2, <1>1, <1>2 DEF Closes, Listed, Types
    <3>3. list' \cap todo' = {} /\ \A s \in garbage' \cup todo' : Settled(s)' /\ s \notin list'
      BY <1>2, <1>4, <1>5, <3>1, <3>2
    <3>4. ASSUME NEW k \in lost'
          PROVE  /\ slot[k] # NoSlot /\ Settled(slot[k]) /\ u[slot[k]].client = k
                 /\ slot[k] \in Slots
                 /\ slot[k] \notin list' \cup todo' \cup garbage'
                 /\ \A j \in Clients : st[j] \in Building => slot[j] # slot[k]
      <4>1. CASE k \in lost
        BY <4>1, <1>1, <1>2, <3>1, <3>2 DEF Listed, Types
      <4>2. CASE k \notin lost
        <5>1. PICK t \in gone \ fit : k = u[t].client
          BY <4>2, <3>1
        <5>2. slot[k] = t /\ t \in Slots /\ Settled(t) /\ t # NoSlot
          BY <5>1, <1>5, UdpSessionAssumption
        <5>3. \A j \in Clients : st[j] \in Building => slot[j] # t
          BY <5>1, <2>2, BuildingApart
        <5> QED BY <5>1, <5>2, <5>3, <1>2, <3>1, <3>2
      <4> QED BY <4>1, <4>2
    <3> QED BY <2>1, <3>3, <3>4, <1>2, <1>4 DEF Listed
  <2>3. CASE wpc = "drain"
    <3>1. garbage' = garbage /\ lost' = lost /\ todo' = gone /\ wpc' \in {"batch", "lastbatch"}
      BY <2>3 DEF Closes
    <3>2. list' \cap todo' = {} /\ \A s \in todo' : Settled(s)'
      BY <1>2, <1>4, <1>5, <3>1
    <3>3. \A k \in lost : slot[k] \in Slots
      BY <1>1 DEF Listed, Types
    <3> QED BY <2>1, <3>1, <3>2, <3>3, <1>1, <1>2, <1>4 DEF Listed
  <2> QED BY <2>2, <2>3 DEF Closes
<1>11. Built'
  <2>1. wpc \notin {"again", "closed"} /\ (wpc' \notin {"again", "closed"})
    BY DEF Closes
  <2>2. \A k \in Clients : st[k] \in Building \cup {"linked"} => slot[k] \in Slots
    BY <1>1 DEF Own, Types
  <2>3. ~stopping => wpc = "events" /\ \A t \in gone : u[t].registered
    BY <1>1 DEF Closes, Phase, StopPc
  <2> QED BY <1>1, <1>2, <2>1, <2>2, <2>3 DEF Built
<1>12. Connected'
  <2>1. \A k \in Clients : slot[k] # NoSlot => slot[k] \in Slots
    BY <1>1 DEF Types
  <2> QED BY <1>1, <1>2, <1>3, <2>1 DEF Connected
<1>13. Counted'
  BY <1>1, <1>2 DEF Counted
<1> QED BY <1>7, <1>9, <1>10, <1>11, <1>12, <1>13 DEF Control

(* A handler's turn: it goes on, it ends and the masks are brought up to     *)
(* date, or the session is closed.                                           *)
LEMMA HandleEventKeeps ==
  ASSUME IInv, HandleEvent
  PROVE  IInv'
<1> DEFINE s == cur.s
           k == u[s].client
<1>1. Types /\ Phase /\ Control /\ Data /\ Listed
  BY DEF IInv, Control
<1>2. /\ wpc = "events" /\ cur # NoEvent
      /\ UNCHANGED <<free, count, wpc, batch, touched, todo, fin, stopping, stop, st, slot, load>>
  BY DEF HandleEvent, WorkerStep
<1>3. cur \in Event /\ s \in list /\ u[s].registered
  BY <1>1, <1>2 DEF Types, Phase
<1>4. /\ s \in Slots /\ k \in Clients /\ HData(u[s], net[k])
      /\ st[k] \in {"linked", "done"} /\ slot[k] = s
  BY <1>3, ListedData
<1>5. PICK o \in HandlerTurns(cur, u[s], net[k]) :
        \/ /\ o.end = "MORE"
           /\ u' = [u EXCEPT ![s] = o.x] /\ net' = [net EXCEPT ![k] = o.c]
           /\ UNCHANGED <<list, garbage, lost, cur>>
        \/ /\ o.end = "NONE"
           /\ u' = [u EXCEPT ![s] = udp_update_events(o.x)]
           /\ net' = [net EXCEPT ![k] = o.c]
           /\ cur' = NoEvent
           /\ UNCHANGED <<list, garbage, lost>>
        \/ /\ o.end \notin {"MORE", "NONE"}
           /\ u' = [u EXCEPT ![s] = [o.x EXCEPT !.closed = TRUE]]
           /\ net' = [net EXCEPT ![k] = [o.c EXCEPT !.why = o.end]]
           /\ list' = list \ {s}
           /\ Collect({s})
           /\ cur' = NoEvent
  BY DEF HandleEvent
<1>6. GoodTurn(u[s], net[k], o)
  BY <1>3, <1>4, HandlerKeeps
<1>7. CASE /\ o.end = "MORE"
           /\ u' = [u EXCEPT ![s] = o.x] /\ net' = [net EXCEPT ![k] = o.c]
           /\ UNCHANGED <<list, garbage, lost, cur>>
  <2>1. HData(o.x, o.c) /\ Kept(u[s], o.x) /\ o.c.open = net[k].open
    BY <1>6, <1>7 DEF GoodTurn
  <2>2. touched' \subseteq Slots
    BY <1>1, <1>2 DEF Types
  <2> QED BY <1>2, <1>3, <1>7, <2>1, <2>2, TurnStep
<1>8. CASE /\ o.end = "NONE"
           /\ u' = [u EXCEPT ![s] = udp_update_events(o.x)]
           /\ net' = [net EXCEPT ![k] = o.c]
           /\ cur' = NoEvent
           /\ UNCHANGED <<list, garbage, lost>>
  <2> DEFINE y == udp_update_events(o.x)
  <2>1. HData(o.x, o.c) /\ Kept(u[s], o.x) /\ o.c.open = net[k].open
    BY <1>6, <1>8 DEF GoodTurn
  <2>2. HData(y, o.c) /\ Kept(o.x, y) /\ Masked(y)
    BY <2>1, UpdateKeeps
  <2> HIDE DEF y
  <2>3. Kept(u[s], y)
    BY <2>1, <2>2 DEF Kept
  <2>4. touched' \subseteq Slots /\ u' = [u EXCEPT ![s] = y]
    BY <1>1, <1>2, <1>8 DEF Types, y
  <2>5. /\ net' = [net EXCEPT ![u[s].client] = o.c] /\ o.c.open = net[u[s].client].open
        /\ batch' \subseteq batch
        /\ UNCHANGED <<free, count, list, lost, wpc, garbage, todo, fin, stopping, stop, st,
                       slot, load>>
    BY <1>2, <1>8, <2>1
  <2> QED BY <1>2, <1>3, <1>8, <2>2, <2>3, <2>4, <2>5, TurnStep
<1>9. CASE /\ o.end \notin {"MORE", "NONE"}
           /\ u' = [u EXCEPT ![s] = [o.x EXCEPT !.closed = TRUE]]
           /\ net' = [net EXCEPT ![k] = [o.c EXCEPT !.why = o.end]]
           /\ list' = list \ {s}
           /\ Collect({s})
           /\ cur' = NoEvent
  <2> DEFINE y == [o.x EXCEPT !.closed = TRUE]
             d == [o.c EXCEPT !.why = o.end]
  <2>1. /\ o.x \in Session /\ o.c \in Peer /\ Buffered(o.x) /\ PeerOK(o.c)
        /\ Kept(u[s], o.x) /\ o.c.open = net[k].open /\ o.end \in Why
    BY <1>6, <1>9 DEF GoodTurn
  <2>2. /\ y \in Session /\ y.closed /\ Buffered(y)
        /\ y.gen = u[s].gen /\ y.magic = u[s].magic /\ y.refs = u[s].refs
        /\ y.client = k /\ y.registered = u[s].registered
    BY <2>1 DEF Session, Kept, Buffered
  <2>3. d \in Peer /\ d.open = net[k].open /\ PeerOK(d)
    <3>1. /\ d \in Peer /\ d.open = o.c.open /\ d.in = o.c.in /\ d.next = o.c.next /\ d.sent = o.c.sent
          /\ d.read = o.c.read /\ d.garbled = o.c.garbled
      BY <2>1 DEF Peer
    <3> HIDE DEF d
    <3> QED BY <3>1, <2>1 DEF PeerOK, Consecutive, Wrote
  <2>4. u' = [u EXCEPT ![s] = y] /\ net' = [net EXCEPT ![k] = d]
    BY <1>9
  <2> HIDE DEF y, d
  <2>5. /\ u' \in [Slots -> Session] /\ u'[s] = y /\ \A t \in Slots : t # s => u'[t] = u[t]
        /\ net' \in [Clients -> Peer] /\ net'[k] = d /\ \A j \in Clients : j # k => net'[j] = net[j]
    BY <1>1, <1>4, <2>2, <2>3, <2>4 DEF Types
  <2>6. PICK fit \in SUBSET {s} :
          garbage' = garbage \cup fit /\ lost' = lost \cup {u[t].client : t \in {s} \ fit}
    BY <1>9 DEF Collect
  <2>7. Types'
    <3>1. garbage' \subseteq Slots /\ lost' \subseteq Clients
      <4>1. {u[t].client : t \in {s} \ fit} \subseteq {k}
        OBVIOUS
      <4> HIDE DEF k, s
      <4> QED BY <1>1, <1>4, <2>6, <4>1 DEF Types
    <3>2. list' \subseteq Slots /\ cur' = NoEvent
      BY <1>1, <1>9 DEF Types
    <3> QED BY <3>1, <3>2, <1>1, <1>2, <2>5 DEF Types
  <2>8. Phase'
    BY <1>1, <1>2, <1>9 DEF Phase, Unrefs, StopPc
  <2>9. Control'
    <3>1. todo = {}
      BY <1>1, <1>2 DEF Phase, Unrefs
    <3>2. \A t \in Slots :
            /\ u'[t].gen = u[t].gen /\ u'[t].magic = u[t].magic /\ u'[t].refs = u[t].refs
            /\ u'[t].client = u[t].client /\ u'[t].registered = u[t].registered
            /\ t \notin {s} => u'[t].closed = u[t].closed
            /\ t \in {s} => u'[t].closed
      BY <2>2, <2>5
    <3>3. \A j \in Clients : net'[j].open => net[j].open
      BY <2>3, <2>5
    <3>4. \E f \in SUBSET {s} :
             /\ garbage' = garbage \cup f
             /\ lost' = lost \cup {u[t].client : t \in {s} \ f}
      BY <2>6
    <3>5. \A t \in {s} : u[t].registered
      BY <1>3
    <3> HIDE DEF s, k
    <3>6. Closes({s})
      BY <1>2, <1>9, <3>1, <3>2, <3>3, <3>4, <3>5 DEF Closes
    <3> QED BY <3>6, <1>3, <2>7, CloseControl
  <2>10. Data'
    <3>1. \A t \in Slots : Buffered(u'[t])
      BY <1>1, <2>2, <2>5 DEF Data
    <3>2. \A j \in Clients : PeerOK(net'[j])
      BY <1>1, <2>3, <2>5 DEF Data
    <3>3. \A j \in Clients : st'[j] \in {"none", "acquire", "open", "remote", "link"} => FreshPeer(net'[j])
      BY <1>1, <1>2, <1>4, <2>5 DEF Data
    <3>4. \A j \in Clients : st'[j] \in {"open", "remote", "link"} => Idle(u'[slot'[j]])
      <4>1. ASSUME NEW j \in Clients, st[j] \in {"open", "remote", "link"}
            PROVE  slot[j] \in Slots /\ slot[j] # s /\ Idle(u[slot[j]])
        <5>1. slot[j] \in Slots /\ slot[j] \notin list
          BY <4>1, <1>2, BuildingApart DEF Building
        <5>2. ~stopping
          BY <1>1, <1>2 DEF Phase, StopPc
        <5> QED BY <4>1, <5>1, <5>2, <1>1, <1>3 DEF Data
      <4> QED BY <4>1, <1>2, <2>5
    <3>5. ASSUME NEW t \in list'
          PROVE  /\ Reading(u'[t], net'[u'[t].client]) /\ Sending(u'[t], net'[u'[t].client])
                 /\ Masked(u'[t])
      <4>1. t \in list /\ t # s /\ t \in Slots /\ u'[t] = u[t]
        BY <1>1, <1>9, <2>5 DEF Types
      <4>2. u[t].client \in Clients /\ slot[u[t].client] = t
        BY <4>1, ListedData
      <4>3. net'[u[t].client] = net[u[t].client]
        BY <4>1, <4>2, <1>4, <2>5
      <4> QED BY <4>1, <4>2, <4>3, <1>1 DEF Data
    <3> QED BY <3>1, <3>2, <3>3, <3>4, <3>5 DEF Data
  <2> QED BY <2>7, <2>8, <2>9, <2>10 DEF IInv
<1> QED BY <1>5, <1>7, <1>8, <1>9

(* Several sessions are closed at once and their clients told why.           *)
LEMMA GroupClosed ==
  ASSUME IInv, NEW gone \in SUBSET Slots, NEW why \in Why,
         u' = [s \in Slots |-> IF s \in gone THEN [u[s] EXCEPT !.closed = TRUE] ELSE u[s]],
         net' = [k \in Clients |-> IF \E s \in gone : u[s].client = k
                                   THEN [net[k] EXCEPT !.why = why] ELSE net[k]]
  PROVE  /\ u' \in [Slots -> Session] /\ net' \in [Clients -> Peer]
         /\ \A t \in Slots :
              /\ u'[t].gen = u[t].gen /\ u'[t].magic = u[t].magic /\ u'[t].refs = u[t].refs
              /\ u'[t].client = u[t].client /\ u'[t].registered = u[t].registered
              /\ t \notin gone => u'[t] = u[t]
              /\ t \in gone => u'[t].closed
              /\ SameData(u[t], u'[t])
         /\ \A k \in Clients :
              net'[k].open = net[k].open /\ PeerOK(net'[k]) /\ SamePeer(net[k], net'[k])
<1>1. Types /\ Data
  BY DEF IInv
<1>2. ASSUME NEW t \in Slots
      PROVE  /\ u'[t] \in Session
             /\ u'[t].gen = u[t].gen /\ u'[t].magic = u[t].magic /\ u'[t].refs = u[t].refs
             /\ u'[t].client = u[t].client /\ u'[t].registered = u[t].registered
             /\ t \notin gone => u'[t] = u[t]
             /\ t \in gone => u'[t].closed
             /\ SameData(u[t], u'[t])
  <2>1. u[t] \in Session
    BY <1>1 DEF Types
  <2>2. CASE t \in gone
    <3>1. u'[t] = [u[t] EXCEPT !.closed = TRUE]
      BY <2>2
    <3> QED BY <2>1, <2>2, <3>1 DEF Session, SameData
  <2>3. CASE t \notin gone
    <3>1. u'[t] = u[t]
      BY <2>3
    <3> QED BY <2>1, <2>3, <3>1 DEF SameData
  <2> QED BY <2>2, <2>3
<1>3. ASSUME NEW k \in Clients
      PROVE  /\ net'[k] \in Peer /\ net'[k].open = net[k].open
             /\ PeerOK(net'[k]) /\ SamePeer(net[k], net'[k])
  <2>1. net[k] \in Peer /\ PeerOK(net[k])
    BY <1>1 DEF Types, Data
  <2>2. CASE \E s \in gone : u[s].client = k
    <3> DEFINE d == [net[k] EXCEPT !.why = why]
    <3>1. net'[k] = d
      BY <2>2
    <3>2. /\ d \in Peer /\ d.open = net[k].open /\ d.in = net[k].in /\ d.next = net[k].next
          /\ d.sent = net[k].sent /\ d.read = net[k].read /\ d.garbled = net[k].garbled
          /\ d.routed = net[k].routed /\ d.taken = net[k].taken
      BY <2>1 DEF Peer
    <3> HIDE DEF d
    <3> QED BY <2>1, <3>1, <3>2 DEF PeerOK, Consecutive, Wrote, SamePeer, NextIn
  <2>3. CASE ~\E s \in gone : u[s].client = k
    <3>1. net'[k] = net[k]
      BY <2>3
    <3> QED BY <2>1, <3>1 DEF SamePeer
  <2> QED BY <2>2, <2>3
<1>4. u' \in [Slots -> Session] /\ net' \in [Clients -> Peer]
  <2>1. DOMAIN u' = Slots /\ u' = [t \in Slots |-> u'[t]]
    OBVIOUS
  <2>2. DOMAIN net' = Clients /\ net' = [k \in Clients |-> net'[k]]
    OBVIOUS
  <2> QED BY <2>1, <2>2, <1>2, <1>3
<1> QED BY <1>2, <1>3, <1>4

(* What is left to show when sessions that hold nothing new are closed       *)
LEMMA CloseStep ==
  ASSUME IInv, Types', Phase', NEW gone \in SUBSET list, Closes(gone),
         wpc # "events" \/ ~stopping,
         \A t \in Slots : t \notin gone => u'[t] = u[t],
         \A t \in Slots : SameData(u[t], u'[t]),
         \A k \in Clients : PeerOK(net'[k]) /\ SamePeer(net[k], net'[k]), cur = NoEvent
  PROVE  IInv'
<1>1. Types /\ Phase /\ Data
  BY DEF IInv
<1>2. /\ list' \subseteq list /\ cur' = cur /\ st' = st /\ slot' = slot /\ stopping' = stopping
      /\ \A s \in Slots : u'[s].client = u[s].client
  BY DEF Closes
<1>3. IdleUntilLinked'
  <2> SUFFICES ASSUME ~stopping, NEW k \in Clients, st[k] \in {"open", "remote", "link"}
               PROVE  Idle(u'[slot[k]])
    BY <1>2 DEF IdleUntilLinked
  <2>1. wpc \notin {"again", "closed"}
    BY DEF Closes
  <2>2. slot[k] \in Slots /\ slot[k] \notin list
    BY <2>1, BuildingApart DEF Building
  <2>3. Idle(u[slot[k]])
    BY <1>1 DEF Data
  <2> QED BY <2>2, <2>3
<1>4. \A s \in list' : s \in list /\ u'[s].client = u[s].client /\ u[s].client # 0
  <2>1. \A s \in list : s \in Slots /\ u[s].client # 0
    BY ListedData DEF Clients
  <2> QED BY <1>2, <2>1
<1>5. Data'
  BY <1>1, <1>2, <1>3, <1>4, SameDataStep
<1>6. Control'
  BY CloseControl
<1> QED BY <1>5, <1>6 DEF IInv

(* The sweep takes idle sessions of the list into the garbage.               *)
LEMMA SweepKeeps ==
  ASSUME IInv, Sweep
  PROVE  IInv'
<1>1. Types /\ Phase
  BY DEF IInv
<1>2. /\ wpc = "events" /\ cur = NoEvent /\ batch = {} /\ touched' = {} /\ wpc' = "gc"
      /\ todo' = garbage'
      /\ UNCHANGED <<free, count, batch, cur, fin, stopping, st, slot, stop, load>>
  BY DEF Sweep, WorkerStep
<1>3. PICK gone \in SUBSET {s \in list : MayExpire(s)} :
       /\ u' = [s \in Slots |-> IF s \in gone THEN [u[s] EXCEPT !.closed = TRUE] ELSE u[s]]
       /\ net' = [k \in Clients |-> IF \E s \in gone : u[s].client = k
                                    THEN [net[k] EXCEPT !.why = "IDLE"] ELSE net[k]]
       /\ list' = list \ gone
       /\ Collect(gone)
  BY DEF Sweep
<1>4. PICK fit \in SUBSET gone :
        garbage' = garbage \cup fit /\ lost' = lost \cup {u[t].client : t \in gone \ fit}
  BY <1>3 DEF Collect
<1>5. gone \subseteq list /\ gone \subseteq Slots /\ \A t \in gone : u[t].registered /\ u[t].client \in Clients
  <2>1. gone \subseteq list /\ \A t \in gone : u[t].registered
    BY <1>3 DEF MayExpire
  <2> QED BY <2>1, ListedData
<1>6. /\ u' \in [Slots -> Session] /\ net' \in [Clients -> Peer]
      /\ \A t \in Slots :
           /\ u'[t].gen = u[t].gen /\ u'[t].magic = u[t].magic /\ u'[t].refs = u[t].refs
           /\ u'[t].client = u[t].client /\ u'[t].registered = u[t].registered
           /\ t \notin gone => u'[t] = u[t]
           /\ t \in gone => u'[t].closed
           /\ SameData(u[t], u'[t])
      /\ \A k \in Clients :
           net'[k].open = net[k].open /\ PeerOK(net'[k]) /\ SamePeer(net[k], net'[k])
  <2>1. "IDLE" \in Why
    BY DEF Why
  <2> QED BY <1>3, <1>5, <2>1, GroupClosed
<1>7. Types'
  <2>1. list' \subseteq Slots /\ garbage' \subseteq Slots /\ lost' \subseteq Clients
    BY <1>1, <1>3, <1>4, <1>5 DEF Types
  <2> QED BY <2>1, <1>1, <1>2, <1>6 DEF Types, LoopPc
<1>8. Phase' /\ todo = {} /\ ~stopping
  BY <1>1, <1>2 DEF Phase, Unrefs, StopPc
<1>9. Closes(gone)
  <2>1. \E f \in SUBSET gone :
          garbage' = garbage \cup f /\ lost' = lost \cup {u[t].client : t \in gone \ f}
    BY <1>4
  <2>2. \A t \in Slots :
          /\ u'[t].gen = u[t].gen /\ u'[t].magic = u[t].magic /\ u'[t].refs = u[t].refs
          /\ u'[t].client = u[t].client /\ u'[t].registered = u[t].registered
          /\ t \notin gone => u'[t].closed = u[t].closed
          /\ t \in gone => u'[t].closed
    BY <1>6
  <2>3. \A k \in Clients : net'[k].open => net[k].open
    BY <1>6
  <2>4. list' = list \ gone /\ \A t \in gone : u[t].registered
    BY <1>3, <1>5
  <2> QED BY <1>2, <1>8, <2>1, <2>2, <2>3, <2>4 DEF Closes
<1> QED BY <1>2, <1>5, <1>6, <1>7, <1>8, <1>9, CloseStep

(* The drain of a stopping worker takes a batch off the list.                *)
LEMMA DrainKeeps ==
  ASSUME IInv, Drain
  PROVE  IInv'
<1>1. Types /\ Phase
  BY DEF IInv
<1>2. /\ wpc = "drain"
      /\ UNCHANGED <<free, count, lost, batch, cur, touched, garbage, fin, stopping, st, slot,
                     stop, load>>
  BY DEF Drain, WorkerStep
<1>3. PICK gone \in SUBSET list :
       /\ Cardinality(gone) = Min({Bucket, Cardinality(list)})
       /\ u' = [s \in Slots |-> IF s \in gone THEN [u[s] EXCEPT !.closed = TRUE] ELSE u[s]]
       /\ net' = [k \in Clients |-> IF \E s \in gone : u[s].client = k
                                    THEN [net[k] EXCEPT !.why = "SHUTDOWN"] ELSE net[k]]
       /\ list' = list \ gone
       /\ todo' = gone
       /\ wpc' = IF MoreToDrain(Cardinality(gone)) THEN "batch" ELSE "lastbatch"
  BY DEF Drain
<1>4. gone \subseteq Slots /\ list \subseteq Slots /\ cur = NoEvent /\ todo = {} /\ stopping
  BY <1>1, <1>2 DEF Types, Phase, Unrefs, StopPc
<1>5. wpc' \in {"batch", "lastbatch"} /\ (wpc' = "lastbatch" => list' = {})
  <2>1. CASE MoreToDrain(Cardinality(gone))
    BY <2>1, <1>3
  <2>2. CASE ~MoreToDrain(Cardinality(gone))
    <3>1. IsFiniteSet(Slots) /\ IsFiniteSet(list)
      BY <1>4, UdpSessionAssumption, FS_Subset
    <3>2. IsFiniteSet(gone) /\ (Cardinality(gone) = Cardinality(list) => gone = list)
      BY <3>1, FS_Subset
    <3>3. Bucket \in Nat /\ Cardinality(list) \in Nat
      BY <1>1, <3>1, FS_CardinalityType DEF Types, Left, Bucket
    <3>4. Cardinality(gone) = Cardinality(list)
      BY SMTT(20), <1>3, <2>2, <3>3, MinOfTwo DEF MoreToDrain
    <3> QED BY <1>3, <2>2, <3>2, <3>4
  <2> QED BY <2>1, <2>2
<1>6. /\ u' \in [Slots -> Session] /\ net' \in [Clients -> Peer]
      /\ \A t \in Slots :
           /\ u'[t].gen = u[t].gen /\ u'[t].magic = u[t].magic /\ u'[t].refs = u[t].refs
           /\ u'[t].client = u[t].client /\ u'[t].registered = u[t].registered
           /\ t \notin gone => u'[t] = u[t]
           /\ t \in gone => u'[t].closed
           /\ SameData(u[t], u'[t])
      /\ \A k \in Clients :
           net'[k].open = net[k].open /\ PeerOK(net'[k]) /\ SamePeer(net[k], net'[k])
  <2>1. "SHUTDOWN" \in Why
    BY DEF Why
  <2> QED BY <1>3, <1>4, <2>1, GroupClosed
<1>7. Types'
  BY <1>1, <1>2, <1>3, <1>4, <1>5, <1>6 DEF Types, StopPc
<1>8. Phase'
  BY <1>1, <1>2, <1>3, <1>4, <1>5 DEF Phase, Unrefs, StopPc
<1>9. Closes(gone)
  <2>1. \A t \in Slots :
          /\ u'[t].gen = u[t].gen /\ u'[t].magic = u[t].magic /\ u'[t].refs = u[t].refs
          /\ u'[t].client = u[t].client /\ u'[t].registered = u[t].registered
          /\ t \notin gone => u'[t].closed = u[t].closed
          /\ t \in gone => u'[t].closed
    BY <1>6
  <2>2. \A k \in Clients : net'[k].open => net[k].open
    BY <1>6
  <2>3. list' = list \ gone /\ todo' = gone
    BY <1>3
  <2> QED BY <1>2, <1>4, <1>5, <2>1, <2>2, <2>3 DEF Closes
<1> QED BY <1>2, <1>4, <1>6, <1>7, <1>8, <1>9, CloseStep

(* What udp_conn_unref does to the sessions                                  *)
GivenBack(s) ==
  /\ u'[s].refs = u[s].refs - 1
  /\ u'[s].magic => u[s].magic
  /\ \A t \in Slots : t # s => u'[t] = u[t]
  /\ \A t \in Slots :
       /\ u'[t].gen = u[t].gen /\ u'[t].client = u[t].client /\ u'[t].closed = u[t].closed
       /\ u'[t].registered = u[t].registered /\ SameData(u[t], u'[t])
  /\ list' = IF u[s].refs = 1 THEN list \ {s} ELSE list

(* A reference is given back and nothing else of a session changes.          *)
LEMMA UnrefEffect ==
  ASSUME Types, NEW s \in Slots, Unref(s)
  PROVE  u' \in [Slots -> Session] /\ GivenBack(s)
<1> DEFINE r == u[s].refs - 1
           m == u[s].magic /\ u[s].refs # 1
           y == [u[s] EXCEPT !.refs = r, !.magic = m]
<1>1. u \in [Slots -> Session] /\ u[s] \in Session
  BY DEF Types
<1>2. r \in Int /\ m \in BOOLEAN /\ (m => u[s].magic)
  BY <1>1 DEF Session
<1>3. u' = [u EXCEPT ![s] = y]
  BY <1>1 DEF Unref
<1> HIDE DEF m
<1>4. /\ y \in Session /\ y.refs = r /\ y.magic = m /\ y.gen = u[s].gen /\ y.client = u[s].client
      /\ y.closed = u[s].closed /\ y.registered = u[s].registered /\ SameData(u[s], y)
  <2> HIDE DEF r
  <2> QED BY <1>1, <1>2 DEF Session, SameData
<1> HIDE DEF y
<1>5. u' \in [Slots -> Session] /\ u'[s] = y /\ \A t \in Slots : t # s => u'[t] = u[t]
  BY <1>1, <1>3, <1>4
<1>6. list' = IF u[s].refs = 1 THEN list \ {s} ELSE list
  BY DEF Unref
<1>7. \A t \in Slots :
       /\ u'[t].gen = u[t].gen /\ u'[t].client = u[t].client /\ u'[t].closed = u[t].closed
       /\ u'[t].registered = u[t].registered /\ SameData(u[t], u'[t])
  <2>1. \A t \in Slots : SameData(u[t], u[t])
    BY DEF SameData
  <2> QED BY <1>4, <1>5, <2>1
<1> QED BY <1>2, <1>4, <1>5, <1>6, <1>7 DEF GivenBack

(* The worker gives back the reference of a session it has closed.           *)
LEMMA UnrefNextKeeps ==
  ASSUME IInv, NEW s \in todo, UnrefNext(s)
  PROVE  IInv'
<1>1. Types /\ Phase /\ Control /\ Refs /\ Own /\ Listed /\ Built /\ Connected /\ Counted /\ Data
  BY DEF IInv, Control
<1>2. /\ wpc \in Unrefs /\ fin = NoSlot /\ Unref(s) /\ todo' = todo \ {s}
      /\ fin' = IF u[s].refs = 1 THEN s ELSE NoSlot
      /\ free' = free /\ count' = count /\ net' = net /\ lost' = lost /\ wpc' = wpc
      /\ batch' = batch /\ cur' = cur /\ touched' = touched /\ garbage' = garbage
      /\ stopping' = stopping /\ st' = st /\ slot' = slot /\ stop' = stop /\ load' = load
  BY DEF UnrefNext, WorkerStep, LastRef
<1>3. s \in Slots /\ s # NoSlot /\ cur = NoEvent /\ wpc # "events" /\ wpc # "closed"
  BY <1>1, <1>2, UdpSessionAssumption DEF Types, Phase, Unrefs
<1>4. u' \in [Slots -> Session] /\ GivenBack(s)
  BY <1>1, <1>2, <1>3, UnrefEffect
<1>5. list' = list
  <2>1. s \notin list
    BY <1>1 DEF Listed
  <2> QED BY <2>1, <1>4 DEF GivenBack
<1>6. Free' = Free
  BY <1>2 DEF Free
<1>7. /\ u'[s].refs = u[s].refs - 1 /\ u[s].refs \in Int
      /\ \A t \in Slots : t # s => u'[t] = u[t]
      /\ \A t \in Slots :
          /\ u'[t].gen = u[t].gen /\ u'[t].client = u[t].client /\ u'[t].closed = u[t].closed
          /\ u'[t].registered = u[t].registered /\ (u'[t].magic => u[t].magic)
  BY <1>1, <1>3, <1>4 DEF GivenBack, Types, Session
<1>8. Types'
  BY <1>1, <1>2, <1>3, <1>4, <1>5 DEF Types
<1>9. Phase'
  BY <1>1, <1>2, <1>3, <1>5 DEF Phase
<1>10. Refs'
  <2>1. \A t \in Slots : Finishing(t)' <=> (Finishing(t) \/ (t = s /\ u[s].refs = 1))
    BY <1>1, <1>2, <1>3, UdpSessionAssumption DEF Finishing
  <2>2. \A t \in Slots : t # s /\ Owned(t) => Owned(t)'
    BY <1>2, <1>5 DEF Owned, Leftover
  <2>3. u[s].refs <= 1 /\ (u[s].refs = 1 => s \notin Free /\ ~Finishing(s))
    BY <1>1, <1>3 DEF Refs
  <2>4. \A k \in Clients : st'[k] = "finalize" => slot'[k] # fin'
    BY <1>1, <1>2, <1>3, <2>3 DEF Types, Own, Finishing
  <2>5. \A t \in Slots :
          /\ u'[t].refs <= 1
          /\ u'[t].refs = 1 => t \notin Free' /\ ~Finishing(t)' /\ Owned(t)'
          /\ Finishing(t)' => t \notin Free'
          /\ u'[t].refs # 1 /\ ~Finishing(t)' /\ u'[t].gen > 1 => t \in Free'
    <3> TAKE t \in Slots
    <3>1. CASE t = s
      BY <3>1, <1>1, <1>3, <1>6, <1>7, <2>1, <2>3 DEF Refs
    <3>2. CASE t # s
      BY <3>2, <1>1, <1>6, <1>7, <2>1, <2>2 DEF Refs
    <3> QED BY <3>1, <3>2
  <2> QED BY <1>1, <1>2, <2>4, <2>5 DEF Refs
<1>11. Own'
  <2>1. Others' = Others
    BY <1>6, <1>7 DEF Others
  <2>2. u[s].refs <= 1 /\ u[s].gen > 1
    BY <1>1, <1>3 DEF Refs, Own
  <2>3. \A t \in Slots : u'[t].gen > 0 /\ (u'[t].refs = 1 => u'[t].gen > 1)
    BY <1>1, <1>7, <2>2 DEF Own
  <2>4. \A k \in Clients : slot[k] # NoSlot => slot[k] \in Slots
    BY <1>1 DEF Types
  <2>5. list' \cup todo' \cup garbage' \subseteq list \cup todo \cup garbage
        /\ list \cup todo \cup garbage \subseteq Slots
    BY <1>1, <1>2, <1>5 DEF Types
  <2> QED BY <1>1, <1>2, <1>3, <1>7, <2>1, <2>2, <2>3, <2>4, <2>5 DEF Own
<1>12. \A k \in lost : slot[k] \in Slots /\ slot[k] # s
  BY <1>1 DEF Listed, Types
<1>13. \A t \in Slots : t # s => (Settled(t)' <=> Settled(t))
  BY <1>2, <1>7 DEF Settled
<1>14. Listed'
  <2>1. \A t \in list : t # s /\ t \in Slots /\ u'[t] = u[t]
    BY <1>1, <1>7 DEF Listed, Types
  <2>2. \A t \in todo' : t # s /\ t \in Slots
    BY <1>1, <1>2 DEF Types
  <2> QED BY <1>1, <1>2, <1>3, <1>5, <1>7, <1>12, <1>13, <2>1, <2>2 DEF Listed
<1>15. wpc # "again" => \A k \in Clients : st[k] \in Building => slot[k] \in Slots /\ slot[k] # s
  <2>1. wpc # "again" => Settled(s)
    BY <1>1 DEF Listed
  <2> QED BY <1>1, <1>3, <2>1, BuildingApart DEF Settled, Building
<1>16. Built'
  <2>1. \A k \in Clients : st[k] \in Building \cup {"linked"} => slot[k] \in Slots
    BY <1>1 DEF Own, Types
  <2>2. wpc # "again" =>
          \A k \in Clients : st[k] \in Building => u'[slot[k]].refs = 1 /\ u'[slot[k]].client = k
    BY <1>1, <1>3, <1>7, <1>15 DEF Built
  <2> QED BY <1>1, <1>2, <1>5, <1>7, <2>1, <2>2 DEF Built
<1>17. Connected'
  <2>1. \A k \in Clients : slot[k] # NoSlot => slot[k] \in Slots
    BY <1>1 DEF Types
  <2> QED BY <1>1, <1>2, <1>6, <1>7, <2>1 DEF Connected
<1>18. Counted'
  BY <1>1, <1>2 DEF Counted
<1>19. Data'
  <2>1. IdleUntilLinked'
    <3> SUFFICES ASSUME ~stopping, NEW k \in Clients, st[k] \in {"open", "remote", "link"}
                 PROVE  Idle(u'[slot[k]])
      BY <1>2 DEF IdleUntilLinked
    <3>1. wpc # "again"
      BY <1>1 DEF Phase, StopPc
    <3> QED BY <3>1, <1>1, <1>7, <1>15 DEF Data, Building
  <2>2. \A t \in list' : t \in list /\ u'[t].client = u[t].client /\ u[t].client # 0
    BY <1>1, <1>5, <1>7 DEF Listed, Settled, Types
  <2>3. \A k \in Clients : PeerOK(net'[k]) /\ SamePeer(net[k], net'[k])
    BY <1>1, <1>2 DEF Data, SamePeer
  <2>4. \A t \in Slots : SameData(u[t], u'[t])
    BY <1>4 DEF GivenBack
  <2> QED BY <1>1, <1>2, <1>5, <1>8, <2>1, <2>2, <2>3, <2>4, SameDataStep
<1> QED BY <1>8, <1>9, <1>10, <1>11, <1>14, <1>16, <1>17, <1>18, <1>19 DEF IInv, Control

(* A pool thread that fails gives back its own reference.                    *)
LEMMA StartUnrefKeeps ==
  ASSUME IInv, NEW k \in Clients, StartUnref(k)
  PROVE  IInv'
<1> DEFINE s == slot[k]
<1>1. Types /\ Phase /\ Control /\ Refs /\ Own /\ Listed /\ Built /\ Connected /\ Counted /\ Data
  BY DEF IInv, Control
<1>2. /\ st[k] = "unref" /\ Unref(s)
      /\ st' = [st EXCEPT ![k] = IF u[s].refs = 1 THEN "finalize" ELSE "done"]
      /\ free' = free /\ count' = count /\ net' = net /\ lost' = lost /\ wpc' = wpc
      /\ batch' = batch /\ cur' = cur /\ touched' = touched /\ garbage' = garbage
      /\ stopping' = stopping /\ slot' = slot /\ stop' = stop /\ todo' = todo /\ fin' = fin
      /\ load' = [load EXCEPT !.asks = load.asks]
  BY DEF StartUnref, StartStep, LastRef, worker
<1>3. s \in Slots /\ s # NoSlot /\ u[s].gen > 1
  BY <1>1, <1>2, UdpSessionAssumption DEF Types, Own, Building
<1>4. u' \in [Slots -> Session] /\ GivenBack(s)
  BY <1>1, <1>2, <1>3, UnrefEffect
<1>5. load' \in Left /\ load'.others = load.others
  BY <1>1, <1>2 DEF Types, Left
<1>6. /\ st' \in [Clients -> Places] /\ st'[k] = IF u[s].refs = 1 THEN "finalize" ELSE "done"
      /\ \A j \in Clients : j # k => st'[j] = st[j]
  BY <1>1, <1>2 DEF Types, Places
<1>7. wpc \notin {"again", "closed"} => s \notin list /\ u[s].client = k /\ u[s].refs = 1
  BY <1>1, <1>2, BuildingApart DEF Built, Building
<1>8. list' = list
  <2>1. wpc \in {"again", "closed"} => list = {}
    BY <1>1 DEF Phase
  <2> QED BY <2>1, <1>4, <1>7 DEF GivenBack
<1>9. Free' = Free
  BY <1>2 DEF Free
<1> HIDE DEF s
<1>10. /\ u'[s].refs = u[s].refs - 1 /\ u[s].refs \in Int
       /\ \A t \in Slots : t # s => u'[t] = u[t]
       /\ \A t \in Slots :
           /\ u'[t].gen = u[t].gen /\ u'[t].client = u[t].client /\ u'[t].closed = u[t].closed
           /\ u'[t].registered = u[t].registered /\ (u'[t].magic => u[t].magic)
  BY <1>1, <1>3, <1>4 DEF GivenBack, Types, Session
<1>11. Types'
  BY <1>1, <1>2, <1>4, <1>5, <1>6, <1>8 DEF Types
<1>12. Phase'
  <2>1. cur # NoEvent => cur.s \in Slots
    BY <1>1 DEF Phase, Types
  <2> QED BY <1>1, <1>2, <1>8, <1>10, <2>1 DEF Phase
<1>13. Refs'
  <2>1. u[s].refs <= 1 /\ (u[s].refs = 1 => s \notin Free /\ ~Finishing(s))
    BY <1>1, <1>3 DEF Refs
  <2>2. \A t \in Slots : Finishing(t)' <=> (Finishing(t) \/ (t = s /\ u[s].refs = 1))
    BY <1>2, <1>6 DEF Finishing, s
  <2>3. \A t \in Slots : t # s /\ Owned(t) => Owned(t)'
    BY <1>2, <1>6, <1>8 DEF Owned, Leftover, s
  <2>4. \A j \in Clients : st'[j] = "finalize" => slot'[j] # fin'
    BY <1>1, <1>2, <1>3, <1>6, <2>1 DEF Refs, Finishing, s
  <2>5. \A i, j \in Clients : st'[i] = "finalize" /\ st'[j] = "finalize" /\ slot'[i] = slot'[j] => i = j
    BY <1>1, <1>2, <1>6, <2>1 DEF Refs, Finishing, s
  <2>6. \A t \in Slots :
          /\ u'[t].refs <= 1
          /\ u'[t].refs = 1 => t \notin Free' /\ ~Finishing(t)' /\ Owned(t)'
          /\ Finishing(t)' => t \notin Free'
          /\ u'[t].refs # 1 /\ ~Finishing(t)' /\ u'[t].gen > 1 => t \in Free'
    <3> TAKE t \in Slots
    <3>1. CASE t = s
      BY <3>1, <1>1, <1>3, <1>9, <1>10, <2>1, <2>2 DEF Refs
    <3>2. CASE t # s
      BY <3>2, <1>1, <1>9, <1>10, <2>2, <2>3 DEF Refs
    <3> QED BY <3>1, <3>2
  <2> QED BY <1>1, <1>2, <2>4, <2>5, <2>6 DEF Refs
<1>14. Own'
  <2>1. Others' = Others
    BY <1>9, <1>10 DEF Others
  <2>2. \A t \in Slots : u'[t].gen > 0 /\ (u'[t].refs = 1 => u'[t].gen > 1)
    <3>1. u[s].refs <= 1
      BY <1>1, <1>3 DEF Refs
    <3> QED BY <3>1, <1>1, <1>3, <1>10 DEF Own
  <2>3. \A j \in Clients : slot[j] # NoSlot => slot[j] \in Slots
    BY <1>1 DEF Types
  <2>4. list \cup todo \cup garbage \subseteq Slots /\ (fin # NoSlot => fin \in Slots)
    BY <1>1 DEF Types
  <2>5. \A j \in Clients : st'[j] \in {"none", "acquire", "refuse"} => slot[j] = NoSlot
    BY <1>1, <1>2, <1>6 DEF Own
  <2>6. \A j \in Clients : st'[j] \in Building \cup {"linked", "finalize"} => slot[j] # NoSlot
    BY <1>1, <1>2, <1>3, <1>6 DEF Own, s
  <2> QED BY <1>1, <1>2, <1>5, <1>8, <1>10, <2>1, <2>2, <2>3, <2>4, <2>5, <2>6 DEF Own
<1>15. \A t \in Slots : t # s => (Settled(t)' <=> Settled(t))
  <2> SUFFICES ASSUME NEW t \in Slots, t # s
               PROVE  Settled(t)' <=> Settled(t)
    OBVIOUS
  <2>1. u'[t] = u[t] /\ (u[t].client # 0 => u[t].client \in Clients)
    BY <1>1, <1>10 DEF Types, Session
  <2>2. slot' = slot /\ slot[k] = s
    BY <1>2 DEF s
  <2> QED BY <1>6, <2>1, <2>2 DEF Settled
<1>16. Listed'
  <2>1. \A t \in list : t # s /\ t \in Slots /\ u'[t] = u[t]
    <3>1. \A t \in list : t # s
      BY <1>1, <1>7 DEF Phase
    <3> QED BY <3>1, <1>1, <1>10 DEF Types
  <2>2. ~Settled(s) \/ u[s].client # k
    BY <1>2 DEF Settled
  <2>3. wpc \notin {"again", "closed"} => ~Settled(s)
    BY <2>2, <1>7
  <2>4. wpc = "events" => \A t \in garbage : t # s /\ t \in Slots
    BY <2>3, <1>1 DEF Listed, Types
  <2>5. wpc # "again" => \A t \in todo : t # s /\ t \in Slots
    BY <2>3, <1>1 DEF Listed, Types, Phase, Unrefs
  <2>6. \A j \in lost : slot[j] \in Slots /\ slot[j] # s
    BY <1>1, <1>2 DEF Listed, Types, Building, s
  <2>7. \A j \in Clients : st'[j] \in Building => st[j] \in Building
    BY <1>6 DEF Building
  <2> QED BY <1>1, <1>2, <1>8, <1>10, <1>15, <2>1, <2>4, <2>5, <2>6, <2>7 DEF Listed
<1>17. Built'
  <2>1. \A j \in Clients : st[j] \in Building \cup {"linked"} => slot[j] \in Slots
    BY <1>1 DEF Own, Types
  <2>2. wpc \notin {"again", "closed"} => \A j \in Clients : st[j] \in Building /\ j # k => slot[j] # s
    BY <1>1, <1>7 DEF Built
  <2>3. \A j \in Clients : /\ st'[j] \in Building => st[j] \in Building /\ j # k
                           /\ st'[j] = "linked" => st[j] = "linked"
    BY <1>6 DEF Building
  <2> QED BY <1>1, <1>2, <1>8, <1>10, <2>1, <2>2, <2>3 DEF Built
<1>18. Connected'
  <2>1. \A j \in Clients : slot[j] # NoSlot => slot[j] \in Slots
    BY <1>1 DEF Types
  <2> QED BY <1>1, <1>2, <1>6, <1>9, <1>10, <2>1 DEF Connected
<1>19. Counted'
  <2>1. {j \in Clients : st'[j] \in {"acquire", "refuse"}} = {j \in Clients : st[j] \in {"acquire", "refuse"}}
    BY <1>2, <1>6
  <2> QED BY <2>1, <1>1, <1>2 DEF Counted
<1>20. Data'
  <2>1. IdleUntilLinked'
    <3> SUFFICES ASSUME ~stopping, NEW j \in Clients, st'[j] \in {"open", "remote", "link"}
                 PROVE  Idle(u'[slot[j]])
      BY <1>2 DEF IdleUntilLinked
    <3>1. wpc \notin {"again", "closed"} /\ st[j] \in {"open", "remote", "link"} /\ j # k
      BY <1>1, <1>6 DEF Phase, StopPc
    <3>2. slot[j] # s /\ slot[j] \in Slots
      BY <3>1, <1>1, <1>7, BuildingApart DEF Building
    <3> QED BY <3>1, <3>2, <1>1, <1>10 DEF Data
  <2>2. \A t \in list' : t \in list /\ u'[t].client = u[t].client /\ u[t].client # 0
    BY <1>1, <1>8, <1>10 DEF Listed, Settled, Types
  <2>3. \A j \in Clients : PeerOK(net'[j]) /\ SamePeer(net[j], net'[j])
    BY <1>1, <1>2 DEF Data, SamePeer
  <2>4. \A t \in Slots : SameData(u[t], u'[t])
    BY <1>4 DEF GivenBack
  <2>5. \A j \in Clients : st'[j] \in FreshPlaces => st[j] \in FreshPlaces
    BY <1>6 DEF FreshPlaces
  <2> QED BY <1>1, <1>2, <1>8, <1>11, <2>1, <2>2, <2>3, <2>4, <2>5, SameDataStep
<1> QED BY <1>11, <1>12, <1>13, <1>14, <1>16, <1>17, <1>18, <1>19, <1>20 DEF IInv, Control

(* A slot goes to the end of the free ones.                                  *)
LEMMA AppendDistinct ==
  ASSUME NEW q \in Seq(Slots), Distinct(q), NEW s \in Slots, s \notin Elements(q)
  PROVE  /\ Append(q, s) \in Seq(Slots) /\ Len(Append(q, s)) = Len(q) + 1
         /\ Distinct(Append(q, s)) /\ Elements(Append(q, s)) = Elements(q) \cup {s}
<1>1. PICK n \in Nat, t \in Seq(Slots) :
        /\ n = Len(q) /\ t = Append(q, s) /\ Len(t) = n + 1
        /\ \A i \in 1..n : t[i] = q[i]
        /\ t[n + 1] = s
  <2>1. Len(q) \in Nat
    BY LenProperties
  <2>2. /\ Append(q, s) \in Seq(Slots) /\ Len(Append(q, s)) = Len(q) + 1
        /\ \A i \in 1..Len(q) : Append(q, s)[i] = q[i]
        /\ Append(q, s)[Len(q) + 1] = s
    BY AppendProperties
  <2> QED BY <2>1, <2>2
<1>2. \A i \in 1..(n + 1) : i = n + 1 \/ i \in 1..n
  BY <1>1
<1>3. \A i \in 1..n : i \in 1..(n + 1)
  BY <1>1
<1>4. \A i \in 1..n : q[i] # s
  BY <1>1 DEF Elements
<1>5. \A i, j \in 1..(n + 1) : t[i] = t[j] => i = j
  BY <1>1, <1>2, <1>4 DEF Distinct
<1>6. Elements(t) = Elements(q) \cup {s}
  <2>1. n + 1 \in 1..(n + 1)
    BY <1>1
  <2> QED BY <1>1, <1>2, <1>3, <2>1 DEF Elements
<1> QED BY <1>1, <1>5, <1>6 DEF Distinct

(* What udp_conn_finalize does to the sessions, the clients and the slots    *)
Finalized(s) ==
  /\ \A t \in Slots :
       /\ u'[t].gen = u[t].gen /\ u'[t].refs = u[t].refs /\ u'[t].magic = u[t].magic
       /\ u'[t].closed = u[t].closed /\ u'[t].registered = u[t].registered
       /\ Buffered(u'[t]) /\ (t # s => u'[t] = u[t])
  /\ \A k \in Clients :
       /\ net'[k].open => net[k].open /\ u[s].client # k
       /\ PeerOK(net'[k]) /\ SamePeer(net[k], net'[k])
  /\ free' \in Seq(Slots) /\ Len(free') = Len(free) + 1 /\ Distinct(free')
  /\ Free' = Free \cup {s}
  /\ count' = count - 1

(* A session that nobody refers to is taken apart and its slot freed.        *)
LEMMA FinalizeEffect ==
  ASSUME IInv, NEW s \in Slots, Finishing(s), Finalize(s)
  PROVE  u' \in [Slots -> Session] /\ net' \in [Clients -> Peer] /\ Finalized(s)
<1>1. Types /\ Refs /\ Data
  BY DEF IInv, Control
<1> DEFINE y == [u[s] EXCEPT !.client = 0, !.local = FALSE, !.remote = FALSE,
                             !.armed = {}, !.active = FALSE]
           k == u[s].client
<1>2. /\ u' = [u EXCEPT ![s] = y] /\ count' = count - 1 /\ free' = Append(free, s)
      /\ net' = IF k = 0 THEN net ELSE [net EXCEPT ![k].open = FALSE]
  BY DEF Finalize
<1>3. u \in [Slots -> Session] /\ u[s] \in Session /\ Buffered(u[s])
  BY <1>1 DEF Types, Data
<1>4. /\ y \in Session /\ Buffered(y) /\ y.gen = u[s].gen /\ y.refs = u[s].refs
      /\ y.magic = u[s].magic /\ y.closed = u[s].closed /\ y.registered = u[s].registered
  BY <1>3 DEF Session, Buffered
<1> HIDE DEF y
<1>5. /\ u' \in [Slots -> Session]
      /\ \A t \in Slots :
          /\ u'[t].gen = u[t].gen /\ u'[t].refs = u[t].refs /\ u'[t].magic = u[t].magic
          /\ u'[t].closed = u[t].closed /\ u'[t].registered = u[t].registered
          /\ Buffered(u'[t]) /\ (t # s => u'[t] = u[t])
  <2>1. u'[s] = y /\ u' \in [Slots -> Session] /\ \A t \in Slots : t # s => u'[t] = u[t]
    BY <1>2, <1>3, <1>4
  <2> QED BY <2>1, <1>1, <1>4 DEF Data
<1>6. /\ net' \in [Clients -> Peer]
      /\ \A j \in Clients :
          /\ net'[j].open => net[j].open /\ k # j
          /\ PeerOK(net'[j]) /\ SamePeer(net[j], net'[j])
  <2>1. net \in [Clients -> Peer] /\ \A j \in Clients : PeerOK(net[j])
    BY <1>1 DEF Types, Data
  <2>2. CASE k = 0
    BY <2>1, <2>2, <1>2 DEF SamePeer, Clients
  <2>3. CASE k # 0
    <3>1. k \in Clients
      BY <2>3, <1>3 DEF Session
    <3> DEFINE d == [net[k] EXCEPT !.open = FALSE]
    <3>2. net' = [net EXCEPT ![k] = d]
      BY <2>1, <2>3, <1>2
    <3> HIDE DEF k
    <3>3. /\ d \in Peer /\ ~d.open /\ d.in = net[k].in /\ d.next = net[k].next
          /\ d.routed = net[k].routed /\ d.garbled = net[k].garbled /\ d.sent = net[k].sent
          /\ d.read = net[k].read /\ d.taken = net[k].taken
      <4>1. net[k] \in Peer
        BY <2>1, <3>1
      <4>2. d \in Peer
        BY <4>1 DEF Peer
      <4> QED BY <4>1, <4>2 DEF Peer
    <3> HIDE DEF d
    <3>4. PeerOK(d) /\ SamePeer(net[k], d)
      BY <2>1, <3>1, <3>3 DEF PeerOK, SamePeer, Consecutive, Wrote, NextIn
    <3>5. net' \in [Clients -> Peer] /\ net'[k] = d /\ \A j \in Clients : j # k => net'[j] = net[j]
      BY <2>1, <3>1, <3>2, <3>3
    <3> QED BY <2>1, <3>3, <3>4, <3>5 DEF SamePeer
  <2> QED BY <2>2, <2>3
<1>7. /\ free' \in Seq(Slots) /\ Len(free') = Len(free) + 1 /\ Distinct(free')
      /\ Free' = Free \cup {s}
  <2>1. free \in Seq(Slots) /\ Distinct(free) /\ s \notin Free
    BY <1>1 DEF Types, Refs
  <2> QED BY <2>1, <1>2, AppendDistinct DEF Free
<1> QED BY <1>2, <1>5, <1>6, <1>7 DEF Finalized

(* What is left to show of a step that finalizes a session                   *)
LEMMA FinalizeStep ==
  ASSUME IInv, NEW s \in Slots, Finishing(s), Finalize(s),
         UNCHANGED <<list, lost, wpc, batch, cur, touched, garbage, todo, stopping, slot, stop>>,
         load' \in Left, load'.others = load.others,
         st' \in [Clients -> Places], fin' \in {fin, NoSlot},
         \A j \in Clients : st'[j] = st[j] \/ (st[j] = "finalize" /\ st'[j] = "done"),
         \A t \in Slots : Finishing(t)' <=> (Finishing(t) /\ t # s)
  PROVE  IInv'
<1>1. Types /\ Phase /\ Control /\ Refs /\ Own /\ Listed /\ Built /\ Connected /\ Counted /\ Data
  BY DEF IInv, Control
<1>2. /\ list' = list /\ lost' = lost /\ wpc' = wpc /\ batch' = batch /\ cur' = cur
      /\ touched' = touched /\ garbage' = garbage /\ todo' = todo /\ stopping' = stopping
      /\ slot' = slot /\ stop' = stop
  OBVIOUS
<1>3. u' \in [Slots -> Session] /\ net' \in [Clients -> Peer] /\ Finalized(s)
  BY FinalizeEffect
<1>4. /\ \A t \in Slots :
          /\ u'[t].gen = u[t].gen /\ u'[t].refs = u[t].refs /\ u'[t].magic = u[t].magic
          /\ u'[t].closed = u[t].closed /\ u'[t].registered = u[t].registered
          /\ (t # s => u'[t] = u[t])
      /\ \A k \in Clients : net'[k].open => net[k].open /\ u[s].client # k
      /\ free' \in Seq(Slots) /\ Len(free') = Len(free) + 1 /\ Distinct(free')
      /\ Free' = Free \cup {s} /\ count' = count - 1
  BY <1>3 DEF Finalized
<1>5. s \notin Free /\ u[s].refs # 1 /\ u[s].gen > 1 /\ ~Settled(s)
  <2>1. s \notin Free /\ u[s].refs # 1
    BY <1>1 DEF Refs
  <2>2. u[s].gen > 1
    BY <1>1, UdpSessionAssumption DEF Own, Finishing
  <2> QED BY <2>1, <2>2 DEF Settled
<1>6. count' \in Int
  BY <1>1, <1>4 DEF Types
<1>7. Types'
  BY <1>1, <1>2, <1>3, <1>4, <1>6 DEF Types
<1>8. Phase'
  <2>1. cur # NoEvent => cur.s \in Slots
    BY <1>1 DEF Phase, Types
  <2>2. wpc \notin Unrefs => fin' = NoSlot
    BY <1>1 DEF Phase
  <2> QED BY <1>1, <1>2, <1>4, <2>1, <2>2 DEF Phase
<1>9. Refs'
  <2>1. \A t \in Slots : Owned(t) => Owned(t)'
    <3>1. \A j \in Clients : st[j] \in Building => st'[j] \in Building
      BY DEF Building
    <3> QED BY <1>2, <3>1 DEF Owned, Leftover
  <2>2. \A i, j \in Clients : st'[i] = "finalize" /\ st'[j] = "finalize" /\ slot'[i] = slot'[j] => i = j
    BY <1>1, <1>2 DEF Refs
  <2>3. \A j \in Clients : st'[j] = "finalize" => slot'[j] # fin'
    BY <1>1, <1>2, UdpSessionAssumption DEF Refs, Own
  <2>4. \A t \in Slots :
          /\ u'[t].refs <= 1
          /\ u'[t].refs = 1 => t \notin Free' /\ ~Finishing(t)' /\ Owned(t)'
          /\ Finishing(t)' => t \notin Free'
          /\ u'[t].refs # 1 /\ ~Finishing(t)' /\ u'[t].gen > 1 => t \in Free'
    <3> TAKE t \in Slots
    <3> QED BY <1>1, <1>4, <1>5, <2>1 DEF Refs
  <2> QED BY <1>4, <2>2, <2>3, <2>4 DEF Refs
<1>10. Own'
  <2>1. Others' = Others
    BY <1>4, <1>5 DEF Others
  <2>2. \A j \in Clients : slot[j] # NoSlot => slot[j] \in Slots
    BY <1>1 DEF Types
  <2>3. list \cup todo \cup garbage \subseteq Slots /\ (fin # NoSlot => fin \in Slots)
    BY <1>1 DEF Types
  <2>4. \A j \in Clients : /\ st'[j] \in {"none", "acquire", "refuse"} => st[j] = st'[j]
                           /\ st'[j] \in Building \cup {"linked", "finalize"} => st[j] = st'[j]
    BY DEF Building
  <2>5. Cardinality(Others') = load'.others
    BY <2>1, <1>1 DEF Own
  <2> QED BY <1>1, <1>2, <1>4, <2>2, <2>3, <2>4, <2>5 DEF Own
<1>11. \A t \in Slots : t # s => (Settled(t) => Settled(t)')
  <2> SUFFICES ASSUME NEW t \in Slots, t # s, Settled(t)
               PROVE  Settled(t)'
    OBVIOUS
  <2>1. u'[t] = u[t] /\ (u[t].client # 0 => u[t].client \in Clients)
    BY <1>1, <1>4 DEF Types, Session
  <2> QED BY <1>2, <2>1 DEF Settled
<1>12. Listed'
  <2>1. \A t \in list : t # s /\ t \in Slots /\ u'[t] = u[t]
    BY <1>1, <1>4, <1>5 DEF Listed, Types
  <2>2. wpc = "events" => \A t \in garbage : t # s /\ t \in Slots
    BY <1>1, <1>5 DEF Listed, Types
  <2>3. wpc # "again" => \A t \in todo : t # s /\ t \in Slots
    BY <1>1, <1>5 DEF Listed, Types
  <2>4. \A j \in lost : slot[j] \in Slots /\ slot[j] # s
    BY <1>1, <1>5 DEF Listed, Types
  <2>5. \A j \in Clients : st'[j] \in Building => st[j] \in Building
    BY DEF Building
  <2> QED BY <1>1, <1>2, <1>4, <1>11, <2>1, <2>2, <2>3, <2>4, <2>5 DEF Listed
<1>13. wpc \notin {"again", "closed"} => \A j \in Clients : st[j] \in Building => slot[j] # s
  BY <1>1, <1>5 DEF Built
<1>14. Built'
  <2>1. \A j \in Clients : st[j] \in Building \cup {"linked"} => slot[j] \in Slots
    BY <1>1 DEF Own, Types
  <2>2. \A j \in Clients : /\ st'[j] \in Building => st[j] \in Building
                           /\ st'[j] = "linked" => st[j] = "linked"
    BY DEF Building
  <2>3. \A t \in list : t # s
    BY <1>1, <1>5 DEF Listed
  <2>4. wpc' \notin {"again", "closed"} =>
          \A k \in Clients : st'[k] \in Building => u'[slot'[k]].refs = 1 /\ u'[slot'[k]].client = k
    BY <1>1, <1>2, <1>4, <1>13, <2>1, <2>2 DEF Built
  <2>5. ~stopping' => \A k \in Clients : st'[k] = "linked" =>
            slot'[k] \in list' /\ u'[slot'[k]].client = k /\ ~u'[slot'[k]].registered
    BY <1>1, <1>2, <1>4, <2>1, <2>2, <2>3 DEF Built
  <2>6. ~stopping' => \A k \in Clients : st'[k] \in Building => ~u'[slot'[k]].registered
    BY <1>1, <1>2, <1>4, <2>1, <2>2 DEF Built
  <2>7. ~stopping' => \A t \in Slots : u'[t].magic /\ ~u'[t].closed /\ u'[t].registered => t \in list'
    BY <1>1, <1>2, <1>4 DEF Built
  <2> QED BY <2>4, <2>5, <2>6, <2>7 DEF Built
<1>15. Connected'
  <2> SUFFICES ASSUME NEW j \in Clients, net'[j].open
               PROVE  \/ st'[j] \in {"acquire", "refuse"}
                      \/ slot'[j] # NoSlot /\ u'[slot'[j]].client = j /\ slot'[j] \notin Free'
    BY DEF Connected
  <2>1. net[j].open /\ u[s].client # j
    BY <1>4
  <2>2. slot[j] # NoSlot => slot[j] \in Slots
    BY <1>1 DEF Types
  <2> QED BY <1>1, <1>2, <1>4, <2>1, <2>2 DEF Connected
<1>16. Counted'
  <2>1. {j \in Clients : st'[j] \in {"acquire", "refuse"}} = {j \in Clients : st[j] \in {"acquire", "refuse"}}
    OBVIOUS
  <2> DEFINE c == Cardinality({j \in Clients : st[j] \in {"acquire", "refuse"}})
  <2>2. count = c + Cardinality(Slots) - Len(free) /\ count \in Int
    BY <1>1 DEF Counted, Types
  <2>3. c \in Int /\ Cardinality(Slots) \in Int /\ Len(free) \in Int
    <3>1. IsFiniteSet(Slots) /\ IsFiniteSet(Clients)
      BY UdpSessionAssumption, FS_Interval DEF Clients
    <3>2. IsFiniteSet({j \in Clients : st[j] \in {"acquire", "refuse"}})
      BY <3>1, FS_Subset
    <3> QED BY <3>1, <3>2, <1>1, FS_CardinalityType, LenProperties DEF Types
  <2> HIDE DEF c
  <2>4. count' = c + Cardinality(Slots) - Len(free')
    BY <1>4, <2>2, <2>3
  <2> QED BY <2>1, <2>4 DEF Counted, c
<1>17. Data'
  <2>1. IdleUntilLinked'
    <3> SUFFICES ASSUME ~stopping, NEW j \in Clients, st'[j] \in {"open", "remote", "link"}
                 PROVE  Idle(u'[slot[j]])
      BY <1>2 DEF IdleUntilLinked
    <3>1. wpc \notin {"again", "closed"} /\ st[j] \in {"open", "remote", "link"}
      BY <1>1 DEF Phase, StopPc
    <3>2. slot[j] # s /\ slot[j] \in Slots
      BY <3>1, <1>13, BuildingApart DEF Building
    <3> QED BY <3>1, <3>2, <1>1, <1>4 DEF Data
  <2>2. \A t \in list' : t \in list /\ u'[t].client = u[t].client /\ u[t].client # 0
    <3>1. \A t \in list : t \in Slots /\ t # s /\ u[t].client # 0
      BY <1>1, <1>5 DEF Listed, Settled, Types
    <3> QED BY <3>1, <1>2, <1>4
  <2>3. \A j \in Clients : PeerOK(net'[j]) /\ SamePeer(net[j], net'[j])
    BY <1>3 DEF Finalized
  <2>4. \A t \in Slots : SameData(u[t], u'[t]) \/ (t \notin list' /\ Buffered(u'[t]))
    <3>1. s \notin list
      BY <1>1, <1>5 DEF Listed
    <3> QED BY <3>1, <1>2, <1>3 DEF Finalized, SameData
  <2>5. \A j \in Clients : st'[j] \in FreshPlaces => st[j] \in FreshPlaces
    BY DEF FreshPlaces
  <2> QED BY <1>1, <1>2, <1>7, <2>1, <2>2, <2>3, <2>4, <2>5, SameDataStep
<1> QED BY <1>7, <1>8, <1>9, <1>10, <1>12, <1>14, <1>15, <1>16, <1>17 DEF IInv, Control

(* udp_conn_finalize, on the worker or on a pool thread                      *)
LEMMA FinalizeKeeps ==
  ASSUME IInv, FinalizeNext \/ \E k \in Clients : StartFinalize(k)
  PROVE  IInv'
<1>1. Types /\ Refs /\ Own
  BY DEF IInv, Control
<1>2. CASE FinalizeNext
  <2>1. /\ fin # NoSlot /\ fin' = NoSlot /\ Finalize(fin) /\ st' = st /\ load' = load
        /\ UNCHANGED <<list, lost, wpc, batch, cur, touched, garbage, todo, stopping, slot, stop>>
    BY <1>2 DEF FinalizeNext, WorkerStep
  <2>2. fin \in Slots /\ Finishing(fin)
    BY <1>1, <2>1 DEF Types, Finishing
  <2>3. \A t \in Slots : Finishing(t)' <=> (Finishing(t) /\ t # fin)
    BY <1>1, <2>1, UdpSessionAssumption DEF Finishing, Refs
  <2> QED BY <1>1, <2>1, <2>2, <2>3, FinalizeStep DEF Types
<1>3. ASSUME NEW k \in Clients, StartFinalize(k)
      PROVE  IInv'
  <2>1. /\ st[k] = "finalize" /\ Finalize(slot[k]) /\ st' = [st EXCEPT ![k] = "done"] /\ fin' = fin
        /\ load' = [load EXCEPT !.asks = load.asks]
        /\ UNCHANGED <<list, lost, wpc, batch, cur, touched, garbage, todo, stopping, slot, stop>>
    BY <1>3 DEF StartFinalize, StartStep, worker
  <2>2. slot[k] \in Slots /\ Finishing(slot[k])
    BY <1>1, <2>1 DEF Types, Finishing, Own
  <2>3. /\ st' \in [Clients -> Places] /\ st'[k] = "done"
        /\ \A j \in Clients : j # k => st'[j] = st[j]
    BY <1>1, <2>1 DEF Types, Places
  <2>4. \A t \in Slots : Finishing(t)' <=> (Finishing(t) /\ t # slot[k])
    BY <1>1, <2>1, <2>3 DEF Finishing, Refs
  <2>5. load' \in Left /\ load'.others = load.others
    BY <1>1, <2>1 DEF Types, Left
  <2> QED BY <2>1, <2>2, <2>3, <2>4, <2>5, FinalizeStep
<1> QED BY <1>2, <1>3
-----------------------------------------------------------------------------
(* Steps of the pool threads *)

(* A pool thread at work on its session: what it may change of it before it  *)
(* is linked, or once it has failed                                          *)
Prepares(k, pc) ==
  /\ st[k] \in Building /\ st' = [st EXCEPT ![k] = pc]
  /\ u' \in [Slots -> Session] /\ net' \in [Clients -> Peer]
  /\ \A t \in Slots :
       /\ u'[t].gen = u[t].gen /\ u'[t].magic = u[t].magic /\ u'[t].refs = u[t].refs
       /\ u'[t].client = u[t].client /\ u'[t].registered = u[t].registered
       /\ (u[t].closed => u'[t].closed) /\ Buffered(u'[t])
       /\ t # slot[k] => u'[t] = u[t]
  /\ \A j \in Clients :
       net'[j].open = net[j].open /\ PeerOK(net'[j]) /\ SamePeer(net[j], net'[j])
  /\ pc \in FreshPlaces =>
       st[k] \in {"open", "remote"} /\ (Idle(u[slot[k]]) => Idle(u'[slot[k]]))
  /\ UNCHANGED <<free, count, slot, list, worker, stop, lost>>
  /\ load' \in Left /\ load'.others = load.others

(* Nobody else minds such a step.                                            *)
LEMMA PrepareStep ==
  ASSUME IInv, NEW k \in Clients, NEW pc \in Building, Prepares(k, pc)
  PROVE  IInv'
<1> DEFINE s == slot[k]
<1>1. Types /\ Phase /\ Control /\ Refs /\ Own /\ Listed /\ Built /\ Connected /\ Counted /\ Data
  BY DEF IInv, Control
<1>2. /\ free' = free /\ count' = count /\ slot' = slot /\ list' = list /\ stop' = stop
      /\ lost' = lost /\ wpc' = wpc /\ batch' = batch /\ cur' = cur /\ touched' = touched
      /\ garbage' = garbage /\ todo' = todo /\ fin' = fin /\ stopping' = stopping
      /\ load' \in Left /\ load'.others = load.others
      /\ u' \in [Slots -> Session] /\ net' \in [Clients -> Peer]
      /\ st[k] \in Building
  BY DEF Prepares, worker
<1>3. /\ st' \in [Clients -> Places] /\ st'[k] = pc /\ \A j \in Clients : j # k => st'[j] = st[j]
  <2>1. pc \in Places
    BY DEF Building, Places
  <2> QED BY <2>1, <1>1 DEF Types, Prepares
<1>4. /\ \A t \in Slots :
           /\ u'[t].gen = u[t].gen /\ u'[t].magic = u[t].magic /\ u'[t].refs = u[t].refs
           /\ u'[t].client = u[t].client /\ u'[t].registered = u[t].registered
           /\ (u[t].closed => u'[t].closed) /\ Buffered(u'[t])
           /\ t # s => u'[t] = u[t]
      /\ \A j \in Clients :
           net'[j].open = net[j].open /\ PeerOK(net'[j]) /\ SamePeer(net[j], net'[j])
  BY DEF Prepares
<1>5. s \in Slots /\ s \notin list
  <2>1. s \in Slots
    BY <1>1, <1>2 DEF Types, Own
  <2>2. CASE wpc \in {"again", "closed"}
    BY <2>1, <2>2, <1>1 DEF Phase
  <2>3. CASE wpc \notin {"again", "closed"}
    BY <2>3, <1>2, BuildingApart
  <2> QED BY <2>1, <2>2, <2>3
<1> HIDE DEF s
<1>6. Free' = Free
  BY <1>2 DEF Free
<1>7. \A j \in Clients : /\ st'[j] \in Building <=> st[j] \in Building
                         /\ j # k \/ (st'[j] \notin {"none", "acquire", "refuse", "linked", "finalize", "done"}
                                      /\ st[j] \notin {"none", "acquire", "refuse", "linked", "finalize", "done"})
                         /\ st'[j] = "finalize" <=> st[j] = "finalize"
                         /\ st'[j] \in {"linked", "done"} <=> st[j] \in {"linked", "done"}
  BY <1>2, <1>3 DEF Building
<1>8. \A t \in Slots : (Finishing(t)' <=> Finishing(t)) /\ (Owned(t)' <=> Owned(t))
  BY <1>2, <1>7 DEF Finishing, Owned, Leftover
<1>9. \A t \in Slots : Settled(t)' <=> Settled(t)
  <2> TAKE t \in Slots
  <2>1. u[t].client # 0 => u[t].client \in Clients
    BY <1>1 DEF Types, Session
  <2> QED BY <2>1, <1>2, <1>4, <1>7 DEF Settled
<1>10. Types'
  BY <1>1, <1>2, <1>3 DEF Types
<1>11. Phase'
  <2>1. cur # NoEvent => cur.s \in Slots
    BY <1>1 DEF Phase, Types
  <2> QED BY <1>1, <1>2, <1>4, <2>1 DEF Phase
<1>12. Refs'
  BY <1>1, <1>2, <1>4, <1>6, <1>7, <1>8 DEF Refs
<1>13. Own'
  <2>1. Others' = Others
    BY <1>4, <1>6 DEF Others
  <2>2. \A j \in Clients : slot[j] # NoSlot => slot[j] \in Slots
    BY <1>1 DEF Types
  <2>3. list \cup todo \cup garbage \subseteq Slots /\ (fin # NoSlot => fin \in Slots)
    BY <1>1 DEF Types
  <2>4. \A j \in Clients :
          /\ st'[j] \in {"none", "acquire", "refuse"} => slot[j] = NoSlot
          /\ st'[j] \in Building \cup {"linked", "finalize"} => slot[j] # NoSlot
    BY <1>1, <1>3, <1>7 DEF Own
  <2> QED BY <1>1, <1>2, <1>4, <2>1, <2>2, <2>3, <2>4 DEF Own
<1>14. Listed'
  <2>1. \A t \in list : t # s /\ t \in Slots /\ u'[t] = u[t]
    BY <1>1, <1>4, <1>5 DEF Types
  <2>2. garbage \subseteq Slots /\ todo \subseteq Slots /\ \A j \in lost : slot[j] \in Slots
    BY <1>1 DEF Listed, Types
  <2> QED BY <1>1, <1>2, <1>4, <1>7, <1>9, <2>1, <2>2 DEF Listed
<1>15. Built'
  <2>1. \A j \in Clients : st[j] \in Building \cup {"linked"} => slot[j] \in Slots
    BY <1>1 DEF Own, Types
  <2>2. \A j \in Clients : st'[j] = "linked" => st[j] = "linked"
    BY <1>3 DEF Building
  <2> QED BY <1>1, <1>2, <1>4, <1>7, <2>1, <2>2 DEF Built
<1>16. Connected'
  <2>1. \A j \in Clients : slot[j] # NoSlot => slot[j] \in Slots
    BY <1>1 DEF Types
  <2>2. \A j \in Clients : st[j] \in {"acquire", "refuse"} => st'[j] = st[j]
    BY <1>3, <1>7
  <2> QED BY <1>1, <1>2, <1>4, <1>6, <2>1, <2>2 DEF Connected
<1>17. Counted'
  <2>1. {j \in Clients : st'[j] \in {"acquire", "refuse"}} = {j \in Clients : st[j] \in {"acquire", "refuse"}}
    BY <1>3, <1>7
  <2> QED BY <2>1, <1>1, <1>2 DEF Counted
<1>18. Data'
  <2>1. IdleUntilLinked'
    <3> SUFFICES ASSUME ~stopping, NEW j \in Clients, st'[j] \in {"open", "remote", "link"}
                 PROVE  Idle(u'[slot[j]])
      BY <1>2 DEF IdleUntilLinked
    <3>1. wpc \notin {"again", "closed"}
      BY <1>1 DEF Phase, StopPc
    <3>2. CASE j = k
      <4>1. st[k] \in {"open", "remote"} /\ (Idle(u[s]) => Idle(u'[s]))
        BY <3>2, <1>3 DEF Prepares, FreshPlaces, s
      <4>2. Idle(u[s])
        BY <4>1, <1>1 DEF Data, s
      <4> QED BY <3>2, <4>1, <4>2 DEF s
    <3>3. CASE j # k
      <4>1. st[j] \in {"open", "remote", "link"}
        BY <3>3, <1>3
      <4>2. slot[j] # s /\ slot[j] \in Slots
        BY <3>1, <3>3, <4>1, <1>2, BuildingApart DEF Building, s
      <4> QED BY <4>1, <4>2, <1>1, <1>4 DEF Data
    <3> QED BY <3>2, <3>3
  <2>2. \A t \in list' : t \in list /\ u'[t].client = u[t].client /\ u[t].client # 0
    <3>1. \A t \in list : t \in Slots /\ u[t].client # 0
      BY <1>1 DEF Listed, Settled, Types
    <3> QED BY <3>1, <1>2, <1>4
  <2>3. \A j \in Clients : PeerOK(net'[j]) /\ SamePeer(net[j], net'[j])
    BY <1>4
  <2>4. \A t \in Slots : SameData(u[t], u'[t]) \/ (t \notin list' /\ Buffered(u'[t]))
    BY <1>2, <1>4, <1>5 DEF SameData
  <2>5. \A j \in Clients : st'[j] \in FreshPlaces => st[j] \in FreshPlaces
    BY <1>3 DEF Prepares, FreshPlaces
  <2> QED BY <1>1, <1>2, <1>10, <2>1, <2>2, <2>3, <2>4, <2>5, SameDataStep
<1> QED BY <1>10, <1>11, <1>12, <1>13, <1>14, <1>15, <1>16, <1>17, <1>18 DEF IInv, Control

(* All of a client but what it has been told                                 *)
Informed(c, d) ==
  /\ d \in Peer /\ d.in = c.in /\ d.next = c.next /\ d.sent = c.sent /\ d.read = c.read
  /\ d.garbled = c.garbled /\ d.routed = c.routed /\ d.taken = c.taken

(* A client is told something and nothing else.                              *)
LEMMA InformedNet ==
  ASSUME Types, Data, NEW k \in Clients, NEW d, Informed(net[k], d),
         net' = [net EXCEPT ![k] = d]
  PROVE  /\ net' \in [Clients -> Peer] /\ net'[k] = d
         /\ \A j \in Clients : j # k => net'[j] = net[j]
         /\ \A j \in Clients : PeerOK(net'[j]) /\ SamePeer(net[j], net'[j])
<1>1. net \in [Clients -> Peer] /\ \A j \in Clients : PeerOK(net[j])
  BY DEF Types, Data
<1>2. d \in Peer
  BY DEF Informed
<1>3. PeerOK(d) /\ SamePeer(net[k], d)
  BY <1>1 DEF Informed, PeerOK, SamePeer, Consecutive, Wrote, NextIn
<1>4. net' \in [Clients -> Peer] /\ net'[k] = d /\ \A j \in Clients : j # k => net'[j] = net[j]
  BY <1>1, <1>2
<1> QED BY <1>1, <1>3, <1>4 DEF SamePeer

(* The ways in which reply and close_kind of client k are set                *)
Answers(k) ==
  \/ net' = net
  \/ \E why \in Why : net' = [net EXCEPT ![k].why = why]
  \/ \E reply \in {"SUCCEEDED", "UNREACHABLE", "FAILURE"} :
       \/ net' = [net EXCEPT ![k].reply = reply]
       \/ \E why \in Why : net' = [net EXCEPT ![k].reply = reply, ![k].why = why]

(* An answer leaves the connection and the traffic alone.                    *)
LEMMA AnswerEffect ==
  ASSUME Types, Data, NEW k \in Clients, Answers(k)
  PROVE  /\ net' \in [Clients -> Peer]
         /\ \A j \in Clients :
              net'[j].open = net[j].open /\ PeerOK(net'[j]) /\ SamePeer(net[j], net'[j])
<1>1. net \in [Clients -> Peer] /\ net[k] \in Peer /\ \A j \in Clients : PeerOK(net[j])
  BY DEF Types, Data
<1>2. CASE net' = net
  BY <1>1, <1>2 DEF SamePeer
<1>3. ASSUME NEW d, Informed(net[k], d), d.open = net[k].open, net' = [net EXCEPT ![k] = d]
      PROVE  /\ net' \in [Clients -> Peer]
             /\ \A j \in Clients :
                  net'[j].open = net[j].open /\ PeerOK(net'[j]) /\ SamePeer(net[j], net'[j])
  BY <1>3, InformedNet
<1>4. ASSUME NEW why \in Why, net' = [net EXCEPT ![k].why = why]
      PROVE  \E d : Informed(net[k], d) /\ d.open = net[k].open /\ net' = [net EXCEPT ![k] = d]
  <2> DEFINE d == [net[k] EXCEPT !.why = why]
  <2>1. net' = [net EXCEPT ![k] = d]
    BY <1>1, <1>4
  <2>2. Informed(net[k], d) /\ d.open = net[k].open
    BY <1>1 DEF Informed, Peer
  <2> HIDE DEF d
  <2> QED BY <2>1, <2>2
<1>5. ASSUME NEW reply \in {"SUCCEEDED", "UNREACHABLE", "FAILURE"},
             net' = [net EXCEPT ![k].reply = reply]
      PROVE  \E d : Informed(net[k], d) /\ d.open = net[k].open /\ net' = [net EXCEPT ![k] = d]
  <2> DEFINE d == [net[k] EXCEPT !.reply = reply]
  <2>1. net' = [net EXCEPT ![k] = d]
    BY <1>1, <1>5
  <2>2. Informed(net[k], d) /\ d.open = net[k].open
    BY <1>1 DEF Informed, Peer
  <2> HIDE DEF d
  <2> QED BY <2>1, <2>2
<1>6. ASSUME NEW reply \in {"SUCCEEDED", "UNREACHABLE", "FAILURE"}, NEW why \in Why,
             net' = [net EXCEPT ![k].reply = reply, ![k].why = why]
      PROVE  \E d : Informed(net[k], d) /\ d.open = net[k].open /\ net' = [net EXCEPT ![k] = d]
  <2> DEFINE d == [net[k] EXCEPT !.reply = reply, !.why = why]
  <2>1. net' = [net EXCEPT ![k] = d]
    BY <1>1, <1>6
  <2>2. Informed(net[k], d) /\ d.open = net[k].open
    BY <1>1 DEF Informed, Peer
  <2> HIDE DEF d
  <2> QED BY <2>1, <2>2
<1> QED BY <1>2, <1>3, <1>4, <1>5, <1>6 DEF Answers

(* The sockets are opened, or they are not; a thread that fails, or finds    *)
(* the worker stopping, goes on to give its reference back.                  *)
LEMMA PrepareKeeps ==
  ASSUME IInv, NEW k \in Clients, OpenLocal(k) \/ OpenRemote(k) \/ (Link(k) /\ st'[k] = "unref")
  PROVE  IInv'
<1> DEFINE s == slot[k]
<1>1. Types /\ Phase /\ Own /\ Data
  BY DEF IInv, Control
<1>2. /\ st[k] \in {"open", "remote", "link"}
      /\ UNCHANGED <<worker, stop, lost, free, count, slot, list>>
      /\ load' = [load EXCEPT !.asks = load.asks]
  <2>1. CASE OpenLocal(k) \/ OpenRemote(k)
    BY <2>1 DEF OpenLocal, OpenRemote, StartStep
  <2>2. CASE Link(k) /\ st'[k] = "unref"
    <3>1. list' = list \/ st' = [st EXCEPT ![k] = "linked"]
      BY <2>2 DEF Link
    <3>2. st'[k] # "linked"
      BY <2>2
    <3>3. st \in [Clients -> Places]
      BY <1>1 DEF Types
    <3>4. list' = list
      BY <3>1, <3>2, <3>3
    <3> QED BY <2>2, <3>4 DEF Link, StartStep
  <2> QED BY <2>1, <2>2
<1>3. load' \in Left /\ load'.others = load.others
  BY <1>1, <1>2 DEF Types, Left
<1>4. /\ s \in Slots /\ st \in [Clients -> Places] /\ u \in [Slots -> Session] /\ u[s] \in Session
      /\ \A t \in Slots : Buffered(u[t])
  BY <1>1, <1>2 DEF Types, Own, Building, Data
<1>5. ASSUME NEW y \in Session, Kept([u[s] EXCEPT !.closed = y.closed], y),
             u[s].closed => y.closed, Buffered(y), u' = [u EXCEPT ![s] = y]
      PROVE  /\ u' \in [Slots -> Session] /\ u'[s] = y
             /\ \A t \in Slots :
                 /\ u'[t].gen = u[t].gen /\ u'[t].magic = u[t].magic /\ u'[t].refs = u[t].refs
                 /\ u'[t].client = u[t].client /\ u'[t].registered = u[t].registered
                 /\ (u[t].closed => u'[t].closed) /\ Buffered(u'[t])
                 /\ t # s => u'[t] = u[t]
  <2>1. u' \in [Slots -> Session] /\ u'[s] = y /\ \A t \in Slots : t # s => u'[t] = u[t]
    BY <1>4, <1>5
  <2>2. /\ y.gen = u[s].gen /\ y.magic = u[s].magic /\ y.refs = u[s].refs
        /\ y.client = u[s].client /\ y.registered = u[s].registered
    BY <1>4, <1>5 DEF Kept, Session
  <2> QED BY <2>1, <2>2, <1>4, <1>5
<1>6. CASE OpenLocal(k)
  <2>1. /\ Answers(k) /\ st[k] = "open"
        /\ \/ st' = [st EXCEPT ![k] = "unref"] /\ u' = u
           \/ st' = [st EXCEPT ![k] = "remote"] /\ u' = [u EXCEPT ![s].local = (net[k].cmd = 3)]
    <3>1. \/ net' = net
          \/ net' = [net EXCEPT ![k].why = "RESOURCE"]
          \/ net' = [net EXCEPT ![k].reply = "FAILURE", ![k].why = "RESOURCE"]
      BY <1>6 DEF OpenLocal, Because
    <3>2. Answers(k)
      BY <3>1 DEF Answers, Why
    <3> QED BY <1>6, <3>2 DEF OpenLocal, StartStep
  <2>2. CASE st' = [st EXCEPT ![k] = "unref"] /\ u' = u
    <3>1. Prepares(k, "unref")
      BY <1>1, <1>2, <1>3, <1>4, <2>1, <2>2, AnswerEffect DEF Prepares, Building, FreshPlaces
    <3> QED BY <3>1, PrepareStep DEF Building
  <2>3. CASE st' = [st EXCEPT ![k] = "remote"] /\ u' = [u EXCEPT ![s].local = (net[k].cmd = 3)]
    <3> DEFINE local == (net[k].cmd = 3)
               y == [u[s] EXCEPT !.local = local]
    <3>1. u' = [u EXCEPT ![s] = y]
      BY <1>4, <2>3
    <3>2. local \in BOOLEAN
      OBVIOUS
    <3> HIDE DEF local
    <3>3. /\ y \in Session /\ y.closed = u[s].closed /\ Buffered(y) /\ Kept(u[s], y)
          /\ (Idle(u[s]) => Idle(y))
      BY <1>4, <3>2 DEF Session, Buffered, Kept, Idle
    <3> HIDE DEF y
    <3>4. Kept([u[s] EXCEPT !.closed = y.closed], y)
      BY <1>4, <3>3 DEF Session, Kept
    <3>5. /\ u' \in [Slots -> Session] /\ u'[s] = y
          /\ \A t \in Slots :
              /\ u'[t].gen = u[t].gen /\ u'[t].magic = u[t].magic /\ u'[t].refs = u[t].refs
              /\ u'[t].client = u[t].client /\ u'[t].registered = u[t].registered
              /\ (u[t].closed => u'[t].closed) /\ Buffered(u'[t])
              /\ t # s => u'[t] = u[t]
      BY <1>5, <3>1, <3>3, <3>4
    <3>6. Prepares(k, "remote")
      BY <1>1, <1>2, <1>3, <2>1, <2>3, <3>3, <3>5, AnswerEffect DEF Prepares, Building,
           FreshPlaces
    <3> QED BY <3>6, PrepareStep DEF Building
  <2> QED BY <2>1, <2>2, <2>3
<1>7. CASE OpenRemote(k)
  <2>1. /\ Answers(k) /\ st[k] = "remote"
        /\ \/ st' = [st EXCEPT ![k] = "unref"] /\ u' = u
           \/ st' = [st EXCEPT ![k] = "link"] /\ u' = [u EXCEPT ![s].remote = TRUE]
    <3>1. \/ net' = [net EXCEPT ![k].reply = "SUCCEEDED"]
          \/ net' = [net EXCEPT ![k].reply = "UNREACHABLE", ![k].why = "RESOURCE"]
      BY <1>7 DEF OpenRemote
    <3>2. Answers(k)
      BY <3>1 DEF Answers, Why
    <3> QED BY <1>7, <3>2 DEF OpenRemote, StartStep
  <2>2. CASE st' = [st EXCEPT ![k] = "unref"] /\ u' = u
    <3>1. Prepares(k, "unref")
      BY <1>1, <1>2, <1>3, <1>4, <2>1, <2>2, AnswerEffect DEF Prepares, Building, FreshPlaces
    <3> QED BY <3>1, PrepareStep DEF Building
  <2>3. CASE st' = [st EXCEPT ![k] = "link"] /\ u' = [u EXCEPT ![s].remote = TRUE]
    <3> DEFINE y == [u[s] EXCEPT !.remote = TRUE]
    <3>1. u' = [u EXCEPT ![s] = y]
      BY <1>4, <2>3
    <3>3. /\ y \in Session /\ y.closed = u[s].closed /\ Buffered(y) /\ Kept(u[s], y)
          /\ (Idle(u[s]) => Idle(y))
      BY <1>4 DEF Session, Buffered, Kept, Idle
    <3> HIDE DEF y
    <3>4. Kept([u[s] EXCEPT !.closed = y.closed], y)
      BY <1>4, <3>3 DEF Session, Kept
    <3>5. /\ u' \in [Slots -> Session] /\ u'[s] = y
          /\ \A t \in Slots :
              /\ u'[t].gen = u[t].gen /\ u'[t].magic = u[t].magic /\ u'[t].refs = u[t].refs
              /\ u'[t].client = u[t].client /\ u'[t].registered = u[t].registered
              /\ (u[t].closed => u'[t].closed) /\ Buffered(u'[t])
              /\ t # s => u'[t] = u[t]
      BY <1>5, <3>1, <3>3, <3>4
    <3>6. Prepares(k, "link")
      BY <1>1, <1>2, <1>3, <2>1, <2>3, <3>3, <3>5, AnswerEffect DEF Prepares, Building,
           FreshPlaces
    <3> QED BY <3>6, PrepareStep DEF Building
  <2> QED BY <2>1, <2>2, <2>3
<1>8. CASE Link(k) /\ st'[k] = "unref"
  <2> DEFINE fds == IF net[k].cmd = 3 THEN <<"client", "local", "remote">> ELSE <<"client", "remote">>
  <2>1. /\ st' = [st EXCEPT ![k] = "unref"] \/ st' = [st EXCEPT ![k] = "linked"]
        /\ st' = [st EXCEPT ![k] = "linked"] \/ net' = Because(k, "SHUTDOWN") \/ net' = Because(k, "RESOURCE")
        /\ \/ u' = u \/ st' = [st EXCEPT ![k] = "linked"]
           \/ \E n \in 0..(Len(fds) - 1) :
                u' = [u EXCEPT ![s].armed = ToSet(SubSeq(fds, 1, n)), ![s].closed = TRUE]
    BY <1>8 DEF Link
  <2>2. st' # [st EXCEPT ![k] = "linked"]
    BY <1>4, <1>8
  <2>3. Answers(k)
    BY <2>1, <2>2 DEF Answers, Because, Why
  <2>4. CASE u' = u
    <3>1. Prepares(k, "unref")
      BY <1>1, <1>2, <1>3, <1>4, <2>1, <2>2, <2>3, <2>4, AnswerEffect DEF Prepares, Building,
           FreshPlaces
    <3> QED BY <3>1, PrepareStep DEF Building
  <2>5. ASSUME NEW n \in 0..(Len(fds) - 1),
               u' = [u EXCEPT ![s].armed = ToSet(SubSeq(fds, 1, n)), ![s].closed = TRUE]
        PROVE  IInv'
    <3> DEFINE armed == ToSet(SubSeq(fds, 1, n))
               y == [u[s] EXCEPT !.armed = armed, !.closed = TRUE]
    <3>1. armed \subseteq Roles
      <4>1. fds \in Seq(Roles)
        <5>1. <<"client", "local", "remote">> \in Seq(Roles) /\ <<"client", "remote">> \in Seq(Roles)
          BY DEF Roles
        <5> QED BY <5>1
      <4> HIDE DEF fds
      <4>2. SubSeq(fds, 1, n) \in Seq(Roles)
        BY <4>1, SubSeqProperties
      <4> QED BY <4>2 DEF ToSet
    <3>2. u' = [u EXCEPT ![s] = y]
      BY <1>4, <2>5
    <3> HIDE DEF armed
    <3>3. /\ y \in Session /\ y.closed = TRUE /\ Buffered(y)
          /\ y.gen = u[s].gen /\ y.magic = u[s].magic /\ y.refs = u[s].refs
          /\ y.client = u[s].client /\ y.registered = u[s].registered
      BY <1>4, <3>1 DEF Session, Buffered
    <3> HIDE DEF y
    <3>4. Kept([u[s] EXCEPT !.closed = y.closed], y)
      BY <1>4, <3>3 DEF Session, Kept
    <3>5. /\ u' \in [Slots -> Session] /\ u'[s] = y
          /\ \A t \in Slots :
              /\ u'[t].gen = u[t].gen /\ u'[t].magic = u[t].magic /\ u'[t].refs = u[t].refs
              /\ u'[t].client = u[t].client /\ u'[t].registered = u[t].registered
              /\ (u[t].closed => u'[t].closed) /\ Buffered(u'[t])
              /\ t # s => u'[t] = u[t]
      BY <1>5, <3>2, <3>3, <3>4
    <3>6. st' = [st EXCEPT ![k] = "unref"] /\ st[k] \in Building
      BY <2>1, <2>2, <1>2 DEF Building
    <3> HIDE DEF fds
    <3>7. Prepares(k, "unref")
      BY <1>1, <1>2, <1>3, <2>3, <3>5, <3>6, AnswerEffect DEF Prepares, FreshPlaces
    <3> QED BY <3>7, PrepareStep DEF Building
  <2> QED BY <2>1, <2>2, <2>4, <2>5
<1> QED BY <1>6, <1>7, <1>8

(* The thread lets go of the session it has linked.                          *)
LEMMA RegisterKeeps ==
  ASSUME IInv, NEW k \in Clients, Register(k)
  PROVE  IInv'
<1> DEFINE s == slot[k]
           y == [u[s] EXCEPT !.registered = TRUE]
<1>1. Types /\ Phase /\ Control /\ Refs /\ Own /\ Listed /\ Built /\ Connected /\ Counted /\ Data
  BY DEF IInv, Control
<1>2. /\ st[k] = "linked" /\ st' = [st EXCEPT ![k] = "done"]
      /\ u' = [u EXCEPT ![s].registered = TRUE]
      /\ free' = free /\ count' = count /\ slot' = slot /\ list' = list /\ stop' = stop
      /\ lost' = lost /\ wpc' = wpc /\ batch' = batch /\ cur' = cur /\ touched' = touched
      /\ garbage' = garbage /\ todo' = todo /\ fin' = fin /\ stopping' = stopping /\ net' = net
      /\ load' = [load EXCEPT !.asks = load.asks]
  BY DEF Register, StartStep, worker
<1>3. load' \in Left /\ load'.others = load.others
  BY <1>1, <1>2 DEF Types, Left
<1>4. /\ st' \in [Clients -> Places] /\ st'[k] = "done"
      /\ \A j \in Clients : j # k => st'[j] = st[j]
  BY <1>1, <1>2 DEF Types, Places
<1>5. s \in Slots /\ u \in [Slots -> Session] /\ u[s] \in Session
  BY <1>1, <1>2 DEF Types, Own
<1>6. u' = [u EXCEPT ![s] = y]
  BY <1>2, <1>5
<1>7. /\ y \in Session /\ y.gen = u[s].gen /\ y.magic = u[s].magic /\ y.refs = u[s].refs
      /\ y.client = u[s].client /\ y.closed = u[s].closed /\ y.registered /\ SameData(u[s], y)
  BY <1>5 DEF Session, SameData
<1> HIDE DEF y
<1>8. /\ u' \in [Slots -> Session] /\ u'[s].registered
      /\ \A t \in Slots :
           /\ u'[t].gen = u[t].gen /\ u'[t].magic = u[t].magic /\ u'[t].refs = u[t].refs
           /\ u'[t].client = u[t].client /\ u'[t].closed = u[t].closed
           /\ SameData(u[t], u'[t]) /\ (t # s => u'[t] = u[t])
  <2>1. u' \in [Slots -> Session] /\ u'[s] = y /\ \A t \in Slots : t # s => u'[t] = u[t]
    BY <1>5, <1>6, <1>7
  <2>2. \A t \in Slots : SameData(u[t], u[t])
    BY DEF SameData
  <2> QED BY <2>1, <2>2, <1>7
<1>9. Free' = Free
  BY <1>2 DEF Free
<1>10. \A j \in Clients : /\ st'[j] \in Building <=> st[j] \in Building
                          /\ st'[j] = "finalize" <=> st[j] = "finalize"
                          /\ st'[j] \in {"linked", "done"} <=> st[j] \in {"linked", "done"}
                          /\ st'[j] \in {"acquire", "refuse"} <=> st[j] \in {"acquire", "refuse"}
  BY <1>2, <1>4 DEF Building
<1>11. ~stopping => s \in list /\ u[s].client = k
  BY <1>1, <1>2 DEF Built
<1> HIDE DEF s
<1>12. \A t \in Slots : /\ Finishing(t)' <=> Finishing(t)
                        /\ Owned(t)' <=> Owned(t)
                        /\ Settled(t)' <=> Settled(t)
  <2> TAKE t \in Slots
  <2>1. u[t].client # 0 => u[t].client \in Clients
    BY <1>1 DEF Types, Session
  <2> QED BY <2>1, <1>2, <1>8, <1>10 DEF Finishing, Owned, Leftover, Settled
<1>13. Types'
  BY <1>1, <1>2, <1>3, <1>4, <1>8 DEF Types
<1>14. Phase'
  <2>1. cur # NoEvent => cur.s \in Slots
    BY <1>1 DEF Phase, Types
  <2> QED BY <1>1, <1>2, <1>8, <2>1 DEF Phase
<1>15. Refs'
  BY <1>1, <1>2, <1>8, <1>9, <1>10, <1>12 DEF Refs
<1>16. Own'
  <2>1. Others' = Others
    BY <1>8, <1>9 DEF Others
  <2>2. \A j \in Clients : slot[j] # NoSlot => slot[j] \in Slots
    BY <1>1 DEF Types
  <2>3. list \cup todo \cup garbage \subseteq Slots /\ (fin # NoSlot => fin \in Slots)
    BY <1>1 DEF Types
  <2>4. \A j \in Clients :
          /\ st'[j] \in {"none", "acquire", "refuse"} => slot[j] = NoSlot
          /\ st'[j] \in Building \cup {"linked", "finalize"} => slot[j] # NoSlot
    BY <1>1, <1>4, <1>10 DEF Own
  <2> QED BY <1>1, <1>2, <1>3, <1>8, <2>1, <2>2, <2>3, <2>4 DEF Own
<1>17. Listed'
  <2>1. garbage \subseteq Slots /\ todo \subseteq Slots /\ list \subseteq Slots
        /\ \A j \in lost : slot[j] \in Slots
    BY <1>1 DEF Listed, Types
  <2> QED BY <1>1, <1>2, <1>8, <1>10, <1>12, <2>1 DEF Listed
<1>18. Built'
  <2>1. \A j \in Clients : st[j] \in Building \cup {"linked"} => slot[j] \in Slots
    BY <1>1 DEF Own, Types
  <2>2. ~stopping => wpc \notin {"again", "closed"}
    BY <1>1 DEF Phase, StopPc
  <2>3. ~stopping => \A j \in Clients : j # k /\ st[j] \in Building \cup {"linked"} => slot[j] # s
    BY <1>1, <1>11, <2>2 DEF Built
  <2>4. \A j \in Clients : st'[j] = "linked" => st[j] = "linked" /\ j # k
    BY <1>4
  <2>5. k \in Clients /\ st[k] \notin Building
    BY <1>2 DEF Building
  <2>6. wpc' \notin {"again", "closed"} =>
          \A j \in Clients : st'[j] \in Building => u'[slot'[j]].refs = 1 /\ u'[slot'[j]].client = j
    BY <1>1, <1>2, <1>8, <1>10, <2>1 DEF Built
  <2>7. ~stopping' => \A j \in Clients : st'[j] = "linked" =>
            slot'[j] \in list' /\ u'[slot'[j]].client = j /\ ~u'[slot'[j]].registered
    BY <1>1, <1>2, <1>8, <2>1, <2>3, <2>4 DEF Built
  <2>8. ~stopping' => \A j \in Clients : st'[j] \in Building => ~u'[slot'[j]].registered
    BY <1>1, <1>2, <1>8, <1>10, <2>1, <2>3, <2>5 DEF Built
  <2>9. ~stopping' => \A t \in Slots : u'[t].magic /\ ~u'[t].closed /\ u'[t].registered => t \in list'
    BY <1>1, <1>2, <1>8, <1>11 DEF Built
  <2> QED BY <2>6, <2>7, <2>8, <2>9 DEF Built
<1>19. Connected'
  <2>1. \A j \in Clients : slot[j] # NoSlot => slot[j] \in Slots
    BY <1>1 DEF Types
  <2> QED BY <1>1, <1>2, <1>8, <1>9, <1>10, <2>1 DEF Connected
<1>20. Counted'
  <2>1. {j \in Clients : st'[j] \in {"acquire", "refuse"}} = {j \in Clients : st[j] \in {"acquire", "refuse"}}
    BY <1>10
  <2> QED BY <2>1, <1>1, <1>2 DEF Counted
<1>21. Data'
  <2>1. IdleUntilLinked'
    <3> SUFFICES ASSUME ~stopping, NEW j \in Clients, st'[j] \in {"open", "remote", "link"}
                 PROVE  Idle(u'[slot[j]])
      BY <1>2 DEF IdleUntilLinked
    <3>1. st[j] \in {"open", "remote", "link"}
      BY <1>4
    <3>2. slot[j] \in Slots
      BY <3>1, <1>1 DEF Own, Types, Building
    <3> QED BY <3>1, <3>2, <1>1, <1>8 DEF Data, Idle, SameData
  <2>2. \A t \in list' : t \in list /\ u'[t].client = u[t].client /\ u[t].client # 0
    <3>1. \A t \in list : t \in Slots /\ u[t].client # 0
      BY <1>1 DEF Listed, Settled, Types
    <3> QED BY <3>1, <1>2, <1>8
  <2>3. \A j \in Clients : PeerOK(net'[j]) /\ SamePeer(net[j], net'[j])
    BY <1>1, <1>2 DEF Data, SamePeer
  <2>4. \A j \in Clients : st'[j] \in FreshPlaces => st[j] \in FreshPlaces
    BY <1>4 DEF FreshPlaces
  <2> QED BY <1>1, <1>2, <1>8, <1>13, <2>1, <2>2, <2>3, <2>4, SameDataStep
<1> QED BY <1>13, <1>14, <1>15, <1>16, <1>17, <1>18, <1>19, <1>20, <1>21 DEF IInv, Control

(* A session is linked under list_lock by a worker that is not stopping.     *)
LEMMA LinkedKeeps ==
  ASSUME IInv, NEW k \in Clients, Link(k), st'[k] # "unref"
  PROVE  IInv'
<1> DEFINE s == slot[k]
           fds == IF net[k].cmd = 3 THEN <<"client", "local", "remote">> ELSE <<"client", "remote">>
           armed == ToSet(fds)
           y == [u[s] EXCEPT !.armed = armed, !.remoteIn = TRUE]
<1>1. Types /\ Phase /\ Control /\ Refs /\ Own /\ Listed /\ Built /\ Connected /\ Counted /\ Data
  BY DEF IInv, Control
<1>2. /\ st[k] = "link" /\ ~stopping /\ st' = [st EXCEPT ![k] = "linked"]
      /\ u' = [u EXCEPT ![s].armed = armed, ![s].remoteIn = TRUE]
      /\ list' = list \cup {s} /\ net' = net
      /\ free' = free /\ count' = count /\ slot' = slot /\ stop' = stop
      /\ lost' = lost /\ wpc' = wpc /\ batch' = batch /\ cur' = cur /\ touched' = touched
      /\ garbage' = garbage /\ todo' = todo /\ fin' = fin /\ stopping' = stopping
      /\ load' = [load EXCEPT !.asks = load.asks]
  <2>1. st' # [st EXCEPT ![k] = "unref"]
    <3>1. st \in [Clients -> Places]
      BY <1>1 DEF Types
    <3> QED BY <3>1
  <2> QED BY <2>1 DEF Link, StartStep, worker
<1>3. load' \in Left /\ load'.others = load.others
  BY <1>1, <1>2 DEF Types, Left
<1>4. /\ st' \in [Clients -> Places] /\ st'[k] = "linked"
      /\ \A j \in Clients : j # k => st'[j] = st[j]
  BY <1>1, <1>2 DEF Types, Places
<1>5. armed \subseteq Roles
  <2>1. <<"client", "local", "remote">> \in Seq(Roles) /\ <<"client", "remote">> \in Seq(Roles)
    BY DEF Roles
  <2>2. fds \in Seq(Roles)
    BY <2>1
  <2> HIDE DEF fds
  <2> QED BY <2>2 DEF ToSet
<1> HIDE DEF armed, fds
<1>6. wpc \notin {"again", "closed"} /\ wpc \in LoopPc
  BY <1>1, <1>2 DEF Phase, StopPc, Types
<1>7. /\ s \in Slots /\ s \notin list /\ u[s].client = k /\ u[s].refs = 1 /\ ~u[s].registered
      /\ u \in [Slots -> Session] /\ u[s] \in Session /\ Idle(u[s]) /\ FreshPeer(net[k])
      /\ net[k] \in Peer
  <2>1. st[k] \in Building
    BY <1>2 DEF Building
  <2>2. s \in Slots /\ s \notin list /\ u[s].client = k
    BY <2>1, <1>6, BuildingApart
  <2>3. u[s].refs = 1 /\ ~u[s].registered
    BY <2>1, <1>1, <1>2, <1>6 DEF Built
  <2> QED BY <2>2, <2>3, <1>1, <1>2 DEF Types, Data
<1>8. u' = [u EXCEPT ![s] = y]
  BY <1>2, <1>7
<1>9. /\ y \in Session /\ y.gen = u[s].gen /\ y.magic = u[s].magic /\ y.refs = u[s].refs
      /\ y.client = u[s].client /\ y.closed = u[s].closed /\ y.registered = u[s].registered
      /\ y.hdr = u[s].hdr /\ y.body = u[s].body /\ y.outLen = u[s].outLen
      /\ y.outOff = u[s].outOff /\ y.out = u[s].out /\ y.expect = u[s].expect
      /\ y.remoteIn /\ y.clientOut = u[s].clientOut
  BY <1>5, <1>7 DEF Session
<1> HIDE DEF y
<1>10. /\ u' \in [Slots -> Session] /\ u'[s] = y
       /\ \A t \in Slots :
           /\ u'[t].gen = u[t].gen /\ u'[t].magic = u[t].magic /\ u'[t].refs = u[t].refs
           /\ u'[t].client = u[t].client /\ u'[t].closed = u[t].closed
           /\ u'[t].registered = u[t].registered
           /\ (t # s => u'[t] = u[t])
  BY <1>7, <1>8, <1>9
<1>11. Free' = Free
  BY <1>2 DEF Free
<1>12. ~Settled(s)
  BY <1>2, <1>7 DEF Settled
<1>13. s \notin todo /\ (wpc = "events" => s \notin garbage)
  BY <1>1, <1>6, <1>12 DEF Listed
<1>14. \A j \in Clients : j # k /\ st[j] \in Building => slot[j] # s
  BY <1>1, <1>6, <1>7 DEF Built
<1>15. st[k] \in Building
  BY <1>2 DEF Building
<1>16. \A t \in list : t # s /\ t \in Slots
  BY <1>1, <1>7 DEF Types
<1>23. slot[k] = s
  OBVIOUS
<1> HIDE DEF s
<1>17. \A j \in Clients : /\ st'[j] \in Building <=> st[j] \in Building /\ j # k
                          /\ st'[j] = "finalize" <=> st[j] = "finalize"
                          /\ st'[j] \in {"linked", "done"} <=> st[j] \in {"linked", "done"} \/ j = k
                          /\ st'[j] \in {"acquire", "refuse"} <=> st[j] \in {"acquire", "refuse"}
  BY <1>2, <1>4 DEF Building
<1>18. \A t \in Slots : /\ Finishing(t)' <=> Finishing(t)
                        /\ Owned(t) => Owned(t)'
                        /\ Settled(t) => Settled(t)'
  <2> TAKE t \in Slots
  <2>1. u[t].client # 0 => u[t].client \in Clients
    BY <1>1 DEF Types, Session
  <2> QED BY <2>1, <1>2, <1>10, <1>17, <1>23 DEF Finishing, Owned, Leftover, Settled
<1>19. \A t \in Slots : t = s => Settled(t)'
  <2>1. k # 0
    BY UdpSessionAssumption DEF Clients
  <2>2. u'[s].refs = 1 /\ u'[s].client = k
    BY <1>7, <1>10
  <2> QED BY <2>1, <2>2, <1>2, <1>4, <1>23 DEF Settled
<1>20. Types'
  BY <1>1, <1>2, <1>3, <1>4, <1>7, <1>10 DEF Types
<1>21. Phase'
  <2>1. cur # NoEvent => cur.s \in Slots
    BY <1>1 DEF Phase, Types
  <2> QED BY <1>1, <1>2, <1>6, <1>10, <2>1 DEF Phase, LoopPc
<1>22. Control'
  <2>1. Refs'
    BY <1>1, <1>2, <1>10, <1>11, <1>17, <1>18 DEF Refs
  <2>2. Own'
    <3>1. Others' = Others
      BY <1>10, <1>11 DEF Others
    <3>2. \A j \in Clients : slot[j] # NoSlot => slot[j] \in Slots
      BY <1>1 DEF Types
    <3>3. list \cup todo \cup garbage \subseteq Slots /\ (fin # NoSlot => fin \in Slots)
      BY <1>1 DEF Types
    <3>4. \A j \in Clients :
            /\ st'[j] \in {"none", "acquire", "refuse"} => slot[j] = NoSlot
            /\ st'[j] \in Building \cup {"linked", "finalize"} => slot[j] # NoSlot
      BY <1>1, <1>4, <1>15, <1>17 DEF Own
    <3>5. u[s].gen > 1
      BY <1>1, <1>7 DEF Own
    <3> QED BY <1>1, <1>2, <1>3, <1>7, <1>10, <3>1, <3>2, <3>3, <3>4, <3>5 DEF Own
  <2>3. Listed'
    <3>1. garbage \subseteq Slots /\ todo \subseteq Slots
          /\ \A j \in lost : slot[j] \in Slots /\ slot[j] # s
      BY <1>1, <1>15, <1>23 DEF Listed, Types
    <3>2. \A t \in list' : Settled(t)' /\ ~u'[t].closed /\ u'[t].magic
      <4>1. ~u[s].closed /\ u[s].magic
        BY <1>7 DEF Idle
      <4>2. \A t \in list : Settled(t) /\ ~u[t].closed /\ u[t].magic
        BY <1>1 DEF Listed
      <4>3. \A t \in list : Settled(t)' /\ ~u'[t].closed /\ u'[t].magic
        BY <4>2, <1>10, <1>16, <1>18
      <4>4. \A t \in Slots : t = s => Settled(t)' /\ ~u'[t].closed /\ u'[t].magic
        BY <4>1, <1>7, <1>10, <1>19
      <4> QED BY <4>3, <4>4, <1>2, <1>7
    <3>3. list' \cap todo' = {}
      BY <1>1, <1>2, <1>13 DEF Listed
    <3>4. wpc' = "events" => \A t \in garbage' : Settled(t)' /\ t \notin list'
      BY <1>1, <1>2, <1>13, <1>18, <3>1 DEF Listed
    <3>5. wpc' # "again" => \A t \in todo' : Settled(t)'
      BY <1>1, <1>2, <1>18, <3>1 DEF Listed
    <3>6. \A j \in lost' : /\ slot'[j] # NoSlot /\ Settled(slot[j])' /\ u'[slot'[j]].client = j
                           /\ slot'[j] \notin list' \cup todo' \cup garbage'
                           /\ \A i \in Clients : st'[i] \in Building => slot'[i] # slot'[j]
      BY <1>1, <1>2, <1>10, <1>17, <1>18, <3>1 DEF Listed
    <3> QED BY <1>2, <3>2, <3>3, <3>4, <3>5, <3>6 DEF Listed
  <2>4. Built'
    <3>1. \A j \in Clients : st[j] \in Building \cup {"linked"} => slot[j] \in Slots
      BY <1>1 DEF Own, Types
    <3>2. \A j \in Clients : st'[j] = "linked" => st[j] = "linked" \/ j = k
      BY <1>4
    <3>3. wpc' \notin {"again", "closed"} =>
            \A j \in Clients : st'[j] \in Building => u'[slot'[j]].refs = 1 /\ u'[slot'[j]].client = j
      BY <1>1, <1>2, <1>10, <1>17, <3>1 DEF Built
    <3>4. ~stopping' => \A j \in Clients : st'[j] = "linked" =>
              slot'[j] \in list' /\ u'[slot'[j]].client = j /\ ~u'[slot'[j]].registered
      BY <1>1, <1>2, <1>7, <1>10, <1>23, <3>1, <3>2 DEF Built
    <3>5. ~stopping' => \A j \in Clients : st'[j] \in Building => ~u'[slot'[j]].registered
      BY <1>1, <1>2, <1>10, <1>17, <3>1 DEF Built
    <3>6. ~stopping' => \A t \in Slots : u'[t].magic /\ ~u'[t].closed /\ u'[t].registered => t \in list'
      BY <1>1, <1>2, <1>10 DEF Built
    <3> QED BY <3>3, <3>4, <3>5, <3>6 DEF Built
  <2>5. Connected'
    <3>1. \A j \in Clients : slot[j] # NoSlot => slot[j] \in Slots
      BY <1>1 DEF Types
    <3> QED BY <1>1, <1>2, <1>10, <1>11, <1>17, <3>1 DEF Connected
  <2>6. Counted'
    <3>1. {j \in Clients : st'[j] \in {"acquire", "refuse"}} = {j \in Clients : st[j] \in {"acquire", "refuse"}}
      BY <1>17
    <3> QED BY <3>1, <1>1, <1>2 DEF Counted
  <2> QED BY <2>1, <2>2, <2>3, <2>4, <2>5, <2>6 DEF Control
<1>24. Data'
  <2>1. Buffered(y) /\ Masked(y)
    <3>1. Buffered(u[s])
      BY <1>1, <1>7 DEF Data
    <3>2. u[s].outLen = 0 /\ u[s].clientOut = FALSE /\ y.remoteIn = TRUE /\ y.clientOut = FALSE
      BY <1>7, <1>9 DEF Idle, Session
    <3> QED BY <3>1, <3>2, <1>9 DEF Buffered, Masked
  <2>2. Reading(y, net[k])
    <3>1. ReadSoFar(<<>>, <<>>, y.expect, 1, <<1, 1>>)
      BY EmptySeq DEF ReadSoFar
    <3>2. y.hdr = <<>> /\ y.body = <<>> /\ net[k].routed + 1 = 1 /\ NextIn(net[k]) = <<1, 1>>
      BY <1>7, <1>9 DEF Idle, FreshPeer
    <3> QED BY <3>1, <3>2 DEF Reading
  <2>3. Sending(y, net[k])
    <3>1. y.outLen = 0 /\ y.outOff = 0 /\ Len(net[k].sent) = 0 /\ net[k].taken = 0
      BY <1>7, <1>9, EmptySeq DEF Idle, FreshPeer
    <3> QED BY <3>1, UdpSessionAssumption DEF Sending
  <2>4. \A t \in list : u[t].client \in Clients
    BY ListedData
  <2>5. \A t \in Slots : Buffered(u'[t])
    BY <2>1, <1>1, <1>10 DEF Data
  <2>6. ~stopping' => \A j \in Clients : st'[j] \in {"open", "remote", "link"} => Idle(u'[slot'[j]])
    <3> SUFFICES ASSUME NEW j \in Clients, st'[j] \in {"open", "remote", "link"}
                 PROVE  Idle(u'[slot[j]])
      BY <1>2
    <3>1. st[j] \in {"open", "remote", "link"} /\ j # k
      BY <1>4
    <3>2. slot[j] \in Slots /\ slot[j] # s
      BY <3>1, <1>1, <1>14 DEF Own, Types, Building
    <3> QED BY <3>1, <3>2, <1>1, <1>2, <1>10 DEF Data
  <2>7. \A j \in Clients : st'[j] \in {"none", "acquire", "open", "remote", "link"} => FreshPeer(net'[j])
    BY <1>1, <1>2, <1>4 DEF Data
  <2>8. ASSUME NEW t \in list'
        PROVE  Reading(u'[t], net'[u'[t].client]) /\ Sending(u'[t], net'[u'[t].client])
    <3>1. CASE t = s
      BY <3>1, <2>2, <2>3, <1>2, <1>7, <1>9, <1>10
    <3>2. CASE t # s
      BY <3>2, <1>1, <1>2, <1>10, <1>16 DEF Data
    <3> QED BY <3>1, <3>2
  <2>9. ASSUME NEW t \in list' \ {cur'.s}
        PROVE  Masked(u'[t])
    <3>1. CASE t = s
      BY <3>1, <2>1, <1>10
    <3>2. CASE t # s
      BY <3>2, <1>1, <1>2, <1>10, <1>16 DEF Data
    <3> QED BY <3>1, <3>2
  <2> QED BY <2>5, <2>6, <2>7, <2>8, <2>9, <1>1, <1>2 DEF Data
<1> QED BY <1>20, <1>21, <1>22, <1>24 DEF IInv

(* A pool thread without a slot                                              *)
Asks(k, pc) ==
  /\ st[k] \in {"none", "acquire", "refuse"} /\ st' = [st EXCEPT ![k] = pc]
  /\ pc = "acquire" => st[k] = "none"
  /\ net' \in [Clients -> Peer]
  /\ \A j \in Clients : PeerOK(net'[j]) /\ SamePeer(net[j], net'[j])
  /\ \A j \in Clients : j # k => net'[j] = net[j]
  /\ net'[k].open => pc # "done"
  /\ UNCHANGED <<u, free, slot, list, worker, stop, lost>>
  /\ load' \in Left /\ load'.others = load.others
  /\ count' \in Int /\ Counted'

(* Its steps concern no session.                                             *)
LEMMA AskStep ==
  ASSUME IInv, NEW k \in Clients, NEW pc \in {"acquire", "refuse", "done"}, Asks(k, pc)
  PROVE  IInv'
<1>1. Types /\ Phase /\ Control /\ Refs /\ Own /\ Listed /\ Built /\ Connected /\ Counted /\ Data
  BY DEF IInv, Control
<1>2. /\ u' = u /\ free' = free /\ slot' = slot /\ list' = list /\ stop' = stop
      /\ lost' = lost /\ wpc' = wpc /\ batch' = batch /\ cur' = cur /\ touched' = touched
      /\ garbage' = garbage /\ todo' = todo /\ fin' = fin /\ stopping' = stopping
      /\ load' \in Left /\ load'.others = load.others
      /\ net' \in [Clients -> Peer] /\ count' \in Int
      /\ st[k] \in {"none", "acquire", "refuse"}
  BY DEF Asks, worker
<1>3. /\ st' \in [Clients -> Places] /\ st'[k] = pc /\ \A j \in Clients : j # k => st'[j] = st[j]
  <2>1. pc \in Places
    BY DEF Places
  <2> QED BY <2>1, <1>1 DEF Types, Asks
<1>4. slot[k] = NoSlot /\ NoSlot \notin Slots /\ k \notin lost
  BY <1>1, <1>2, UdpSessionAssumption DEF Own, Listed
<1>5. Free' = Free
  BY <1>2 DEF Free
<1>6. \A j \in Clients : /\ st'[j] \in Building <=> st[j] \in Building
                         /\ st'[j] = "linked" <=> st[j] = "linked"
                         /\ st'[j] = "finalize" <=> st[j] = "finalize"
                         /\ j # k => (st'[j] \in {"linked", "done"} <=> st[j] \in {"linked", "done"})
                         /\ j # k => (st'[j] \in {"acquire", "refuse"} <=> st[j] \in {"acquire", "refuse"})
  BY <1>2, <1>3 DEF Building
<1>7. \A t \in Slots : /\ Finishing(t)' <=> Finishing(t)
                       /\ Owned(t)' <=> Owned(t)
                       /\ Settled(t)' <=> Settled(t)
  <2> TAKE t \in Slots
  <2>1. u[t].client # 0 => u[t].client \in Clients
    BY <1>1 DEF Types, Session
  <2> QED BY <2>1, <1>2, <1>4, <1>6 DEF Finishing, Owned, Leftover, Settled
<1>8. Types'
  BY <1>1, <1>2, <1>3 DEF Types
<1>9. Phase'
  BY <1>1, <1>2 DEF Phase
<1>10. Refs'
  BY <1>1, <1>2, <1>5, <1>6, <1>7 DEF Refs
<1>11. Own'
  <2>1. Others' = Others
    BY <1>2, <1>5 DEF Others
  <2>2. \A j \in Clients :
          /\ st'[j] \in {"none", "acquire", "refuse"} => slot[j] = NoSlot
          /\ st'[j] \in Building \cup {"linked", "finalize"} => slot[j] # NoSlot
    BY <1>1, <1>3, <1>4, <1>6 DEF Own
  <2> QED BY <1>1, <1>2, <2>1, <2>2 DEF Own
<1>12. Listed'
  <2>1. list \subseteq Slots /\ garbage \subseteq Slots /\ todo \subseteq Slots
        /\ \A j \in lost : slot[j] \in Slots
    BY <1>1 DEF Listed, Types
  <2> QED BY <1>1, <1>2, <1>6, <1>7, <2>1 DEF Listed
<1>13. Built'
  BY <1>1, <1>2, <1>6 DEF Built
<1>14. Connected'
  <2> SUFFICES ASSUME NEW j \in Clients, net'[j].open
               PROVE  \/ st'[j] \in {"acquire", "refuse"}
                      \/ slot'[j] # NoSlot /\ u'[slot'[j]].client = j /\ slot'[j] \notin Free'
    BY DEF Connected
  <2>1. CASE j = k
    BY <2>1, <1>3 DEF Asks
  <2>2. CASE j # k
    <3>1. net[j].open
      BY <2>2 DEF Asks
    <3> QED BY <3>1, <2>2, <1>1, <1>2, <1>5, <1>6 DEF Connected
  <2> QED BY <2>1, <2>2
<1>15. Counted'
  BY DEF Asks
<1>16. Data'
  <2>1. IdleUntilLinked'
    <3> SUFFICES ASSUME ~stopping, NEW j \in Clients, st'[j] \in {"open", "remote", "link"}
                 PROVE  Idle(u'[slot'[j]])
      BY <1>2 DEF IdleUntilLinked
    <3>1. st[j] \in {"open", "remote", "link"}
      BY <1>3
    <3> QED BY <3>1, <1>1, <1>2 DEF Data
  <2>2. \A t \in list' : t \in list /\ u'[t].client = u[t].client /\ u[t].client # 0
    BY <1>1, <1>2 DEF Listed, Settled
  <2>3. \A t \in Slots : SameData(u[t], u'[t])
    BY <1>2 DEF SameData
  <2>4. \A j \in Clients : PeerOK(net'[j]) /\ SamePeer(net[j], net'[j])
    BY DEF Asks
  <2>5. \A j \in Clients : st'[j] \in FreshPlaces => st[j] \in FreshPlaces
    BY <1>3 DEF Asks, FreshPlaces
  <2> QED BY <1>1, <1>2, <1>8, <2>1, <2>2, <2>3, <2>4, <2>5, SameDataStep
<1> QED BY <1>8, <1>9, <1>10, <1>11, <1>12, <1>13, <1>14, <1>15, <1>16 DEF IInv, Control

(* The pool threads that hold a unit of the count but no slot                *)
Waiting == {j \in Clients : st[j] \in {"acquire", "refuse"}}

(* Their number is a number.                                                 *)
LEMMA WaitingFinite ==
  ASSUME Types
  PROVE  /\ IsFiniteSet(Clients) /\ IsFiniteSet(Slots) /\ IsFiniteSet(Waiting)
         /\ Cardinality(Waiting) \in Nat /\ Cardinality(Slots) \in Nat /\ Len(free) \in Nat
<1>1. IsFiniteSet(Slots) /\ IsFiniteSet(Clients)
  BY UdpSessionAssumption, FS_Interval DEF Clients
<1>2. IsFiniteSet(Waiting)
  BY <1>1, FS_Subset DEF Waiting
<1> QED BY <1>1, <1>2, FS_CardinalityType, LenProperties DEF Types

(* A unit of the count is reserved or given back before there is a slot.     *)
LEMMA AskKeeps ==
  ASSUME IInv, NEW k \in Clients, Reserve(k) \/ Refuse(k) \/ (Acquire(k) /\ free = <<>>)
  PROVE  IInv'
<1>1. Types /\ Control /\ Own /\ Counted /\ Data /\ Listed
  BY DEF IInv, Control
<1>2. net[k] \in Peer /\ st \in [Clients -> Places] /\ load \in Left /\ count \in Int
  BY <1>1 DEF Types
<1>3. /\ count = Cardinality(Waiting) + Cardinality(Slots) - Len(free)
      /\ (count' = Cardinality(Waiting') + Cardinality(Slots) - Len(free') => Counted')
  BY <1>1 DEF Counted, Waiting
<1>4. /\ IsFiniteSet(Waiting) /\ Cardinality(Waiting) \in Nat /\ Cardinality(Slots) \in Nat
      /\ Len(free) \in Nat
  BY <1>1, WaitingFinite
<1>5. CASE Reserve(k)
  <2>1. /\ st[k] = "none" /\ load' = [load EXCEPT !.asks = load.asks - 1]
        /\ count' = count + 1
        /\ UNCHANGED <<worker, stop, lost, u, free, slot, list>>
    BY <1>5 DEF Reserve, StartStep
  <2>2. PICK pc \in {"acquire", "refuse"} : st' = [st EXCEPT ![k] = pc]
    BY <1>5 DEF Reserve
  <2>3. PICK cmd \in {3, 4} : net' = [net EXCEPT ![k].cmd = cmd, ![k].open = TRUE]
    BY <1>5 DEF Reserve
  <2> DEFINE d == [net[k] EXCEPT !.cmd = cmd, !.open = TRUE]
  <2>4. net' = [net EXCEPT ![k] = d]
    BY <2>3, <1>1 DEF Types
  <2>5. Informed(net[k], d)
    BY <1>2 DEF Informed, Peer
  <2> HIDE DEF d
  <2>6. /\ net' \in [Clients -> Peer]
        /\ \A j \in Clients : j # k => net'[j] = net[j]
        /\ \A j \in Clients : PeerOK(net'[j]) /\ SamePeer(net[j], net'[j])
    BY <2>4, <2>5, <1>1, InformedNet
  <2>7. load' \in Left /\ load'.others = load.others
    BY <2>1, <1>2 DEF Left
  <2>8. Waiting' = Waiting \cup {k} /\ k \notin Waiting
    BY <2>1, <2>2, <1>2 DEF Waiting
  <2>9. Cardinality(Waiting') = Cardinality(Waiting) + 1
    BY <2>8, <1>4, FS_AddElement
  <2>10. Counted' /\ count' \in Int
    BY <2>1, <2>9, <1>2, <1>3, <1>4
  <2>11. Asks(k, pc)
    BY <2>1, <2>2, <2>6, <2>7, <2>10 DEF Asks
  <2> QED BY <2>11, AskStep
<1>6. CASE Refuse(k)
  <2>1. /\ st[k] = "refuse" /\ load' = [load EXCEPT !.asks = load.asks]
        /\ count' = count - 1 /\ st' = [st EXCEPT ![k] = "done"]
        /\ net' = [net EXCEPT ![k].reply = "FAILURE", ![k].open = FALSE, ![k].why = "RESOURCE"]
        /\ UNCHANGED <<worker, stop, lost, u, free, slot, list>>
    BY <1>6 DEF Refuse, StartStep, Unreserved
  <2> DEFINE d == [net[k] EXCEPT !.reply = "FAILURE", !.open = FALSE, !.why = "RESOURCE"]
  <2>2. net' = [net EXCEPT ![k] = d]
    BY <2>1, <1>1 DEF Types
  <2>3. Informed(net[k], d) /\ ~d.open
    BY <1>2 DEF Informed, Peer, Why
  <2> HIDE DEF d
  <2>4. /\ net' \in [Clients -> Peer] /\ net'[k] = d
        /\ \A j \in Clients : j # k => net'[j] = net[j]
        /\ \A j \in Clients : PeerOK(net'[j]) /\ SamePeer(net[j], net'[j])
    BY <2>2, <2>3, <1>1, InformedNet
  <2>5. load' \in Left /\ load'.others = load.others
    BY <2>1, <1>2 DEF Left
  <2>6. Waiting' = Waiting \ {k} /\ k \in Waiting
    BY <2>1, <1>2 DEF Waiting
  <2>7. Cardinality(Waiting') = Cardinality(Waiting) - 1
    BY <2>6, <1>4, FS_RemoveElement
  <2>8. Counted' /\ count' \in Int
    BY <2>1, <2>7, <1>2, <1>3, <1>4
  <2>9. Asks(k, "done")
    BY <2>1, <2>3, <2>4, <2>5, <2>8 DEF Asks
  <2> QED BY <2>9, AskStep
<1>7. CASE Acquire(k) /\ free = <<>>
  <2>1. /\ st[k] = "acquire" /\ load' = [load EXCEPT !.asks = load.asks]
        /\ count' = count /\ st' = [st EXCEPT ![k] = "refuse"] /\ net' = net
        /\ UNCHANGED <<worker, stop, lost, u, free, slot, list>>
    BY <1>7 DEF Acquire, StartStep
  <2>2. load' \in Left /\ load'.others = load.others
    BY <2>1, <1>2 DEF Left
  <2>3. Waiting' = Waiting
    BY <2>1, <1>2 DEF Waiting
  <2>4. Counted' /\ count' \in Int
    BY <2>1, <2>3, <1>2, <1>3
  <2>5. /\ net' \in [Clients -> Peer]
        /\ \A j \in Clients : PeerOK(net'[j]) /\ SamePeer(net[j], net'[j])
    BY <2>1, <1>1 DEF Types, Data, SamePeer
  <2>6. Asks(k, "refuse")
    BY <2>1, <2>2, <2>4, <2>5 DEF Asks
  <2> QED BY <2>6, AskStep
<1> QED BY <1>5, <1>6, <1>7

(* The last free slot is taken.                                              *)
LEMMA FrontDistinct ==
  ASSUME NEW q \in Seq(Slots), Distinct(q), q # <<>>
  PROVE  /\ Last(q) \in Elements(q) /\ Last(q) \in Slots
         /\ Front(q) \in Seq(Slots) /\ Len(Front(q)) = Len(q) - 1
         /\ Distinct(Front(q)) /\ Elements(Front(q)) = Elements(q) \ {Last(q)}
<1>1. PICK n \in Nat, t \in Seq(Slots) :
        /\ n + 1 = Len(q) /\ t = Front(q) /\ Len(t) = n
        /\ \A i \in 1..n : t[i] = q[i]
  <2>1. Len(q) \in Nat /\ Len(q) # 0
    BY LenProperties, EmptySeq
  <2>2. PICK n \in Nat : n + 1 = Len(q)
    <3>1. Len(q) - 1 \in Nat /\ (Len(q) - 1) + 1 = Len(q)
      BY <2>1
    <3> QED BY <3>1
  <2>3. /\ SubSeq(q, 1, n) \in Seq(Slots) /\ Len(SubSeq(q, 1, n)) = n
        /\ \A i \in 1..n : SubSeq(q, 1, n)[i] = q[i]
    <3>1. SubSeq(q, 1, n) = [i \in 1..n |-> q[i]]
      BY <2>2
    <3>2. \A i \in 1..n : q[i] \in Slots
      BY <2>2, ElementOfSeq
    <3>3. SubSeq(q, 1, n) \in [1..n -> Slots]
      BY <3>1, <3>2
    <3> QED BY <3>1, <3>3, <2>2, SeqDef
  <2>4. Front(q) = SubSeq(q, 1, n)
    BY <2>2 DEF Front
  <2> QED BY <2>2, <2>3, <2>4
<1>2. Last(q) = q[n + 1] /\ n + 1 \in 1..Len(q)
  BY <1>1 DEF Last
<1>3. q[n + 1] \in Slots
  BY <1>2, ElementOfSeq
<1>4. Distinct(t)
  BY <1>1 DEF Distinct
<1>5. Elements(t) = Elements(q) \ {q[n + 1]}
  <2>1. \A i \in 1..(n + 1) : i = n + 1 \/ i \in 1..n
    BY <1>1
  <2>2. \A i \in 1..n : i \in 1..(n + 1) /\ q[i] # q[n + 1]
    BY <1>1, <1>2 DEF Distinct
  <2> QED BY <1>1, <2>1, <2>2 DEF Elements
<1>6. Last(q) \in Elements(q)
  BY <1>2 DEF Elements
<1> QED BY <1>1, <1>2, <1>3, <1>4, <1>5, <1>6

(* A slot that was free becomes a session that its pool thread builds.       *)
LEMMA AcquireKeeps ==
  ASSUME IInv, NEW k \in Clients, Acquire(k), free # <<>>
  PROVE  IInv'
<1> DEFINE s == Last(free)
           y == [Zeroed(u[s].gen + 1) EXCEPT !.active = TRUE, !.magic = TRUE,
                                             !.client = k, !.refs = 1]
<1>1. Types /\ Phase /\ Control /\ Refs /\ Own /\ Listed /\ Built /\ Connected /\ Counted /\ Data
  BY DEF IInv, Control
<1>2. /\ st[k] = "acquire" /\ st' = [st EXCEPT ![k] = "open"]
      /\ free' = Front(free) /\ slot' = [slot EXCEPT ![k] = s]
      /\ u' = [u EXCEPT ![s] = y]
      /\ list' = list /\ net' = net /\ count' = count /\ stop' = stop
      /\ lost' = lost /\ wpc' = wpc /\ batch' = batch /\ cur' = cur /\ touched' = touched
      /\ garbage' = garbage /\ todo' = todo /\ fin' = fin /\ stopping' = stopping
      /\ load' = [load EXCEPT !.asks = load.asks]
  BY DEF Acquire, StartStep, worker
<1>3. load' \in Left /\ load'.others = load.others
  BY <1>1, <1>2 DEF Types, Left
<1>4. /\ st' \in [Clients -> Places] /\ st'[k] = "open"
      /\ \A j \in Clients : j # k => st'[j] = st[j]
  BY <1>1, <1>2 DEF Types, Places
<1>5. /\ s \in Slots /\ s \in Free
      /\ free' \in Seq(Slots) /\ Len(free') = Len(free) - 1
      /\ Distinct(free') /\ Free' = Free \ {s}
  BY <1>1, <1>2, FrontDistinct DEF Types, Refs, Free
<1>6. /\ u \in [Slots -> Session] /\ u[s].gen \in Nat /\ u[s].gen > 0
  BY <1>1, <1>5 DEF Types, Session, Own
<1>7. /\ y \in Session /\ Idle(y) /\ Buffered(y)
      /\ y.gen = u[s].gen + 1 /\ y.refs = 1 /\ y.client = k /\ ~y.registered
      /\ y.magic /\ ~y.closed
  <2>1. <<>> \in Seq(Byte) /\ Len(<<>>) = 0
    BY EmptySeq
  <2>2. k \in Clients \cup {0} /\ u[s].gen + 1 \in Nat
    BY <1>6
  <2> DEFINE z == Zeroed(u[s].gen + 1)
  <2>3. /\ z \in Session /\ z.gen = u[s].gen + 1 /\ z.hdr = <<>> /\ z.body = <<>>
        /\ z.outLen = 0 /\ z.outOff = 0 /\ ~z.clientOut /\ ~z.closed /\ ~z.registered
    BY <2>1, <2>2 DEF Zeroed, Session
  <2>4. y = [z EXCEPT !.active = TRUE, !.magic = TRUE, !.client = k, !.refs = 1]
    OBVIOUS
  <2> HIDE DEF z, y
  <2>5. /\ y \in Session /\ y.gen = z.gen /\ y.hdr = z.hdr /\ y.body = z.body
        /\ y.outLen = z.outLen /\ y.outOff = z.outOff
        /\ y.refs = 1 /\ y.client = k /\ y.magic
        /\ ~y.clientOut /\ ~y.closed /\ ~y.registered
    BY <2>2, <2>3, <2>4, 1 \in Int DEF Session
  <2>6. Idle(y) /\ Buffered(y)
    BY <2>1, <2>3, <2>5 DEF Idle, Buffered
  <2> QED BY <2>3, <2>5, <2>6
<1> HIDE DEF y
<1>8. /\ u' \in [Slots -> Session] /\ u'[s] = y
      /\ \A t \in Slots : t # s => u'[t] = u[t]
  BY <1>2, <1>5, <1>6, <1>7
<1>9. /\ slot' \in [Clients -> Slots \cup {NoSlot}] /\ slot'[k] = s
      /\ \A j \in Clients : j # k => slot'[j] = slot[j]
  BY <1>1, <1>2, <1>5 DEF Types
<1> HIDE DEF s
<1>10. slot[k] = NoSlot /\ NoSlot \notin Slots /\ s # NoSlot /\ k \notin lost /\ k # 0
  <2>1. NoSlot \notin Slots
    BY UdpSessionAssumption
  <2>2. slot[k] = NoSlot
    BY <1>1, <1>2 DEF Own
  <2>3. k \notin lost
    BY <2>2, <1>1 DEF Listed
  <2>4. k # 0
    BY DEF Clients
  <2> QED BY <2>1, <2>2, <2>3, <2>4, <1>5
<1>11. u[s].refs # 1 /\ ~Finishing(s) /\ ~Settled(s)
  BY <1>1, <1>5 DEF Refs, Settled
<1>12. /\ s \notin list /\ (wpc = "events" => s \notin garbage)
       /\ (wpc # "again" => s \notin todo) /\ \A j \in lost : slot[j] # s
  BY <1>1, <1>11 DEF Listed
<1>13. /\ \A j \in Clients : st[j] = "finalize" => slot[j] # s
       /\ fin # s
  BY <1>11 DEF Finishing
<1>14. wpc \notin {"again", "closed"} =>
         \A j \in Clients : st[j] \in Building => slot[j] # s
  BY <1>1, <1>11 DEF Built
<1>15. \A j \in Clients : /\ st'[j] \in Building <=> st[j] \in Building \/ j = k
                          /\ st'[j] = "linked" <=> st[j] = "linked"
                          /\ st'[j] = "finalize" <=> st[j] = "finalize"
                          /\ st'[j] \in {"linked", "done"} <=> st[j] \in {"linked", "done"}
                          /\ st'[j] \in {"acquire", "refuse"} <=> st[j] \in {"acquire", "refuse"} /\ j # k
  BY <1>2, <1>4 DEF Building
<1>16. k \notin {j \in Clients : st[j] \in Building \cup {"linked", "finalize", "done"}}
  BY <1>2 DEF Building
<1>17. \A t \in Slots : /\ Finishing(t)' <=> Finishing(t)
                        /\ Owned(t) => Owned(t)'
                        /\ Settled(t) => t # s /\ Settled(t)'
  <2> TAKE t \in Slots
  <2>1. Finishing(t)' <=> Finishing(t)
    BY <1>2, <1>9, <1>15, <1>16 DEF Finishing
  <2>2. Owned(t) => Owned(t)'
    BY <1>2, <1>9, <1>10, <1>15, <1>16 DEF Owned, Leftover
  <2>3. Settled(t) => t # s /\ Settled(t)'
    <3>1. u[t].client # 0 => u[t].client \in Clients
      BY <1>1 DEF Types, Session
    <3> QED BY <3>1, <1>8, <1>9, <1>10, <1>11, <1>15 DEF Settled
  <2> QED BY <2>1, <2>2, <2>3
<1>20. Types'
  BY <1>1, <1>2, <1>3, <1>4, <1>5, <1>8, <1>9 DEF Types
<1>21. Phase'
  <2>1. cur # NoEvent => cur.s \in Slots /\ cur.s # s
    BY <1>1, <1>12 DEF Phase, Types
  <2> QED BY <1>1, <1>2, <1>8, <2>1 DEF Phase
<1>22. Refs'
  <2>1. \A j \in Clients : st'[j] = "finalize" => slot'[j] # fin' /\ j # k
    BY <1>1, <1>2, <1>9, <1>15, <1>16 DEF Refs
  <2>2. \A i, j \in Clients : st'[i] = "finalize" /\ st'[j] = "finalize" /\ slot'[i] = slot'[j] => i = j
    BY <2>1, <1>1, <1>9, <1>15 DEF Refs
  <2>3. ASSUME NEW t \in Slots
        PROVE  /\ u'[t].refs <= 1
               /\ u'[t].refs = 1 => t \notin Free' /\ ~Finishing(t)' /\ Owned(t)'
               /\ Finishing(t)' => t \notin Free'
               /\ u'[t].refs # 1 /\ ~Finishing(t)' /\ u'[t].gen > 1 => t \in Free'
    <3>1. CASE t = s
      <4>1. u'[t].refs = 1 /\ t \notin Free'
        BY <3>1, <1>5, <1>7, <1>8
      <4>2. ~Finishing(t)'
        BY <3>1, <1>5, <1>11, <1>17
      <4>3. Owned(t)'
        BY <3>1, <1>2, <1>4, <1>5, <1>9 DEF Owned, Building
      <4> QED BY <4>1, <4>2, <4>3
    <3>2. CASE t # s
      BY <3>2, <1>1, <1>5, <1>8, <1>17 DEF Refs
    <3> QED BY <3>1, <3>2
  <2> QED BY <2>1, <2>2, <2>3, <1>5 DEF Refs
<1>23. Own'
  <2>1. Others' = Others
    <3>1. \A t \in Slots : (u'[t].gen = 1 /\ t \notin Free') <=> (u[t].gen = 1 /\ t \notin Free)
      BY <1>5, <1>6, <1>7, <1>8
    <3> QED BY <3>1 DEF Others
  <2>2. \A t \in Slots : u'[t].gen > 0 /\ (u[t].gen > 1 => u'[t].gen > 1) /\ (u'[t].refs = 1 => u'[t].gen > 1)
    <3>1. \A t \in Slots : t # s => u'[t].gen > 0 /\ (u[t].gen > 1 => u'[t].gen > 1) /\ (u'[t].refs = 1 => u'[t].gen > 1)
      BY <1>1, <1>8 DEF Own
    <3>2. \A t \in Slots : t = s => u'[t].gen > 0 /\ u'[t].gen > 1
      BY <1>6, <1>7, <1>8
    <3> QED BY <3>1, <3>2
  <2>3. \A j \in Clients : slot'[j] # NoSlot => slot'[j] \in Slots
    BY <1>1, <1>9 DEF Types
  <2>4. list \cup todo \cup garbage \subseteq Slots /\ (fin # NoSlot => fin \in Slots)
    BY <1>1 DEF Types
  <2>5. \A j \in Clients :
          /\ st'[j] \in {"none", "acquire", "refuse"} => slot'[j] = NoSlot
          /\ st'[j] \in Building \cup {"linked", "finalize"} => slot'[j] # NoSlot
    BY <1>1, <1>4, <1>9, <1>10, <1>15 DEF Own
  <2>6. \A j \in Clients : slot'[j] # NoSlot => u'[slot'[j]].gen > 1
    <3>1. u'[s].gen > 1
      BY <1>6, <1>7, <1>8
    <3>2. \A j \in Clients : j # k /\ slot[j] # NoSlot => u[slot[j]].gen > 1
      BY <1>1 DEF Own
    <3> QED BY <3>1, <3>2, <2>2, <2>3, <1>9
  <2> QED BY <1>1, <1>2, <1>3, <2>1, <2>2, <2>4, <2>5, <2>6 DEF Own
<1>24. Listed'
  <2>1. list \subseteq Slots /\ garbage \subseteq Slots /\ todo \subseteq Slots
        /\ \A j \in lost : j \in Clients /\ slot[j] \in Slots /\ j # k
    BY <1>1, <1>10 DEF Listed, Types
  <2>2. \A t \in list' : Settled(t)' /\ ~u'[t].closed /\ u'[t].magic
    BY <1>1, <1>2, <1>8, <1>17, <2>1 DEF Listed
  <2>3. wpc' = "events" => \A t \in garbage' : Settled(t)' /\ t \notin list'
    BY <1>1, <1>2, <1>17, <2>1 DEF Listed
  <2>4. wpc' # "again" => \A t \in todo' : Settled(t)'
    BY <1>1, <1>2, <1>17, <2>1 DEF Listed
  <2>5. ASSUME NEW j \in lost'
        PROVE  /\ slot'[j] # NoSlot /\ Settled(slot[j])' /\ u'[slot'[j]].client = j
               /\ slot'[j] \notin list' \cup todo' \cup garbage'
               /\ \A i \in Clients : st'[i] \in Building => slot'[i] # slot'[j]
    <3>1. j \in Clients /\ j \in lost /\ j # k /\ slot[j] \in Slots /\ slot'[j] = slot[j] /\ slot[j] # s
      BY <2>1, <1>2, <1>9, <1>12
    <3>2. /\ slot[j] # NoSlot /\ Settled(slot[j]) /\ u[slot[j]].client = j
          /\ slot[j] \notin list \cup todo \cup garbage
          /\ \A i \in Clients : st[i] \in Building => slot[i] # slot[j]
      BY <3>1, <1>1 DEF Listed
    <3>3. \A t \in Slots : t = slot[j] => Settled(t)'
      BY <3>1, <3>2, <1>17
    <3>4. Settled(slot[j])'
      BY <3>1, <3>3, <1>9 DEF Settled
    <3>5. \A i \in Clients : st'[i] \in Building => slot'[i] # slot'[j]
      BY <3>1, <3>2, <1>9, <1>15
    <3> QED BY <3>1, <3>2, <3>4, <3>5, <1>2, <1>8
  <2>6. list' \cap todo' = {}
    BY <1>1, <1>2 DEF Listed
  <2> QED BY <1>2, <2>2, <2>3, <2>4, <2>5, <2>6 DEF Listed
<1>25. Built'
  <2>1. \A j \in Clients : st[j] \in Building \cup {"linked"} => slot[j] \in Slots
    BY <1>1 DEF Own, Types
  <2>2. ~stopping => wpc \notin {"again", "closed"}
    BY <1>1 DEF Phase, StopPc
  <2>3. wpc' \notin {"again", "closed"} =>
          \A j \in Clients : st'[j] \in Building => u'[slot'[j]].refs = 1 /\ u'[slot'[j]].client = j
    BY <1>1, <1>2, <1>7, <1>8, <1>9, <1>14, <1>15, <2>1 DEF Built
  <2>4. ~stopping' => \A j \in Clients : st'[j] = "linked" =>
            slot'[j] \in list' /\ u'[slot'[j]].client = j /\ ~u'[slot'[j]].registered
    BY <1>1, <1>2, <1>8, <1>9, <1>12, <1>15, <1>16, <2>1 DEF Built
  <2>5. ~stopping' => \A j \in Clients : st'[j] \in Building => ~u'[slot'[j]].registered
    BY <1>1, <1>2, <1>7, <1>8, <1>9, <1>14, <1>15, <2>1, <2>2 DEF Built
  <2>6. ~stopping' => \A t \in Slots : u'[t].magic /\ ~u'[t].closed /\ u'[t].registered => t \in list'
    BY <1>1, <1>2, <1>7, <1>8 DEF Built
  <2> QED BY <2>3, <2>4, <2>5, <2>6 DEF Built
<1>26. Connected'
  <2> SUFFICES ASSUME NEW j \in Clients, net'[j].open
               PROVE  \/ st'[j] \in {"acquire", "refuse"}
                      \/ slot'[j] # NoSlot /\ u'[slot'[j]].client = j /\ slot'[j] \notin Free'
    BY DEF Connected
  <2>1. CASE j = k
    BY <2>1, <1>5, <1>7, <1>8, <1>9, <1>10
  <2>2. CASE j # k
    <3>1. \/ st[j] \in {"acquire", "refuse"}
          \/ slot[j] # NoSlot /\ u[slot[j]].client = j /\ slot[j] \notin Free
      BY <1>1, <1>2 DEF Connected
    <3>2. slot[j] # NoSlot => slot[j] \in Slots
      BY <1>1 DEF Types
    <3> QED BY <2>2, <3>1, <3>2, <1>5, <1>8, <1>9, <1>15
  <2> QED BY <2>1, <2>2
<1>27. Counted'
  <2>1. Waiting' = Waiting \ {k} /\ k \in Waiting
    BY <1>2, <1>15 DEF Waiting
  <2>2. /\ IsFiniteSet(Waiting) /\ Cardinality(Waiting) \in Nat /\ Cardinality(Slots) \in Nat
        /\ Len(free) \in Nat
    BY <1>1, WaitingFinite
  <2>3. Cardinality(Waiting') = Cardinality(Waiting) - 1
    BY <2>1, <2>2, FS_RemoveElement
  <2>4. count = Cardinality(Waiting) + Cardinality(Slots) - Len(free)
    BY <1>1 DEF Counted, Waiting
  <2>5. count' = Cardinality(Waiting') + Cardinality(Slots) - Len(free')
    BY <2>2, <2>3, <2>4, <1>2, <1>5
  <2> QED BY <2>5 DEF Counted, Waiting
<1>28. Data'
  <2>1. IdleUntilLinked'
    <3> SUFFICES ASSUME ~stopping, NEW j \in Clients, st'[j] \in {"open", "remote", "link"}
                 PROVE  Idle(u'[slot'[j]])
      BY <1>2 DEF IdleUntilLinked
    <3>1. CASE j = k
      BY <3>1, <1>7, <1>8, <1>9
    <3>2. CASE j # k
      <4>1. st[j] \in {"open", "remote", "link"} /\ st[j] \in Building
        BY <3>2, <1>4 DEF Building
      <4>2. slot[j] \in Slots /\ slot[j] # s
        BY <4>1, <1>1, <1>14 DEF Own, Types, Phase, StopPc
      <4> QED BY <3>2, <4>1, <4>2, <1>1, <1>8, <1>9 DEF Data
    <3> QED BY <3>1, <3>2
  <2>2. \A t \in list' : t \in Slots /\ t # s /\ t \in list /\ u'[t].client = u[t].client /\ u[t].client # 0
    BY <1>1, <1>2, <1>8, <1>12 DEF Listed, Settled, Types
  <2>3. \A t \in Slots : SameData(u[t], u'[t]) \/ (t \notin list' /\ Buffered(u'[t]))
    BY <1>2, <1>7, <1>8, <1>12 DEF SameData
  <2>4. \A j \in Clients : PeerOK(net'[j]) /\ SamePeer(net[j], net'[j])
    BY <1>1, <1>2 DEF Data, SamePeer
  <2>5. \A j \in Clients : st'[j] \in FreshPlaces => st[j] \in FreshPlaces
    BY <1>2, <1>4 DEF FreshPlaces
  <2>6. \A t \in list' \ {cur'.s} : t \in list \ {cur.s}
    BY <1>2
  <2> QED BY <1>1, <1>20, <2>1, <2>2, <2>3, <2>4, <2>5, <2>6, SameDataStep
<1> QED BY <1>20, <1>21, <1>22, <1>23, <1>24, <1>25, <1>26, <1>27, <1>28 DEF IInv, Control

(* A sequence without repetition has as many elements as its length says.    *)
LEMMA DistinctCardinality ==
  ASSUME NEW q \in Seq(Slots), Distinct(q)
  PROVE  IsFiniteSet(Elements(q)) /\ Cardinality(Elements(q)) = Len(q) /\ Elements(q) \subseteq Slots
<1>1. PICK n \in Nat : n = Len(q) /\ q \in [1..n -> Slots]
  <2>1. Len(q) \in Nat /\ q \in [1..Len(q) -> Slots]
    BY LenProperties
  <2> QED BY <2>1
<1>2. q \in [1..n -> Elements(q)]
  BY <1>1 DEF Elements
<1>3. q \in Bijection(1..n, Elements(q))
  <2>1. \A i, j \in 1..n : q[i] = q[j] => i = j
    BY <1>1 DEF Distinct
  <2>2. \A s \in Elements(q) : \E i \in 1..n : q[i] = s
    BY <1>1 DEF Elements
  <2> QED BY <1>2, <2>1, <2>2, Fun_IsBij
<1>4. IsFiniteSet(1..n) /\ Cardinality(1..n) = n
  <2>1. 1 \in Int /\ n \in Int
    BY <1>1
  <2>2. IsFiniteSet(1..n) /\ Cardinality(1..n) = IF 1 > n THEN 0 ELSE n - 1 + 1
    BY <2>1, FS_Interval
  <2>3. n = IF 1 > n THEN 0 ELSE n - 1 + 1
    BY <1>1
  <2> QED BY <2>2, <2>3
<1>5. ExistsBijection(1..n, Elements(q))
  BY <1>3 DEF ExistsBijection
<1>6. Elements(q) \subseteq Slots
  BY <1>1 DEF Elements
<1> QED BY <1>1, <1>4, <1>5, <1>6, FS_Bijection

(* SetToSeq lists the slots without repetition.                              *)
LEMMA SlotSequence ==
  LET q == SetToSeq(Slots)
  IN q \in [1..Cardinality(Slots) -> Slots] /\ \A i, j \in 1..Cardinality(Slots) : q[i] = q[j] => i = j
<1>1. IsFiniteSet(Slots)
  BY UdpSessionAssumption
<1>2. PICK f : f \in Bijection(1..Cardinality(Slots), Slots)
  BY <1>1, FS_CardinalityType DEF ExistsBijection
<1>3. f \in [1..Cardinality(Slots) -> Slots] /\ IsInjective(f)
  <2>1. /\ f \in [1..Cardinality(Slots) -> Slots]
        /\ \A i, j \in 1..Cardinality(Slots) : f[i] = f[j] => i = j
    BY <1>2, Fun_BijectionProperties
  <2> QED BY <2>1 DEF IsInjective
<1>4. SetToSeq(Slots) \in [1..Cardinality(Slots) -> Slots] /\ IsInjective(SetToSeq(Slots))
  BY <1>3 DEF SetToSeq
<1> QED BY <1>4 DEF IsInjective

(* The invariant holds at the start.                                         *)
LEMMA InitKeeps ==
  ASSUME Init
  PROVE  IInv
<1>1. /\ u = [s \in Slots |-> Zeroed(1)] /\ load \in Loads
      /\ free = SubSeq(SetToSeq(Slots), 1, Cardinality(Slots) - load.others)
      /\ count = load.others
      /\ st = [k \in Clients |-> "none"] /\ slot = [k \in Clients |-> NoSlot]
      /\ list = {} /\ wpc = "wait" /\ batch = {} /\ cur = NoEvent /\ touched = {}
      /\ garbage = {} /\ todo = {} /\ fin = NoSlot /\ stopping = FALSE /\ stop = "no"
      /\ net = [k \in Clients |-> Client] /\ lost = {}
  BY DEF Init
<1>2. load \in Left /\ load.others \in 0..Cardinality(Slots) /\ NoSlot \notin Slots
  BY <1>1, UdpSessionAssumption DEF Left
<1>3. PICK n \in Nat, m \in Nat :
        n = Cardinality(Slots) /\ m = n - load.others /\ IsFiniteSet(Slots)
  <2>1. Cardinality(Slots) \in Nat /\ IsFiniteSet(Slots)
    BY UdpSessionAssumption, FS_CardinalityType
  <2>2. Cardinality(Slots) - load.others \in Nat
    BY <2>1, <1>2
  <2> QED BY <2>1, <2>2
<1>4. free \in Seq(Slots) /\ Len(free) = m /\ Distinct(free)
  <2>1. PICK q : /\ q = SetToSeq(Slots) /\ q \in [1..n -> Slots]
                 /\ \A i, j \in 1..n : q[i] = q[j] => i = j
    BY SlotSequence, <1>3
  <2>2. free = SubSeq(q, 1, m) /\ m <= n
    BY <1>1, <1>2, <1>3, <2>1
  <2>3. SubSeq(q, 1, m) = [i \in 1..m |-> q[i]]
    BY <1>3
  <2>4. \A i \in 1..m : i \in 1..n
    BY <1>3, <2>2
  <2>5. free \in [1..m -> Slots] /\ \A i \in 1..m : free[i] = q[i]
    BY <2>1, <2>2, <2>3, <2>4
  <2>6. free \in Seq(Slots) /\ Len(free) = m
    BY <2>5, <1>3, SeqDef
  <2>7. Distinct(free)
    BY <2>1, <2>4, <2>5, <2>6 DEF Distinct
  <2> QED BY <2>6, <2>7
<1>5. <<>> \in Seq(Byte) /\ Len(<<>>) = 0 /\ <<1, 1>> \in Byte
  BY EmptySeq DEF Byte
<1>6. Zeroed(1) \in Session /\ Buffered(Zeroed(1)) /\ Zeroed(1).gen = 1 /\ Zeroed(1).refs = 0
      /\ ~Zeroed(1).magic
  BY <1>5 DEF Zeroed, Session, Buffered
<1>7. /\ Client \in Peer /\ ~Client.open /\ Client.in = <<>> /\ Client.next = <<1, 1>>
      /\ ~Client.garbled /\ Client.sent = <<>> /\ Client.read = 0 /\ Client.routed = 0
      /\ Client.taken = 0
  BY <1>5 DEF Client, Peer, Why
<1>8. PeerOK(Client) /\ FreshPeer(Client)
  <2>1. 1 \in DOMAIN BodyLen => InFrame(<<1, 1>>)
    <3> SUFFICES ASSUME 1 \in DOMAIN BodyLen
                 PROVE  1 \in 1..(2 + BodyLen[1])
      BY DEF InFrame
    <3>1. BodyLen[1] \in Nat
      BY UdpSessionAssumption, ElementOfSeq, LenProperties
    <3> QED BY <3>1
  <2>2. SockBuf \in Nat
    BY UdpSessionAssumption
  <2>3. Consecutive(Client)
    BY <1>5, <1>7, <2>1 DEF Consecutive
  <2>4. Wrote(Client)
    BY <1>5, <1>7, <2>2 DEF Wrote
  <2> QED BY <1>7, <2>3, <2>4 DEF PeerOK, FreshPeer, NextIn
<1>9. \A s \in Slots : u[s] = Zeroed(1)
  BY <1>1
<1>10. \A k \in Clients : st[k] = "none" /\ slot[k] = NoSlot /\ net[k] = Client
  BY <1>1
<1>11. Types
  <2>1. u \in [Slots -> Session] /\ net \in [Clients -> Peer] /\ st \in [Clients -> Places]
        /\ slot \in [Clients -> Slots \cup {NoSlot}]
    BY <1>1, <1>6, <1>7 DEF Places
  <2>2. count \in Int
    BY <1>1, <1>2, <1>3
  <2>3. wpc \in LoopPc \cup StopPc
    BY <1>1 DEF LoopPc
  <2> QED BY <1>1, <1>2, <1>4, <2>1, <2>2, <2>3 DEF Types
<1>12. Phase
  BY <1>1 DEF Phase, StopPc
<1>13. \A s \in Slots : ~Finishing(s)
  BY <1>1, <1>2, <1>10 DEF Finishing
<1>14. Refs
  BY <1>4, <1>6, <1>9, <1>10, <1>13 DEF Refs
<1>15. Own
  <2>1. IsFiniteSet(Free) /\ Cardinality(Free) = m /\ Free \subseteq Slots
    BY <1>4, DistinctCardinality DEF Free
  <2>2. Others = Slots \ Free
    BY <1>6, <1>9 DEF Others
  <2>3. Cardinality(Others) = n - m
    <3>1. Slots \cap Free = Free
      BY <2>1
    <3>2. Cardinality(Slots \ Free) = Cardinality(Slots) - Cardinality(Slots \cap Free)
      BY <1>3, FS_Difference
    <3> QED BY <3>1, <3>2, <2>1, <2>2, <1>3
  <2>4. Cardinality(Others) = load.others
    BY <2>3, <1>2, <1>3
  <2> QED BY <1>1, <1>6, <1>9, <1>10, <2>4 DEF Own, Building
<1>16. Listed
  BY <1>1 DEF Listed
<1>17. Built
  BY <1>1, <1>6, <1>9, <1>10 DEF Built, Building
<1>18. Connected
  BY <1>7, <1>10 DEF Connected
<1>19. Counted
  <2>1. {k \in Clients : st[k] \in {"acquire", "refuse"}} = {}
    BY <1>10
  <2>2. Cardinality({}) = 0
    BY FS_EmptySet
  <2>3. count = 0 + n - m
    BY <1>1, <1>2, <1>3
  <2> QED BY <2>1, <2>2, <2>3, <1>3, <1>4 DEF Counted
<1>20. Data
  BY <1>1, <1>6, <1>8, <1>9, <1>10 DEF Data
<1> QED BY <1>11, <1>12, <1>14, <1>15, <1>16, <1>17, <1>18, <1>19, <1>20 DEF IInv, Control
-----------------------------------------------------------------------------
(* The invariant *)

(* A step that changes nothing *)
LEMMA StutterKeeps ==
  ASSUME IInv, UNCHANGED vars
  PROVE  IInv'
<1>1. /\ u' = u /\ free' = free /\ count' = count /\ st' = st /\ slot' = slot /\ list' = list
      /\ wpc' = wpc /\ batch' = batch /\ cur' = cur /\ touched' = touched /\ garbage' = garbage
      /\ todo' = todo /\ fin' = fin /\ stopping' = stopping /\ stop' = stop /\ net' = net
      /\ lost' = lost /\ load' = load
  BY DEF vars, starting, worker
<1>2. Types /\ Phase /\ Listed /\ Built
  BY DEF IInv, Control
<1>3. WorkerMoves
  BY <1>1 DEF WorkerMoves
<1>4. Types'
  BY <1>1, <1>2 DEF Types
<1>5. Phase'
  BY <1>1, <1>2 DEF Phase
<1>6. Listed'
  BY <1>1, <1>2 DEF Listed, Settled
<1>7. Built'
  BY <1>1, <1>2 DEF Built
<1>8. \A s \in Slots : Owned(s) => Owned(s)'
  BY <1>1 DEF Owned, Leftover
<1>9. \A s \in todo' \cup garbage' : s \in todo \cup garbage
  BY <1>1
<1> QED BY <1>3, <1>4, <1>5, <1>6, <1>7, <1>8, <1>9, MoveStep

(* No step of a pool thread, of the worker, of a client or of the network    *)
(* breaks the invariant.                                                     *)
LEMMA NextKeeps ==
  ASSUME IInv, [Next]_vars
  PROVE  IInv'
<1>1. ASSUME NEW k \in Clients, udp_start_session(k)
      PROVE  IInv'
  <2>1. CASE Reserve(k) \/ Refuse(k)
    BY <2>1, AskKeeps
  <2>2. CASE Acquire(k)
    <3>1. CASE free = <<>>
      BY <2>2, <3>1, AskKeeps
    <3>2. CASE free # <<>>
      BY <2>2, <3>2, AcquireKeeps
    <3> QED BY <3>1, <3>2
  <2>3. CASE OpenLocal(k) \/ OpenRemote(k)
    BY <2>3, PrepareKeeps
  <2>4. CASE Link(k)
    <3>1. CASE st'[k] = "unref"
      BY <2>4, <3>1, PrepareKeeps
    <3>2. CASE st'[k] # "unref"
      BY <2>4, <3>2, LinkedKeeps
    <3> QED BY <3>1, <3>2
  <2>5. CASE Register(k)
    BY <2>5, RegisterKeeps
  <2>6. CASE StartUnref(k)
    BY <2>6, StartUnrefKeeps
  <2>7. CASE StartFinalize(k)
    BY <2>7, FinalizeKeeps
  <2> QED BY <1>1, <2>1, <2>2, <2>3, <2>4, <2>5, <2>6, <2>7 DEF udp_start_session
<1>2. ASSUME NEW k \in Clients, ClientWrites(k) \/ ClientReads(k) \/ ClientLeaves(k) \/ Datagram(k)
      PROVE  IInv'
  BY <1>2, OutsideKeeps
<1>3. ASSUME udp_worker_loop
      PROVE  IInv'
  <2>1. CASE EpollWait
    BY <2>1, EpollWaitKeeps
  <2>2. CASE StopSeen \/ LoopTest \/ ExitWorker \/ NextBatch \/ \E e \in batch : SkipEvent(e)
    BY <2>2, MoveKeeps
  <2>3. CASE HandleEvent
    BY <2>3, HandleEventKeeps
  <2>4. CASE Sweep
    BY <2>4, SweepKeeps
  <2>5. CASE FinalizeNext
    BY <2>5, FinalizeKeeps
  <2>6. CASE Drain
    BY <2>6, DrainKeeps
  <2>7. CASE \E e \in batch : BeginEvent(e)
    BY <2>7, BeginEventKeeps
  <2>8. CASE \E s \in todo : UnrefNext(s)
    BY <2>8, UnrefNextKeeps
  <2> QED BY <1>3, <2>1, <2>2, <2>3, <2>4, <2>5, <2>6, <2>7, <2>8 DEF udp_worker_loop
<1>4. CASE Quit
  <2>1. 1 \in Clients
    BY UdpSessionAssumption DEF Clients
  <2> QED BY <2>1, <1>4, OutsideKeeps
<1>5. CASE UNCHANGED vars
  BY <1>5, StutterKeeps
<1> QED BY <1>1, <1>2, <1>3, <1>4, <1>5 DEF Next

(* References, slots, lists and buffers agree in every reachable state.      *)
THEOREM Inductive == Spec => []IInv
<1>1. Init => IInv
  BY InitKeeps
<1>2. IInv /\ [Next]_vars => IInv'
  BY NextKeeps
<1> QED BY <1>1, <1>2, PTL DEF Spec

(* Every variable has its type, a frame that is being assembled or sent      *)
(* never exceeds its length.                                                 *)
THEOREM TypeCorrect == Spec => []TypeOK
<1>1. ASSUME IInv
      PROVE  TypeOK
  <2>1. Types /\ Refs /\ Counted /\ Data
    BY <1>1 DEF IInv, Control
  <2>2. DOMAIN u = Slots
    BY <2>1 DEF Types
  <2>3. ASSUME NEW s \in Slots
        PROVE  /\ u[s].gen \in Nat /\ u[s].refs \in Int /\ u[s].client \in Clients \cup {0}
               /\ u[s].armed \subseteq Roles
               /\ u[s].hdr \in Seq(Byte) /\ Len(u[s].hdr) <= 2
               /\ u[s].body \in Seq(Byte) /\ (u[s].body # <<>> => Len(u[s].body) < u[s].expect)
               /\ u[s].outOff \in 0..u[s].outLen /\ u[s].outLen \in {0, OutFrame}
    <3>1. u[s] \in Session /\ Buffered(u[s])
      BY <2>1 DEF Types, Data
    <3> QED BY <3>1 DEF Session, Buffered
  <2>4. count \in Nat
    <3>1. /\ IsFiniteSet(Slots) /\ Cardinality(Waiting) \in Nat /\ Cardinality(Slots) \in Nat
          /\ Len(free) \in Nat
      BY <2>1, WaitingFinite
    <3>2. Cardinality(Free) = Len(free) /\ Free \subseteq Slots
      BY <2>1, DistinctCardinality DEF Types, Refs, Free
    <3>3. Len(free) <= Cardinality(Slots)
      BY <3>1, <3>2, FS_Subset
    <3>4. count = Cardinality(Waiting) + Cardinality(Slots) - Len(free)
      BY <2>1 DEF Counted, Waiting
    <3> QED BY <3>1, <3>3, <3>4
  <2>5. \A k \in Clients : net[k].why \in Why /\ net[k].sent \in Seq(Byte)
    BY <2>1 DEF Types, Peer
  <2> QED BY <2>1, <2>2, <2>3, <2>4, <2>5 DEF Types, TypeOK
<1> QED BY <1>1, Inductive, PTL

(* Frames reach the 5G side whole and in order, and the client receives the  *)
(* frames of the datagrams without a gap, however the stream was cut.        *)
THEOREM FramesStayWhole == Spec => []WholeFrames
<1>1. ASSUME IInv
      PROVE  WholeFrames
  <2>1. \A k \in Clients : PeerOK(net[k])
    BY <1>1 DEF IInv, Data
  <2> QED BY <2>1 DEF PeerOK, Wrote, WholeFrames
<1> QED BY <1>1, Inductive, PTL

(* Between two events the 5G side is masked exactly while a frame waits, and *)
(* then output to the client is armed.                                       *)
THEOREM MasksAlwaysFit == Spec => []MasksFit
<1>1. ASSUME IInv
      PROVE  MasksFit
  <2>1. \A s \in list \ {cur.s} : Masked(u[s])
    BY <1>1 DEF IInv, Data
  <2> QED BY <2>1 DEF Masked, MasksFit
<1> QED BY <1>1, Inductive, PTL

(* The slots a full bucket has lost                                          *)
LostSlots == {slot[k] : k \in lost}

(* Every lost session has a slot of its own.                                 *)
LEMMA LostCardinality ==
  ASSUME IInv
  PROVE  IsFiniteSet(LostSlots) /\ Cardinality(LostSlots) = Cardinality(lost)
<1>1. Types /\ Listed
  BY DEF IInv, Control
<1>2. IsFiniteSet(lost)
  <2>1. lost \subseteq Clients /\ IsFiniteSet(Clients)
    BY <1>1, WaitingFinite DEF Types
  <2> QED BY <2>1, FS_Subset
<1> DEFINE f == [k \in lost |-> slot[k]]
<1>3. f \in [lost -> LostSlots] /\ \A k \in lost : f[k] = slot[k]
  BY DEF LostSlots
<1> HIDE DEF f
<1>4. \A j, k \in lost : f[j] = f[k] => j = k
  BY <1>1, <1>3 DEF Listed
<1>5. \A s \in LostSlots : \E k \in lost : f[k] = s
  BY <1>3 DEF LostSlots
<1>6. f \in Bijection(lost, LostSlots)
  BY <1>3, <1>4, <1>5, Fun_IsBij
<1>7. ExistsBijection(lost, LostSlots)
  BY <1>6 DEF ExistsBijection
<1> QED BY <1>2, <1>7, FS_Bijection

(* When everybody is done, a slot that is not free belongs to another worker *)
(* or to a session that was lost.                                            *)
LEMMA WhatIsLeft ==
  ASSUME IInv, wpc = "closed", \A k \in Clients : st[k] \in {"none", "done"}
  PROVE  /\ Slots \ Free = Others \cup LostSlots /\ Others \cap LostSlots = {}
         /\ \A k \in Clients : net[k].open => slot[k] \in LostSlots /\ u[slot[k]].client = k
<1>1. Types /\ Phase /\ Refs /\ Own /\ Listed /\ Connected
  BY DEF IInv, Control
<1>2. list = {} /\ todo = {} /\ fin = NoSlot /\ NoSlot \notin Slots
  BY <1>1, UdpSessionAssumption DEF Phase, Unrefs
<1>3. \A s \in Slots : ~Finishing(s) /\ ~Leftover(s)
  BY <1>2 DEF Finishing, Leftover
<1>4. \A s \in Slots : u[s].refs = 1 => s \in LostSlots
  <2>1. \A k \in Clients : st[k] \notin Building
    BY DEF Building
  <2> QED BY <2>1, <1>1, <1>2, <1>3 DEF Refs, Owned, LostSlots
<1>5. \A s \in LostSlots : s \in Slots /\ u[s].refs = 1 /\ u[s].gen > 1 /\ s \notin Free
  <2> SUFFICES ASSUME NEW k \in lost
               PROVE  /\ slot[k] \in Slots /\ u[slot[k]].refs = 1 /\ u[slot[k]].gen > 1
                      /\ slot[k] \notin Free
    BY DEF LostSlots
  <2>1. k \in Clients /\ slot[k] # NoSlot /\ u[slot[k]].refs = 1
    BY <1>1 DEF Listed, Settled, Types
  <2>2. slot[k] \in Slots
    BY <2>1, <1>1 DEF Types
  <2> QED BY <2>1, <2>2, <1>1 DEF Refs, Own
<1>6. \A s \in Slots : s \notin Free => u[s].gen = 1 \/ s \in LostSlots
  <2> SUFFICES ASSUME NEW s \in Slots, s \notin Free, u[s].gen # 1
               PROVE  s \in LostSlots
    OBVIOUS
  <2>1. u[s].gen \in Nat /\ u[s].gen > 0
    BY <1>1 DEF Types, Session, Own
  <2>2. u[s].gen > 1
    BY <2>1
  <2>3. u[s].refs = 1
    BY <2>2, <1>1, <1>3 DEF Refs
  <2> QED BY <2>3, <1>4
<1>7. Slots \ Free = Others \cup LostSlots
  BY <1>5, <1>6 DEF Others
<1>8. Others \cap LostSlots = {}
  BY <1>5 DEF Others
<1>9. ASSUME NEW k \in Clients, net[k].open
      PROVE  slot[k] \in LostSlots /\ u[slot[k]].client = k
  <2>1. slot[k] # NoSlot /\ u[slot[k]].client = k /\ slot[k] \notin Free
    BY <1>1, <1>9 DEF Connected
  <2>2. slot[k] \in Slots /\ u[slot[k]].gen > 1
    BY <2>1, <1>1 DEF Types, Own
  <2> QED BY <2>1, <2>2, <1>6
<1> QED BY <1>7, <1>8, <1>9

(* g_conn_count is exact, and after a stop nothing is left of the sessions   *)
(* but what a full bucket has lost.                                          *)
THEOREM CountStaysExact == Spec => []CountExact
<1>1. ASSUME IInv
      PROVE  CountExact
  <2>1. Types /\ Refs /\ Own /\ Counted /\ Listed
    BY <1>1 DEF IInv, Control
  <2>2. count = Cardinality(Waiting) + Cardinality(Slots) - Len(free)
    BY <2>1 DEF Counted, Waiting
  <2>3. ASSUME wpc = "closed", \A k \in Clients : st[k] \in {"none", "done"}
        PROVE  count = Cardinality(lost) + load.others
    <3>1. Cardinality(Waiting) = 0
      <4>1. Waiting = {}
        BY <2>3 DEF Waiting
      <4> QED BY <4>1, FS_EmptySet
    <3>2. /\ IsFiniteSet(Slots) /\ Cardinality(Slots) \in Nat /\ Len(free) \in Nat
      BY <2>1, WaitingFinite
    <3>3. Slots \cap Free = Free /\ Cardinality(Free) = Len(free)
      BY <2>1, DistinctCardinality DEF Types, Refs, Free
    <3>4. Cardinality(Slots \ Free) = Cardinality(Slots) - Len(free)
      <4>1. Cardinality(Slots \ Free) = Cardinality(Slots) - Cardinality(Slots \cap Free)
        BY <3>2, FS_Difference
      <4> QED BY <4>1, <3>3
    <3>5. Slots \ Free = Others \cup LostSlots /\ Others \cap LostSlots = {}
      BY <1>1, <2>3, WhatIsLeft
    <3>6. IsFiniteSet(LostSlots) /\ Cardinality(LostSlots) = Cardinality(lost)
      BY <1>1, LostCardinality
    <3>7. IsFiniteSet(Others) /\ Cardinality(Others) = load.others
      BY <2>1, <3>2, FS_Subset DEF Others, Own
    <3>8. Cardinality(Others \cup LostSlots) = Cardinality(Others) + Cardinality(LostSlots)
      <4>1. Cardinality(Others \cap LostSlots) = 0
        BY <3>5, FS_EmptySet
      <4>2. /\ Cardinality(Others) \in Nat /\ Cardinality(LostSlots) \in Nat
            /\ Cardinality(Others \cup LostSlots) =
                 Cardinality(Others) + Cardinality(LostSlots) - Cardinality(Others \cap LostSlots)
        BY <3>6, <3>7, FS_Union, FS_CardinalityType
      <4> QED BY <4>1, <4>2
    <3>9. Cardinality(Slots) - Len(free) = load.others + Cardinality(lost)
      BY <3>4, <3>5, <3>6, <3>7, <3>8
    <3>10. Cardinality(lost) \in Nat /\ load.others \in Nat
      BY <3>6, <3>7, FS_CardinalityType
    <3> QED BY <2>2, <3>1, <3>2, <3>9, <3>10
  <2>4. ASSUME wpc = "closed", \A k \in Clients : st[k] \in {"none", "done"},
               NEW k \in Clients \ lost
        PROVE  ~net[k].open
    <3> SUFFICES ASSUME net[k].open
                 PROVE  FALSE
      OBVIOUS
    <3>1. slot[k] \in LostSlots /\ u[slot[k]].client = k
      BY <1>1, <2>4, WhatIsLeft
    <3>2. PICK j \in lost : slot[j] = slot[k]
      BY <3>1 DEF LostSlots
    <3>3. u[slot[j]].client = j
      BY <2>1 DEF Listed
    <3> QED BY <3>1, <3>2, <3>3
  <2> QED BY <2>2, <2>3, <2>4 DEF CountExact, Waiting
<1> QED BY <1>1, Inductive, PTL
=============================================================================
