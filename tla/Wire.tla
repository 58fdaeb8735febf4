-------------------------------- MODULE Wire --------------------------------
(****************************************************************************)
(* The byte formats of SOCKS5 (socks5_protocol.c and its callers' unpacking  *)
(* of socket addresses): what the server makes of the bytes it is given, and *)
(* the bytes it writes. Bytes are numbers, messages sequences of them, and   *)
(* the offsets are the code's (an index into a sequence is one more than the *)
(* index into the C array).                                                  *)
(****************************************************************************)
EXTENDS Integers, Sequences

Byte == 0..255
SOCKS5_ATYP_IPV4 == 1
SOCKS5_ATYP_DOMAIN == 3
SOCKS5_ATYP_IPV6 == 4
Atyps == {SOCKS5_ATYP_IPV4, SOCKS5_ATYP_DOMAIN, SOCKS5_ATYP_IPV6}

(* The bytes of s from offset k on, and n bytes from there *)
From(s, k) == SubSeq(s, k + 1, Len(s))
Take(s, k, n) == SubSeq(s, k + 1, k + n)

(* The outcome of reading a message from a stream: it is not there in full   *)
(* yet, it breaks the protocol, or it is whole and took `used` bytes         *)
Short == [is |-> "short"]
Bad == [is |-> "bad"]
Whole(used, value) == [is |-> "whole", used |-> used, value |-> value]

(****************************************************************************)
(* Greeting, credentials, request                                            *)
(****************************************************************************)
socks5_method_offered(methods, desired) == \E i \in DOMAIN methods : methods[i] = desired

socks5_check_credentials(user, pass, expected) == user = expected.user /\ pass = expected.pass

socks5_validate_request_header(req) == req[1] = 5 /\ req[3] = 0 /\ req[4] \in Atyps

socks5_is_supported_cmd(cmd) == cmd \in {1, 3, 4}

(* Mutant: the length of a domain counts its own field. *)
AddrLenWithPrefix(atyp, first) ==
  CASE atyp = SOCKS5_ATYP_IPV4 -> 4
    [] atyp = SOCKS5_ATYP_IPV6 -> 16
    [] OTHER -> IF first >= 1 THEN first + 1 ELSE -1

(* The length of the address in a request; the first byte is the length      *)
(* field of a domain                                                         *)
socks5_request_addr_len(atyp, first) ==
  CASE atyp = SOCKS5_ATYP_IPV4 -> 4
    [] atyp = SOCKS5_ATYP_IPV6 -> 16
    [] atyp = SOCKS5_ATYP_DOMAIN -> IF first >= 1 THEN first ELSE -1
    [] OTHER -> -1

GreetingIn(s) ==
  CASE Len(s) < 2 -> Short
    [] Len(s) >= 2 /\ (s[1] # 5 \/ s[2] < 1) -> Bad
    [] OTHER -> IF Len(s) < 2 + s[2] THEN Short
                ELSE Whole(2 + s[2], Take(s, 2, s[2]))

(* A password of no bytes is read as one                                     *)
CredentialsIn(s) ==
  LET ulen == s[2]
      plen == s[3 + ulen]
  IN CASE Len(s) < 2 -> Short
       [] Len(s) >= 2 /\ (s[1] # 1 \/ ulen = 0) -> Bad
       [] OTHER -> IF Len(s) < 3 + ulen THEN Short
                   ELSE IF Len(s) < 3 + ulen + plen THEN Short
                   ELSE Whole(3 + ulen + plen, [user |-> Take(s, 2, ulen),
                                                pass |-> Take(s, 3 + ulen, plen)])

(* Header, for a domain its length field, address and port. The text that    *)
(* inet_ntop makes of an address stands for its bytes one to one             *)
RequestIn(s) ==
  LET at == IF s[4] = SOCKS5_ATYP_DOMAIN THEN 5 ELSE 4
      alen == socks5_request_addr_len(s[4], IF at = 5 THEN s[5] ELSE 0)
      port == s[at + alen + 1] * 256 + s[at + alen + 2]
  IN CASE Len(s) < 4 -> Short
       [] Len(s) >= 4 /\ ~socks5_validate_request_header(s) -> Bad
       [] OTHER -> IF Len(s) < at THEN Short
                   ELSE IF alen <= 0 THEN Bad
                   ELSE IF Len(s) < at + alen + 2 THEN Short
                   ELSE Whole(at + alen + 2, [cmd |-> s[2], atyp |-> s[4],
                                              host |-> Take(s, at, alen), port |-> port])

(****************************************************************************)
(* Replies and datagrams                                                     *)
(****************************************************************************)
encode_addr_port(is_v6, addr, port) ==
  <<IF is_v6 THEN SOCKS5_ATYP_IPV6 ELSE SOCKS5_ATYP_IPV4>>
    \o Take(addr, 0, IF is_v6 THEN 16 ELSE 4) \o port

socks5_udp_encode(is_v6, addr, port) == <<0, 0, 0>> \o encode_addr_port(is_v6, addr, port)
socks5_encode_reply(rep, is_v6, addr, port) == <<5, rep, 0>> \o encode_addr_port(is_v6, addr, port)
ZeroReply(rep) == socks5_encode_reply(rep, FALSE, <<0, 0, 0, 0>>, <<0, 0>>)

Header(atyp, addr, port) ==
  [hlen |-> 4 + (IF atyp = SOCKS5_ATYP_DOMAIN THEN 1 ELSE 0) + Len(addr) + 2,
   atyp |-> atyp, addr |-> addr, port |-> port]
NoHeader == [hlen |-> -1]

ParseDomain(d) ==
  LET dl == d[5]
  IN IF Len(d) < 5 THEN NoHeader
     ELSE IF dl = 0 \/ Len(d) < 5 + dl + 2 THEN NoHeader
     ELSE Header(SOCKS5_ATYP_DOMAIN, Take(d, 5, dl), Take(d, 5 + dl, 2))

(* The header of a datagram: hlen is where the payload starts                *)
socks5_udp_parse(d) ==
  CASE Len(d) < 4 -> NoHeader
    [] Len(d) >= 4 /\ (d[1] # 0 \/ d[2] # 0 \/ d[3] # 0) -> NoHeader
    [] OTHER ->
         CASE d[4] = SOCKS5_ATYP_IPV4 ->
                IF Len(d) < 10 THEN NoHeader
                ELSE Header(SOCKS5_ATYP_IPV4, Take(d, 4, 4), Take(d, 8, 2))
           [] d[4] = SOCKS5_ATYP_IPV6 ->
                IF Len(d) < 22 THEN NoHeader
                ELSE Header(SOCKS5_ATYP_IPV6, Take(d, 4, 16), Take(d, 20, 2))
           [] d[4] = SOCKS5_ATYP_DOMAIN -> ParseDomain(d)
           [] OTHER -> NoHeader

(****************************************************************************)
(* Socket addresses: [v6 |-> the family, addr |-> the 4 or 16 bytes]          *)
(****************************************************************************)
MappedPrefix == <<0, 0, 0, 0, 0, 0, 0, 0, 0, 0, 255, 255>>

(* IN6_IS_ADDR_V4MAPPED of the C library                                     *)
IsMapped(sa) == sa.v6 /\ Take(sa.addr, 0, 12) = MappedPrefix

socks5_addr_normalize(sa) == IF sa.v6 THEN sa.addr ELSE MappedPrefix \o sa.addr

(* Mutant: the addresses are compared as they come. *)
SameSockaddr(a, b) == a = b

same_ip(a, b) == socks5_addr_normalize(a) = socks5_addr_normalize(b)

(* A peer is told an IPv4 address in its own form where it is one            *)
Plain(sa) == IF IsMapped(sa) THEN [v6 |-> FALSE, addr |-> From(sa.addr, 12)] ELSE sa
=============================================================================
