----------------------------- MODULE MCHandshake -----------------------------
EXTENDS Handshake

(* Addresses *)
V4 == <<10, 0, 0, 1>>
OtherV4 == <<10, 0, 0, 2>>
Mapped == [i \in 1..16 |-> IF i <= 10 THEN 0 ELSE IF i <= 12 THEN 255 ELSE V4[i - 12]]
V6 == [i \in 1..16 |-> IF i = 1 THEN 32 ELSE i]
Sa4(a) == [v6 |-> FALSE, addr |-> a]
Sa6(a) == [v6 |-> TRUE, addr |-> a]

(* Two complete configurations that share no field, incomplete ones and one  *)
(* that is cut to MaxCred *)
MCSettings == {<<<<>>, <<3>>>>, <<<<1>>, <<3>>>>, <<<<2>>, <<4, 5, 6>>>>}
MCGreetings == {<<>>, <<0>>, <<2>>, <<0, 2>>, <<1, 5>>}
MCCredentials == {<<<<1>>, <<3>>>>, <<<<1>>, <<4, 5>>>>, <<<<2>>, <<4, 5>>>>, <<<<2>>, <<>>>>}
Ask(cmd, atyp, host) == [ver |-> 5, cmd |-> cmd, rsv |-> 0, atyp |-> atyp, host |-> host, port |-> <<1, 187>>]
MCAsks ==
  {Ask(cmd, 1, V4) : cmd \in 1..4} \union {Ask(3, 4, V6), Ask(1, 4, V6), Ask(1, 3, <<97, 98>>), Ask(4, 3, <<97>>)}
    \union {[Ask(1, 1, V4) EXCEPT !.ver = 4], [Ask(1, 1, V4) EXCEPT !.rsv = 1],
            Ask(1, 2, V4), Ask(1, 3, <<>>)}
MCLocalAddrs == {Nothing, Sa4(V4), Sa6(Mapped), Sa6(V6)}
MCPeers == {Sa4(V4), Sa6(V6)}
MCSenders == {Sa4(V4), Sa6(Mapped), Sa4(OtherV4), Sa6(V6)}
MCOrigins == {[sa |-> sa, port |-> <<0, 53>>] : sa \in {Sa4(OtherV4), Sa6(Mapped), Sa6(V6)}}

MCPayload == <<9, 9>>
MCRelayPort == <<2, 1>>
MCData == {<<7>>}

(* Correct datagrams, all their beginnings, and some with one byte wrong *)
Correct == {DatagramFor([atyp |-> a.atyp, addr |-> a.host], a.port, <<7, 8>>) :
              a \in {Ask(3, 1, V4), Ask(3, 4, V6), Ask(3, 3, <<97, 98>>)}}
MCDatagrams ==
  UNION {{SubSeq(d, 1, n) : n \in 0..Len(d)} : d \in Correct}
    \union {[d EXCEPT ![i] = 2] : d \in Correct, i \in 1..4}
    \union {[d EXCEPT ![5] = b] : d \in Correct, b \in {0, 1, 3, 5}}
=============================================================================
