---------------------------- MODULE MCUdpSession ----------------------------
EXTENDS UdpSession

(* A frame of two bytes, one of one byte, and one with an illegal length *)
MCBodyLen == <<2, 1, 0>>

(* Two idle sessions and a bucket of one; no room; then one session with    *)
(* traffic from its client, to it, and both                                 *)
MCLoads ==
  {[asks |-> 2, bytes |-> 0, leaves |-> 0, datagrams |-> 0, others |-> 0, bucket |-> 1],
   [asks |-> 2, bytes |-> 0, leaves |-> 0, datagrams |-> 0, others |-> 2, bucket |-> 1],
   [asks |-> 1, bytes |-> 9, leaves |-> 1, datagrams |-> 0, others |-> 0, bucket |-> 2],
   [asks |-> 1, bytes |-> 0, leaves |-> 0, datagrams |-> 3, others |-> 0, bucket |-> 2],
   [asks |-> 1, bytes |-> 3, leaves |-> 1, datagrams |-> 2, others |-> 0, bucket |-> 2]}
=============================================================================
