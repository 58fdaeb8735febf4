-------------------------------- MODULE Relay --------------------------------
(****************************************************************************)
(* What a forwarded TCP connection promises its two peers, whatever buffers, *)
(* events and timers the engine uses: the bytes of each peer reach the other *)
(* one once and in order, and the connection ends only for a reason the      *)
(* peers can see.                                                            *)
(****************************************************************************)
EXTENDS Integers

CONSTANTS Client, Target

Peers == {Client, Target}

VARIABLES
  sent,   \* sent[p]: number of bytes p has written, numbered from 1
  fin,    \* fin[p]: p has half-closed its side
  failed, \* failed[p]: p's connection broke
  out,    \* out[p]: first and last byte of p last handed to the other peer
  ended   \* why the connection was closed, or "no"

vars == <<sent, fin, failed, out, ended>>

Init ==
  /\ sent = [p \in Peers |-> 0]
  /\ fin = [p \in Peers |-> FALSE]
  /\ failed = [p \in Peers |-> FALSE]
  /\ out = [p \in Peers |-> [first |-> 0, last |-> 0]]
  /\ ended = "no"

Write(p) ==
  /\ ~fin[p]
  /\ sent' = [sent EXCEPT ![p] = @ + 1]
  /\ UNCHANGED <<fin, failed, out, ended>>

HalfClose(p) ==
  /\ fin' = [fin EXCEPT ![p] = TRUE]
  /\ UNCHANGED <<sent, failed, out, ended>>

Break(p) ==
  /\ failed' = [failed EXCEPT ![p] = TRUE]
  /\ UNCHANGED <<sent, fin, out, ended>>

(* The next bytes of p, from the one after the last that was handed over. *)
Deliver(p) ==
  /\ ended = "no"
  /\ \E last \in (out[p].last + 1) .. sent[p] :
       out' = [out EXCEPT ![p] = [first |-> @.last + 1, last |-> last]]
  /\ UNCHANGED <<sent, fin, failed, ended>>

(* An orderly end needs a target that has closed and a client that was handed *)
(* all of the target's bytes, an end by grace a half-closed peer, an end by   *)
(* error a broken one. Only the idle limit needs nothing.                     *)
End ==
  /\ ended = "no"
  /\ \/ ended' = "complete" /\ fin[Target] /\ out[Target].last = sent[Target]
     \/ ended' = "grace" /\ (fin[Client] \/ fin[Target])
     \/ ended' = "error" /\ (failed[Client] \/ failed[Target])
     \/ ended' = "idle"
  /\ UNCHANGED <<sent, fin, failed, out>>

Next ==
  \/ \E p \in Peers : Write(p) \/ HalfClose(p) \/ Break(p) \/ Deliver(p)
  \/ End

Spec == Init /\ [][Next]_vars
===============================================================================
