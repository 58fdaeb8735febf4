------------------------------ MODULE MCSockets ------------------------------
EXTENDS Sockets, TLC

CONSTANTS r1, r2, a1, a2

(* One race of two addresses, and one request for a single address or for none. *)
SmallAnswers == r1 :> {{a1, a2}} @@ r2 :> {{}, {a1}}
===============================================================================
