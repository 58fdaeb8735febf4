---- MODULE MCConnForward ----
EXTENDS ConnForward
SmallLoads == {[p \in Peers |-> IF p = Client THEN c ELSE t] : <<c, t>> \in {<<3, 0>>, <<0, 3>>, <<1, 1>>}}
====
