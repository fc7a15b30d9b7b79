----------------------------- MODULE MCFailover -----------------------------
(* Failover for TLC: the requests and the nodes are interchangeable where  *)
(* no temporal property is checked.                                        *)
EXTENDS Failover, TLC

Symmetry == Permutations(Requests) \cup Permutations(Nodes)
=============================================================================
