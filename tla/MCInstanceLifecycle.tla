------------------------ MODULE MCInstanceLifecycle ------------------------
(* InstanceLifecycle for TLC: the requests and the tokens are              *)
(* interchangeable where no temporal property is checked.                  *)
EXTENDS InstanceLifecycle, TLC

Symmetry == Permutations(Requests) \cup Permutations(Tokens)
=============================================================================
