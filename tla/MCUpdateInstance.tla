-------------------------- MODULE MCUpdateInstance --------------------------
(* UpdateInstance for TLC: requests and non-empty texts are                 *)
(* interchangeable.                                                        *)
EXTENDS UpdateInstance, TLC

Symmetry == Permutations(Requests) \cup Permutations(Texts \ {Empty})

=============================================================================
