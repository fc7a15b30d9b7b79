----------------------------- MODULE MCRestore ------------------------------
(* Restore for TLC: snapshots are interchangeable.                         *)
EXTENDS Restore, TLC

CONSTANTS i1, i2, g, h

MCDetails == {[space |-> g, org |-> g, plan |-> g]}

Tagged(i, space, org, plan) ==
    [instance |-> i, space |-> space, org |-> org, plan |-> plan]

\* Own tags, those of another instance, and one of them missing or wrong.
MCTagLists ==
    {Tagged(i1, g, g, g), Tagged(i2, g, g, g), Tagged(i1, h, g, g),
     Tagged(i1, g, Nil, g), Tagged(i1, g, g, h)}

Symmetry == Permutations(Snapshots)

=============================================================================
