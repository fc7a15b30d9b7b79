-------------------------- MODULE FailoverContract --------------------------
(***************************************************************************)
(* What a platform may rely on when it tests the failover of an instance,  *)
(* without requests, polls and modifications: a test leaves the node that  *)
(* was the primary once and never returns to it before automatic failover  *)
(* is back, goes through its stages in order, and succeeds only after the  *)
(* last one.  After a failure the platform has been told of, AWS may still *)
(* finish what was begun.                                                  *)
(***************************************************************************)
CONSTANTS
    Nodes,      \* the nodes of the instance
    NoNode      \* no test is running

VARIABLES
    primary,    \* the node that is the primary
    guarded,    \* would AWS replace a primary that fails
    test,       \* the node the running test wants the primary to leave
    moved,      \* has the primary changed since the last look at it
    warned      \* has a failure been reported since the last success

contractVars == <<primary, guarded, test, moved, warned>>

ContractInit ==
    /\ primary \in Nodes
    /\ guarded = TRUE
    /\ test = NoNode
    /\ moved = FALSE /\ warned = FALSE

\* Who wants to test looks for the primary first.
Look ==
    /\ test = NoNode
    /\ moved' = FALSE
    /\ UNCHANGED <<primary, guarded, test, warned>>

\* A test begins, of the node that was seen, and switches the guard off.
Begin(n) ==
    /\ test = NoNode
    /\ moved \/ n = primary
    /\ test' = n /\ guarded' = FALSE
    /\ UNCHANGED <<primary, moved, warned>>

\* A test does not begin; the guard may be off all the same.
Refuse ==
    /\ test = NoNode
    /\ guarded' \in {guarded, FALSE}
    /\ warned' = TRUE
    /\ UNCHANGED <<primary, test, moved>>

\* The primary moves: away from one that failed, where it is guarded, or away
\* from the node under test.
Move ==
    /\ guarded \/ test = primary \/ (test = NoNode /\ warned)
    /\ \E n \in Nodes \ {primary} : primary' = n
    /\ moved' = TRUE
    /\ UNCHANGED <<guarded, test, warned>>

\* The guard comes back, in a test only after the primary has moved.
Restore ==
    /\ ~guarded
    /\ test # primary
    /\ test = NoNode => warned
    /\ guarded' = TRUE
    /\ UNCHANGED <<primary, test, moved, warned>>

Succeed ==
    /\ guarded
    /\ test # NoNode => moved
    /\ test' = NoNode /\ warned' = FALSE
    /\ UNCHANGED <<primary, guarded, moved>>

GiveUp ==
    /\ test # NoNode
    /\ test' = NoNode /\ warned' = TRUE
    /\ UNCHANGED <<primary, guarded, moved>>

ContractNext ==
    \/ Look \/ Refuse \/ Move \/ Restore \/ Succeed \/ GiveUp
    \/ \E n \in Nodes : Begin(n)

ContractSpec == ContractInit /\ [][ContractNext]_contractVars

=============================================================================
