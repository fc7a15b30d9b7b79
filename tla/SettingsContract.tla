-------------------------- MODULE SettingsContract --------------------------
(***************************************************************************)
(* What a platform may rely on when it changes the settings of an          *)
(* instance, without requests and contexts: one update is under way at a   *)
(* time and only that one writes, the window before the policy; a setting  *)
(* it asked for is in doubt until the update is accepted, and then all of  *)
(* them are in place together.  An update may be given up at any point,    *)
(* with some of its settings written, and never writes again.              *)
(***************************************************************************)
CONSTANTS
    Texts,      \* values of settings
    Empty,      \* a window that is not asked for
    Nil         \* a policy that is not asked for, a setting that is in doubt

VARIABLES
    window,     \* the maintenance window
    policy,     \* the maxmemory policy
    asked,      \* the parameters of the update under way, if there is one
    polled,     \* is an accepted update being polled
    promised    \* the settings the platform can count on

contractVars == <<window, policy, asked, polled, promised>>

ContractInit ==
    /\ window \in Texts /\ policy \in Texts
    /\ asked = {} /\ polled = FALSE
    /\ promised = [window |-> Nil, policy |-> Nil]

\* The platform asks for the settings in w, and no longer counts on those.
Ask(w) ==
    /\ asked = {} /\ ~polled
    /\ asked' = {w}
    /\ promised' =
        [window |-> IF w.window # Empty THEN Nil ELSE promised.window,
         policy |-> IF w.policy # Nil THEN Nil ELSE promised.policy]
    /\ UNCHANGED <<window, policy, polled>>

WriteWindow(w) ==
    /\ w.window # Empty
    /\ window' = w.window /\ UNCHANGED policy

WritePolicy(w) ==
    /\ w.policy # Nil /\ w.window \in {Empty, window}
    /\ policy' = w.policy /\ UNCHANGED window

\* The update is accepted: what it asked for is what there is now.
Accept(w) ==
    /\ w.window \in {Empty, window'} /\ w.policy \in {Nil, policy'}
    /\ asked' = {} /\ polled' = TRUE
    /\ promised' =
        [window |-> IF w.window # Empty THEN window' ELSE promised.window,
         policy |-> IF w.policy # Nil THEN policy' ELSE promised.policy]

Abandon == asked' = {} /\ UNCHANGED <<polled, promised>>

\* The update under way writes one setting, or none, and goes on or ends.
Work(w) ==
    /\ WriteWindow(w) \/ WritePolicy(w) \/ UNCHANGED <<window, policy>>
    /\ Accept(w) \/ Abandon \/ UNCHANGED <<asked, polled, promised>>

Done ==
    /\ polled /\ polled' = FALSE
    /\ UNCHANGED <<window, policy, asked, promised>>

ContractNext ==
    \/ \E w \in [policy : Texts \cup {Nil}, window : Texts,
                 failover : BOOLEAN] : Ask(w)
    \/ \E w \in asked : Work(w)
    \/ Done

ContractSpec == ContractInit /\ [][ContractNext]_contractVars

=============================================================================
