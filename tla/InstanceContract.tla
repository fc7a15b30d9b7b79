-------------------------- MODULE InstanceContract --------------------------
(***************************************************************************)
(* What a platform may rely on during the life of an instance, whatever    *)
(* requests the broker is working on.  A server keeps the password it was  *)
(* started with until it stops.  One whose creation was accepted does not  *)
(* stop before its deletion is asked for.  Once a deletion is accepted no  *)
(* server starts under that name until the platform has been told that the *)
(* instance is gone, and that it is told only after the server stopped.    *)
(* A Bind that answers with credentials answers with the password of a     *)
(* server it found running under the instance's name; it may give up at    *)
(* any time, and the server may stop between the look and the answer.      *)
(***************************************************************************)
CONSTANTS
    Instances,  \* service instance IDs
    Requests,   \* slots for requests
    Tokens,     \* passwords
    NoToken,    \* no server, or no password
    NoInstance  \* no deletion was asked for

VARIABLES
    server,     \* server[i]: the password of the server of i
    found,      \* found[r]: the password of the server the Bind r has found
    given,      \* given[r]: the password in r's answer
    sought,     \* sought[r]: the instance r was asked to delete
    counted,    \* the instances the platform counts on
    leaving     \* those whose deletion was accepted and is not yet reported

contractVars == <<server, found, given, sought, counted, leaving>>

ContractInit ==
    /\ server = [i \in Instances |-> NoToken]
    /\ found = [r \in Requests |-> NoToken]
    /\ given = [r \in Requests |-> NoToken]
    /\ sought = [r \in Requests |-> NoInstance]
    /\ counted = {} /\ leaving = {}

\* The platform may have been told of it, or may think that it failed.
Start(i) ==
    /\ server[i] = NoToken /\ i \notin leaving
    /\ \E t \in Tokens : server' = [server EXCEPT ![i] = t]
    /\ counted' \in {counted, counted \cup {i}}
    /\ UNCHANGED <<found, given, sought, leaving>>

Stop(i) ==
    /\ i \notin counted
    /\ server' = [server EXCEPT ![i] = NoToken]
    /\ UNCHANGED <<found, given, sought, counted, leaving>>

\* A request begins, in a slot that may have held the answer of a Bind.
Begin(r) ==
    /\ given' = [given EXCEPT ![r] = NoToken]
    /\ UNCHANGED <<server, found, sought, counted, leaving>>

\* It asks for the deletion of i.
Seek(r, i) ==
    /\ given' = [given EXCEPT ![r] = NoToken]
    /\ sought' = [sought EXCEPT ![r] = i]
    /\ counted' = counted \ {i}
    /\ UNCHANGED <<server, found, leaving>>

\* The deletion reaches the server, which may have been accepted since it was
\* asked for.  The platform may think that it failed.
Doom(r) ==
    /\ sought[r] # NoInstance
    /\ counted' = counted \ {sought[r]}
    /\ sought' \in {sought, [sought EXCEPT ![r] = NoInstance]}
    /\ UNCHANGED <<server, found, given, leaving>>

\* The deletion is accepted.
Leave(r) ==
    /\ sought[r] # NoInstance /\ sought[r] \notin counted
    /\ leaving' = leaving \cup {sought[r]}
    /\ sought' = [sought EXCEPT ![r] = NoInstance]
    /\ UNCHANGED <<server, found, given, counted>>

\* The platform is told that i is gone.
Gone(i) ==
    /\ server[i] = NoToken
    /\ leaving' = leaving \ {i}
    /\ UNCHANGED <<server, found, given, sought, counted>>

\* A Bind finds the server of i.
Find(r, i) ==
    /\ server[i] # NoToken
    /\ found[r] = NoToken /\ given[r] = NoToken
    /\ found' = [found EXCEPT ![r] = server[i]]
    /\ UNCHANGED <<server, given, sought, counted, leaving>>

\* It answers with the password of the server it found.
Give(r) ==
    /\ found[r] # NoToken
    /\ given' = [given EXCEPT ![r] = found[r]]
    /\ found' = [found EXCEPT ![r] = NoToken]
    /\ UNCHANGED <<server, sought, counted, leaving>>

\* Some requests end without credentials and without a deletion.
GiveUp ==
    /\ \E S \in SUBSET Requests :
        /\ found' = [r \in Requests |-> IF r \in S THEN NoToken ELSE found[r]]
        /\ sought' =
            [r \in Requests |-> IF r \in S THEN NoInstance ELSE sought[r]]
    /\ UNCHANGED <<server, given, counted, leaving>>

ContractNext ==
    \/ \E i \in Instances : Start(i) \/ Stop(i) \/ Gone(i)
    \/ \E r \in Requests : \/ Begin(r) \/ Doom(r) \/ Leave(r) \/ Give(r)
                           \/ \E i \in Instances : Seek(r, i) \/ Find(r, i)
    \/ GiveUp

ContractSpec == ContractInit /\ [][ContractNext]_contractVars
=============================================================================
