------------------------------ MODULE Failover ------------------------------
(***************************************************************************)
(* The failover test of an instance: the test_failover branch of Update in *)
(* broker/broker.go, StartFailoverTest and the failover branch of          *)
(* ProgressState in providers/redis/redis.go.                              *)
(*                                                                         *)
(* The Update switches automatic failover off and hands the primary node   *)
(* it saw to the platform as operation data.  From there on only the polls *)
(* of the platform move the failover on: each describes the group and      *)
(* starts, if AWS is done with the previous one, the next modification:    *)
(* promote a replica, then switch automatic failover back on.              *)
(*                                                                         *)
(* Everything is about one replication group that exists throughout.  A    *)
(* call can be applied and reported as an error, or not applied.  Polls    *)
(* may overlap (a client that hangs up and asks again); operations do not: *)
(* the platform starts one when the previous one has ended.                *)
(***************************************************************************)
CONSTANTS
    Nodes,      \* the cache clusters of the replication group
    NoNode,     \* stands for "no node"
    Requests    \* slots for concurrently running HTTP requests

\* The Update is refused for plans without a replica.
ASSUME NodesAssumption ==
    /\ \A n \in Nodes : \E m \in Nodes : m # n
    /\ NoNode \notin Nodes

VARIABLES
    primary,    \* the node AWS reports as the primary
    ha,         \* is automatic failover switched on
    mod,        \* the modification AWS is carrying out
    snapshot,   \* is the daily backup running
    pc,         \* pc[r]: the AWS call request r makes next
    old,        \* old[r]: PrimaryNode of the operation data r polls with
    node,       \* node[r]: the node r has picked from its description
    reply,      \* reply[r]: the answer r gave to the platform
    older,      \* requests in flight since before mod began
    op,         \* PrimaryNode of the operation the platform polls
    expired,    \* has the TimeOut of that operation passed
    moved,      \* has the primary changed since the last Update looked
    warned      \* has an Update or an operation failed since the last success

groupVars == <<primary, ha, mod, snapshot>>
callVars == <<pc, old, node, reply>>
platformVars == <<op, expired, warned>>
vars == <<primary, ha, mod, snapshot, pc, old, node, reply, older, op,
          expired, moved, warned>>

-----------------------------------------------------------------------------
UpdateCalls == {"startDescribe", "disableHA"}
PollCalls == {"describe", "cutover", "enableHA"}

\* "dropped": the handler panicked, net/http closed the connection.
Replies == {"none", "accepted", "error", "dropped", "succeeded",
            "in progress"}

NoModification == [kind |-> "none", target |-> NoNode]
Modifications == [kind : {"none", "disable", "enable"}, target : {NoNode}]
                    \cup [kind : {"promote"}, target : Nodes]

InFlight == {r \in Requests : pc[r] # "idle"}
Updating == \E r \in Requests : pc[r] \in UpdateCalls

(* Every variable holds a value of its kind; a request in flight has not   *)
(* been answered, polls an operation that names a node, and knows the node *)
(* its next call or its answer is about.                                   *)
TypeOK ==
    /\ primary \in Nodes
    /\ ha \in BOOLEAN /\ snapshot \in BOOLEAN
    /\ mod \in Modifications
    /\ pc \in [Requests -> UpdateCalls \cup PollCalls \cup {"idle"}]
    /\ old \in [Requests -> Nodes \cup {NoNode}]
    /\ node \in [Requests -> Nodes \cup {NoNode}]
    /\ reply \in [Requests -> Replies]
    /\ older \subseteq InFlight
    /\ op \in Nodes \cup {NoNode}
    /\ expired \in BOOLEAN /\ moved \in BOOLEAN /\ warned \in BOOLEAN
    /\ \A r \in Requests :
        /\ pc[r] # "idle" => reply[r] = "none"
        /\ pc[r] \in PollCalls => old[r] \in Nodes
        /\ pc[r] \in {"disableHA", "cutover"} => node[r] \in Nodes

Init ==
    /\ primary \in Nodes
    /\ ha = TRUE
    /\ mod = NoModification
    /\ snapshot = FALSE
    /\ pc = [r \in Requests |-> "idle"]
    /\ old = [r \in Requests |-> NoNode]
    /\ node = [r \in Requests |-> NoNode]
    /\ reply = [r \in Requests |-> "none"]
    /\ older = {}
    /\ op = NoNode
    /\ expired = FALSE /\ moved = FALSE /\ warned = FALSE

-----------------------------------------------------------------------------
(***************************************************************************)
(* What AWS accepts, and does by itself.                                   *)
(***************************************************************************)
Available == mod.kind = "none" /\ ~snapshot

\* AWS starts a modification, for request r: it is refused unless the group is
\* available.
Modify(r, kind, target) ==
    /\ Available
    /\ mod' = [kind |-> kind, target |-> target]
    /\ older' = InFlight \ {r}
    /\ UNCHANGED <<primary, ha, snapshot>>

\* A modification takes minutes and the context of a request ends after 30
\* seconds, so no request is in flight from before it began until after it
\* ended.  A promotion or a switching on may come to nothing.
ModificationEnds(applied) ==
    /\ mod.kind # "none" /\ older = {}
    /\ mod' = NoModification
    /\ \/ /\ applied /\ mod.kind = "promote"
          /\ primary' = mod.target /\ moved' = TRUE
          /\ UNCHANGED ha
       \/ /\ applied /\ mod.kind \in {"disable", "enable"}
          /\ ha' = (mod.kind = "enable")
          /\ UNCHANGED <<primary, moved>>
       \/ /\ ~applied /\ mod.kind # "disable"
          /\ UNCHANGED <<primary, moved, ha>>
    /\ UNCHANGED <<snapshot, callVars, older, platformVars>>

\* AWS replaces a failed primary while automatic failover is on.
AutomaticFailover ==
    /\ ha /\ mod.kind = "none"
    /\ \E n \in Nodes \ {primary} : primary' = n
    /\ moved' = TRUE
    /\ UNCHANGED <<ha, mod, snapshot, callVars, older, platformVars>>

SnapshotStarts ==
    /\ Available
    /\ snapshot' = TRUE
    /\ UNCHANGED <<primary, ha, mod, callVars, older, moved, platformVars>>

SnapshotEnds ==
    /\ snapshot
    /\ snapshot' = FALSE
    /\ UNCHANGED <<primary, ha, mod, callVars, older, moved, platformVars>>

-----------------------------------------------------------------------------
(***************************************************************************)
(* Control flow of one request.                                            *)
(***************************************************************************)
Goto(r, next, n) ==
    /\ pc' = [pc EXCEPT ![r] = next]
    /\ node' = [node EXCEPT ![r] = n]
    /\ UNCHANGED <<old, reply>>

Return(r, answer) ==
    /\ pc' = [pc EXCEPT ![r] = "idle"]
    /\ node' = [node EXCEPT ![r] = NoNode]
    /\ reply' = [reply EXCEPT ![r] = answer]
    /\ UNCHANGED old

\* The request ends without a modification of its own.
Leave(r) == older' = older \ {r} /\ UNCHANGED groupVars

-----------------------------------------------------------------------------
(***************************************************************************)
(* Update with test_failover.  A request that is refused before any AWS    *)
(* call (wrong plan, other parameters beside it) is not modelled.          *)
(***************************************************************************)
Update(r) ==
    /\ pc[r] = "idle"
    /\ op = NoNode /\ ~Updating
    /\ pc' = [pc EXCEPT ![r] = "startDescribe"]
    /\ old' = [old EXCEPT ![r] = NoNode]
    /\ node' = [node EXCEPT ![r] = NoNode]
    /\ reply' = [reply EXCEPT ![r] = "none"]
    /\ UNCHANGED <<groupVars, older, moved, platformVars>>

\* The Update ends without an operation; the platform is told, or finds the
\* connection closed.
UpdateFails(r, answer) ==
    /\ Return(r, answer)
    /\ warned' = TRUE
    /\ UNCHANGED <<op, expired>>

\* Mutant: a group without a primary is not an error.
StartFailoverTestAnyRole(r) ==
    /\ pc[r] = "startDescribe"
    /\ \/ /\ \E n \in {primary, NoNode} : Goto(r, "disableHA", n)
          /\ moved' = FALSE
          /\ UNCHANGED <<groupVars, older, platformVars>>
       \/ /\ UpdateFails(r, "dropped")
          /\ Leave(r) /\ UNCHANGED moved

\* Describe the group.  An error of the description is overwritten before it is
\* looked at and the nil description followed; a description without a primary
\* or a replica is an error.
StartFailoverTest(r) ==
    /\ pc[r] = "startDescribe"
    /\ \/ /\ Goto(r, "disableHA", primary)
          /\ moved' = FALSE
          /\ UNCHANGED <<groupVars, older, platformVars>>
       \/ /\ \E answer \in {"dropped", "error"} : UpdateFails(r, answer)
          /\ Leave(r) /\ UNCHANGED moved

\* Switch automatic failover off.  Where it is off already AWS may have nothing
\* to do.
DisableHA(r) ==
    /\ pc[r] = "disableHA"
    /\ \/ /\ \/ Modify(r, "disable", NoNode)
             \/ Available /\ ~ha /\ Leave(r)
          /\ \/ /\ Return(r, "accepted")
                /\ op' = node[r] /\ expired' = FALSE
                /\ UNCHANGED warned
             \/ UpdateFails(r, "error")
       \/ UpdateFails(r, "error") /\ Leave(r)
    /\ UNCHANGED moved

-----------------------------------------------------------------------------
(***************************************************************************)
(* LastOperation with the operation data of a failover.                    *)
(***************************************************************************)

\* Past the 45 minutes the poll answers with an error and calls nothing.
LastOperation(r) ==
    /\ pc[r] = "idle" /\ op # NoNode
    /\ \/ /\ expired
          /\ Return(r, "error")
       \/ /\ ~expired
          /\ pc' = [pc EXCEPT ![r] = "describe"]
          /\ old' = [old EXCEPT ![r] = op]
          /\ node' = [node EXCEPT ![r] = NoNode]
          /\ reply' = [reply EXCEPT ![r] = "none"]
    /\ UNCHANGED <<groupVars, older, moved, platformVars>>

\* The poll answers; "succeeded" ends the operation.
Answer(r, answer) ==
    /\ Return(r, answer)
    /\ op' = IF answer = "succeeded" THEN NoNode ELSE op
    /\ warned' = (warned /\ answer # "succeeded")
    /\ UNCHANGED expired

\* The replicas AWS lists; the code keeps the last one, in whatever order they
\* come.
ReplicaCacheClusterIds == Nodes \ {primary}

\* Mutant: it is not looked up whether the primary has moved yet.
NextCallEnable(r) ==
    ~ha /\ Goto(r, "enableHA", NoNode)

\* Mutant: nor here, so a replica is promoted every time.
NextCallCutover(r) ==
    ~ha /\ \E n \in ReplicaCacheClusterIds : Goto(r, "cutover", n)

\* Automatic failover is off, so there is more to do: promote a replica unless
\* that has been done.
NextCall(r) ==
    /\ ~ha
    /\ \/ /\ primary = old[r]
          /\ \E n \in ReplicaCacheClusterIds : Goto(r, "cutover", n)
       \/ /\ primary # old[r]
          /\ Goto(r, "enableHA", NoNode)

\* Mutant: any available group has failed over.
ProgressStateAvailable(r) ==
    /\ pc[r] = "describe"
    /\ \/ /\ Available /\ ~ha /\ primary = old[r]
          /\ \E n \in ReplicaCacheClusterIds : Goto(r, "cutover", n)
          /\ UNCHANGED <<groupVars, older, platformVars>>
       \/ /\ Available /\ (ha \/ primary # old[r])
          /\ Answer(r, "succeeded") /\ Leave(r)
       \/ /\ ~Available
          /\ Answer(r, "in progress") /\ Leave(r)
       \/ Answer(r, "error") /\ Leave(r)
    /\ UNCHANGED moved

ProgressState(r) ==
    /\ pc[r] = "describe"
    /\ \/ /\ Available /\ NextCall(r)
          /\ UNCHANGED <<groupVars, older, platformVars>>
       \/ /\ Available /\ ha
          /\ Answer(r, "succeeded") /\ Leave(r)
       \/ /\ ~Available
          /\ Answer(r, "in progress") /\ Leave(r)
       \/ Answer(r, "error") /\ Leave(r)
    /\ UNCHANGED moved

\* A poll's own modification: AWS starts it or not, and says so or not.
PollModifies(r, kind, target) ==
    /\ \/ /\ Modify(r, kind, target)
          /\ \E answer \in {"in progress", "error"} : Answer(r, answer)
       \/ Leave(r) /\ Answer(r, "error")
    /\ UNCHANGED moved

Cutover(r) == pc[r] = "cutover" /\ PollModifies(r, "promote", node[r])

EnableHA(r) == pc[r] = "enableHA" /\ PollModifies(r, "enable", NoNode)

-----------------------------------------------------------------------------
(***************************************************************************)
(* Time, the platform and the broker process.                              *)
(***************************************************************************)
TimeOut ==
    /\ op # NoNode /\ ~expired
    /\ expired' = TRUE
    /\ UNCHANGED <<groupVars, callVars, older, op, moved, warned>>

\* The platform stops polling an operation that answers with errors only.
PlatformGivesUp ==
    /\ op # NoNode /\ expired /\ InFlight = {}
    /\ op' = NoNode /\ warned' = TRUE
    /\ UNCHANGED <<groupVars, callVars, older, expired, moved>>

\* The broker process dies: no request in flight is answered or resumed.
Crash ==
    /\ InFlight # {}
    /\ pc' = [r \in Requests |-> "idle"]
    /\ older' = {}
    /\ warned' = (warned \/ Updating)
    /\ UNCHANGED <<groupVars, old, node, reply, op, expired, moved>>

-----------------------------------------------------------------------------
Call(r) ==
    StartFailoverTest(r) \/ DisableHA(r) \/ ProgressState(r) \/ Cutover(r)
        \/ EnableHA(r)

Next ==
    \/ \E r \in Requests : Update(r) \/ LastOperation(r) \/ Call(r)
    \/ \E applied \in BOOLEAN : ModificationEnds(applied)
    \/ AutomaticFailover \/ SnapshotStarts \/ SnapshotEnds
    \/ TimeOut \/ PlatformGivesUp \/ Crash

Spec == Init /\ [][Next]_vars

-----------------------------------------------------------------------------
(***************************************************************************)
(* Properties.                                                             *)
(***************************************************************************)

(* A poll that ends an operation with "succeeded" tells the truth: the     *)
(* primary has moved since the Update that started it looked.  All the     *)
(* poll sees is that the group is available and that automatic failover is *)
(* not off; it never compares the primary before it answers.               *)
SuccessMeansFailedOver ==
    [][\A r \in Requests :
         op # NoNode /\ pc[r] = "describe" /\ reply'[r] = "succeeded"
            => moved]_vars

(* Automatic failover is off only while the platform is driving a failover *)
(* or has been told of a failure: no answer of the broker that reports     *)
(* success, and no poll that comes late, leaves the instance without it.   *)
HighAvailabilityRestored ==
    ~ha \/ mod.kind = "disable" => op # NoNode \/ warned

(* AWS starts a promotion only while the primary is still the one the      *)
(* Update saw: overlapping polls, lost answers and retries never make it   *)
(* fail over twice.                                                        *)
PromotesOnce ==
    [][mod'.kind = "promote" /\ mod.kind # "promote"
         => op = primary /\ ~ha]_vars

(* What api_test.go says of Update: an unknown error of AWS is answered    *)
(* (with status 500).  StartFailoverTest drops the error of the            *)
(* description and follows the nil pointer beside it.                      *)
UpdateAnswered == \A r \in Requests : reply[r] # "dropped"

-----------------------------------------------------------------------------
(***************************************************************************)
(* The inductive invariant behind the properties.                          *)
(***************************************************************************)

\* A modification starts from what the poll that asked for it saw.
ModificationFits ==
    /\ mod.kind = "none" => older = {}
    /\ mod.kind \in {"promote", "enable"} => ~ha
    /\ mod.kind # "none" => ~snapshot

\* What a poll has seen still holds when AWS would accept its modification.
PollsUpToDate ==
    \A r \in Requests : pc[r] \in {"cutover", "enableHA"} =>
        \/ r \in older
        \/ /\ mod.kind = "none" /\ ~ha
           /\ pc[r] = "cutover" <=> primary = old[r]

\* A poll of an operation that has ended finds a group with automatic failover
\* on, or a modification that outlives it.
LatePollsHarmless ==
    \A r \in Requests : pc[r] \in PollCalls =>
        \/ op # NoNode /\ old[r] = op
        \/ op = NoNode /\ ha /\ mod.kind = "none"
        \/ mod.kind = "disable" /\ r \in older

\* The platform starts an operation only when none is running.
OneOperation ==
    \A r \in Requests : pc[r] \in UpdateCalls =>
        /\ op = NoNode
        /\ \A q \in Requests \ {r} : pc[q] \notin UpdateCalls

\* Until the primary moves, it is the one the Update saw and automatic failover
\* stays off.
StillToMove ==
    ~moved =>
        /\ op # NoNode =>
            /\ primary = op
            /\ \/ mod.kind = "disable"
               \/ ~ha /\ mod.kind \in {"none", "promote"}
        /\ \A r \in Requests : pc[r] = "disableHA" => node[r] = primary

\* A promotion under way leaves the node under test, a switching on follows a
\* promotion, unless the platform has given the test up.
ModificationInOrder ==
    /\ mod.kind = "promote" =>
        mod.target # primary /\ (op = primary \/ (op = NoNode /\ warned))
    /\ mod.kind = "enable" => op # primary /\ (op = NoNode => warned)

\* The replica a poll has picked is still one when AWS would promote it.
PicksReplica ==
    \A r \in Requests : pc[r] = "cutover" => r \in older \/ node[r] # primary

(* The parts above and the loss of automatic failover they account for are *)
(* kept by every step of every request and of AWS: what a poll saw when it *)
(* described the group is still so whenever AWS would act on it.           *)
Inv ==
    /\ TypeOK
    /\ HighAvailabilityRestored
    /\ ModificationFits
    /\ PollsUpToDate
    /\ LatePollsHarmless
    /\ OneOperation
    /\ StillToMove
    /\ ModificationInOrder
    /\ PicksReplica

-----------------------------------------------------------------------------
(***************************************************************************)
(* The failover test implements FailoverContract.  Automatic failover that *)
(* is being switched off counts as off.                                    *)
(***************************************************************************)
Contract == INSTANCE FailoverContract WITH
    guarded <- ha /\ mod.kind # "disable",
    test <- op

(* However polls overlap, come late or fail after they were applied, and   *)
(* whenever the process dies, a test goes through its stages in order and  *)
(* never back: automatic failover off, primary moved, automatic failover   *)
(* on, success.  No stage is skipped and none is done twice.               *)
TestContract == Contract!ContractSpec

-----------------------------------------------------------------------------
(***************************************************************************)
(* Fairness.  A handler that has started goes on; AWS ends modifications   *)
(* and backups; the platform keeps polling an operation that has not       *)
(* ended, and not only ever during the daily backup; AWS neither fails the *)
(* calls of a poll for ever nor lets every promotion or switching on come  *)
(* to nothing.                                                             *)
(***************************************************************************)
Fairness ==
    /\ \A r \in Requests :
        /\ WF_vars(Call(r))
        /\ SF_vars(ProgressState(r) /\ Available /\ reply'[r] # "error")
        /\ SF_vars((Cutover(r) \/ EnableHA(r)) /\ reply'[r] # "error")
    /\ SF_vars(Available /\ \E r \in Requests : LastOperation(r))
    /\ SF_vars(mod.kind = "promote" /\ ModificationEnds(TRUE))
    /\ SF_vars(mod.kind = "enable" /\ ModificationEnds(TRUE))
    /\ WF_vars(\E applied \in BOOLEAN : ModificationEnds(applied))
    /\ WF_vars(SnapshotEnds)

FairSpec == Spec /\ Fairness

(* A failover that was accepted ends, unless its 45 minutes pass, and then *)
(* automatic failover is on: although nothing but polls moves it on, there *)
(* is no state in which every poll answers "in progress" or repeats a step *)
(* already done for ever.  This includes a test that begins with automatic *)
(* failover off, left so by a test that ran out of time or an Update that  *)
(* failed after AWS had switched it off: such a test repairs the instance. *)
FailoverEnds ==
    op # NoNode ~> expired \/ (op = NoNode /\ ha /\ mod.kind # "disable")

=============================================================================
