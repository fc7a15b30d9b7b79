-------------------------- MODULE InstanceLifecycle --------------------------
(***************************************************************************)
(* The life of service instances: the Provision, Deprovision,              *)
(* LastOperation and Bind handlers of broker/broker.go together with the   *)
(* methods of the Redis provider (providers/redis/redis.go) they call.     *)
(*                                                                         *)
(* The broker keeps no state of its own and takes no lock: every HTTP      *)
(* request runs in a goroutine of its own, and all it shares with the      *)
(* others is what AWS stores under the instance's name.  A request is a    *)
(* process whose steps are the AWS calls its handler makes, in the order   *)
(* the code makes them; pc[r] names the call r is about to make.  Between  *)
(* two calls of a request any other request may make calls.                *)
(*                                                                         *)
(* A call is applied and acknowledged, applied but reported as an error    *)
(* (the answer was lost, and the SDK's own retry met the result of the     *)
(* first attempt), or not applied and reported as an error.  Once the      *)
(* request's context has ended (the 30 second timeout of the handlers, or  *)
(* the client hung up) no call of the request reaches AWS any more.        *)
(*                                                                         *)
(* GenerateReplicationGroupName is taken to be injective, as its test      *)
(* says, so resources are indexed by the instance itself.                  *)
(***************************************************************************)
EXTENDS AwsResources

CONSTANTS
    Instances,  \* service instance IDs
    NoInstance, \* the instance of a request slot that was never used
    Requests    \* slots for concurrently running HTTP requests

ASSUME ConstantsDistinct ==
    /\ NoToken \notin Tokens
    /\ NoInstance \notin Instances

VARIABLES
    pg,         \* pg[i]: the cache parameter group of instance i
    secret,     \* secret[i]: its entry in the Secrets Manager
    rg,         \* rg[i]: its replication group
    pc,         \* pc[r]: the AWS call request r makes next
    inst,       \* inst[r]: the instance r is about
    token,      \* token[r]: the auth token r has in hand
    cut,        \* the requests whose context has ended
    action,     \* action[r]: the Action of the operation data r polls with
    reply,      \* reply[r]: the answer r gave to the platform
    opdata,     \* opdata[i]: Action of the last operation accepted for i
    promised    \* instances whose creation was accepted, deletion not asked

awsVars == <<pg, secret, rg>>
callVars == <<pc, inst, token, cut, action, reply>>
platformVars == <<opdata, promised>>
vars == <<pg, secret, rg, pc, inst, token, cut, action, reply, opdata,
          promised>>

-----------------------------------------------------------------------------
ProvisionCalls == {"createPG", "modifyPG", "createSecret", "createRG",
                   "undoPG", "undoSecret"}
DeprovisionCalls == {"deleteRG", "deleteSecret"}
LastOperationCalls == {"describe", "deletePG"}
BindCalls == {"bindDescribe", "bindSecret"}
Calls == ProvisionCalls \cup DeprovisionCalls \cup LastOperationCalls
            \cup BindCalls

\* Actions of the operation data; "none" stands for no operation data.
Actions == {"none", "provisioning", "deprovisioning"}

\* "dropped": the handler panicked, net/http closed the connection.
Replies == {"none", "accepted", "error", "gone", "credentials", "dropped",
            "succeeded", "failed", "in progress"}

AwsTypeOK ==
    /\ pg \in [Instances -> ParameterGroups]
    /\ secret \in [Instances -> Secrets]
    /\ rg \in [Instances -> ReplicationGroups]

CallTypeOK ==
    /\ pc \in [Requests -> Calls \cup {"idle"}]
    /\ inst \in [Requests -> Instances \cup {NoInstance}]
    /\ token \in [Requests -> Tokens \cup {NoToken}]
    /\ cut \subseteq Requests
    /\ action \in [Requests -> Actions]
    /\ reply \in [Requests -> Replies]
    /\ \A r \in Requests :
        /\ pc[r] # "idle" => inst[r] \in Instances /\ reply[r] = "none"
        /\ pc[r] \in {"createRG", "undoPG", "undoSecret", "bindSecret"}
            => token[r] \in Tokens

PlatformTypeOK ==
    /\ opdata \in [Instances -> Actions]
    /\ promised \subseteq Instances

(* Every variable holds a value of its kind, and a request in flight is    *)
(* about an instance, has not been answered, and has a token in hand when  *)
(* its next call is about one.                                             *)
TypeOK == AwsTypeOK /\ CallTypeOK /\ PlatformTypeOK

Init ==
    /\ pg = [i \in Instances |-> "absent"]
    /\ secret = [i \in Instances |-> NoSecret]
    /\ rg = [i \in Instances |-> NoReplicationGroup]
    /\ pc = [r \in Requests |-> "idle"]
    /\ inst = [r \in Requests |-> NoInstance]
    /\ token = [r \in Requests |-> NoToken]
    /\ cut = {}
    /\ action = [r \in Requests |-> "none"]
    /\ reply = [r \in Requests |-> "none"]
    /\ opdata = [i \in Instances |-> "none"]
    /\ promised = {}

-----------------------------------------------------------------------------
(***************************************************************************)
(* Control flow of one request.                                            *)
(***************************************************************************)

\* A handler starts on instance i and makes the call `first` next.
Enter(r, i, first, act) ==
    /\ pc[r] = "idle"
    /\ pc' = [pc EXCEPT ![r] = first]
    /\ inst' = [inst EXCEPT ![r] = i]
    /\ token' = [token EXCEPT ![r] = NoToken]
    /\ action' = [action EXCEPT ![r] = act]
    /\ reply' = [reply EXCEPT ![r] = "none"]
    /\ UNCHANGED cut

\* The handler goes on to its next call, holding the token t.
Goto(r, next, t) ==
    /\ pc' = [pc EXCEPT ![r] = next]
    /\ token' = [token EXCEPT ![r] = t]
    /\ UNCHANGED <<inst, cut, action, reply>>

\* The handler answers and ends; t is the password in the answer, if any.
Return(r, answer, t) ==
    /\ pc' = [pc EXCEPT ![r] = "idle"]
    /\ token' = [token EXCEPT ![r] = t]
    /\ cut' = cut \ {r}
    /\ reply' = [reply EXCEPT ![r] = answer]
    /\ UNCHANGED <<inst, action>>

Fails(r) == Return(r, "error", NoToken)

-----------------------------------------------------------------------------
(***************************************************************************)
(* Provision.  A request that is refused before any AWS call (asynchronous *)
(* operations not accepted, unknown plan, bad parameters, no usable        *)
(* snapshot to restore) touches nothing and is not modelled here.          *)
(***************************************************************************)
Provision(r, i) ==
    /\ Enter(r, i, "createPG", "none")
    /\ UNCHANGED <<awsVars, platformVars>>

\* Mutant: CacheParameterGroupAlreadyExists is taken as success.
CreateCacheParameterGroupIfAbsent(r) ==
    LET i == inst[r] IN
    /\ pc[r] = "createPG"
    /\ \/ /\ r \notin cut
          /\ pg' = [pg EXCEPT ![i] = IF @ = "absent" THEN "default" ELSE @]
          /\ Goto(r, "modifyPG", NoToken) \/ Fails(r)
       \/ UNCHANGED pg /\ Fails(r)
    /\ UNCHANGED <<secret, rg, platformVars>>

CreateCacheParameterGroup(r) ==
    LET i == inst[r] IN
    /\ pc[r] = "createPG"
    /\ \/ /\ r \notin cut /\ AcceptsCreateParameterGroup(pg[i])
          /\ pg' = [pg EXCEPT ![i] = "default"]
          /\ Goto(r, "modifyPG", NoToken) \/ Fails(r)
       \/ UNCHANGED pg /\ Fails(r)
    /\ UNCHANGED <<secret, rg, platformVars>>

\* The call is never skipped: createCacheParameterGroup adds cluster-enabled,
\* so there is at least one parameter to set.
ModifyCacheParameterGroup(r) ==
    LET i == inst[r] IN
    /\ pc[r] = "modifyPG"
    /\ \/ /\ r \notin cut /\ AcceptsModifyParameterGroup(pg[i])
          /\ pg' = [pg EXCEPT ![i] = "set"]
          /\ Goto(r, "createSecret", NoToken) \/ Fails(r)
       \/ UNCHANGED pg /\ Fails(r)
    /\ UNCHANGED <<secret, rg, platformVars>>

\* Mutant: an error of CreateSecret is logged and ignored.
CreateAuthTokenSecretIgnored(r) ==
    LET i == inst[r] IN
    /\ pc[r] = "createSecret"
    /\ \E t \in Tokens :
        /\ \/ /\ r \notin cut /\ AcceptsCreateSecret(secret[i])
              /\ secret' =
                    [secret EXCEPT ![i] = [state |-> "active", token |-> t]]
           \/ UNCHANGED secret
        /\ Goto(r, "createRG", t)
    /\ UNCHANGED <<pg, rg, platformVars>>

\* Any token may come out of GenerateAuthToken.  An error is returned without
\* cleaning up the parameter group.
CreateAuthTokenSecret(r) ==
    LET i == inst[r] IN
    /\ pc[r] = "createSecret"
    /\ \/ \E t \in Tokens :
            /\ r \notin cut /\ AcceptsCreateSecret(secret[i])
            /\ secret' =
                  [secret EXCEPT ![i] = [state |-> "active", token |-> t]]
            /\ Goto(r, "createRG", t) \/ Fails(r)
       \/ UNCHANGED secret /\ Fails(r)
    /\ UNCHANGED <<pg, rg, platformVars>>

\* Mutant: the group gets a token of its own, not the one stored.
CreateReplicationGroupNewToken(r) ==
    LET i == inst[r] IN
    /\ pc[r] = "createRG"
    /\ \/ /\ r \notin cut /\ AcceptsCreateReplicationGroup(pg[i], rg[i])
          /\ \E t \in Tokens :
                rg' = [rg EXCEPT ![i] = [status |-> "creating", token |-> t]]
          /\ Return(r, "accepted", NoToken)
          /\ opdata' = [opdata EXCEPT ![i] = "provisioning"]
          /\ promised' = promised \cup {i}
       \/ /\ Goto(r, "undoPG", token[r])
          /\ UNCHANGED <<rg, platformVars>>
    /\ UNCHANGED <<pg, secret>>

\* Success is the 202 with operation data "provisioning"; an error starts the
\* clean-up, which uses the same context.
CreateReplicationGroup(r) ==
    LET i == inst[r] IN
    /\ pc[r] = "createRG"
    /\ \/ /\ r \notin cut /\ AcceptsCreateReplicationGroup(pg[i], rg[i])
          /\ rg' =
                [rg EXCEPT ![i] = [status |-> "creating", token |-> token[r]]]
          /\ \/ /\ Return(r, "accepted", NoToken)
                /\ opdata' = [opdata EXCEPT ![i] = "provisioning"]
                /\ promised' = promised \cup {i}
             \/ /\ Goto(r, "undoPG", token[r])
                /\ UNCHANGED platformVars
       \/ /\ Goto(r, "undoPG", token[r])
          /\ UNCHANGED <<rg, platformVars>>
    /\ UNCHANGED <<pg, secret>>

\* The first clean-up call: its error is logged and ignored.
UndoParameterGroup(r) ==
    LET i == inst[r] IN
    /\ pc[r] = "undoPG"
    /\ \/ /\ r \notin cut /\ AcceptsDeleteParameterGroup(pg[i], rg[i])
          /\ pg' = [pg EXCEPT ![i] = "absent"]
       \/ UNCHANGED pg
    /\ Goto(r, "undoSecret", token[r])
    /\ UNCHANGED <<secret, rg, platformVars>>

\* The second one, with a recovery window of 7 days: ignored as well.  The
\* request fails with the error of CreateReplicationGroup.
UndoAuthTokenSecret(r) ==
    LET i == inst[r] IN
    /\ pc[r] = "undoSecret"
    /\ \/ /\ r \notin cut /\ AcceptsDeleteSecret(secret[i])
          /\ secret' = [secret EXCEPT ![i].state = "scheduled"]
       \/ UNCHANGED secret
    /\ Fails(r)
    /\ UNCHANGED <<pg, rg, platformVars>>

-----------------------------------------------------------------------------
(***************************************************************************)
(* Deprovision.                                                            *)
(***************************************************************************)
Deprovision(r, i) ==
    /\ Enter(r, i, "deleteRG", "none")
    /\ promised' = promised \ {i}
    /\ UNCHANGED <<awsVars, opdata>>

\* A deletion asked for before the creation was accepted, and still under way
\* then, ends the promise when it reaches the group.
DeleteReplicationGroup(r) ==
    LET i == inst[r] IN
    /\ pc[r] = "deleteRG"
    /\ \/ /\ r \notin cut /\ AcceptsDeleteReplicationGroup(rg[i])
          /\ rg' = [rg EXCEPT ![i].status = "deleting"]
          /\ promised' = promised \ {i}
          /\ Goto(r, "deleteSecret", NoToken) \/ Fails(r)
       \/ Fails(r) /\ UNCHANGED <<rg, promised>>
    /\ UNCHANGED <<pg, secret, opdata>>

\* Mutant: an error is logged and ignored, as the clean-up of Provision does.
DeleteAuthTokenSecretIgnored(r) ==
    LET i == inst[r] IN
    /\ pc[r] = "deleteSecret"
    /\ \/ /\ r \notin cut /\ AcceptsDeleteSecret(secret[i])
          /\ secret' = [secret EXCEPT ![i].state = "scheduled"]
       \/ UNCHANGED secret
    /\ Return(r, "accepted", NoToken)
    /\ opdata' = [opdata EXCEPT ![i] = "deprovisioning"]
    /\ UNCHANGED <<pg, rg, promised>>

\* With a recovery window of 30 days.
DeleteAuthTokenSecret(r) ==
    LET i == inst[r] IN
    /\ pc[r] = "deleteSecret"
    /\ \/ /\ r \notin cut /\ AcceptsDeleteSecret(secret[i])
          /\ secret' = [secret EXCEPT ![i].state = "scheduled"]
          /\ \/ /\ Return(r, "accepted", NoToken)
                /\ opdata' = [opdata EXCEPT ![i] = "deprovisioning"]
             \/ Fails(r) /\ UNCHANGED opdata
       \/ Fails(r) /\ UNCHANGED <<secret, opdata>>
    /\ UNCHANGED <<pg, rg, promised>>

-----------------------------------------------------------------------------
(***************************************************************************)
(* LastOperation.  The platform polls with the operation data it was given *)
(* last.  Operations that are not about the life of the instance behave as *)
(* "provisioning" does; failover is the subject of module Failover.        *)
(***************************************************************************)
LastOperation(r, i) ==
    /\ Enter(r, i, "describe", opdata[i])
    /\ UNCHANGED <<awsVars, platformVars>>

\* Mutant: a state the switch does not know is passed on as it is.
ProviderStatesMappingUnknown(status) ==
    CASE status = "available"     -> "succeeded"
      [] status = "create-failed" -> "failed"
      [] status \in {"creating", "deleting"} -> "in progress"
      [] OTHER                    -> status

ProviderStatesMapping(status) ==
    CASE status = "available"     -> "succeeded"
      [] status = "create-failed" -> "failed"
      [] OTHER                    -> "in progress"

\* A 410 ends the operation: the platform does not poll for it again.
Gone(r) ==
    /\ Return(r, "gone", NoToken)
    /\ opdata' = [opdata EXCEPT ![inst[r]] = IF @ = action[r] THEN "none" ELSE @]

\* Mutant: the parameter group is deleted whatever operation is polled.
ProgressStateAnyAction(r) ==
    LET i == inst[r] IN
    /\ pc[r] = "describe"
    /\ \/ /\ r \notin cut /\ ~Exists(rg[i])
          /\ Goto(r, "deletePG", NoToken)
       \/ /\ r \notin cut /\ Exists(rg[i])
          /\ Return(r, ProviderStatesMapping(rg[i].status), NoToken)
       \/ Fails(r)
    /\ UNCHANGED <<awsVars, platformVars>>

\* Describe the replication group; a group that is not found is the
\* NonExisting state, which ends everything but a deprovisioning.
ProgressState(r) ==
    LET i == inst[r] IN
    /\ pc[r] = "describe"
    /\ \/ /\ r \notin cut /\ ~Exists(rg[i])
          /\ \/ /\ action[r] = "deprovisioning"
                /\ Goto(r, "deletePG", NoToken)
                /\ UNCHANGED opdata
             \/ /\ action[r] # "deprovisioning"
                /\ Gone(r)
       \/ /\ r \notin cut /\ Exists(rg[i])
          /\ Return(r, ProviderStatesMapping(rg[i].status), NoToken)
          /\ UNCHANGED opdata
       \/ Fails(r) /\ UNCHANGED opdata
    /\ UNCHANGED <<awsVars, promised>>

\* Mutant: an error of the deletion is logged and ignored.
DeleteCacheParameterGroupIgnored(r) ==
    LET i == inst[r] IN
    /\ pc[r] = "deletePG"
    /\ \/ /\ r \notin cut /\ AcceptsDeleteParameterGroup(pg[i], rg[i])
          /\ pg' = [pg EXCEPT ![i] = "absent"]
       \/ UNCHANGED pg
    /\ Gone(r)
    /\ UNCHANGED <<secret, rg, promised>>

\* Mutant: CacheParameterGroupNotFound is an error like any other.
DeleteCacheParameterGroupNotFound(r) ==
    LET i == inst[r] IN
    /\ pc[r] = "deletePG"
    /\ \/ /\ r \notin cut /\ AcceptsDeleteParameterGroup(pg[i], rg[i])
          /\ pg' = [pg EXCEPT ![i] = "absent"]
          /\ Gone(r) \/ (Fails(r) /\ UNCHANGED opdata)
       \/ Fails(r) /\ UNCHANGED <<pg, opdata>>
    /\ UNCHANGED <<secret, rg, promised>>

\* A parameter group that is not found counts as deleted.
DeleteCacheParameterGroup(r) ==
    LET i == inst[r] IN
    /\ pc[r] = "deletePG"
    /\ \/ /\ r \notin cut /\ AcceptsDeleteParameterGroup(pg[i], rg[i])
          /\ pg' = [pg EXCEPT ![i] = "absent"]
          /\ Gone(r) \/ (Fails(r) /\ UNCHANGED opdata)
       \/ /\ r \notin cut /\ pg[i] = "absent"
          /\ Gone(r)
          /\ UNCHANGED pg
       \/ Fails(r) /\ UNCHANGED <<pg, opdata>>
    /\ UNCHANGED <<secret, rg, promised>>

-----------------------------------------------------------------------------
(***************************************************************************)
(* Bind: GenerateCredentials reads the endpoint, then the password.        *)
(***************************************************************************)
Bind(r, i) ==
    /\ Enter(r, i, "bindDescribe", "none")
    /\ UNCHANGED <<awsVars, platformVars>>

\* token[r] remembers which server the endpoint belongs to; the code does not
\* know it.  A group that is not serving may have no node group (an error) or
\* a node group without an endpoint (a nil pointer is followed).
DescribeForCredentials(r) ==
    LET i == inst[r] IN
    /\ pc[r] = "bindDescribe"
    /\ \/ /\ r \notin cut /\ Exists(rg[i])
          /\ Goto(r, "bindSecret", rg[i].token)
       \/ /\ r \notin cut
          /\ rg[i].status \in {"creating", "create-failed", "deleting"}
          /\ Return(r, "dropped", NoToken)
       \/ Fails(r)
    /\ UNCHANGED <<awsVars, platformVars>>

GetAuthToken(r) ==
    LET i == inst[r] IN
    /\ pc[r] = "bindSecret"
    /\ \/ /\ r \notin cut /\ AcceptsGetSecretValue(secret[i])
          /\ Return(r, "credentials", secret[i].token)
       \/ Fails(r)
    /\ UNCHANGED <<awsVars, platformVars>>

-----------------------------------------------------------------------------
(***************************************************************************)
(* What happens to the broker.                                             *)
(***************************************************************************)

\* The 30 second timeout of r expires, or its client hangs up.
ContextEnds(r) ==
    /\ pc[r] # "idle" /\ r \notin cut
    /\ cut' = cut \cup {r}
    /\ UNCHANGED <<awsVars, pc, inst, token, action, reply, platformVars>>

\* The broker process dies: no request in flight is answered or resumed.
Crash ==
    /\ \E r \in Requests : pc[r] # "idle"
    /\ pc' = [r \in Requests |-> "idle"]
    /\ token' =
        [r \in Requests |-> IF pc[r] = "idle" THEN token[r] ELSE NoToken]
    /\ cut' = {}
    /\ UNCHANGED <<awsVars, inst, action, reply, platformVars>>

-----------------------------------------------------------------------------
(***************************************************************************)
(* What AWS does by itself.                                                *)
(***************************************************************************)
CreationEnds(i) ==
    /\ rg[i].status = "creating"
    /\ \E s \in {"available", "create-failed"} :
            rg' = [rg EXCEPT ![i].status = s]
    /\ UNCHANGED <<pg, secret, callVars, platformVars>>

\* The daily backup starts and ends.
Snapshot(i) ==
    /\ \/ /\ rg[i].status = "available"
          /\ rg' = [rg EXCEPT ![i].status = "snapshotting"]
       \/ /\ rg[i].status = "snapshotting"
          /\ rg' = [rg EXCEPT ![i].status = "available"]
    /\ UNCHANGED <<pg, secret, callVars, platformVars>>

DeletionEnds(i) ==
    /\ rg[i].status = "deleting"
    /\ rg' = [rg EXCEPT ![i] = NoReplicationGroup]
    /\ UNCHANGED <<pg, secret, callVars, platformVars>>

\* The recovery window of a secret ends.  The window is at least 7 days, a
\* request lasts 30 seconds (a Bind, which sets no timeout, until its client
\* hangs up) and the platform is not polling a deletion any more by then.  A
\* purge during a request that started after the deletion looks to that request
\* like one before it began or after it ended.
PurgeSecret(i) ==
    /\ secret[i].state = "scheduled"
    /\ opdata[i] # "deprovisioning"
    /\ \A r \in Requests : pc[r] # "idle" => inst[r] # i
    /\ secret' = [secret EXCEPT ![i] = NoSecret]
    /\ UNCHANGED <<pg, rg, callVars, platformVars>>

-----------------------------------------------------------------------------
Begin(r, i) ==
    Provision(r, i) \/ Deprovision(r, i) \/ LastOperation(r, i) \/ Bind(r, i)

Call(r) ==
    \/ CreateCacheParameterGroup(r) \/ ModifyCacheParameterGroup(r)
    \/ CreateAuthTokenSecret(r) \/ CreateReplicationGroup(r)
    \/ UndoParameterGroup(r) \/ UndoAuthTokenSecret(r)
    \/ DeleteReplicationGroup(r) \/ DeleteAuthTokenSecret(r)
    \/ ProgressState(r) \/ DeleteCacheParameterGroup(r)
    \/ DescribeForCredentials(r) \/ GetAuthToken(r)

Background(i) ==
    CreationEnds(i) \/ Snapshot(i) \/ DeletionEnds(i) \/ PurgeSecret(i)

Next ==
    \/ \E r \in Requests, i \in Instances : Begin(r, i)
    \/ \E r \in Requests : Call(r) \/ ContextEnds(r)
    \/ Crash
    \/ \E i \in Instances : Background(i)

Spec == Init /\ [][Next]_vars

-----------------------------------------------------------------------------
(***************************************************************************)
(* Properties.                                                             *)
(***************************************************************************)

\* Request r is about instance i and is about to make one of the calls c.
At(r, i, c) == pc[r] \in c /\ inst[r] = i

\* Calls made only by the Provision whose CreateSecret succeeded.
OwnerCalls == {"createRG", "undoPG", "undoSecret"}

(* A password found in the Secrets Manager, even one that was left there   *)
(* by a failed or interrupted request, opens the replication group of that *)
(* name.  Provision generates the token once and gives it to two services  *)
(* in two calls, any of which can fail, time out or be repeated.           *)
TokenAgreement ==
    \A i \in Instances :
        Exists(rg[i]) /\ secret[i].state # "absent"
            => secret[i].token = rg[i].token

(* Once the platform has been told that an instance is being created, and  *)
(* until it asks for its deletion, nothing the other requests do, failing  *)
(* Provisions with their clean-up and late polls included, takes away the  *)
(* group, its password or its parameters.                                  *)
PromiseKept ==
    \A i \in Instances : i \in promised =>
        /\ Exists(rg[i]) /\ rg[i].status # "deleting"
        /\ secret[i] = [state |-> "active", token |-> rg[i].token]
        /\ pg[i] = "set"

(* While the platform polls an accepted deletion the password is           *)
(* unreadable and the group is on its way out or gone: no other request    *)
(* brings the instance back.                                               *)
DeprovisionSettled ==
    \A i \in Instances : opdata[i] = "deprovisioning" =>
        /\ secret[i].state = "scheduled"
        /\ rg[i].status \in {"none", "deleting"}

(* Of the Provisions that run for one instance at most one gets past the   *)
(* creation of the secret, so at most one creates the group or cleans up,  *)
(* and what it cleans up is the secret it created itself.                  *)
SoleOwner ==
    \A i \in Instances, r \in Requests : At(r, i, OwnerCalls) =>
        /\ secret[i].state # "absent" /\ secret[i].token = token[r]
        /\ \A q \in Requests \ {r} : ~At(q, i, OwnerCalls)

(* When the poll of a deletion answers 410 Gone, nothing that belonged to  *)
(* the instance can be used any more: no group, no parameter group, no     *)
(* readable password.  The poll looks at the group in one call, deletes    *)
(* the parameter group in another and never looks at the secret.           *)
GoneMeansGone ==
    [][\A r \in Requests :
         pc[r] = "deletePG" /\ pc'[r] = "idle" /\ reply'[r] = "gone" =>
            /\ pg'[inst[r]] = "absent"
            /\ ~Exists(rg'[inst[r]])
            /\ secret'[inst[r]].state # "active"]_vars

(* What redis_test.go says under "when provision fails": a Provision that  *)
(* answers with an error after it has created the parameter group deletes  *)
(* it.  It does so only when the call that fails is the last one.          *)
FailedProvisionCleansUp ==
    [][\A r \in Requests :
         pc[r] \in {"modifyPG", "createSecret"} /\ pc'[r] = "idle"
                /\ reply'[r] = "error"
            => pg'[inst[r]] = "absent"]_vars

(* What redis_test.go says under "when no endpoints groups are returned":  *)
(* a Bind to a group that has no endpoint, as one that is being created or *)
(* deleted may have none, answers with an error.                           *)
BindAnswered ==
    [][\A r \in Requests :
         pc[r] = "bindDescribe" /\ pc'[r] = "idle"
            => reply'[r] # "dropped"]_vars

-----------------------------------------------------------------------------
(***************************************************************************)
(* The inductive invariant behind the properties: for every instance, what *)
(* the position of each request says about the stored resources.           *)
(***************************************************************************)

\* Calls of a Provision that has created the parameter group and not yet the
\* secret.
WaitingCalls == {"modifyPG", "createSecret"}

\* A group keeps AWS from deleting the parameter group it uses.
GroupNeedsParameters ==
    \A i \in Instances : Exists(rg[i]) => pg[i] # "absent"

\* While there is no secret, only one Provision is between the creation of the
\* parameter group and that of the secret, and it works on its own group.
ParameterGroupIsLock ==
    \A i \in Instances, r \in Requests :
        secret[i].state = "absent" /\ At(r, i, WaitingCalls) =>
            /\ ~Exists(rg[i]) /\ pg[i] # "absent"
            /\ pc[r] = "createSecret" => pg[i] = "set"
            /\ \A q \in Requests \ {r} : ~At(q, i, WaitingCalls)

\* A request that has seen a group and finds no secret proves that the secret
\* was lost: no Provision is about to create one.
LostSecretStaysLost ==
    \A i \in Instances, r \in Requests :
        secret[i].state = "absent"
            /\ At(r, i, {"bindSecret", "deleteSecret"}) =>
            /\ pg[i] # "absent"
            /\ \A q \in Requests : ~At(q, i, WaitingCalls)

\* The Provision about to create the group finds everything as it left it.
OwnerReady ==
    \A i \in Instances, r \in Requests : At(r, i, {"createRG"}) =>
        /\ ~Exists(rg[i]) /\ pg[i] = "set" /\ secret[i].state = "active"
        /\ opdata[i] # "deprovisioning"

\* The password of the server a Bind has looked up is the stored one.
BindSeesItsToken ==
    \A i \in Instances, r \in Requests :
        At(r, i, {"bindSecret"}) /\ secret[i].state # "absent"
            => secret[i].token = token[r]

\* Nobody is about to delete the secret of a promised instance, and a
\* Deprovision deletes it only while its group is on the way out.
DeletersHarmless ==
    \A i \in Instances, r \in Requests :
        /\ At(r, i, {"undoPG", "undoSecret", "deleteSecret"})
            => i \notin promised
        /\ At(r, i, {"deleteSecret"}) =>
            /\ rg[i].status \in {"none", "deleting"}
            /\ \A q \in Requests : ~At(q, i, {"createRG"})

\* The poll of a deletion runs while the secret waits for its purge, so that
\* no group can come back between its two calls.
PollersHarmless ==
    \A i \in Instances, r \in Requests :
        /\ At(r, i, LastOperationCalls) /\ action[r] = "deprovisioning"
            => secret[i].state = "scheduled"
        /\ At(r, i, {"deletePG"})
            => action[r] = "deprovisioning" /\ ~Exists(rg[i])

(* The parts above, with the properties they support, are kept by every    *)
(* step of every handler: at each position of a request the stored         *)
(* resources are what the calls made so far, by whomever, leave possible.  *)
Inv ==
    /\ TypeOK
    /\ TokenAgreement
    /\ PromiseKept
    /\ DeprovisionSettled
    /\ SoleOwner
    /\ GroupNeedsParameters
    /\ ParameterGroupIsLock
    /\ LostSecretStaysLost
    /\ OwnerReady
    /\ BindSeesItsToken
    /\ DeletersHarmless
    /\ PollersHarmless

-----------------------------------------------------------------------------
(***************************************************************************)
(* The life cycle implements InstanceContract.                             *)
(***************************************************************************)
Contract == INSTANCE InstanceContract WITH
    server <- [i \in Instances |-> rg[i].token],
    found <- [r \in Requests |->
                IF pc[r] = "bindSecret" THEN token[r] ELSE NoToken],
    given <- [r \in Requests |->
                IF reply[r] = "credentials" THEN token[r] ELSE NoToken],
    sought <- [r \in Requests |->
                IF pc[r] \in DeprovisionCalls THEN inst[r] ELSE NoInstance],
    counted <- promised,
    leaving <- {i \in Instances : opdata[i] = "deprovisioning"}

(* Whatever requests overlap, fail or are cut short: an accepted instance  *)
(* keeps its server until its deletion is asked for, one whose deletion    *)
(* was accepted is not started again before it is reported gone, nor       *)
(* reported gone while it runs, and a Bind answers with the password of    *)
(* the very server whose address it hands out, although it reads the       *)
(* address from ElastiCache and then the password from the Secrets         *)
(* Manager.                                                                *)
PlatformContract == Contract!ContractSpec

-----------------------------------------------------------------------------
(***************************************************************************)
(* Fairness.  A handler that has started goes on (its goroutine is         *)
(* scheduled, its calls are bounded by a context); AWS finishes deletions; *)
(* the platform keeps polling an operation that has not ended; and AWS     *)
(* does not fail the calls of a poll for ever.                             *)
(***************************************************************************)
Fairness ==
    /\ \A r \in Requests : WF_vars(Call(r))
    /\ \A i \in Instances :
        /\ WF_vars(DeletionEnds(i))
        /\ SF_vars(\E r \in Requests : LastOperation(r, i))
    /\ \A r \in Requests, i \in Instances :
        /\ SF_vars(ProgressState(r) /\ inst[r] = i /\ reply'[r] # "error")
        /\ SF_vars(DeleteCacheParameterGroup(r) /\ inst[r] = i
                        /\ reply'[r] # "error")

FairSpec == Spec /\ Fairness

(* The platform learns the end of every deletion it was promised: the      *)
(* deletion is only driven by polls, whose calls can fail after they were  *)
(* applied, and other requests go on using the instance's name.            *)
DeprovisionCompletes ==
    \A i \in Instances : opdata[i] = "deprovisioning" ~> opdata[i] = "none"

=============================================================================
