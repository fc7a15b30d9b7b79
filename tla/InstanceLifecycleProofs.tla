---------------------- MODULE InstanceLifecycleProofs ----------------------
(***************************************************************************)
(* Machine-checked proofs about InstanceLifecycle, for any number of       *)
(* instances, concurrent requests and tokens.                              *)
(***************************************************************************)
EXTENDS InstanceLifecycle, TLAPS

-----------------------------------------------------------------------------
(***************************************************************************)
(* Control flow keeps the types of the call variables.                     *)
(***************************************************************************)
LEMMA EnterType ==
  ASSUME CallTypeOK, NEW r \in Requests, NEW i \in Instances,
         NEW first \in {"createPG", "deleteRG", "describe", "bindDescribe"},
         NEW act \in Actions, Enter(r, i, first, act)
  PROVE  CallTypeOK'
  BY DEF CallTypeOK, Enter, Replies, Calls, ProvisionCalls, DeprovisionCalls,
         LastOperationCalls, BindCalls

LEMMA GotoType ==
  ASSUME CallTypeOK, NEW r \in Requests, pc[r] # "idle", NEW next \in Calls,
         NEW t \in Tokens \cup {NoToken}, Goto(r, next, t),
         next \in {"createRG", "undoPG", "undoSecret", "bindSecret"}
            => t \in Tokens
  PROVE  CallTypeOK'
  BY DEF CallTypeOK, Goto

LEMMA ReturnType ==
  ASSUME CallTypeOK, NEW r \in Requests, NEW answer \in Replies,
         NEW t \in Tokens \cup {NoToken}, Return(r, answer, t)
  PROVE  CallTypeOK'
  BY DEF CallTypeOK, Return

LEMMA FailsType ==
  ASSUME CallTypeOK, NEW r \in Requests, Fails(r)
  PROVE  CallTypeOK'
  BY ReturnType DEF Fails, Replies

LEMMA GoneType ==
  ASSUME TypeOK, NEW r \in Requests, pc[r] # "idle", Gone(r)
  PROVE  CallTypeOK' /\ opdata' \in [Instances -> Actions]
<1>1. CallTypeOK'
  BY ReturnType DEF Gone, Replies, TypeOK
<1>2. opdata' \in [Instances -> Actions]
  BY DEF TypeOK, CallTypeOK, PlatformTypeOK, Gone, Actions
<1> QED BY <1>1, <1>2

-----------------------------------------------------------------------------
(***************************************************************************)
(* A change of one field leaves a stored resource in its type.             *)
(***************************************************************************)
LEMMA ScheduledType ==
  ASSUME secret \in [Instances -> Secrets], NEW i \in Instances,
         AcceptsDeleteSecret(secret[i])
  PROVE  [secret EXCEPT ![i].state = "scheduled"] \in [Instances -> Secrets]
<1>1. secret[i] \in [state : {"active", "scheduled"}, token : Tokens]
  BY DEF Secrets, NoSecret, AcceptsDeleteSecret
<1>2. [secret[i] EXCEPT !.state = "scheduled"] \in Secrets
  BY <1>1 DEF Secrets
<1> QED BY <1>2

LEMMA StatusType ==
  ASSUME rg \in [Instances -> ReplicationGroups], NEW i \in Instances,
         Exists(rg[i]), NEW s \in Statuses
  PROVE  [rg EXCEPT ![i].status = s] \in [Instances -> ReplicationGroups]
<1>1. rg[i] \in [status : Statuses, token : Tokens]
  BY DEF ReplicationGroups, NoReplicationGroup, Exists
<1>2. [rg[i] EXCEPT !.status = s] \in ReplicationGroups
  BY <1>1 DEF ReplicationGroups
<1> QED BY <1>2

-----------------------------------------------------------------------------
LEMMA TypeInit == Init => TypeOK
<1> SUFFICES ASSUME Init PROVE TypeOK
  OBVIOUS
<1>1. AwsTypeOK
  BY DEF Init, AwsTypeOK, ParameterGroups, Secrets, ReplicationGroups,
         Statuses, NoSecret, NoReplicationGroup
<1>2. CallTypeOK
  BY DEF Init, CallTypeOK, Actions, Replies
<1>3. PlatformTypeOK
  BY DEF Init, PlatformTypeOK, Actions
<1> QED BY <1>1, <1>2, <1>3 DEF TypeOK
LEMMA TypeStep == TypeOK /\ [Next]_vars => TypeOK'
<1> SUFFICES ASSUME TypeOK, [Next]_vars PROVE TypeOK'
  OBVIOUS
<1> USE DEF TypeOK
<1>1. ASSUME NEW r \in Requests, NEW i \in Instances, Begin(r, i)
      PROVE  TypeOK'
  <2>1. AwsTypeOK'
    BY <1>1 DEF AwsTypeOK, awsVars, Begin, Provision, Deprovision,
                LastOperation, Bind
  <2>2. PlatformTypeOK'
    BY <1>1 DEF PlatformTypeOK, platformVars, Begin, Provision, Deprovision,
                LastOperation, Bind
  <2>3. opdata[i] \in Actions /\ "none" \in Actions
    BY DEF PlatformTypeOK, Actions
  <2>4. CallTypeOK'
    BY <1>1, <2>3, EnterType
       DEF Begin, Provision, Deprovision, LastOperation, Bind, Calls,
           ProvisionCalls, DeprovisionCalls, LastOperationCalls, BindCalls
  <2> QED BY <2>1, <2>2, <2>4
<1>2. ASSUME NEW r \in Requests, Call(r)
      PROVE  TypeOK'
  <2>1. pc[r] # "idle"
    BY <1>2 DEF Call, CreateCacheParameterGroup, ModifyCacheParameterGroup,
       CreateAuthTokenSecret, CreateReplicationGroup, UndoParameterGroup,
       UndoAuthTokenSecret, DeleteReplicationGroup, DeleteAuthTokenSecret,
       ProgressState, DeleteCacheParameterGroup, DescribeForCredentials,
       GetAuthToken
  <2>2. inst[r] \in Instances
    BY <2>1 DEF CallTypeOK
  <2>3. CreateCacheParameterGroup(r) => TypeOK'
    <3> SUFFICES ASSUME CreateCacheParameterGroup(r) PROVE TypeOK'
      OBVIOUS
    <3>1. AwsTypeOK'
      BY <2>2 DEF CreateCacheParameterGroup, AwsTypeOK, ParameterGroups
    <3>2. CallTypeOK'
      BY <2>1, GotoType, FailsType
         DEF CreateCacheParameterGroup, Calls, ProvisionCalls
    <3>3. PlatformTypeOK'
      BY DEF CreateCacheParameterGroup, PlatformTypeOK, platformVars
    <3> QED BY <3>1, <3>2, <3>3
  <2>4. ModifyCacheParameterGroup(r) => TypeOK'
    <3> SUFFICES ASSUME ModifyCacheParameterGroup(r) PROVE TypeOK'
      OBVIOUS
    <3>1. AwsTypeOK'
      BY <2>2 DEF ModifyCacheParameterGroup, AwsTypeOK, ParameterGroups
    <3>2. CallTypeOK'
      BY <2>1, GotoType, FailsType
         DEF ModifyCacheParameterGroup, Calls, ProvisionCalls
    <3>3. PlatformTypeOK'
      BY DEF ModifyCacheParameterGroup, PlatformTypeOK, platformVars
    <3> QED BY <3>1, <3>2, <3>3
  <2>5. CreateAuthTokenSecret(r) => TypeOK'
    <3> SUFFICES ASSUME CreateAuthTokenSecret(r) PROVE TypeOK'
      OBVIOUS
    <3>1. AwsTypeOK'
      <4>1. ASSUME NEW t \in Tokens
            PROVE  [state |-> "active", token |-> t] \in Secrets
        BY DEF Secrets
      <4>2. secret' \in [Instances -> Secrets]
        BY <2>2, <4>1 DEF CreateAuthTokenSecret, AwsTypeOK
      <4> QED BY <4>2 DEF CreateAuthTokenSecret, AwsTypeOK
    <3>2. CallTypeOK'
      BY <2>1, GotoType, FailsType
         DEF CreateAuthTokenSecret, Calls, ProvisionCalls
    <3>3. PlatformTypeOK'
      BY DEF CreateAuthTokenSecret, PlatformTypeOK, platformVars
    <3> QED BY <3>1, <3>2, <3>3
  <2>6. CreateReplicationGroup(r) => TypeOK'
    <3> SUFFICES ASSUME CreateReplicationGroup(r) PROVE TypeOK'
      OBVIOUS
    <3>1. token[r] \in Tokens
      BY DEF CallTypeOK, CreateReplicationGroup
    <3>2. AwsTypeOK'
      <4>1. [status |-> "creating", token |-> token[r]] \in ReplicationGroups
        BY <3>1 DEF ReplicationGroups, Statuses
      <4> QED BY <2>2, <4>1 DEF CreateReplicationGroup, AwsTypeOK
    <3>3. CallTypeOK'
      BY <2>1, <3>1, GotoType, ReturnType
         DEF CreateReplicationGroup, Calls, ProvisionCalls, Replies
    <3>4. PlatformTypeOK'
      BY <2>2 DEF CreateReplicationGroup, PlatformTypeOK, platformVars, Actions
    <3> QED BY <3>2, <3>3, <3>4
  <2>7. UndoParameterGroup(r) => TypeOK'
    <3> SUFFICES ASSUME UndoParameterGroup(r) PROVE TypeOK'
      OBVIOUS
    <3>1. AwsTypeOK'
      BY <2>2 DEF UndoParameterGroup, AwsTypeOK, ParameterGroups
    <3>2. CallTypeOK'
      <4>1. token[r] \in Tokens
        BY DEF CallTypeOK, UndoParameterGroup
      <4> QED BY <2>1, <4>1, GotoType
                 DEF UndoParameterGroup, Calls, ProvisionCalls
    <3>3. PlatformTypeOK'
      BY DEF UndoParameterGroup, PlatformTypeOK, platformVars
    <3> QED BY <3>1, <3>2, <3>3
  <2>8. UndoAuthTokenSecret(r) => TypeOK'
    <3> SUFFICES ASSUME UndoAuthTokenSecret(r) PROVE TypeOK'
      OBVIOUS
    <3>1. AwsTypeOK'
      BY <2>2, ScheduledType DEF UndoAuthTokenSecret, AwsTypeOK
    <3>2. CallTypeOK'
      BY FailsType DEF UndoAuthTokenSecret
    <3>3. PlatformTypeOK'
      BY DEF UndoAuthTokenSecret, PlatformTypeOK, platformVars
    <3> QED BY <3>1, <3>2, <3>3
  <2>9. DeleteReplicationGroup(r) => TypeOK'
    <3> SUFFICES ASSUME DeleteReplicationGroup(r) PROVE TypeOK'
      OBVIOUS
    <3>1. AwsTypeOK'
      <4>1. CASE UNCHANGED rg
        BY <4>1 DEF DeleteReplicationGroup, AwsTypeOK
      <4>2. CASE /\ AcceptsDeleteReplicationGroup(rg[inst[r]])
                 /\ rg' = [rg EXCEPT ![inst[r]].status = "deleting"]
        <5>1. Exists(rg[inst[r]]) /\ "deleting" \in Statuses
          BY <4>2 DEF AcceptsDeleteReplicationGroup, Exists, Statuses
        <5> QED BY <2>2, <4>2, <5>1, StatusType
                   DEF DeleteReplicationGroup, AwsTypeOK
      <4> QED BY <4>1, <4>2 DEF DeleteReplicationGroup
    <3>2. CallTypeOK'
      BY <2>1, GotoType, FailsType
         DEF DeleteReplicationGroup, Calls, DeprovisionCalls
    <3>3. PlatformTypeOK'
      BY DEF DeleteReplicationGroup, PlatformTypeOK
    <3> QED BY <3>1, <3>2, <3>3
  <2>10. DeleteAuthTokenSecret(r) => TypeOK'
    <3> SUFFICES ASSUME DeleteAuthTokenSecret(r) PROVE TypeOK'
      OBVIOUS
    <3>1. AwsTypeOK'
      BY <2>2, ScheduledType DEF DeleteAuthTokenSecret, AwsTypeOK
    <3>2. CallTypeOK'
      BY FailsType, ReturnType DEF DeleteAuthTokenSecret, Replies
    <3>3. PlatformTypeOK'
      BY <2>2 DEF DeleteAuthTokenSecret, PlatformTypeOK, Actions
    <3> QED BY <3>1, <3>2, <3>3
  <2>11. ProgressState(r) => TypeOK'
    <3> SUFFICES ASSUME ProgressState(r) PROVE TypeOK'
      OBVIOUS
    <3>1. AwsTypeOK'
      BY DEF ProgressState, AwsTypeOK, awsVars
    <3>2. ProviderStatesMapping(rg[inst[r]].status) \in Replies
      BY DEF ProviderStatesMapping, Replies
    <3>3. CallTypeOK' /\ opdata' \in [Instances -> Actions]
      BY <2>1, <3>2, GotoType, ReturnType, FailsType, GoneType
         DEF ProgressState, Calls, LastOperationCalls, PlatformTypeOK
    <3>4. PlatformTypeOK'
      BY <3>3 DEF ProgressState, PlatformTypeOK
    <3> QED BY <3>1, <3>3, <3>4
  <2>12. DeleteCacheParameterGroup(r) => TypeOK'
    <3> SUFFICES ASSUME DeleteCacheParameterGroup(r) PROVE TypeOK'
      OBVIOUS
    <3>1. AwsTypeOK'
      BY <2>2 DEF DeleteCacheParameterGroup, AwsTypeOK, ParameterGroups
    <3>2. CallTypeOK' /\ opdata' \in [Instances -> Actions]
      BY <2>1, FailsType, GoneType
         DEF DeleteCacheParameterGroup, PlatformTypeOK
    <3>3. PlatformTypeOK'
      BY <3>2 DEF DeleteCacheParameterGroup, PlatformTypeOK
    <3> QED BY <3>1, <3>2, <3>3
  <2>13. DescribeForCredentials(r) => TypeOK'
    <3> SUFFICES ASSUME DescribeForCredentials(r) PROVE TypeOK'
      OBVIOUS
    <3>1. AwsTypeOK' /\ PlatformTypeOK'
      BY DEF DescribeForCredentials, AwsTypeOK, PlatformTypeOK, awsVars,
             platformVars
    <3>2. Exists(rg[inst[r]]) => rg[inst[r]].token \in Tokens
      BY <2>2 DEF AwsTypeOK, ReplicationGroups, NoReplicationGroup, Exists
    <3>3. CallTypeOK'
      BY <2>1, <3>2, GotoType, ReturnType, FailsType
         DEF DescribeForCredentials, Calls, BindCalls, Replies
    <3> QED BY <3>1, <3>3
  <2>14. GetAuthToken(r) => TypeOK'
    <3> SUFFICES ASSUME GetAuthToken(r) PROVE TypeOK'
      OBVIOUS
    <3>1. AwsTypeOK' /\ PlatformTypeOK'
      BY DEF GetAuthToken, AwsTypeOK, PlatformTypeOK, awsVars, platformVars
    <3>2. secret[inst[r]].token \in Tokens \cup {NoToken}
      BY <2>2 DEF AwsTypeOK, Secrets, NoSecret
    <3>3. CallTypeOK'
      BY <3>2, ReturnType, FailsType DEF GetAuthToken, Replies
    <3> QED BY <3>1, <3>3
  <2> QED BY <1>2, <2>3, <2>4, <2>5, <2>6, <2>7, <2>8, <2>9, <2>10, <2>11,
             <2>12, <2>13, <2>14 DEF Call
<1>3. ASSUME NEW r \in Requests, ContextEnds(r)
      PROVE  TypeOK'
  BY <1>3 DEF ContextEnds, AwsTypeOK, CallTypeOK, PlatformTypeOK, awsVars,
              platformVars
<1>4. CASE Crash
  BY <1>4 DEF Crash, AwsTypeOK, CallTypeOK, PlatformTypeOK, awsVars,
              platformVars
<1>5. ASSUME NEW i \in Instances, Background(i)
      PROVE  TypeOK'
  <2>1. CallTypeOK' /\ PlatformTypeOK'
    BY <1>5 DEF Background, CreationEnds, Snapshot, DeletionEnds, PurgeSecret,
                callVars, platformVars, CallTypeOK, PlatformTypeOK
  <2>2. AwsTypeOK'
    <3> USE DEF AwsTypeOK
    <3>1. CASE CreationEnds(i)
      <4>1. PICK s \in {"available", "create-failed"} :
                rg' = [rg EXCEPT ![i].status = s]
        BY <3>1 DEF CreationEnds
      <4>2. Exists(rg[i]) /\ s \in Statuses
        BY <3>1 DEF CreationEnds, Exists, Statuses
      <4> QED BY <3>1, <4>1, <4>2, StatusType DEF CreationEnds
    <3>2. CASE Snapshot(i)
      BY <3>2, StatusType DEF Snapshot, Exists, Statuses
    <3>3. CASE DeletionEnds(i)
      BY <3>3 DEF DeletionEnds, ReplicationGroups, Statuses,
                  NoReplicationGroup
    <3>4. CASE PurgeSecret(i)
      BY <3>4 DEF PurgeSecret, Secrets, NoSecret
    <3> QED BY <1>5, <3>1, <3>2, <3>3, <3>4 DEF Background
  <2> QED BY <2>1, <2>2
<1>6. CASE UNCHANGED vars
  BY <1>6 DEF vars, AwsTypeOK, CallTypeOK, PlatformTypeOK
<1> QED BY <1>1, <1>2, <1>3, <1>4, <1>5, <1>6 DEF Next

(* Type correctness of the life cycle: no sequence of handler steps, lost  *)
(* answers, context ends and crashes leaves a variable without its kind of *)
(* value, and no request in flight is without an instance.                 *)
THEOREM TypeCorrect == Spec => []TypeOK
  BY TypeInit, TypeStep, PTL DEF Spec
=============================================================================
