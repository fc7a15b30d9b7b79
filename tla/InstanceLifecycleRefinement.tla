-------------------- MODULE InstanceLifecycleRefinement --------------------
(***************************************************************************)
(* The life cycle implements InstanceContract: every step of a handler is  *)
(* a step of the contract or leaves what the contract sees as it was.      *)
(***************************************************************************)
EXTENDS InstanceLifecycleSafety

\* The state functions that stand for the variables of the contract.
serverBar == [i \in Instances |-> rg[i].token]
foundBar == [r \in Requests |->
                IF pc[r] = "bindSecret" THEN token[r] ELSE NoToken]
givenBar == [r \in Requests |->
                IF reply[r] = "credentials" THEN token[r] ELSE NoToken]
soughtBar == [r \in Requests |->
                IF pc[r] \in DeprovisionCalls THEN inst[r] ELSE NoInstance]
leavingBar == {i \in Instances : opdata[i] = "deprovisioning"}

\* What it sees of the requests, and of the platform.
requestsBar == <<foundBar, givenBar, soughtBar>>
platformBar == <<promised, leavingBar>>
allBar == <<serverBar, requestsBar, platformBar>>

-----------------------------------------------------------------------------
\* A handler that is not a Bind past its first call or a Deprovision, and goes
\* on, shows the contract nothing.
LEMMA GotoHidden ==
  ASSUME CallTypeOK, NEW r \in Requests, NEW next, NEW t, Goto(r, next, t),
         pc[r] # "idle", pc[r] # "bindSecret", next # "bindSecret",
         pc[r] \in DeprovisionCalls <=> next \in DeprovisionCalls
  PROVE  UNCHANGED requestsBar
<1>1. foundBar' = foundBar
  BY DEF foundBar, Goto, CallTypeOK
<1>2. givenBar' = givenBar
  BY DEF givenBar, Goto, CallTypeOK
<1>3. soughtBar' = soughtBar
  BY DEF soughtBar, Goto, CallTypeOK
<1> QED BY <1>1, <1>2, <1>3 DEF requestsBar

LEMMA ReturnHidden ==
  ASSUME CallTypeOK, NEW r \in Requests, NEW answer, NEW t,
         Return(r, answer, t), answer # "credentials",
         pc[r] # "idle", pc[r] # "bindSecret", pc[r] \notin DeprovisionCalls
  PROVE  UNCHANGED requestsBar
<1>1. foundBar' = foundBar
  BY DEF foundBar, Return, CallTypeOK
<1>2. givenBar' = givenBar
  BY DEF givenBar, Return, CallTypeOK
<1>3. soughtBar' = soughtBar
  BY DEF soughtBar, Return, CallTypeOK, DeprovisionCalls
<1> QED BY <1>1, <1>2, <1>3 DEF requestsBar

LEMMA FailsHidden ==
  ASSUME CallTypeOK, NEW r \in Requests, Fails(r), pc[r] # "idle",
         pc[r] # "bindSecret", pc[r] \notin DeprovisionCalls
  PROVE  UNCHANGED requestsBar
  BY ReturnHidden DEF Fails

\* A Deprovision ends.
LEMMA DeprovisionReturns ==
  ASSUME CallTypeOK, NEW r \in Requests, NEW answer,
         Return(r, answer, NoToken), answer # "credentials",
         pc[r] \in DeprovisionCalls
  PROVE  /\ UNCHANGED <<foundBar, givenBar>>
         /\ soughtBar' = [soughtBar EXCEPT ![r] = NoInstance]
<1>1. foundBar' = foundBar
  BY DEF foundBar, Return, CallTypeOK, DeprovisionCalls
<1>2. givenBar' = givenBar
  BY DEF givenBar, Return, CallTypeOK, DeprovisionCalls
<1>3. soughtBar' = [soughtBar EXCEPT ![r] = NoInstance]
  BY DEF soughtBar, Return, CallTypeOK, DeprovisionCalls
<1> QED BY <1>1, <1>2, <1>3

\* With an error, it gives up.
LEMMA DeprovisionFails ==
  ASSUME CallTypeOK, NEW r \in Requests, Fails(r),
         pc[r] \in DeprovisionCalls, UNCHANGED <<rg, opdata, promised>>
  PROVE  Contract!GiveUp
<1>1. /\ UNCHANGED <<foundBar, givenBar>>
      /\ soughtBar' = [soughtBar EXCEPT ![r] = NoInstance]
  BY DeprovisionReturns DEF Fails
<1>2. foundBar' = [q \in Requests |->
                    IF q \in {r} THEN NoToken ELSE foundBar[q]]
  <2>1. foundBar[r] = NoToken
    BY DEF foundBar, DeprovisionCalls
  <2>2. foundBar = [q \in Requests |-> foundBar[q]]
    BY DEF foundBar
  <2> QED BY <1>1, <2>1, <2>2
<1>3. soughtBar' = [q \in Requests |->
                    IF q \in {r} THEN NoInstance ELSE soughtBar[q]]
  BY <1>1 DEF soughtBar
<1>4. {r} \in SUBSET Requests
  OBVIOUS
<1>5. UNCHANGED <<serverBar, leavingBar>>
  BY DEF serverBar, leavingBar
<1> QED BY <1>1, <1>2, <1>3, <1>4, <1>5
           DEF Contract!GiveUp, serverBar, foundBar, givenBar, soughtBar,
               leavingBar

-----------------------------------------------------------------------------
LEMMA ContractInitially == Init => Contract!ContractInit
  BY DEF Init, Contract!ContractInit, NoReplicationGroup, DeprovisionCalls
-----------------------------------------------------------------------------
\* A handler that starts uses its slot again; a Deprovision asks for more.
LEMMA BeginImplements ==
  ASSUME CallTypeOK, NEW r \in Requests, NEW i \in Instances, Begin(r, i)
  PROVE  Contract!Begin(r) \/ Contract!Seek(r, i)
<1>1. UNCHANGED <<serverBar, leavingBar>>
  BY DEF Begin, Provision, Deprovision, LastOperation, Bind, awsVars,
         platformVars, serverBar, leavingBar
<1>2. ASSUME NEW first \in {"createPG", "describe", "bindDescribe", "deleteRG"},
             NEW act, Enter(r, i, first, act)
      PROVE  /\ foundBar' = foundBar
             /\ givenBar' = [givenBar EXCEPT ![r] = NoToken]
  <2>1. foundBar' = foundBar
    BY <1>2 DEF foundBar, Enter, CallTypeOK
  <2>2. givenBar' = [givenBar EXCEPT ![r] = NoToken]
    BY <1>2 DEF givenBar, Enter, CallTypeOK
  <2> QED BY <2>1, <2>2
<1>3. CASE Deprovision(r, i)
  <2>1. soughtBar' = [soughtBar EXCEPT ![r] = i]
    BY <1>3 DEF Deprovision, soughtBar, Enter, CallTypeOK, DeprovisionCalls
  <2>2. /\ foundBar' = foundBar
        /\ givenBar' = [givenBar EXCEPT ![r] = NoToken]
    BY <1>2, <1>3 DEF Deprovision
  <2> QED BY <1>1, <1>3, <2>1, <2>2
             DEF Deprovision, Contract!Seek, serverBar, foundBar, givenBar,
                 soughtBar, leavingBar
<1>4. CASE Provision(r, i) \/ LastOperation(r, i) \/ Bind(r, i)
  <2>1. PICK first \in {"createPG", "describe", "bindDescribe"},
             act \in {"none", opdata[i]} : Enter(r, i, first, act)
    BY <1>4 DEF Provision, LastOperation, Bind
  <2>2. soughtBar' = soughtBar
    BY <2>1 DEF soughtBar, Enter, CallTypeOK, DeprovisionCalls
  <2>3. /\ foundBar' = foundBar
        /\ givenBar' = [givenBar EXCEPT ![r] = NoToken]
    BY <1>2, <2>1
  <2>4. promised' = promised
    BY <1>4 DEF Provision, LastOperation, Bind, platformVars
  <2> QED BY <1>1, <2>2, <2>3, <2>4
             DEF Contract!Begin, serverBar, foundBar, givenBar, soughtBar,
                 leavingBar
<1> QED BY <1>3, <1>4 DEF Begin

\* A group is created where no deletion is being polled, by OwnerReady, whether
\* or not the Provision is told so.
LEMMA CreateReplicationGroupImplements ==
  ASSUME Inv, NEW r \in Requests, CreateReplicationGroup(r),
         NEW i \in Instances, inst[r] = i
  PROVE  Contract!Start(i) \/ UNCHANGED allBar
<1>1. /\ pc[r] = "createRG" /\ CallTypeOK
      /\ token[r] \in Tokens /\ rg \in [Instances -> ReplicationGroups]
      /\ opdata \in [Instances -> Actions]
  BY InFlight DEF CreateReplicationGroup, CallTypeOK
<1>2. UNCHANGED requestsBar
  BY <1>1, GotoHidden, ReturnHidden
     DEF CreateReplicationGroup, DeprovisionCalls
<1>3. opdata[i] # "deprovisioning"
  BY <1>1 DEF Inv, OwnerReady, At
<1>4. leavingBar' = leavingBar /\ promised' \in {promised, promised \cup {i}}
  BY <1>1, <1>3 DEF CreateReplicationGroup, platformVars, leavingBar
<1>5. CASE UNCHANGED <<rg, platformVars>>
  BY <1>2, <1>5
  DEF platformVars, serverBar, leavingBar, platformBar, allBar
<1>6. CASE /\ AcceptsCreateReplicationGroup(pg[i], rg[i])
           /\ rg' = [rg EXCEPT ![i] =
                        [status |-> "creating", token |-> token[r]]]
  <2>1. rg[i].token = NoToken
    BY <1>1, <1>6 DEF AcceptsCreateReplicationGroup, Exists,
                      ReplicationGroups, NoReplicationGroup, Statuses
  <2>2. serverBar' = [serverBar EXCEPT ![i] = token[r]]
    BY <1>1, <1>6 DEF serverBar
  <2> QED BY <1>1, <1>2, <1>3, <1>4, <2>1, <2>2
             DEF Contract!Start, requestsBar, serverBar, foundBar, givenBar,
                 soughtBar, leavingBar
<1> QED BY <1>5, <1>6 DEF CreateReplicationGroup

\* The first call of a Deprovision reaches the group, or the Deprovision ends.
LEMMA DeleteReplicationGroupImplements ==
  ASSUME Inv, NEW r \in Requests, DeleteReplicationGroup(r)
  PROVE  Contract!Doom(r) \/ Contract!GiveUp
<1>1. /\ pc[r] = "deleteRG" /\ CallTypeOK /\ inst[r] \in Instances
      /\ rg \in [Instances -> ReplicationGroups]
      /\ pc[r] \in DeprovisionCalls /\ opdata' = opdata
  BY InFlight DEF DeleteReplicationGroup, DeprovisionCalls
<1>2. CASE Fails(r) /\ UNCHANGED <<rg, promised>>
  BY <1>1, <1>2, DeprovisionFails
<1>3. CASE /\ AcceptsDeleteReplicationGroup(rg[inst[r]])
           /\ rg' = [rg EXCEPT ![inst[r]].status = "deleting"]
           /\ promised' = promised \ {inst[r]}
           /\ Goto(r, "deleteSecret", NoToken) \/ Fails(r)
  <2>1. Sets(rg', rg, inst[r], [status |-> "deleting",
                                token |-> rg[inst[r]].token])
    BY <1>1, <1>3, StatusSets DEF Exists, AcceptsDeleteReplicationGroup
  <2>2. serverBar' = serverBar
    BY <2>1 DEF serverBar, Sets
  <2>3. leavingBar' = leavingBar
    BY <1>1 DEF leavingBar
  <2>4. soughtBar[r] = inst[r] /\ inst[r] # NoInstance
    BY <1>1, ConstantsDistinct DEF soughtBar
  <2>5. UNCHANGED <<foundBar, givenBar>>
        /\ soughtBar' \in {soughtBar, [soughtBar EXCEPT ![r] = NoInstance]}
    <3>1. CASE Goto(r, "deleteSecret", NoToken)
      BY <1>1, <3>1, GotoHidden DEF DeprovisionCalls, requestsBar
    <3>2. CASE Fails(r)
      BY <1>1, <3>2, DeprovisionReturns DEF Fails
    <3> QED BY <1>3, <3>1, <3>2
  <2> QED BY <1>3, <2>2, <2>3, <2>4, <2>5
             DEF Contract!Doom, serverBar, foundBar, givenBar, soughtBar,
                 leavingBar
<1> QED BY <1>2, <1>3 DEF DeleteReplicationGroup

\* Its second call ends it.  Nobody has been promised the instance meanwhile,
\* by DeletersHarmless.
LEMMA DeleteAuthTokenSecretImplements ==
  ASSUME Inv, NEW r \in Requests, DeleteAuthTokenSecret(r)
  PROVE  Contract!Leave(r) \/ Contract!GiveUp
<1>1. /\ pc[r] = "deleteSecret" /\ CallTypeOK /\ inst[r] \in Instances
      /\ opdata \in [Instances -> Actions] /\ pc[r] \in DeprovisionCalls
      /\ UNCHANGED <<rg, promised>>
  BY InFlight DEF DeleteAuthTokenSecret, DeprovisionCalls
<1>2. CASE Fails(r) /\ UNCHANGED opdata
  BY <1>1, <1>2, DeprovisionFails
<1>3. CASE /\ Return(r, "accepted", NoToken)
           /\ opdata' = [opdata EXCEPT ![inst[r]] = "deprovisioning"]
  <2>1. soughtBar[r] = inst[r] /\ inst[r] # NoInstance
    BY <1>1, ConstantsDistinct DEF soughtBar
  <2>2. inst[r] \notin promised
    BY <1>1 DEF Inv, DeletersHarmless, At
  <2>3. leavingBar' = leavingBar \cup {inst[r]}
    BY <1>1, <1>3 DEF leavingBar
  <2>4. /\ UNCHANGED <<foundBar, givenBar>>
        /\ soughtBar' = [soughtBar EXCEPT ![r] = NoInstance]
    BY <1>1, <1>3, DeprovisionReturns
  <2>5. serverBar' = serverBar
    BY <1>1 DEF serverBar
  <2> QED BY <1>1, <2>1, <2>2, <2>3, <2>4, <2>5
             DEF Contract!Leave, serverBar, foundBar, givenBar, soughtBar,
                 leavingBar
<1> QED BY <1>2, <1>3 DEF DeleteAuthTokenSecret

\* The poll of a deletion says "gone" while there is no group, by
\* PollersHarmless.
LEMMA DeleteCacheParameterGroupImplements ==
  ASSUME Inv, NEW r \in Requests, DeleteCacheParameterGroup(r),
         NEW i \in Instances, inst[r] = i
  PROVE  Contract!Gone(i) \/ UNCHANGED allBar
<1>1. /\ pc[r] = "deletePG" /\ CallTypeOK /\ UNCHANGED <<rg, promised>>
      /\ rg \in [Instances -> ReplicationGroups]
      /\ opdata \in [Instances -> Actions]
  BY InFlight DEF DeleteCacheParameterGroup
<1>2. UNCHANGED requestsBar
  BY <1>1, ReturnHidden, FailsHidden
     DEF DeleteCacheParameterGroup, Gone, DeprovisionCalls
<1>3. serverBar' = serverBar
  BY <1>1 DEF serverBar
<1>4. CASE UNCHANGED opdata
  BY <1>1, <1>2, <1>3, <1>4 DEF leavingBar, platformBar, allBar
<1>5. CASE Gone(r)
  <2>1. action[r] = "deprovisioning" /\ ~Exists(rg[i])
    BY <1>1 DEF Inv, PollersHarmless, At
  <2>2. serverBar[i] = NoToken
    BY <1>1, <2>1 DEF serverBar, Exists, ReplicationGroups, Statuses,
       NoReplicationGroup
  <2>3. opdata' = [opdata EXCEPT ![i] = IF @ = "deprovisioning" THEN "none"
                                                                ELSE @]
    BY <1>5, <2>1 DEF Gone
  <2>4. leavingBar' = leavingBar \ {i}
    BY <1>1, <2>3 DEF leavingBar
  <2> QED BY <1>1, <1>2, <1>3, <2>2, <2>4
             DEF Contract!Gone, requestsBar, serverBar, foundBar, givenBar,
                 soughtBar, leavingBar
<1> QED BY <1>4, <1>5 DEF DeleteCacheParameterGroup

\* Every other call of a Provision or poll.
LEMMA HiddenCall ==
  ASSUME Inv, NEW r \in Requests,
         \/ CreateCacheParameterGroup(r) \/ ModifyCacheParameterGroup(r)
         \/ CreateAuthTokenSecret(r) \/ UndoParameterGroup(r)
         \/ UndoAuthTokenSecret(r) \/ ProgressState(r)
  PROVE  UNCHANGED allBar
<1>1. /\ pc[r] # "idle" /\ pc[r] # "bindSecret"
      /\ pc[r] \notin DeprovisionCalls /\ UNCHANGED <<rg, promised>>
  BY DEF CreateCacheParameterGroup, ModifyCacheParameterGroup,
         CreateAuthTokenSecret, UndoParameterGroup, UndoAuthTokenSecret,
         ProgressState, awsVars, platformVars, DeprovisionCalls
<1>2. CallTypeOK /\ inst[r] \in Instances /\ opdata \in [Instances -> Actions]
  BY <1>1, InFlight
<1>3. serverBar' = serverBar
  BY <1>1 DEF serverBar
<1>4. leavingBar' = leavingBar
  <2>1. CASE UNCHANGED opdata
    BY <2>1 DEF leavingBar
  <2>2. CASE action[r] # "deprovisioning" /\ Gone(r)
    BY <1>2, <2>2 DEF Gone, leavingBar
  <2> QED BY <2>1, <2>2
     DEF CreateCacheParameterGroup, ModifyCacheParameterGroup,
         CreateAuthTokenSecret, UndoParameterGroup, UndoAuthTokenSecret,
         ProgressState, platformVars
<1>5. \/ \E t : \/ Goto(r, "modifyPG", t) \/ Goto(r, "createSecret", t)
                \/ Goto(r, "createRG", t) \/ Goto(r, "undoSecret", t)
                \/ Goto(r, "deletePG", t)
      \/ Fails(r)
      \/ Return(r, "gone", NoToken)
      \/ Return(r, ProviderStatesMapping(rg[inst[r]].status), NoToken)
  BY DEF CreateCacheParameterGroup, ModifyCacheParameterGroup,
         CreateAuthTokenSecret, UndoParameterGroup, UndoAuthTokenSecret,
         ProgressState, Gone
<1>6. ProviderStatesMapping(rg[inst[r]].status) # "credentials"
  BY DEF ProviderStatesMapping
<1>7. \A next \in {"modifyPG", "createSecret", "createRG", "undoSecret",
                   "deletePG"} :
        next \notin DeprovisionCalls /\ next # "bindSecret"
  BY DEF DeprovisionCalls
<1>8. UNCHANGED requestsBar
  BY <1>1, <1>2, <1>5, <1>6, <1>7, GotoHidden, FailsHidden, ReturnHidden
<1> QED BY <1>1, <1>3, <1>4, <1>8 DEF platformBar, allBar

\* The first call of a Bind finds the server, or the Bind ends.
LEMMA DescribeForCredentialsImplements ==
  ASSUME Inv, NEW r \in Requests, DescribeForCredentials(r),
         NEW i \in Instances, inst[r] = i
  PROVE  Contract!Find(r, i) \/ UNCHANGED allBar
<1>1. /\ pc[r] = "bindDescribe" /\ CallTypeOK
      /\ rg \in [Instances -> ReplicationGroups] /\ reply[r] = "none"
      /\ UNCHANGED <<rg, opdata, promised>>
  BY InFlight DEF DescribeForCredentials, awsVars, platformVars, CallTypeOK
<1>2. UNCHANGED serverBar /\ UNCHANGED platformBar
  BY <1>1 DEF serverBar, leavingBar, platformBar
<1>3. CASE Return(r, "dropped", NoToken) \/ Fails(r)
  BY <1>1, <1>2, <1>3, ReturnHidden, FailsHidden DEF allBar, DeprovisionCalls
<1>4. CASE Exists(rg[i]) /\ Goto(r, "bindSecret", rg[i].token)
  <2>1. rg[i].token # NoToken
    BY <1>1, <1>4, ConstantsDistinct DEF Exists, ReplicationGroups,
       NoReplicationGroup
  <2>2. foundBar' = [foundBar EXCEPT ![r] = rg[i].token]
    BY <1>1, <1>4 DEF foundBar, Goto, CallTypeOK
  <2>3. givenBar' = givenBar
    BY <1>1, <1>4 DEF givenBar, Goto, CallTypeOK
  <2>4. soughtBar' = soughtBar
    BY <1>1, <1>4 DEF soughtBar, Goto, CallTypeOK, DeprovisionCalls
  <2> QED BY <1>1, <1>2, <2>1, <2>2, <2>3, <2>4
             DEF Contract!Find, platformBar, serverBar, foundBar, givenBar,
                 soughtBar, leavingBar
<1> QED BY <1>3, <1>4 DEF DescribeForCredentials

\* The second call gives the password of the server found, by BindSeesItsToken.
LEMMA GetAuthTokenImplements ==
  ASSUME Inv, NEW r \in Requests, GetAuthToken(r)
  PROVE  Contract!Give(r) \/ Contract!GiveUp
<1>1. /\ pc[r] = "bindSecret" /\ CallTypeOK /\ inst[r] \in Instances
      /\ token[r] \in Tokens /\ reply[r] = "none"
      /\ UNCHANGED <<rg, opdata, promised>>
  BY InFlight DEF GetAuthToken, awsVars, platformVars, CallTypeOK
<1>2. UNCHANGED <<serverBar, leavingBar>>
  BY <1>1 DEF serverBar, leavingBar
<1>3. ASSUME NEW answer, NEW t, Return(r, answer, t)
      PROVE  /\ foundBar' = [foundBar EXCEPT ![r] = NoToken]
             /\ soughtBar' = soughtBar /\ soughtBar[r] = NoInstance
  <2>1. foundBar' = [foundBar EXCEPT ![r] = NoToken]
    BY <1>1, <1>3 DEF foundBar, Return, CallTypeOK
  <2>2. soughtBar' = soughtBar /\ soughtBar[r] = NoInstance
    BY <1>1, <1>3 DEF soughtBar, Return, CallTypeOK, DeprovisionCalls
  <2> QED BY <2>1, <2>2
<1>4. CASE /\ AcceptsGetSecretValue(secret[inst[r]])
           /\ Return(r, "credentials", secret[inst[r]].token)
  <2>1. secret[inst[r]].token = token[r]
    BY <1>1, <1>4 DEF AcceptsGetSecretValue, Inv, BindSeesItsToken, At
  <2>2. givenBar' = [givenBar EXCEPT ![r] = token[r]]
    BY <1>1, <1>4, <2>1 DEF givenBar, Return, CallTypeOK
  <2>3. foundBar[r] = token[r] /\ token[r] # NoToken
    BY <1>1, ConstantsDistinct DEF foundBar
  <2>4. /\ foundBar' = [foundBar EXCEPT ![r] = NoToken]
        /\ soughtBar' = soughtBar
    BY <1>3, <1>4
  <2> QED BY <1>1, <1>2, <2>2, <2>3, <2>4
             DEF Contract!Give, serverBar, foundBar, givenBar, soughtBar,
                 leavingBar
<1>5. CASE Fails(r)
  <2>1. /\ foundBar' = [foundBar EXCEPT ![r] = NoToken]
        /\ soughtBar' = soughtBar /\ soughtBar[r] = NoInstance
    BY <1>3, <1>5 DEF Fails
  <2>2. foundBar' = [q \in Requests |->
                        IF q \in {r} THEN NoToken ELSE foundBar[q]]
    BY <2>1 DEF foundBar
  <2>3. soughtBar' = [q \in Requests |->
                        IF q \in {r} THEN NoInstance ELSE soughtBar[q]]
    <3>1. soughtBar = [q \in Requests |-> soughtBar[q]]
      BY DEF soughtBar
    <3> QED BY <2>1, <3>1
  <2>4. givenBar' = givenBar
    BY <1>1, <1>5 DEF givenBar, Fails, Return, CallTypeOK
  <2>5. {r} \in SUBSET Requests
    OBVIOUS
  <2> QED BY <1>1, <1>2, <2>2, <2>3, <2>4, <2>5
             DEF Contract!GiveUp, serverBar, foundBar, givenBar, soughtBar,
                 leavingBar
<1> QED BY <1>4, <1>5 DEF GetAuthToken

\* When the broker dies, every request under way gives up.
LEMMA CrashImplements ==
  ASSUME CallTypeOK, Crash
  PROVE  Contract!GiveUp
<1>1. UNCHANGED <<serverBar, leavingBar, promised>>
  BY DEF serverBar, leavingBar, Crash, awsVars, platformVars
<1>2. foundBar' = [q \in Requests |->
                    IF q \in Requests THEN NoToken ELSE foundBar[q]]
  BY DEF foundBar, Crash
<1>3. soughtBar' = [q \in Requests |->
                    IF q \in Requests THEN NoInstance ELSE soughtBar[q]]
  BY DEF soughtBar, Crash, DeprovisionCalls
<1>4. givenBar' = givenBar
  BY DEF givenBar, Crash, CallTypeOK
<1>5. Requests \in SUBSET Requests
  OBVIOUS
<1> QED BY <1>1, <1>2, <1>3, <1>4, <1>5
           DEF Contract!GiveUp, serverBar, foundBar, givenBar, soughtBar,
               leavingBar

\* A group ends that was being deleted, which no promised one is.
LEMMA BackgroundImplements ==
  ASSUME Inv, NEW i \in Instances, Background(i)
  PROVE  Contract!Stop(i) \/ UNCHANGED allBar
<1>1. rg \in [Instances -> ReplicationGroups]
  BY DEF Inv, TypeOK, AwsTypeOK
<1>2. UNCHANGED requestsBar /\ UNCHANGED platformBar
  BY DEF Background, CreationEnds, Snapshot, DeletionEnds, PurgeSecret,
         callVars, platformVars, requestsBar, platformBar, foundBar, givenBar,
         soughtBar, leavingBar
<1>3. CASE DeletionEnds(i)
  <2>1. serverBar' = [serverBar EXCEPT ![i] = NoToken]
    BY <1>1, <1>3 DEF DeletionEnds, serverBar, NoReplicationGroup
  <2>2. i \notin promised
    BY <1>3 DEF DeletionEnds, Inv, PromiseKept
  <2> QED BY <1>2, <2>1, <2>2
             DEF Contract!Stop, requestsBar, platformBar, serverBar, foundBar,
                 givenBar, soughtBar, leavingBar
<1>4. CASE PurgeSecret(i)
  BY <1>2, <1>4 DEF PurgeSecret, serverBar, allBar
<1>5. CASE CreationEnds(i) \/ Snapshot(i)
  <2>1. PICK s \in Statuses : rg' = [rg EXCEPT ![i].status = s]
    BY <1>5 DEF CreationEnds, Snapshot, Statuses
  <2>2. Sets(rg', rg, i, [status |-> s, token |-> rg[i].token])
    BY <1>1, <1>5, <2>1, StatusSets DEF CreationEnds, Snapshot, Exists
  <2>3. serverBar' = serverBar
    BY <2>2 DEF serverBar, Sets
  <2> QED BY <1>2, <2>3 DEF allBar
<1> QED BY <1>3, <1>4, <1>5 DEF Background

-----------------------------------------------------------------------------
LEMMA ContractStep ==
  Inv /\ [Next]_vars => [Contract!ContractNext]_(Contract!contractVars)
<1> SUFFICES ASSUME Inv, [Next]_vars
             PROVE  Contract!ContractNext \/ UNCHANGED allBar
  BY DEF Contract!contractVars, allBar, requestsBar, platformBar, serverBar,
         foundBar, givenBar, soughtBar, leavingBar
<1>1. CallTypeOK
  BY DEF Inv, TypeOK
<1>2. ASSUME NEW r \in Requests, NEW i \in Instances, Begin(r, i)
      PROVE  Contract!ContractNext
  BY <1>1, <1>2, BeginImplements DEF Contract!ContractNext
<1>3. ASSUME NEW r \in Requests, Call(r)
      PROVE  Contract!ContractNext \/ UNCHANGED allBar
  <2>1. CASE \/ CreateReplicationGroup(r) \/ DescribeForCredentials(r)
             \/ DeleteCacheParameterGroup(r)
    <3>1. PICK i \in Instances : inst[r] = i
      BY <2>1, InFlight DEF CreateReplicationGroup, DescribeForCredentials,
         DeleteCacheParameterGroup
    <3> QED
      BY <2>1, <3>1, CreateReplicationGroupImplements,
         DescribeForCredentialsImplements, DeleteCacheParameterGroupImplements
      DEF Contract!ContractNext
  <2>2. CASE \/ DeleteReplicationGroup(r) \/ DeleteAuthTokenSecret(r)
             \/ GetAuthToken(r)
    BY <2>2, DeleteReplicationGroupImplements, DeleteAuthTokenSecretImplements,
       GetAuthTokenImplements DEF Contract!ContractNext
  <2> QED BY <1>3, <2>1, <2>2, HiddenCall DEF Call
<1>4. ASSUME NEW r \in Requests, ContextEnds(r)
      PROVE  UNCHANGED allBar
  BY <1>4 DEF ContextEnds, awsVars, platformVars, allBar, requestsBar,
     platformBar, serverBar, foundBar, givenBar, soughtBar, leavingBar
<1>5. CASE Crash
  BY <1>1, <1>5, CrashImplements DEF Contract!ContractNext
<1>6. ASSUME NEW i \in Instances, Background(i)
      PROVE  Contract!ContractNext \/ UNCHANGED allBar
  BY <1>6, BackgroundImplements DEF Contract!ContractNext
<1>7. CASE UNCHANGED vars
  BY <1>7 DEF vars, allBar, requestsBar, platformBar, serverBar, foundBar,
     givenBar, soughtBar, leavingBar
<1> QED BY <1>2, <1>3, <1>4, <1>5, <1>6, <1>7 DEF Next

(* For any interleaving of requests, crashes and lost answers: an accepted *)
(* instance keeps its server until its deletion is asked for, an accepted  *)
(* deletion is final until it is reported, reported only when true, and a  *)
(* Bind answers with the password of the server whose address it hands out *)
(* or with none.                                                           *)
THEOREM LifecycleKeepsContract == Spec => PlatformContract
  BY ContractInitially, ContractStep, Safety, PTL
     DEF Spec, PlatformContract, Contract!ContractSpec
=============================================================================
