--------------------------- MODULE BlackboxSuite ----------------------------
(***************************************************************************)
(* The black box tests as a client of the broker: the helpers under        *)
(* ci/helpers that create and destroy what the tests need in AWS and that  *)
(* call the broker, in the order in which BeforeSuite, the test with its   *)
(* deferred functions, AfterEach and AfterSuite of ci/blackbox call them.  *)
(*                                                                         *)
(* Every call can fail, applied or not, and every wait can time out; an    *)
(* expectation that is not met ends the function it stands in.  The broker *)
(* is what the other modules show of it: a Provision that was accepted has *)
(* created a group and its parameters, and a poll that says "gone" has     *)
(* deleted the parameters of a group that is gone.                         *)
(***************************************************************************)

\* instanceID, instanceIDWithParams and restoredInstanceID
Instances == {"plain", "params", "restored"}

VARIABLES
    subnetGroup,    \* does the cache subnet group exist
    securityGroup,  \* does the security group exist
    group,          \* group[i]: the replication group of instance i
    parameters,     \* the instances whose parameter group exists
    interfaces,     \* the instances with a network interface
    snapshot,       \* the snapshot of the first instance
    broker,         \* is the broker process running
    pc,             \* what the suite does next
    subnetName,     \* is elastiCacheSubnetGroupName set
    securityID,     \* is ec2SecurityGroupID set
    failed          \* has an expectation not been met

vars == <<subnetGroup, securityGroup, group, parameters, interfaces, snapshot,
          broker, pc, subnetName, securityID, failed>>

-----------------------------------------------------------------------------
(***************************************************************************)
(* The order of the steps.  Deferred functions run in the reverse of the   *)
(* order in which they were deferred.                                      *)
(***************************************************************************)
Then ==
    [createSubnetGroup |-> "createSecurityGroup",
     createSecurityGroup |-> "authorizeIngress",
     authorizeIngress |-> "startBroker",
     startBroker |-> "provisionPlain",
     provisionPlain |-> "provisionParams",
     provisionParams |-> "pollPlain",
     pollPlain |-> "pollParams",
     pollParams |-> "checks",
     checks |-> "createSnapshot",
     createSnapshot |-> "waitSnapshot",
     waitSnapshot |-> "provisionRestored",
     provisionRestored |-> "pollRestored",
     pollRestored |-> "checksRestored",
     checksRestored |-> "removeSnapshot",
     removeSnapshot |-> "deprovisionRestored",
     deprovisionRestored |-> "awaitRestored",
     awaitRestored |-> "unbind",
     unbind |-> "deprovisionPlain",
     deprovisionPlain |-> "deprovisionParams",
     deprovisionParams |-> "awaitPlain",
     awaitPlain |-> "awaitParams",
     awaitParams |-> "afterEach",
     afterEach |-> "destroySubnetGroup",
     destroySubnetGroup |-> "waitInterfaces",
     waitInterfaces |-> "destroySecurityGroup",
     destroySecurityGroup |-> "kill",
     kill |-> "done"]

Steps == DOMAIN Then

\* Where the suite goes on after a failure: with the functions that have been
\* deferred by then, or after the test, or with AfterSuite, which is not
\* resumed.
OnFailure ==
    [s \in Steps |->
        CASE s \in {"createSubnetGroup", "createSecurityGroup",
                    "authorizeIngress", "startBroker"}
                -> "destroySubnetGroup"
          [] s \in {"checks", "createSnapshot", "waitSnapshot",
                    "provisionRestored", "pollRestored",
                    "deprovisionRestored", "awaitRestored"} -> "unbind"
          [] s = "checksRestored" -> "removeSnapshot"
          [] s = "removeSnapshot" -> "deprovisionRestored"
          [] s = "unbind" -> "deprovisionPlain"
          [] s \in {"provisionPlain", "provisionParams", "pollPlain",
                    "pollParams", "deprovisionPlain", "deprovisionParams",
                    "awaitPlain", "awaitParams"} -> "afterEach"
          [] OTHER -> "done"]

Passes == pc' = Then[pc] /\ UNCHANGED failed

Fails == pc' = OnFailure[pc] /\ failed' = TRUE

-----------------------------------------------------------------------------
Init ==
    /\ subnetGroup = FALSE /\ securityGroup = FALSE /\ broker = FALSE
    /\ group = [i \in Instances |-> "none"]
    /\ parameters = {} /\ interfaces = {} /\ snapshot = "none"
    /\ pc = "createSubnetGroup"
    /\ subnetName = FALSE /\ securityID = FALSE /\ failed = FALSE

\* Mutant: the name is assigned to a variable of BeforeSuite.
CreateSubnetGroupShadowed ==
    /\ pc = "createSubnetGroup"
    /\ subnetGroup' = TRUE /\ Passes
    /\ UNCHANGED <<securityGroup, group, parameters, interfaces, snapshot,
                   broker, subnetName, securityID>>

CreateSubnetGroup ==
    /\ pc = "createSubnetGroup"
    /\ \/ subnetGroup' = TRUE /\ subnetName' = TRUE /\ Passes
       \/ /\ subnetGroup' \in BOOLEAN /\ Fails
          /\ UNCHANGED subnetName
    /\ UNCHANGED <<securityGroup, group, parameters, interfaces, snapshot,
                   broker, securityID>>

CreateSecurityGroup ==
    /\ pc = "createSecurityGroup"
    /\ \/ securityGroup' = TRUE /\ Passes
       \/ securityGroup' \in BOOLEAN /\ Fails
    /\ UNCHANGED <<subnetGroup, group, parameters, interfaces, snapshot,
                   broker, subnetName, securityID>>

\* The id of the group is only returned once traffic to it is allowed.
AuthorizeSecurityGroupIngress ==
    /\ pc = "authorizeIngress"
    /\ \/ securityID' = TRUE /\ Passes
       \/ Fails /\ UNCHANGED securityID
    /\ UNCHANGED <<subnetGroup, securityGroup, group, parameters, interfaces,
                   snapshot, broker, subnetName>>

\* A file that could not be written is noticed when the broker does not start.
WriteCustomConfig ==
    /\ pc = "startBroker"
    /\ \/ broker' = TRUE /\ Passes
       \/ broker' \in BOOLEAN /\ Fails
    /\ UNCHANGED <<subnetGroup, securityGroup, group, parameters, interfaces,
                   snapshot, subnetName, securityID>>

-----------------------------------------------------------------------------
(***************************************************************************)
(* The test.                                                               *)
(***************************************************************************)

\* A Provision that fails may have left any of its resources.
ProvisionInstance(i, step) ==
    /\ pc = step
    /\ \/ /\ group' = [group EXCEPT ![i] = "creating"]
          /\ parameters' = parameters \cup {i}
          /\ Passes \/ Fails
       \/ /\ parameters' \in {parameters, parameters \cup {i}}
          /\ UNCHANGED group /\ Fails
    /\ UNCHANGED <<subnetGroup, securityGroup, interfaces, snapshot, broker,
                   subnetName, securityID>>

\* pollForOperationCompletion until the broker says "succeeded".
PollProvision(i, step) ==
    /\ pc = step
    /\ (group[i] = "available" /\ Passes) \/ Fails
    /\ UNCHANGED <<subnetGroup, securityGroup, group, parameters, interfaces,
                   snapshot, broker, subnetName, securityID>>

\* Reads of tags and parameters, Update, Bind and Unbind.
Checks(step) ==
    /\ pc = step
    /\ Passes \/ Fails
    /\ UNCHANGED <<subnetGroup, securityGroup, group, parameters, interfaces,
                   snapshot, broker, subnetName, securityID>>

CreateSnapshot ==
    /\ pc = "createSnapshot"
    /\ \/ snapshot' = "creating" /\ (Passes \/ Fails)
       \/ UNCHANGED snapshot /\ Fails
    /\ UNCHANGED <<subnetGroup, securityGroup, group, parameters, interfaces,
                   broker, subnetName, securityID>>

WaitSnapshot ==
    /\ pc = "waitSnapshot"
    /\ (snapshot = "available" /\ Passes) \/ Fails
    /\ UNCHANGED <<subnetGroup, securityGroup, group, parameters, interfaces,
                   snapshot, broker, subnetName, securityID>>

RemoveSnapshot ==
    /\ pc = "removeSnapshot"
    /\ \/ snapshot' = "deleting" /\ (Passes \/ Fails)
       \/ UNCHANGED snapshot /\ Fails
    /\ UNCHANGED <<subnetGroup, securityGroup, group, parameters, interfaces,
                   broker, subnetName, securityID>>

DeprovisionInstance(i, step) ==
    /\ pc = step
    /\ \/ group' = [group EXCEPT ![i] = "deleting"] /\ (Passes \/ Fails)
       \/ UNCHANGED group /\ Fails
    /\ UNCHANGED <<subnetGroup, securityGroup, parameters, interfaces,
                   snapshot, broker, subnetName, securityID>>

\* Mutant: a poll that fails is taken for the end of the instance.
PollDeprovisionAnyAnswer(i, step) ==
    /\ pc = step
    /\ Passes
    /\ UNCHANGED <<subnetGroup, securityGroup, group, parameters, interfaces,
                   snapshot, broker, subnetName, securityID>>

PollDeprovision(i, step) ==
    /\ pc = step
    /\ \/ /\ group[i] = "none" /\ parameters' = parameters \ {i}
          /\ Passes \/ Fails
       \/ UNCHANGED parameters /\ Fails
    /\ UNCHANGED <<subnetGroup, securityGroup, group, interfaces, snapshot,
                   broker, subnetName, securityID>>

\* AfterEach, for two of the instances: errors are ignored, AWS refuses while
\* the replication group exists.
DestroyParameterGroup ==
    /\ pc = "afterEach"
    /\ \E gone \in SUBSET (parameters \cap {"plain", "params"}) :
        /\ \A i \in gone : group[i] = "none"
        /\ parameters' = parameters \ gone
    /\ Passes
    /\ UNCHANGED <<subnetGroup, securityGroup, group, interfaces, snapshot,
                   broker, subnetName, securityID>>

-----------------------------------------------------------------------------
(***************************************************************************)
(* AfterSuite.                                                             *)
(***************************************************************************)
InUse == \E i \in Instances : group[i] # "none"

\* Mutant: the error is not looked at.
DestroySubnetGroupIgnored ==
    /\ pc = "destroySubnetGroup"
    /\ (~InUse /\ subnetGroup' = FALSE) \/ UNCHANGED subnetGroup
    /\ Passes
    /\ UNCHANGED <<securityGroup, group, parameters, interfaces, snapshot,
                   broker, subnetName, securityID>>

\* AWS refuses to delete a subnet group with clusters in it.
DestroySubnetGroup ==
    /\ pc = "destroySubnetGroup"
    /\ \/ ~subnetName /\ UNCHANGED subnetGroup /\ Passes
       \/ /\ subnetName /\ ~InUse /\ subnetGroup' = FALSE
          /\ Passes \/ Fails
       \/ subnetName /\ UNCHANGED subnetGroup /\ Fails
    /\ UNCHANGED <<securityGroup, group, parameters, interfaces, snapshot,
                   broker, subnetName, securityID>>

\* Without the id of the security group the count fails.
CountSGAssociatedInterfaces ==
    /\ pc = "waitInterfaces"
    /\ (securityID /\ interfaces = {} /\ Passes) \/ Fails
    /\ UNCHANGED <<subnetGroup, securityGroup, group, parameters, interfaces,
                   snapshot, broker, subnetName, securityID>>

DestroySecurityGroup ==
    /\ pc = "destroySecurityGroup"
    /\ \/ interfaces = {} /\ securityGroup' = FALSE /\ (Passes \/ Fails)
       \/ UNCHANGED securityGroup /\ Fails
    /\ UNCHANGED <<subnetGroup, group, parameters, interfaces, snapshot,
                   broker, subnetName, securityID>>

Kill ==
    /\ pc = "kill"
    /\ broker' = FALSE /\ Passes
    /\ UNCHANGED <<subnetGroup, securityGroup, group, parameters, interfaces,
                   snapshot, subnetName, securityID>>

-----------------------------------------------------------------------------
(***************************************************************************)
(* What AWS does by itself.                                                *)
(***************************************************************************)
GroupChanges(i) ==
    /\ group[i] \in {"creating", "deleting"}
    /\ group' = [group EXCEPT ![i] =
                    IF @ = "creating" THEN "available" ELSE "none"]
    /\ UNCHANGED <<subnetGroup, securityGroup, parameters, interfaces,
                   snapshot, broker, pc, subnetName, securityID, failed>>

\* An interface comes after its group and goes after it.
InterfaceChanges(i) ==
    /\ \/ /\ group[i] \in {"creating", "available"} /\ i \notin interfaces
          /\ interfaces' = interfaces \cup {i}
       \/ /\ group[i] = "none" /\ i \in interfaces
          /\ interfaces' = interfaces \ {i}
    /\ UNCHANGED <<subnetGroup, securityGroup, group, parameters, snapshot,
                   broker, pc, subnetName, securityID, failed>>

SnapshotChanges ==
    /\ snapshot \in {"creating", "deleting"}
    /\ snapshot' = IF snapshot = "creating" THEN "available" ELSE "none"
    /\ UNCHANGED <<subnetGroup, securityGroup, group, parameters, interfaces,
                   broker, pc, subnetName, securityID, failed>>

-----------------------------------------------------------------------------
Suite ==
    \/ CreateSubnetGroup \/ CreateSecurityGroup
    \/ AuthorizeSecurityGroupIngress \/ WriteCustomConfig
    \/ \E i \in Instances :
        LET steps == CASE i = "plain" ->
                        <<"provisionPlain", "pollPlain", "deprovisionPlain",
                          "awaitPlain">>
                       [] i = "params" ->
                        <<"provisionParams", "pollParams",
                          "deprovisionParams", "awaitParams">>
                       [] i = "restored" ->
                        <<"provisionRestored", "pollRestored",
                          "deprovisionRestored", "awaitRestored">>
        IN \/ ProvisionInstance(i, steps[1]) \/ PollProvision(i, steps[2])
           \/ DeprovisionInstance(i, steps[3]) \/ PollDeprovision(i, steps[4])
    \/ \E s \in {"checks", "checksRestored", "unbind"} : Checks(s)
    \/ CreateSnapshot \/ WaitSnapshot \/ RemoveSnapshot
    \/ DestroyParameterGroup
    \/ DestroySubnetGroup \/ CountSGAssociatedInterfaces
    \/ DestroySecurityGroup \/ Kill

Aws ==
    \/ \E i \in Instances : GroupChanges(i) \/ InterfaceChanges(i)
    \/ SnapshotChanges

Done == pc = "done" /\ UNCHANGED vars

Next == Suite \/ Aws \/ Done

Spec == Init /\ [][Next]_vars

-----------------------------------------------------------------------------
(***************************************************************************)
(* Properties.                                                             *)
(***************************************************************************)

(* Every variable holds a value of its kind; a name the suite remembers is *)
(* that of something it created, the security group after the subnet group.*)
TypeOK ==
    /\ subnetGroup \in BOOLEAN /\ securityGroup \in BOOLEAN
    /\ broker \in BOOLEAN /\ subnetName \in BOOLEAN
    /\ securityID \in BOOLEAN /\ failed \in BOOLEAN
    /\ group \in [Instances -> {"none", "creating", "available", "deleting"}]
    /\ parameters \subseteq Instances /\ interfaces \subseteq Instances
    /\ snapshot \in {"none", "creating", "available", "deleting"}
    /\ pc \in Steps \cup {"done"}
    /\ securityID => subnetName

(* A suite that passes leaves nothing in AWS and no broker behind it: no   *)
(* subnet or security group, of no instance a replication group, a         *)
(* parameter group or an interface, and no snapshot that nobody has asked  *)
(* to delete.                                                              *)
PassedLeavesNothing ==
    pc = "done" /\ ~failed =>
        /\ ~subnetGroup /\ ~securityGroup /\ ~broker
        /\ parameters = {} /\ interfaces = {} /\ ~InUse
        /\ snapshot \in {"deleting", "none"}

(* When AfterSuite has counted no more interfaces and goes on to delete    *)
(* the security group, none can come back, also when the test has failed   *)
(* and an instance nobody knows of is being created: for the subnet group  *)
(* was deleted first, which AWS refuses while an instance is in it.        *)
NoInterfaceReturns ==
    pc \in {"destroySecurityGroup", "kill"} => interfaces = {} /\ ~InUse

-----------------------------------------------------------------------------
(***************************************************************************)
(* The inductive invariant: what each step of the suite has behind it.     *)
(***************************************************************************)
RemovalOfSecurityGroup == {"destroySecurityGroup", "kill", "done"}
RemovalOfInterfaces == RemovalOfSecurityGroup \cup {"waitInterfaces"}
AfterPolls == RemovalOfInterfaces \cup {"afterEach", "destroySubnetGroup"}
AfterRestored ==
    AfterPolls \cup {"unbind", "deprovisionPlain", "deprovisionParams",
                     "awaitPlain", "awaitParams"}

\* The steps at which a passing suite has seen the end of instance i.
After(i) ==
    CASE i = "restored" -> AfterRestored
      [] i = "plain" -> AfterPolls \cup {"awaitParams"}
      [] i = "params" -> AfterPolls

\* With the id of the security group AfterSuite also has the name of the subnet
\* group, and gets past its deletion only when no instance is left in it.
NoInstanceLeft ==
    pc \in RemovalOfInterfaces \ {"done"} /\ securityID => ~InUse

\* While nothing has failed the suite knows the names of what it has created;
\* BeforeSuite ends with its first failure.
NamesKnown ==
    /\ pc \in {"createSecurityGroup", "authorizeIngress"} => subnetName
    /\ ~failed =>
        /\ pc # "createSubnetGroup" => subnetName
        /\ pc \notin {"createSubnetGroup", "createSecurityGroup",
                      "authorizeIngress"} => securityID

\* An instance whose end was seen does not come back.
EndsSeen ==
    ~failed => \A i \in Instances :
        pc \in After(i) => group[i] = "none" /\ i \notin parameters

\* Each removal that passed has removed something for good.
RemovalsDone ==
    ~failed =>
        /\ pc \in AfterRestored \cup {"deprovisionRestored", "awaitRestored"}
            => snapshot \in {"deleting", "none"}
        /\ pc \in RemovalOfInterfaces => ~subnetGroup
        /\ pc \in RemovalOfSecurityGroup => interfaces = {}
        /\ pc \in {"kill", "done"} => ~securityGroup
        /\ pc = "done" => ~broker

(* At each step of the suite, what the steps before it, of which any may   *)
(* have failed with or without an effect, leave possible in AWS.           *)
Inv ==
    /\ TypeOK
    /\ NoInterfaceReturns
    /\ NoInstanceLeft
    /\ NamesKnown
    /\ EndsSeen
    /\ RemovalsDone

=============================================================================
