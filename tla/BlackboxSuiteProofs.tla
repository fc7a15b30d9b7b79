------------------------ MODULE BlackboxSuiteProofs -------------------------
(***************************************************************************)
(* Machine-checked proofs about BlackboxSuite: what each step of the black *)
(* box tests has behind it, for every failure of every call.               *)
(***************************************************************************)
EXTENDS BlackboxSuite, TLAPS

-----------------------------------------------------------------------------
(***************************************************************************)
(* The order of the steps.                                                 *)
(***************************************************************************)
LEMMA ThenIs ==
  /\ Then["createSubnetGroup"] = "createSecurityGroup"
  /\ Then["createSecurityGroup"] = "authorizeIngress"
  /\ Then["authorizeIngress"] = "startBroker"
  /\ Then["startBroker"] = "provisionPlain"
  /\ Then["provisionPlain"] = "provisionParams"
  /\ Then["provisionParams"] = "pollPlain"
  /\ Then["pollPlain"] = "pollParams"
  /\ Then["pollParams"] = "checks"
  /\ Then["checks"] = "createSnapshot"
  /\ Then["createSnapshot"] = "waitSnapshot"
  /\ Then["waitSnapshot"] = "provisionRestored"
  /\ Then["provisionRestored"] = "pollRestored"
  /\ Then["pollRestored"] = "checksRestored"
  /\ Then["checksRestored"] = "removeSnapshot"
  /\ Then["removeSnapshot"] = "deprovisionRestored"
  /\ Then["deprovisionRestored"] = "awaitRestored"
  /\ Then["awaitRestored"] = "unbind"
  /\ Then["unbind"] = "deprovisionPlain"
  /\ Then["deprovisionPlain"] = "deprovisionParams"
  /\ Then["deprovisionParams"] = "awaitPlain"
  /\ Then["awaitPlain"] = "awaitParams"
  /\ Then["awaitParams"] = "afterEach"
  /\ Then["afterEach"] = "destroySubnetGroup"
  /\ Then["destroySubnetGroup"] = "waitInterfaces"
  /\ Then["waitInterfaces"] = "destroySecurityGroup"
  /\ Then["destroySecurityGroup"] = "kill"
  /\ Then["kill"] = "done"
  BY DEF Then

LEMMA StepsAre ==
  Steps = {"createSubnetGroup", "createSecurityGroup", "authorizeIngress",
           "startBroker", "provisionPlain", "provisionParams", "pollPlain",
           "pollParams", "checks", "createSnapshot", "waitSnapshot",
           "provisionRestored", "pollRestored", "checksRestored",
           "removeSnapshot", "deprovisionRestored", "awaitRestored", "unbind",
           "deprovisionPlain", "deprovisionParams", "awaitPlain",
           "awaitParams", "afterEach", "destroySubnetGroup", "waitInterfaces",
           "destroySecurityGroup", "kill"}
  BY DEF Steps, Then

LEMMA OnFailureIs ==
  ASSUME NEW s \in Steps
  PROVE  OnFailure[s] \in {"destroySubnetGroup", "unbind", "removeSnapshot",
                           "deprovisionRestored", "deprovisionPlain",
                           "afterEach", "done"}
  BY DEF OnFailure

LEMMA ThenType == \A s \in Steps : Then[s] \in Steps \cup {"done"}
  BY StepsAre, ThenIs

LEMMA Moves ==
  ASSUME TypeOK, pc \in Steps, Passes \/ Fails
  PROVE  pc' \in Steps \cup {"done"} /\ failed' \in BOOLEAN
<1>1. CASE Passes
  BY <1>1, ThenType DEF Passes, TypeOK
<1>2. CASE Fails
  <2>1. pc' \in Steps \cup {"done"}
    BY <1>2, OnFailureIs, StepsAre DEF Fails
  <2>2. failed' \in BOOLEAN
    BY <1>2 DEF Fails
  <2> QED BY <2>1, <2>2
<1> QED BY <1>1, <1>2

\* The calls of the test on an instance, one by one.
LEMMA InstanceCalls ==
  ASSUME Suite
  PROVE  \/ CreateSubnetGroup \/ CreateSecurityGroup
         \/ AuthorizeSecurityGroupIngress \/ WriteCustomConfig
         \/ ProvisionInstance("plain", "provisionPlain")
         \/ ProvisionInstance("params", "provisionParams")
         \/ ProvisionInstance("restored", "provisionRestored")
         \/ PollProvision("plain", "pollPlain")
         \/ PollProvision("params", "pollParams")
         \/ PollProvision("restored", "pollRestored")
         \/ DeprovisionInstance("plain", "deprovisionPlain")
         \/ DeprovisionInstance("params", "deprovisionParams")
         \/ DeprovisionInstance("restored", "deprovisionRestored")
         \/ PollDeprovision("plain", "awaitPlain")
         \/ PollDeprovision("params", "awaitParams")
         \/ PollDeprovision("restored", "awaitRestored")
         \/ Checks("checks") \/ Checks("checksRestored") \/ Checks("unbind")
         \/ CreateSnapshot \/ WaitSnapshot \/ RemoveSnapshot
         \/ DestroyParameterGroup \/ DestroySubnetGroup
         \/ CountSGAssociatedInterfaces \/ DestroySecurityGroup \/ Kill
  BY DEF Suite, Instances

-----------------------------------------------------------------------------
(***************************************************************************)
(* Type correctness.                                                       *)
(***************************************************************************)
States == {"none", "creating", "available", "deleting"}

LEMMA TypeInit == Init => TypeOK
<1> SUFFICES ASSUME Init PROVE TypeOK
  OBVIOUS
<1>1. /\ subnetGroup \in BOOLEAN /\ securityGroup \in BOOLEAN
      /\ broker \in BOOLEAN /\ subnetName \in BOOLEAN
      /\ securityID \in BOOLEAN /\ failed \in BOOLEAN
      /\ securityID => subnetName
  BY Zenon DEF Init
<1>2. /\ group \in [Instances -> States]
      /\ parameters \subseteq Instances /\ interfaces \subseteq Instances
      /\ snapshot \in States
  BY DEF Init, States
<1>3. pc \in Steps \cup {"done"}
  BY StepsAre DEF Init
<1> QED BY <1>1, <1>2, <1>3 DEF TypeOK, States

\* BeforeSuite.
LEMMA BeforeSuiteType ==
  ASSUME TypeOK, NamesKnown,
         \/ CreateSubnetGroup \/ CreateSecurityGroup
         \/ AuthorizeSecurityGroupIngress \/ WriteCustomConfig
  PROVE  TypeOK'
<1>1. pc' \in Steps \cup {"done"} /\ failed' \in BOOLEAN
  BY Moves, StepsAre DEF CreateSubnetGroup, CreateSecurityGroup,
     AuthorizeSecurityGroupIngress, WriteCustomConfig
<1>2. UNCHANGED <<group, parameters, interfaces, snapshot>>
  BY DEF CreateSubnetGroup, CreateSecurityGroup,
     AuthorizeSecurityGroupIngress, WriteCustomConfig
<1>3. /\ subnetGroup' \in BOOLEAN /\ securityGroup' \in BOOLEAN
      /\ broker' \in BOOLEAN /\ subnetName' \in BOOLEAN
      /\ securityID' \in BOOLEAN
  BY DEF TypeOK, CreateSubnetGroup, CreateSecurityGroup,
     AuthorizeSecurityGroupIngress, WriteCustomConfig
<1>4. (securityID => subnetName)'
  BY DEF TypeOK, NamesKnown, CreateSubnetGroup, CreateSecurityGroup,
     AuthorizeSecurityGroupIngress, WriteCustomConfig
<1> QED BY <1>1, <1>2, <1>3, <1>4 DEF TypeOK

\* A step of the test or of AfterSuite: what it does not change.
LEMMA TestType ==
  ASSUME TypeOK, pc \in Steps, Passes \/ Fails,
         group' \in [Instances -> States], parameters' \subseteq Instances,
         snapshot' \in States, subnetGroup' \in BOOLEAN,
         securityGroup' \in BOOLEAN, broker' \in BOOLEAN,
         UNCHANGED <<interfaces, subnetName, securityID>>
  PROVE  TypeOK'
  BY Moves DEF TypeOK, States

LEMMA InstanceType ==
  ASSUME TypeOK, NEW i \in Instances, NEW s \in Steps,
         \/ ProvisionInstance(i, s) \/ PollProvision(i, s)
         \/ DeprovisionInstance(i, s) \/ PollDeprovision(i, s) \/ Checks(s)
  PROVE  TypeOK'
<1>1. pc \in Steps /\ (Passes \/ Fails)
  BY DEF ProvisionInstance, PollProvision, DeprovisionInstance,
         PollDeprovision, Checks
<1>2. UNCHANGED <<subnetGroup, securityGroup, broker, interfaces, snapshot,
                  subnetName, securityID>>
  BY DEF ProvisionInstance, PollProvision, DeprovisionInstance,
         PollDeprovision, Checks
<1>3. group' \in [Instances -> States] /\ parameters' \subseteq Instances
  BY DEF ProvisionInstance, PollProvision, DeprovisionInstance,
         PollDeprovision, Checks, TypeOK, States
<1> QED BY <1>1, <1>2, <1>3, TestType DEF TypeOK, States

LEMMA SnapshotAndRemovalType ==
  ASSUME TypeOK,
         \/ CreateSnapshot \/ WaitSnapshot \/ RemoveSnapshot
         \/ DestroyParameterGroup \/ DestroySubnetGroup
         \/ CountSGAssociatedInterfaces \/ DestroySecurityGroup \/ Kill
  PROVE  TypeOK'
<1> USE DEF CreateSnapshot, WaitSnapshot, RemoveSnapshot,
        DestroyParameterGroup, DestroySubnetGroup,
        CountSGAssociatedInterfaces, DestroySecurityGroup, Kill
<1>1. pc \in Steps /\ (Passes \/ Fails)
  BY StepsAre
<1>2. UNCHANGED <<group, interfaces, subnetName, securityID>>
  OBVIOUS
<1>3. /\ subnetGroup' \in BOOLEAN /\ securityGroup' \in BOOLEAN
      /\ broker' \in BOOLEAN
  BY DEF TypeOK
<1>4. parameters' \subseteq Instances /\ snapshot' \in States
  BY DEF TypeOK, States
<1> QED BY <1>1, <1>2, <1>3, <1>4, TestType DEF TypeOK, States

LEMMA AwsType ==
  ASSUME TypeOK, Aws
  PROVE  TypeOK'
  BY DEF TypeOK, Aws, GroupChanges, InterfaceChanges, SnapshotChanges

-----------------------------------------------------------------------------
(***************************************************************************)
(* The inductive invariant without its types.                              *)
(***************************************************************************)
SafeState ==
    NoInterfaceReturns /\ NoInstanceLeft /\ NamesKnown /\ EndsSeen
        /\ RemovalsDone

LEMMA AfterIs ==
  /\ After("restored") = AfterRestored
  /\ After("plain") = AfterPolls \cup {"awaitParams"}
  /\ After("params") = AfterPolls
  BY DEF After

\* A failed expectation ends with what still has to hold: the steps it goes on
\* with are before the removal of the interfaces, or the end.
LEMMA FailsSafe ==
  ASSUME TypeOK, pc \in Steps, Fails
  PROVE  SafeState'
<1>1. /\ pc' \in {"destroySubnetGroup", "unbind", "removeSnapshot",
                  "deprovisionRestored", "deprovisionPlain", "afterEach",
                  "done"}
      /\ failed' = TRUE
  BY OnFailureIs DEF Fails
<1> QED BY <1>1 DEF SafeState, NoInterfaceReturns, NoInstanceLeft, NamesKnown,
           EndsSeen, RemovalsDone, RemovalOfInterfaces, RemovalOfSecurityGroup

\* BeforeSuite goes on: nothing has been removed, the names are known.
LEMMA BeforeSuitePasses ==
  ASSUME TypeOK, NamesKnown, ~Fails,
         \/ CreateSubnetGroup \/ CreateSecurityGroup
         \/ AuthorizeSecurityGroupIngress \/ WriteCustomConfig
  PROVE  SafeState'
<1> USE DEF CreateSubnetGroup, CreateSecurityGroup,
        AuthorizeSecurityGroupIngress, WriteCustomConfig
<1>1. Passes
  OBVIOUS
<1>2. pc' \in {"createSecurityGroup", "authorizeIngress", "startBroker",
               "provisionPlain"}
  BY <1>1, ThenIs DEF Passes
<1>3. NamesKnown'
  BY <1>1, <1>2, ThenIs DEF Passes, NamesKnown
<1>4. NoInterfaceReturns' /\ NoInstanceLeft' /\ RemovalsDone'
  BY <1>2 DEF NoInterfaceReturns, NoInstanceLeft, RemovalsDone,
     RemovalOfInterfaces, RemovalOfSecurityGroup, AfterRestored, AfterPolls
<1>5. EndsSeen'
  BY <1>2, AfterIs DEF EndsSeen, RemovalOfInterfaces,
     RemovalOfSecurityGroup, AfterRestored, AfterPolls, Instances
<1> QED BY <1>3, <1>4, <1>5 DEF SafeState

\* The steps of the test, its deferred functions and AfterEach.
TestSteps ==
    Steps \ {"createSubnetGroup", "createSecurityGroup", "authorizeIngress",
             "startBroker", "destroySubnetGroup", "waitInterfaces",
             "destroySecurityGroup", "kill"}

\* A step of the test does not end the use of a name, and what it has behind
\* it are the ends of instances and of the snapshot.
LEMMA TestPasses ==
  ASSUME NamesKnown, pc \in TestSteps, Passes,
         UNCHANGED <<subnetName, securityID>>
  PROVE  NoInterfaceReturns' /\ NoInstanceLeft' /\ NamesKnown'
<1>1. pc' \in (TestSteps \cup {"destroySubnetGroup"}) /\ UNCHANGED failed
  BY ThenIs, StepsAre DEF Passes, TestSteps
<1> QED BY <1>1 DEF TestSteps, NoInterfaceReturns, NoInstanceLeft, NamesKnown,
           RemovalOfInterfaces, RemovalOfSecurityGroup

\* Where a step of the test is the first to have the end of i behind it.
LEMMA TestOrder ==
  ASSUME pc \in TestSteps, Passes
  PROVE  /\ pc' \in After("plain") => pc \in After("plain") \/ pc = "awaitPlain"
         /\ pc' \in After("params")
                => pc \in After("params") \/ pc = "awaitParams"
         /\ pc' \in After("restored")
                => pc \in After("restored") \/ pc = "awaitRestored"
  BY ThenIs, StepsAre, AfterIs DEF Passes, TestSteps, RemovalOfInterfaces,
     RemovalOfSecurityGroup, AfterRestored, AfterPolls

\* The snapshot.
AfterSnapshot == AfterRestored \cup {"deprovisionRestored", "awaitRestored"}

LEMMA SnapshotPasses ==
  ASSUME RemovalsDone, pc \in TestSteps, Passes,
         \/ pc # "removeSnapshot" /\ UNCHANGED snapshot
         \/ pc \notin AfterSnapshot /\ pc # "removeSnapshot"
         \/ pc = "removeSnapshot" /\ snapshot' = "deleting"
  PROVE  RemovalsDone'
<1>1. pc' \in (TestSteps \cup {"destroySubnetGroup"}) /\ UNCHANGED failed
  BY ThenIs, StepsAre DEF Passes, TestSteps
<1>2. pc' \in AfterSnapshot => pc \in AfterSnapshot \/ pc = "removeSnapshot"
  BY ThenIs, StepsAre DEF Passes, TestSteps, RemovalOfInterfaces,
     RemovalOfSecurityGroup, AfterRestored, AfterPolls, AfterSnapshot
<1>3. (~failed /\ pc \in AfterSnapshot => snapshot \in {"deleting", "none"})'
  BY <1>1, <1>2 DEF RemovalsDone, AfterSnapshot
<1> QED
  BY <1>1, <1>3, StepsAre
  DEF TestSteps, RemovalsDone, RemovalOfInterfaces, RemovalOfSecurityGroup,
      AfterSnapshot

\* A step of the test that changes no instance and no snapshot.
LEMMA QuietPasses ==
  ASSUME SafeState, pc \in TestSteps, Passes,
         pc \notin {"awaitPlain", "awaitParams", "awaitRestored",
                    "removeSnapshot"},
         UNCHANGED <<group, parameters, snapshot, subnetName, securityID>>
  PROVE  SafeState'
<1>1. EndsSeen'
  BY TestOrder DEF SafeState, EndsSeen, Instances, Passes
<1> QED BY <1>1, TestPasses, SnapshotPasses DEF SafeState

LEMMA ProvisionPasses ==
  ASSUME SafeState, TypeOK, ~Fails,
         \/ ProvisionInstance("plain", "provisionPlain")
         \/ ProvisionInstance("params", "provisionParams")
         \/ ProvisionInstance("restored", "provisionRestored")
  PROVE  SafeState'
<1>1. /\ Passes /\ pc \in TestSteps
      /\ pc \in {"provisionPlain", "provisionParams", "provisionRestored"}
      /\ UNCHANGED <<snapshot, subnetName, securityID>>
  BY StepsAre DEF ProvisionInstance, TestSteps
<1>2. pc' \in {"provisionParams", "pollPlain", "pollRestored"}
  BY <1>1, ThenIs DEF Passes
<1>3. EndsSeen'
  BY <1>2, AfterIs DEF EndsSeen, RemovalOfInterfaces,
     RemovalOfSecurityGroup, AfterRestored, AfterPolls, Instances
<1> QED BY <1>1, <1>3, TestPasses, SnapshotPasses DEF SafeState

LEMMA DeprovisionPasses ==
  ASSUME SafeState, TypeOK, ~Fails, NEW i \in Instances, NEW s,
         <<i, s>> \in {<<"plain", "deprovisionPlain">>,
                       <<"params", "deprovisionParams">>,
                       <<"restored", "deprovisionRestored">>},
         DeprovisionInstance(i, s)
  PROVE  SafeState'
<1>1. /\ Passes /\ pc = s /\ pc \in TestSteps
      /\ UNCHANGED <<parameters, snapshot, subnetName, securityID>>
      /\ group' = [group EXCEPT ![i] = "deleting"]
  BY StepsAre DEF DeprovisionInstance, TestSteps
<1>2. pc' \notin After(i)
  BY <1>1, ThenIs, AfterIs DEF Passes, RemovalOfInterfaces,
     RemovalOfSecurityGroup, AfterRestored, AfterPolls
<1>3. EndsSeen'
  <2>1. pc \notin {"awaitPlain", "awaitParams", "awaitRestored"}
    BY <1>1
  <2>2. \A j \in Instances : pc' \in After(j) => j # i /\ pc \in After(j)
    BY <1>1, <1>2, <2>1, TestOrder DEF Instances
  <2> QED BY <1>1, <2>2 DEF SafeState, EndsSeen, Passes, TypeOK
<1> QED BY <1>1, <1>3, TestPasses, SnapshotPasses DEF SafeState

LEMMA PollDeprovisionPasses ==
  ASSUME SafeState, TypeOK, ~Fails, NEW i \in Instances, NEW s,
         <<i, s>> \in {<<"plain", "awaitPlain">>, <<"params", "awaitParams">>,
                       <<"restored", "awaitRestored">>},
         PollDeprovision(i, s)
  PROVE  SafeState'
<1>1. /\ Passes /\ pc = s /\ pc \in TestSteps /\ group[i] = "none"
      /\ parameters' = parameters \ {i}
      /\ UNCHANGED <<group, snapshot, subnetName, securityID>>
  BY StepsAre DEF PollDeprovision, TestSteps
<1>2. \A j \in Instances : pc' \in After(j) => j = i \/ pc \in After(j)
  BY <1>1, TestOrder DEF Instances
<1>3. EndsSeen'
  BY <1>1, <1>2 DEF SafeState, EndsSeen, Passes
<1> QED BY <1>1, <1>3, TestPasses, SnapshotPasses DEF SafeState

\* The rest of the test: polls of a creation, checks, the snapshot, AfterEach.
LEMMA OtherTestPasses ==
  ASSUME SafeState, TypeOK, ~Fails,
         \/ PollProvision("plain", "pollPlain")
         \/ PollProvision("params", "pollParams")
         \/ PollProvision("restored", "pollRestored")
         \/ Checks("checks") \/ Checks("checksRestored") \/ Checks("unbind")
         \/ CreateSnapshot \/ WaitSnapshot \/ RemoveSnapshot
         \/ DestroyParameterGroup
  PROVE  SafeState'
<1>1. CASE \/ PollProvision("plain", "pollPlain")
           \/ PollProvision("params", "pollParams")
           \/ PollProvision("restored", "pollRestored")
           \/ Checks("checks") \/ Checks("checksRestored") \/ Checks("unbind")
           \/ WaitSnapshot
  <2>1. /\ Passes /\ pc \in TestSteps
        /\ pc \notin {"awaitPlain", "awaitParams", "awaitRestored",
                      "removeSnapshot"}
        /\ UNCHANGED <<group, parameters, snapshot, subnetName, securityID>>
    BY <1>1, StepsAre DEF PollProvision, Checks, WaitSnapshot, TestSteps
  <2> QED BY <2>1, QuietPasses
<1>2. CASE CreateSnapshot \/ RemoveSnapshot
  <2>1. /\ Passes /\ pc \in TestSteps
        /\ \/ pc = "createSnapshot"
           \/ pc = "removeSnapshot" /\ snapshot' = "deleting"
        /\ UNCHANGED <<group, parameters, subnetName, securityID>>
    BY <1>2, StepsAre DEF CreateSnapshot, RemoveSnapshot, TestSteps
  <2>2. "createSnapshot" \notin AfterSnapshot
    BY DEF AfterSnapshot, RemovalOfInterfaces, RemovalOfSecurityGroup,
       AfterRestored, AfterPolls
  <2>3. EndsSeen'
    BY <2>1, TestOrder DEF SafeState, EndsSeen, Instances, Passes
  <2> QED BY <2>1, <2>2, <2>3, TestPasses, SnapshotPasses DEF SafeState
<1>3. CASE DestroyParameterGroup
  <2>1. /\ Passes /\ pc = "afterEach" /\ pc \in TestSteps
        /\ parameters' \subseteq parameters
        /\ UNCHANGED <<group, snapshot, subnetName, securityID>>
    BY <1>3, StepsAre DEF DestroyParameterGroup, TestSteps
  <2>2. EndsSeen'
    BY <2>1, TestOrder DEF SafeState, EndsSeen, Instances, Passes
  <2> QED BY <2>1, <2>2, TestPasses, SnapshotPasses DEF SafeState
<1> QED BY <1>1, <1>2, <1>3

\* AfterSuite: each removal makes way for the next.
LEMMA AfterSuitePasses ==
  ASSUME SafeState, TypeOK, ~Fails,
         \/ DestroySubnetGroup \/ CountSGAssociatedInterfaces
         \/ DestroySecurityGroup \/ Kill
  PROVE  SafeState'
<1> USE DEF DestroySubnetGroup, CountSGAssociatedInterfaces,
        DestroySecurityGroup, Kill
<1>1. /\ Passes /\ UNCHANGED <<group, parameters, interfaces, snapshot,
                               subnetName, securityID, failed>>
      /\ pc \in {"destroySubnetGroup", "waitInterfaces",
                 "destroySecurityGroup", "kill"}
  BY DEF Passes
<1>2. /\ pc = "destroySubnetGroup" => pc' = "waitInterfaces"
      /\ pc = "waitInterfaces" => pc' = "destroySecurityGroup"
      /\ pc = "destroySecurityGroup" => pc' = "kill"
      /\ pc = "kill" => pc' = "done"
  BY <1>1, ThenIs DEF Passes
<1>3. NamesKnown'
  BY <1>1, <1>2 DEF SafeState, NamesKnown
<1>4. NoInstanceLeft'
  BY <1>1, <1>2 DEF SafeState, NoInstanceLeft, InUse, TypeOK,
     RemovalOfInterfaces, RemovalOfSecurityGroup
<1>5. NoInterfaceReturns'
  BY <1>1, <1>2 DEF SafeState, NoInstanceLeft, NoInterfaceReturns, InUse,
     RemovalOfInterfaces, RemovalOfSecurityGroup
<1>6. EndsSeen'
  BY <1>1, AfterIs DEF SafeState, EndsSeen, RemovalOfInterfaces,
     RemovalOfSecurityGroup, AfterRestored, AfterPolls, Instances
<1>7. RemovalsDone'
  <2>1. (~failed => snapshot \in {"deleting", "none"})'
    BY <1>1 DEF SafeState, RemovalsDone, RemovalOfInterfaces,
     RemovalOfSecurityGroup, AfterRestored, AfterPolls
  <2>2. (~failed /\ pc \in RemovalOfInterfaces => ~subnetGroup)'
    BY <1>1, <1>2 DEF SafeState, RemovalsDone, NamesKnown,
     RemovalOfInterfaces, RemovalOfSecurityGroup
  <2>3. (~failed /\ pc \in RemovalOfSecurityGroup => interfaces = {})'
    BY <1>1, <1>2 DEF SafeState, RemovalsDone, RemovalOfSecurityGroup
  <2>4. (~failed /\ pc \in {"kill", "done"} => ~securityGroup)'
    BY <1>1, <1>2 DEF SafeState, RemovalsDone
  <2>5. (~failed /\ pc = "done" => ~broker)'
    BY <1>1, <1>2
  <2> QED BY <2>1, <2>2, <2>3, <2>4, <2>5 DEF RemovalsDone
<1> QED BY <1>3, <1>4, <1>5, <1>6, <1>7 DEF SafeState

\* AWS by itself: what is gone does not come back.
LEMMA AwsSafe ==
  ASSUME SafeState, TypeOK, Aws
  PROVE  SafeState'
<1> USE DEF Aws, GroupChanges, InterfaceChanges, SnapshotChanges
<1>1. UNCHANGED <<subnetGroup, securityGroup, parameters, broker, pc,
                  subnetName, securityID, failed>>
  OBVIOUS
<1>2. \A i \in Instances : group[i] = "none" => group'[i] = "none"
  BY DEF TypeOK
<1>3. ~InUse => ~InUse' /\ interfaces' \subseteq interfaces
  BY <1>2 DEF InUse
<1>4. snapshot \in {"deleting", "none"} => snapshot' \in {"deleting", "none"}
  OBVIOUS
<1>5. NamesKnown' /\ NoInstanceLeft' /\ NoInterfaceReturns'
  BY <1>1, <1>3 DEF SafeState, NamesKnown, NoInstanceLeft, NoInterfaceReturns
<1>6. EndsSeen'
  BY <1>1, <1>2 DEF SafeState, EndsSeen, After
<1>7. ~failed /\ pc \in RemovalOfSecurityGroup => ~InUse
  BY AfterIs DEF SafeState, EndsSeen, InUse, Instances, RemovalOfInterfaces,
     RemovalOfSecurityGroup, AfterRestored, AfterPolls
<1>8. RemovalsDone'
  BY <1>1, <1>3, <1>4, <1>7 DEF SafeState, RemovalsDone
<1> QED BY <1>5, <1>6, <1>8 DEF SafeState

-----------------------------------------------------------------------------
(***************************************************************************)
(* The theorems.                                                           *)
(***************************************************************************)
LEMMA SuiteSafe ==
  ASSUME TypeOK, SafeState, Suite
  PROVE  TypeOK' /\ SafeState'
<1>1. TypeOK'
  BY InstanceCalls, BeforeSuiteType, InstanceType, SnapshotAndRemovalType,
     StepsAre DEF SafeState, Instances
<1>2. pc \in Steps
  BY InstanceCalls, StepsAre DEF CreateSubnetGroup, CreateSecurityGroup,
     AuthorizeSecurityGroupIngress, WriteCustomConfig, ProvisionInstance,
     PollProvision, DeprovisionInstance, PollDeprovision, Checks,
     CreateSnapshot, WaitSnapshot, RemoveSnapshot, DestroyParameterGroup,
     DestroySubnetGroup, CountSGAssociatedInterfaces, DestroySecurityGroup,
     Kill
<1>3. CASE Fails
  BY <1>1, <1>2, <1>3, FailsSafe
<1>4. CASE ~Fails
  BY <1>1, <1>4, InstanceCalls, BeforeSuitePasses, ProvisionPasses,
     DeprovisionPasses, PollDeprovisionPasses, OtherTestPasses,
     AfterSuitePasses DEF SafeState, Instances
<1> QED BY <1>3, <1>4

(* The inductive invariant holds in every reachable state: whatever fails, *)
(* the steps behind the suite have left in AWS no more than it says.       *)
THEOREM Safety == Spec => []Inv
<1>1. Init => Inv
  <2> SUFFICES ASSUME Init PROVE Inv
    OBVIOUS
  <2>1. TypeOK
    BY TypeInit
  <2>2. pc = "createSubnetGroup"
    BY DEF Init
  <2>3. NoInterfaceReturns /\ NoInstanceLeft /\ NamesKnown /\ RemovalsDone
    BY <2>2 DEF NoInterfaceReturns, NoInstanceLeft, NamesKnown, RemovalsDone,
       RemovalOfInterfaces, RemovalOfSecurityGroup, AfterRestored, AfterPolls
  <2>4. EndsSeen
    BY <2>2, AfterIs DEF EndsSeen, Instances, RemovalOfInterfaces,
       RemovalOfSecurityGroup, AfterRestored, AfterPolls
  <2> QED BY <2>1, <2>3, <2>4 DEF Inv
<1>2. Inv /\ [Next]_vars => Inv'
  <2> SUFFICES ASSUME Inv, [Next]_vars PROVE Inv'
    OBVIOUS
  <2>1. TypeOK /\ SafeState
    BY DEF Inv, SafeState
  <2>2. CASE Suite
    BY <2>1, <2>2, SuiteSafe DEF Inv, SafeState
  <2>3. CASE Aws
    BY <2>1, <2>3, AwsType, AwsSafe DEF Inv, SafeState
  <2>4. CASE UNCHANGED vars
    BY <2>4 DEF Inv, vars, TypeOK, NoInterfaceReturns, NoInstanceLeft,
       NamesKnown, EndsSeen, RemovalsDone, InUse
  <2> QED BY <2>2, <2>3, <2>4 DEF Next, Done
<1> QED BY <1>1, <1>2, PTL DEF Spec

(* Every variable keeps its type, and the suite never knows the id of a    *)
(* security group without the name of the subnet group made before it.     *)
THEOREM TypeCorrect == Spec => []TypeOK
<1>1. Inv => TypeOK
  BY DEF Inv
<1> QED BY <1>1, Safety, PTL

(* A suite that ends without a failure has removed from AWS everything its *)
(* BeforeSuite and its test created, and has stopped the broker.           *)
THEOREM PassingSuiteLeavesNothing == Spec => []PassedLeavesNothing
<1>1. Inv => PassedLeavesNothing
  <2> SUFFICES ASSUME Inv, pc = "done", ~failed
               PROVE  /\ ~subnetGroup /\ ~securityGroup /\ ~broker
                      /\ parameters = {} /\ interfaces = {} /\ ~InUse
                      /\ snapshot \in {"deleting", "none"}
    BY DEF PassedLeavesNothing
  <2>1. /\ ~subnetGroup /\ ~securityGroup /\ ~broker /\ interfaces = {}
        /\ snapshot \in {"deleting", "none"}
    BY DEF Inv, RemovalsDone, RemovalOfInterfaces, RemovalOfSecurityGroup,
       AfterRestored, AfterPolls
  <2>2. \A i \in Instances : group[i] = "none" /\ i \notin parameters
    BY AfterIs DEF Inv, EndsSeen, Instances, RemovalOfInterfaces,
       RemovalOfSecurityGroup, AfterRestored, AfterPolls
  <2>3. parameters = {} /\ ~InUse
    BY <2>2 DEF Inv, TypeOK, InUse
  <2> QED BY <2>1, <2>3
<1> QED BY <1>1, Safety, PTL

(* When AfterSuite deletes the security group no interface can come back   *)
(* to it, also after a failed test.                                        *)
THEOREM InterfacesStayAway == Spec => []NoInterfaceReturns
<1>1. Inv => NoInterfaceReturns
  BY DEF Inv
<1> QED BY <1>1, Safety, PTL

=============================================================================
