--------------------------- MODULE UpdateInstance ---------------------------
(***************************************************************************)
(* The settings of an instance: Update of broker/broker.go with a          *)
(* preferred_maintenance_window and a maxmemory_policy, the polls of such  *)
(* an update, and GetInstance, which reads the settings back, together     *)
(* with the provider methods they call.                                    *)
(*                                                                         *)
(* The two settings live in two places, the window in the replication      *)
(* group and the policy in the cache parameter group, and are written and  *)
(* read by separate AWS calls.  As in module InstanceLifecycle a request   *)
(* is a process and an action one AWS call, which is applied and           *)
(* acknowledged, applied and reported as an error, or only reported as an  *)
(* error; after the context has ended it is never applied.  One instance   *)
(* is modelled; its group exists throughout.                               *)
(*                                                                         *)
(* The platform starts an operation when the previous one has ended or     *)
(* when it has given up waiting for its answer, which ends the context of  *)
(* that request although its handler may still be running.  Its giving up, *)
(* the end of the context and the point after which no write of that       *)
(* request reaches AWS are taken to be one instant: a call that was on the *)
(* wire at that moment and lands later is outside the model, and           *)
(* KnownIsTrue, ReadsAccepted and UpdateContract rest on that.             *)
(***************************************************************************)
EXTENDS RequestParameters, Naturals

CONSTANT Requests   \* slots for concurrently running HTTP requests

VARIABLES
    window,     \* the maintenance window of the replication group
    policy,     \* maxmemory-policy in the cache parameter group
    status,     \* the status of the replication group
    pc,         \* pc[r]: the AWS call request r makes next
    want,       \* want[r]: the parameters of the Update r
    report,     \* report[r]: what the GetInstance r has read
    cut,        \* the requests whose context has ended
    reply,      \* reply[r]: the answer r gave to the platform
    op,         \* is there an accepted update the platform polls
    known,      \* the settings the platform has been promised, Nil if unsure
    base        \* base[r]: the part of known that held from the start of r on

awsVars == <<window, policy, status>>
callVars == <<pc, want, report, cut, reply>>
platformVars == <<op, known, base>>
vars == <<window, policy, status, pc, want, report, cut, reply, op, known,
          base>>

-----------------------------------------------------------------------------
UpdateCalls == {"modifyRG", "modifyPG"}
GetCalls == {"getGroup", "getCluster", "getParameters", "getTags"}
Calls == UpdateCalls \cup GetCalls \cup {"describe"}

\* "failover": the handler goes on as module Failover describes; "dropped": the
\* handler panicked, net/http closed the connection.
Replies == {"none", "accepted", "error", "failover", "details", "dropped",
            "succeeded", "in progress"}

Settings == [window : Texts \cup {Nil}, policy : Texts \cup {Nil}]
Unknown == [window |-> Nil, policy |-> Nil]
NoReport == [window |-> Empty, policy |-> Empty]
NoParameters == [policy |-> Nil, window |-> Empty, failover |-> FALSE]

(* Every variable holds a value of its kind; a request in flight has not   *)
(* been answered, and its next call is about a setting it was asked for.   *)
TypeOK ==
    /\ window \in Texts /\ policy \in Texts
    /\ status \in {"available", "modifying", "snapshotting"}
    /\ pc \in [Requests -> Calls \cup {"idle"}]
    /\ want \in [Requests -> UpdateParameters]
    /\ report \in [Requests -> [window : Texts, policy : Texts]]
    /\ cut \subseteq Requests
    /\ reply \in [Requests -> Replies]
    /\ op \in BOOLEAN
    /\ known \in Settings
    /\ base \in [Requests -> Settings]
    /\ \A r \in Requests :
        /\ pc[r] # "idle" => reply[r] = "none"
        /\ pc[r] = "modifyRG" => want[r].window # Empty
        /\ pc[r] = "modifyPG" => want[r].policy # Nil

Init ==
    /\ window \in Texts /\ policy \in Texts
    /\ status = "available"
    /\ pc = [r \in Requests |-> "idle"]
    /\ want = [r \in Requests |-> NoParameters]
    /\ report = [r \in Requests |-> NoReport]
    /\ cut = {}
    /\ reply = [r \in Requests |-> "none"]
    /\ op = FALSE
    /\ known = Unknown
    /\ base = [r \in Requests |-> Unknown]

-----------------------------------------------------------------------------
(***************************************************************************)
(* Control flow of one request.                                            *)
(***************************************************************************)
Enter(r, first, params) ==
    /\ pc[r] = "idle"
    /\ pc' = [pc EXCEPT ![r] = first]
    /\ want' = [want EXCEPT ![r] = params]
    /\ reply' = [reply EXCEPT ![r] = "none"]
    /\ UNCHANGED <<report, cut>>

Goto(r, next) ==
    /\ pc' = [pc EXCEPT ![r] = next]
    /\ UNCHANGED <<want, cut, reply, base>>

\* What only the handler knew is forgotten.
Return(r, answer) ==
    /\ pc' = [pc EXCEPT ![r] = "idle"]
    /\ want' = [want EXCEPT ![r] = NoParameters]
    /\ report' = [report EXCEPT ![r] = NoReport]
    /\ base' = [base EXCEPT ![r] = Unknown]
    /\ cut' = cut \ {r}
    /\ reply' = [reply EXCEPT ![r] = answer]

-----------------------------------------------------------------------------
(***************************************************************************)
(* Update.                                                                 *)
(***************************************************************************)

\* The plans a test failover is possible for.
PlanConfigs == [cluster : BOOLEAN, multiAZ : BOOLEAN, autoFailover : BOOLEAN,
                replicas : 0 .. 1]
FailoverSupported(plan) ==
    ~plan.cluster /\ plan.multiAZ /\ plan.autoFailover /\ plan.replicas >= 1

\* An Update of the instance is under way, as far as the platform knows.
Updating == op \/ \E r \in Requests : pc[r] \in UpdateCalls /\ r \notin cut

\* What is still certain while a request for params runs.
Forget(settings, params) ==
    [window |-> IF params.window # Empty THEN Nil ELSE settings.window,
     policy |-> IF params.policy # Nil THEN Nil ELSE settings.policy]

\* What becomes of an Update whose parameters were parsed: refused without
\* asynchronous operations, for another plan or service, or without parameters;
\* a failover, which must be possible and alone; or new settings.
Decide(async, same, params, plan) ==
    CASE ~async \/ ~same \/ checkIfNoUpdateParametersAreSet(params) -> "error"
      [] OTHER ->
        CASE ~params.failover -> "settings"
          [] params.failover /\ FailoverSupported(plan)
                /\ params.policy = Nil /\ params.window = Empty -> "failover"
          [] OTHER -> "error"

\* The parameters that can come out of parsing, and all decisions.
ParsedUpdates ==
    UNION {parseUpdateParameters(raw) : raw \in RawParameters}
Decisions ==
    {[answer |-> "error", params |-> NoParameters]} \cup
    {[answer |-> Decide(async, same, params, plan), params |-> params] :
        async \in BOOLEAN, same \in BOOLEAN, params \in ParsedUpdates,
        plan \in PlanConfigs}

\* Mutant: the window is sent to AWS also when none was asked for.
UpdateSettingsAlways(r, params) ==
    /\ Enter(r, "modifyRG", params)
    /\ known' = Forget(known, params)
    /\ base' = [q \in Requests |-> Forget(base[q], params)]

UpdateSettings(r, params) ==
    /\ Enter(r, IF params.window # Empty THEN "modifyRG" ELSE "modifyPG",
             params)
    /\ known' = Forget(known, params)
    /\ base' = [q \in Requests |-> Forget(base[q], params)]

Update(r) ==
    /\ pc[r] = "idle" /\ ~Updating
    /\ \E d \in Decisions :
        \/ /\ d.answer = "settings"
           /\ UpdateSettings(r, d.params)
        \/ /\ d.answer # "settings"
           /\ reply' = [reply EXCEPT ![r] = d.answer]
           /\ UNCHANGED <<pc, want, report, cut, known, base>>
    /\ UNCHANGED <<awsVars, op>>

\* The Update r has been carried out: the platform polls it.
Accepted(r) ==
    /\ Return(r, "accepted")
    /\ op' = TRUE
    /\ known' =
        [window |-> IF want[r].window # Empty THEN want[r].window
                                              ELSE known.window,
         policy |-> IF want[r].policy # Nil THEN want[r].policy
                                            ELSE known.policy]

Fails(r) == Return(r, "error") /\ UNCHANGED <<op, known>>

AfterWindow(r) ==
    \/ /\ want[r].policy # Nil
       /\ Goto(r, "modifyPG") /\ UNCHANGED <<report, op, known>>
    \/ /\ want[r].policy = Nil
       /\ Accepted(r)

\* AWS changes the window at once, whether or not the group is "modifying" for
\* a while; it refuses while the group is not available.
SetWindow(r) ==
    /\ r \notin cut /\ status = "available"
    /\ window' = want[r].window
    /\ status' \in {"available", "modifying"}

\* Mutant: an error of the first call is logged and the rest carried on with.
ModifyReplicationGroupIgnored(r) ==
    /\ pc[r] = "modifyRG"
    /\ SetWindow(r) \/ UNCHANGED <<window, status>>
    /\ AfterWindow(r)
    /\ UNCHANGED policy

ModifyReplicationGroup(r) ==
    /\ pc[r] = "modifyRG"
    /\ \/ SetWindow(r) /\ (AfterWindow(r) \/ Fails(r))
       \/ UNCHANGED <<window, status>> /\ Fails(r)
    /\ UNCHANGED policy

\* Mutant: the call is not made with the context of the request.
ModifyCacheParameterGroupNoContext(r) ==
    /\ pc[r] = "modifyPG"
    /\ policy' = want[r].policy /\ Accepted(r)
    /\ UNCHANGED <<window, status>>

ModifyCacheParameterGroup(r) ==
    /\ pc[r] = "modifyPG"
    /\ \/ /\ r \notin cut
          /\ policy' = want[r].policy
          /\ Accepted(r) \/ Fails(r)
       \/ UNCHANGED policy /\ Fails(r)
    /\ UNCHANGED <<window, status>>

-----------------------------------------------------------------------------
(***************************************************************************)
(* LastOperation with the operation data of an update.  The platform sends *)
(* one poll at a time.                                                     *)
(***************************************************************************)
LastOperation(r) ==
    /\ op
    /\ \A q \in Requests : pc[q] = "describe" => q \in cut
    /\ Enter(r, "describe", NoParameters)
    /\ UNCHANGED <<awsVars, platformVars>>

\* Mutant: the answer never is that the update is done.
ProgressStateStuck(r) ==
    /\ pc[r] = "describe"
    /\ Return(r, "in progress") \/ Return(r, "error")
    /\ UNCHANGED <<awsVars, op, known>>

ProgressState(r) ==
    /\ pc[r] = "describe"
    /\ \/ /\ r \notin cut /\ status = "available"
          /\ Return(r, "succeeded") /\ op' = FALSE
       \/ /\ r \notin cut /\ status # "available"
          /\ Return(r, "in progress") /\ UNCHANGED op
       \/ Return(r, "error") /\ UNCHANGED op
    /\ UNCHANGED <<awsVars, known>>

-----------------------------------------------------------------------------
(***************************************************************************)
(* GetInstance.                                                            *)
(***************************************************************************)
GetInstance(r) ==
    /\ Enter(r, "getGroup", NoParameters)
    /\ base' = [base EXCEPT ![r] = known]
    /\ UNCHANGED <<awsVars, op, known>>

\* The group, with its member clusters: an error when there are none.
DescribeReplicationGroup(r) ==
    /\ pc[r] = "getGroup"
    /\ \/ r \notin cut /\ Goto(r, "getCluster") /\ UNCHANGED report
       \/ Return(r, "error")
    /\ UNCHANGED <<awsVars, op, known>>

\* The first member cluster has the window.  An error is ignored and the window
\* left empty.  Then the nodes are sorted by their roles: a role the description
\* of the group leaves out, as it does in cluster mode, is a nil pointer that is
\* followed.
DescribeCacheCluster(r) ==
    /\ pc[r] = "getCluster"
    /\ \/ /\ Goto(r, "getParameters")
          /\ \/ r \notin cut /\ report' = [report EXCEPT ![r].window = window]
             \/ UNCHANGED report
       \/ Return(r, "dropped")
    /\ UNCHANGED <<awsVars, op, known>>

\* Mutant: an error is ignored and the policy left empty.
DescribeCacheParametersIgnored(r) ==
    /\ pc[r] = "getParameters"
    /\ Goto(r, "getTags")
    /\ \/ r \notin cut /\ report' = [report EXCEPT ![r].policy = policy]
       \/ UNCHANGED report
    /\ UNCHANGED <<awsVars, op, known>>

DescribeCacheParameters(r) ==
    /\ pc[r] = "getParameters"
    /\ \/ /\ r \notin cut /\ Goto(r, "getTags")
          /\ report' = [report EXCEPT ![r].policy = policy]
       \/ Return(r, "error")
    /\ UNCHANGED <<awsVars, op, known>>

\* The service and the plan come from the tags of the group.
GetInstanceTags(r) ==
    /\ pc[r] = "getTags"
    /\ (r \notin cut /\ Return(r, "details")) \/ Return(r, "error")
    /\ UNCHANGED <<awsVars, op, known>>

-----------------------------------------------------------------------------
(***************************************************************************)
(* What happens to the broker, and what AWS does by itself.                *)
(***************************************************************************)

\* The platform hangs up, or the 30 seconds of an Update or a poll are over;
\* nothing of r is on the wire any more.
ContextEnds(r) ==
    /\ pc[r] # "idle" /\ r \notin cut
    /\ cut' = cut \cup {r}
    /\ UNCHANGED <<awsVars, pc, want, report, reply, platformVars>>

Crash ==
    /\ \E r \in Requests : pc[r] # "idle"
    /\ pc' = [r \in Requests |-> "idle"]
    /\ want' = [r \in Requests |-> NoParameters]
    /\ report' = [r \in Requests |-> NoReport]
    /\ base' = [r \in Requests |-> Unknown]
    /\ cut' = {}
    /\ UNCHANGED <<awsVars, reply, op, known>>

ModificationEnds ==
    /\ status = "modifying"
    /\ status' = "available"
    /\ UNCHANGED <<window, policy, callVars, platformVars>>

SnapshotStarts ==
    /\ status = "available"
    /\ status' = "snapshotting"
    /\ UNCHANGED <<window, policy, callVars, platformVars>>

SnapshotEnds ==
    /\ status = "snapshotting"
    /\ status' = "available"
    /\ UNCHANGED <<window, policy, callVars, platformVars>>

-----------------------------------------------------------------------------
Begin(r) == Update(r) \/ LastOperation(r) \/ GetInstance(r)

Call(r) ==
    \/ ModifyReplicationGroup(r) \/ ModifyCacheParameterGroup(r)
    \/ ProgressState(r)
    \/ DescribeReplicationGroup(r) \/ DescribeCacheCluster(r)
    \/ DescribeCacheParameters(r) \/ GetInstanceTags(r)

Next ==
    \/ \E r \in Requests : Begin(r) \/ Call(r) \/ ContextEnds(r)
    \/ Crash
    \/ ModificationEnds \/ SnapshotStarts \/ SnapshotEnds

Spec == Init /\ [][Next]_vars

-----------------------------------------------------------------------------
(***************************************************************************)
(* Properties.                                                             *)
(***************************************************************************)

(* "If updating the maintenance window fails the whole operation will      *)
(* fail": when a new policy reaches AWS, the window that was asked for     *)
(* together with it is in place, whatever was lost, cut off or interrupted *)
(* before.                                                                 *)
WindowBeforePolicy ==
    [][policy' # policy =>
        \E r \in Requests :
            /\ pc[r] \in UpdateCalls /\ want[r].policy = policy'
            /\ want[r].window \in {Empty, window}]_vars

(* A setting the platform was told is accepted is the one AWS has, until   *)
(* the platform asks for another: also when the handler of an Update the   *)
(* platform has given up on is still running beside the next one.          *)
KnownIsTrue ==
    /\ known.window \in {Nil, window}
    /\ known.policy \in {Nil, policy}

(* A GetInstance that is sent after a setting was accepted, and during     *)
(* which nobody asks for another, reports that setting.  It reads the two  *)
(* settings in two calls of its four.  The window may be missing instead.  *)
ReadsAccepted ==
    [][\A r \in Requests :
         pc[r] = "getTags" /\ reply'[r] = "details" =>
            /\ base[r].policy \in {Nil, report[r].policy}
            /\ base[r].window \in {Nil, report[r].window}
                \/ report[r].window = Empty]_vars

(* What the black box test expects: the parameters read back after an      *)
(* accepted update hold the new window.                                    *)
WindowReadBack ==
    [][\A r \in Requests :
         pc[r] = "getTags" /\ reply'[r] = "details" =>
            base[r].window \in {Nil, report[r].window}]_vars

-----------------------------------------------------------------------------
(***************************************************************************)
(* The inductive invariant.                                                *)
(***************************************************************************)

\* Only the context of a request that is running can have ended.
CutInFlight == \A r \in cut : pc[r] # "idle"

\* A setting some Update may still change is in doubt, and there is at most
\* one such Update.
WritersKnown ==
    \A r \in Requests : pc[r] \in UpdateCalls /\ r \notin cut =>
        /\ ~op
        /\ want[r].window # Empty => known.window = Nil
        /\ want[r].policy # Nil => known.policy = Nil
        /\ \A q \in Requests : pc[q] \in UpdateCalls /\ q \notin cut => q = r

\* An Update about to set the policy has set the window it was asked for.
WindowStillSet ==
    \A r \in Requests : pc[r] = "modifyPG" /\ r \notin cut =>
        want[r].window \in {Empty, window}

\* What was accepted before a GetInstance began, and not asked for since, is
\* what it reads or has read.
ReadersUpToDate ==
    \A r \in Requests :
        /\ base[r].window \in {Nil, known.window}
        /\ base[r].policy \in {Nil, known.policy}
        /\ \/ report[r].window = Empty
           \/ /\ pc[r] \in {"getParameters", "getTags"}
              /\ base[r].window \in {Nil, report[r].window}
        /\ pc[r] = "getTags" => base[r].policy \in {Nil, report[r].policy}

(* For every position of a request what it implies of the settings in AWS  *)
(* and of what the platform knows.                                         *)
Inv ==
    /\ TypeOK
    /\ CutInFlight
    /\ KnownIsTrue
    /\ WritersKnown
    /\ WindowStillSet
    /\ ReadersUpToDate

-----------------------------------------------------------------------------
(***************************************************************************)
(* Update implements SettingsContract.  An Update whose context has ended  *)
(* is not under way any more, although its handler may be running.         *)
(***************************************************************************)
LiveUpdates == {r \in Requests : pc[r] \in UpdateCalls /\ r \notin cut}

Contract == INSTANCE SettingsContract WITH
    asked <- {want[r] : r \in LiveUpdates},
    polled <- op,
    promised <- known

(* Seen from the platform the two calls of an Update, to two services, are *)
(* one change: whatever is lost, cut off or interrupted, at most one       *)
(* Update writes at a time, one that was given up never writes again, and  *)
(* at the answer "accepted" both settings it asked for are in place.       *)
UpdateContract == Contract!ContractSpec

-----------------------------------------------------------------------------
(***************************************************************************)
(* Fairness: handlers go on, AWS ends modifications and backups, the       *)
(* platform keeps polling and not every poll fails.  Polls follow each     *)
(* other in seconds and backups in days, so a bounded number of backups    *)
(* meets the polls of an update.                                           *)
(***************************************************************************)
Fairness ==
    /\ \A r \in Requests : WF_vars(Call(r))
    /\ WF_vars(ModificationEnds) /\ WF_vars(SnapshotEnds)
    /\ SF_vars(\E r \in Requests : LastOperation(r))
    /\ SF_vars(\E r \in Requests : ProgressState(r) /\ reply'[r] = "succeeded")
    /\ <>[][~SnapshotStarts]_vars

FairSpec == Spec /\ Fairness

(* Every accepted update is reported as done in the end: the handler       *)
(* starts a change it does not wait for, and only polls find it finished.  *)
UpdateCompletes == op ~> ~op

=============================================================================
