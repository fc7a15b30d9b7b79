------------------------ MODULE UpdateInstanceProofs ------------------------
(***************************************************************************)
(* Machine-checked proofs about UpdateInstance, for any number of requests *)
(* and any set of texts.                                                   *)
(***************************************************************************)
EXTENDS UpdateInstance, TLAPS

-----------------------------------------------------------------------------
(***************************************************************************)
(* What parsing and deciding yield.                                        *)
(***************************************************************************)

\* Parsed parameters have the types of the fields of UpdateParameters.
LEMMA ParsedType ==
  ASSUME NEW params \in ParsedUpdates
  PROVE  params \in UpdateParameters
<1>1. PICK raw \in RawParameters : params \in parseUpdateParameters(raw)
  BY DEF ParsedUpdates
<1>2. PICK K \in SUBSET Keys : raw \in [K -> JSON]
  BY DEF RawParameters
<1>3. \A key \in DOMAIN raw : raw[key].text \in Texts
  BY <1>2, TextsAssumption DEF JSON
<1>4. /\ TextPointer(raw, MaxMemoryPolicy) \in Texts \cup {Nil}
      /\ TextField(raw, PreferredMaintenanceWindow) \in Texts
  BY <1>3, TextsAssumption DEF TextPointer, TextField, IsSet
<1>5. IsSet(raw, TestFailover) \in BOOLEAN
  BY DEF IsSet
<1> QED BY <1>1, <1>4, <1>5 DEF parseUpdateParameters, UpdateParameters

LEMMA NoParametersType == NoParameters \in UpdateParameters
  BY TextsAssumption DEF NoParameters, UpdateParameters

\* An Update is only carried out as new settings when it asks for one.
LEMMA SettingsAsked ==
  ASSUME NEW d \in Decisions, d.answer = "settings"
  PROVE  /\ d.params \in UpdateParameters
         /\ d.params.window # Empty \/ d.params.policy # Nil
<1>1. PICK async \in BOOLEAN, same \in BOOLEAN, params \in ParsedUpdates,
           plan \in PlanConfigs :
        d = [answer |-> Decide(async, same, params, plan),
             params |-> params]
  BY DEF Decisions
<1>2. ~checkIfNoUpdateParametersAreSet(params) /\ ~params.failover
  BY <1>1 DEF Decide
<1> QED
  BY <1>1, <1>2, ParsedType DEF checkIfNoUpdateParametersAreSet

LEMMA DecisionAnswer ==
  ASSUME NEW d \in Decisions
  PROVE  d.answer \in {"error", "failover", "settings"}
  BY DEF Decisions, Decide

LEMMA ForgetType ==
  ASSUME NEW s \in Settings, NEW params PROVE Forget(s, params) \in Settings
  BY DEF Forget, Settings

LEMMA UnknownType == Unknown \in Settings
  BY DEF Unknown, Settings

LEMMA NoReportType == NoReport \in [window : Texts, policy : Texts]
  BY TextsAssumption DEF NoReport

-----------------------------------------------------------------------------
(***************************************************************************)
(* Type correctness.                                                       *)
(***************************************************************************)

\* The part of TypeOK that is about requests.
RequestsOK ==
    /\ pc \in [Requests -> Calls \cup {"idle"}]
    /\ want \in [Requests -> UpdateParameters]
    /\ report \in [Requests -> [window : Texts, policy : Texts]]
    /\ cut \subseteq Requests
    /\ reply \in [Requests -> Replies]
    /\ base \in [Requests -> Settings]
    /\ \A r \in Requests :
        /\ pc[r] # "idle" => reply[r] = "none"
        /\ pc[r] = "modifyRG" => want[r].window # Empty
        /\ pc[r] = "modifyPG" => want[r].policy # Nil

AwsOK ==
    /\ window \in Texts /\ policy \in Texts
    /\ status \in {"available", "modifying", "snapshotting"}

LEMMA TypeParts ==
  TypeOK <=> AwsOK /\ RequestsOK /\ op \in BOOLEAN /\ known \in Settings
  BY DEF TypeOK, AwsOK, RequestsOK

LEMMA TypePartsNext ==
  ASSUME AwsOK', RequestsOK', op' \in BOOLEAN, known' \in Settings
  PROVE  TypeOK'
  BY DEF TypeOK, AwsOK, RequestsOK

LEMMA ReturnType ==
  ASSUME RequestsOK, NEW r \in Requests, NEW answer \in Replies,
         Return(r, answer)
  PROVE  RequestsOK'
  BY NoParametersType, NoReportType, UnknownType DEF RequestsOK, Return

LEMMA AcceptedType ==
  ASSUME TypeOK, NEW r \in Requests, Accepted(r)
  PROVE  RequestsOK' /\ op' \in BOOLEAN /\ known' \in Settings
<1>1. RequestsOK'
  BY ReturnType, TypeParts DEF Accepted, Replies
<1>2. op' \in BOOLEAN
  BY DEF Accepted
<1>3. want[r] \in UpdateParameters /\ known \in Settings
  BY DEF TypeOK
<1>4. known' \in Settings
  BY <1>3 DEF Accepted, UpdateParameters, Settings
<1> QED BY <1>1, <1>2, <1>4

LEMMA FailsType ==
  ASSUME TypeOK, NEW r \in Requests, Fails(r)
  PROVE  RequestsOK' /\ op' \in BOOLEAN /\ known' \in Settings
<1>1. RequestsOK'
  BY ReturnType, TypeParts DEF Fails, Replies
<1>2. op' \in BOOLEAN /\ known' \in Settings
  BY DEF Fails, TypeOK
<1> QED BY <1>1, <1>2

LEMMA GotoType ==
  ASSUME RequestsOK, NEW r \in Requests, NEW next \in Calls, pc[r] # "idle",
         next = "modifyRG" => want[r].window # Empty,
         next = "modifyPG" => want[r].policy # Nil,
         Goto(r, next), report' \in [Requests -> [window : Texts,
                                                  policy : Texts]]
  PROVE  RequestsOK'
  BY DEF RequestsOK, Goto

LEMMA EnterType ==
  ASSUME RequestsOK, NEW r \in Requests, NEW first \in Calls,
         NEW params \in UpdateParameters, Enter(r, first, params),
         base' \in [Requests -> Settings],
         first = "modifyRG" => params.window # Empty,
         first = "modifyPG" => params.policy # Nil
  PROVE  RequestsOK'
  BY DEF RequestsOK, Enter, Replies

LEMMA AfterWindowType ==
  ASSUME TypeOK, NEW r \in Requests, pc[r] = "modifyRG", AfterWindow(r)
  PROVE  RequestsOK' /\ op' \in BOOLEAN /\ known' \in Settings
<1>1. CASE want[r].policy = Nil
  BY <1>1, AcceptedType DEF AfterWindow
<1>2. CASE want[r].policy # Nil
  <2>1. Goto(r, "modifyPG") /\ UNCHANGED <<report, op, known>>
    BY <1>2 DEF AfterWindow
  <2>2. RequestsOK'
    BY <2>1, <1>2, GotoType, TypeParts DEF RequestsOK, Calls, UpdateCalls
  <2>3. op' \in BOOLEAN /\ known' \in Settings
    BY <2>1 DEF TypeOK
  <2> QED BY <2>2, <2>3
<1> QED BY <1>1, <1>2

LEMMA TypeInit == Init => TypeOK
<1> SUFFICES ASSUME Init PROVE TypeOK
  OBVIOUS
<1>1. AwsOK /\ known \in Settings
  BY UnknownType DEF Init, AwsOK
<1>2. op \in BOOLEAN
  BY DEF Init
<1>3. RequestsOK
  BY NoParametersType, NoReportType, UnknownType
     DEF Init, RequestsOK, Replies
<1> QED BY <1>1, <1>2, <1>3, TypeParts

LEMMA TypeStep == TypeOK /\ [Next]_vars => TypeOK'
<1> SUFFICES ASSUME TypeOK, [Next]_vars PROVE TypeOK'
  OBVIOUS
<1>a. AwsOK /\ RequestsOK /\ op \in BOOLEAN /\ known \in Settings
  BY TypeParts
<1>b. UNCHANGED awsVars => AwsOK'
  BY <1>a DEF awsVars, AwsOK
<1>1. ASSUME NEW r \in Requests, Update(r) PROVE TypeOK'
  <2>1. AwsOK' /\ op' \in BOOLEAN
    BY <1>1, <1>a, <1>b DEF Update
  <2>2. PICK d \in Decisions :
          \/ d.answer = "settings" /\ UpdateSettings(r, d.params)
          \/ /\ d.answer # "settings"
             /\ reply' = [reply EXCEPT ![r] = d.answer]
             /\ UNCHANGED <<pc, want, report, cut, known, base>>
    BY <1>1 DEF Update
  <2>3. CASE d.answer = "settings"
    <3>1. UpdateSettings(r, d.params)
      BY <2>2, <2>3
    <3>2. base' \in [Requests -> Settings] /\ known' \in Settings
      BY <3>1, <1>a, ForgetType DEF UpdateSettings, RequestsOK
    <3>3. RequestsOK'
      BY <3>1, <3>2, <1>a, <2>3, SettingsAsked, EnterType
         DEF UpdateSettings, Calls, UpdateCalls
    <3> QED BY <2>1, <3>2, <3>3, TypePartsNext
  <2>4. CASE d.answer # "settings"
    <3>1. d.answer \in Replies
      BY <2>4, DecisionAnswer DEF Replies
    <3>2. RequestsOK' /\ known' \in Settings
      BY <3>1, <1>a, <2>2, <2>4, <1>1 DEF RequestsOK, Update
    <3> QED BY <2>1, <3>2, TypePartsNext
  <2> QED BY <2>3, <2>4
<1>2. ASSUME NEW r \in Requests, LastOperation(r) PROVE TypeOK'
  <2>1. RequestsOK'
    BY <1>2, <1>a, EnterType, NoParametersType
       DEF LastOperation, platformVars, RequestsOK, Calls
  <2>2. AwsOK' /\ op' \in BOOLEAN /\ known' \in Settings
    BY <1>2, <1>a, <1>b DEF LastOperation, platformVars
  <2> QED BY <2>1, <2>2, TypePartsNext
<1>3. ASSUME NEW r \in Requests, GetInstance(r) PROVE TypeOK'
  <2>1. RequestsOK'
    BY <1>3, <1>a, EnterType, NoParametersType
       DEF GetInstance, RequestsOK, Calls, GetCalls
  <2>2. AwsOK' /\ op' \in BOOLEAN /\ known' \in Settings
    BY <1>3, <1>a, <1>b DEF GetInstance
  <2> QED BY <2>1, <2>2, TypePartsNext
<1>4. ASSUME NEW r \in Requests, ModifyReplicationGroup(r) PROVE TypeOK'
  <2>1. AwsOK'
    BY <1>4, <1>a
       DEF ModifyReplicationGroup, SetWindow, AwsOK, RequestsOK,
           UpdateParameters
  <2>2. AfterWindow(r) \/ Fails(r)
    BY <1>4 DEF ModifyReplicationGroup
  <2>3. RequestsOK' /\ op' \in BOOLEAN /\ known' \in Settings
    BY <2>2, <1>4, AfterWindowType, FailsType DEF ModifyReplicationGroup
  <2> QED BY <2>1, <2>3, TypePartsNext
<1>5. ASSUME NEW r \in Requests, ModifyCacheParameterGroup(r) PROVE TypeOK'
  <2>1. AwsOK'
    <3>1. want[r].policy \in Texts
      BY <1>5, <1>a
         DEF ModifyCacheParameterGroup, RequestsOK, UpdateParameters
    <3> QED BY <3>1, <1>5, <1>a DEF ModifyCacheParameterGroup, AwsOK
  <2>2. Accepted(r) \/ Fails(r)
    BY <1>5 DEF ModifyCacheParameterGroup
  <2>3. RequestsOK' /\ op' \in BOOLEAN /\ known' \in Settings
    BY <2>2, AcceptedType, FailsType
  <2> QED BY <2>1, <2>3, TypePartsNext
<1>6. ASSUME NEW r \in Requests, ProgressState(r) PROVE TypeOK'
  <2>1. AwsOK' /\ known' \in Settings
    BY <1>6, <1>a, <1>b DEF ProgressState
  <2>2. op' \in BOOLEAN
    BY <1>6, <1>a DEF ProgressState
  <2>3. RequestsOK'
    BY <1>6, <1>a, ReturnType DEF ProgressState, Replies
  <2> QED BY <2>1, <2>2, <2>3, TypePartsNext
<1>7. ASSUME NEW r \in Requests, DescribeReplicationGroup(r) PROVE TypeOK'
  <2>1. AwsOK' /\ op' \in BOOLEAN /\ known' \in Settings
    BY <1>7, <1>a, <1>b DEF DescribeReplicationGroup
  <2>2. RequestsOK'
    BY <1>7, <1>a, ReturnType, GotoType
       DEF DescribeReplicationGroup, Replies, RequestsOK, Calls, GetCalls
  <2> QED BY <2>1, <2>2, TypePartsNext
<1>8. ASSUME NEW r \in Requests, DescribeCacheCluster(r) PROVE TypeOK'
  <2>1. AwsOK' /\ op' \in BOOLEAN /\ known' \in Settings
    BY <1>8, <1>a, <1>b DEF DescribeCacheCluster
  <2>2. CASE Return(r, "dropped")
    BY <2>1, <2>2, <1>a, ReturnType, TypePartsNext DEF Replies
  <2>3. CASE /\ Goto(r, "getParameters")
             /\ \/ report' = [report EXCEPT ![r].window = window]
                \/ UNCHANGED report
    <3>1. report' \in [Requests -> [window : Texts, policy : Texts]]
      BY <2>3, <1>a DEF RequestsOK, AwsOK
    <3>2. RequestsOK'
      BY <3>1, <2>3, <1>8, <1>a, GotoType
         DEF DescribeCacheCluster, Calls, GetCalls
    <3> QED BY <2>1, <3>2, TypePartsNext
  <2> QED BY <2>2, <2>3, <1>8 DEF DescribeCacheCluster
<1>9. ASSUME NEW r \in Requests, DescribeCacheParameters(r) PROVE TypeOK'
  <2>1. AwsOK' /\ op' \in BOOLEAN /\ known' \in Settings
    BY <1>9, <1>a, <1>b DEF DescribeCacheParameters
  <2>2. CASE Return(r, "error")
    BY <2>1, <2>2, <1>a, ReturnType, TypePartsNext DEF Replies
  <2>3. CASE /\ Goto(r, "getTags")
             /\ report' = [report EXCEPT ![r].policy = policy]
    <3>1. report' \in [Requests -> [window : Texts, policy : Texts]]
      BY <2>3, <1>a DEF RequestsOK, AwsOK
    <3>2. RequestsOK'
      BY <3>1, <2>3, <1>9, <1>a, GotoType
         DEF DescribeCacheParameters, Calls, GetCalls
    <3> QED BY <2>1, <3>2, TypePartsNext
  <2> QED BY <1>9, <2>2, <2>3 DEF DescribeCacheParameters
<1>10. ASSUME NEW r \in Requests, GetInstanceTags(r) PROVE TypeOK'
  <2>1. AwsOK' /\ op' \in BOOLEAN /\ known' \in Settings
    BY <1>10, <1>a, <1>b DEF GetInstanceTags
  <2>2. RequestsOK'
    BY <1>10, <1>a, ReturnType DEF GetInstanceTags, Replies
  <2> QED BY <2>1, <2>2, TypePartsNext
<1>11. ASSUME NEW r \in Requests, ContextEnds(r) PROVE TypeOK'
  BY <1>11 DEF ContextEnds, TypeOK, awsVars, platformVars
<1>12. ASSUME Crash PROVE TypeOK'
  <2>1. RequestsOK'
    BY <1>12, <1>a, NoParametersType, NoReportType, UnknownType
       DEF Crash, RequestsOK
  <2>2. AwsOK' /\ op' \in BOOLEAN /\ known' \in Settings
    BY <1>12, <1>a, <1>b DEF Crash
  <2> QED BY <2>1, <2>2, TypePartsNext
<1>13. ASSUME ModificationEnds \/ SnapshotStarts \/ SnapshotEnds
       PROVE TypeOK'
  BY <1>13 DEF ModificationEnds, SnapshotStarts, SnapshotEnds, TypeOK,
               callVars, platformVars
<1>14. CASE UNCHANGED vars
  BY <1>14 DEF vars, TypeOK
<1> QED
  BY <1>1, <1>2, <1>3, <1>4, <1>5, <1>6, <1>7, <1>8, <1>9, <1>10, <1>11,
     <1>12, <1>13, <1>14 DEF Next, Begin, Call

(* The variables keep their types, and a request about to write a setting  *)
(* was asked for it: Update never sends AWS a window or a policy that the  *)
(* parsed parameters left unset.                                           *)
THEOREM TypeCorrect == Spec => []TypeOK
  BY TypeInit, TypeStep, PTL DEF Spec

-----------------------------------------------------------------------------
(***************************************************************************)
(* The inductive invariant.                                                *)
(***************************************************************************)

\* What Inv adds to TypeOK and CutInFlight.
Knowledge ==
    /\ KnownIsTrue /\ WritersKnown /\ WindowStillSet /\ ReadersUpToDate

LEMMA InvParts == Inv <=> TypeOK /\ CutInFlight /\ Knowledge
  BY DEF Inv, Knowledge

\* A call of a request ends it or takes it to another call.
LEMMA CallGoesOn ==
  ASSUME NEW r \in Requests, Call(r)
  PROVE  /\ pc[r] # "idle"
         /\ \/ \E answer \in Replies : Return(r, answer)
            \/ \E next \in Calls : Goto(r, next)
<1>1. CASE ModifyReplicationGroup(r) \/ ModifyCacheParameterGroup(r)
  BY <1>1 DEF ModifyReplicationGroup, ModifyCacheParameterGroup, AfterWindow,
     Accepted, Fails, Calls, UpdateCalls, Replies
<1>2. CASE ProgressState(r) \/ GetInstanceTags(r)
  BY <1>2 DEF ProgressState, GetInstanceTags, Replies
<1>3. CASE \/ DescribeReplicationGroup(r) \/ DescribeCacheCluster(r)
           \/ DescribeCacheParameters(r)
  BY <1>3 DEF DescribeReplicationGroup, DescribeCacheCluster,
     DescribeCacheParameters, Calls, GetCalls, Replies
<1> QED BY <1>1, <1>2, <1>3 DEF Call

LEMMA CutStep == TypeOK /\ CutInFlight /\ [Next]_vars => CutInFlight'
<1> SUFFICES ASSUME TypeOK, CutInFlight, [Next]_vars PROVE CutInFlight'
  OBVIOUS
<1>1. ASSUME UNCHANGED <<pc, cut>> PROVE CutInFlight'
  BY <1>1 DEF CutInFlight
<1>2. ASSUME NEW r \in Requests, NEW first, NEW params,
             Enter(r, first, params)
      PROVE  CutInFlight'
  BY <1>2 DEF Enter, CutInFlight, TypeOK
<1>3. ASSUME NEW r \in Requests, Begin(r) PROVE CutInFlight'
  BY <1>1, <1>2, <1>3 DEF Begin, Update, UpdateSettings, LastOperation,
     GetInstance
<1>4. ASSUME NEW r \in Requests, Call(r) PROVE CutInFlight'
  <2>1. CASE \E answer \in Replies : Return(r, answer)
    BY <2>1 DEF Return, CutInFlight, TypeOK
  <2>2. CASE \E next \in Calls : Goto(r, next)
    BY <2>2 DEF Goto, CutInFlight, TypeOK, Calls, UpdateCalls, GetCalls
  <2> QED BY <1>4, <2>1, <2>2, CallGoesOn
<1>5. ASSUME NEW r \in Requests, ContextEnds(r) PROVE CutInFlight'
  BY <1>5 DEF ContextEnds, CutInFlight
<1>6. CASE Crash
  BY <1>6 DEF Crash, CutInFlight
<1>7. CASE \/ ModificationEnds \/ SnapshotStarts \/ SnapshotEnds
           \/ UNCHANGED vars
  BY <1>1, <1>7 DEF ModificationEnds, SnapshotStarts, SnapshotEnds, callVars,
     vars
<1> QED BY <1>3, <1>4, <1>5, <1>6, <1>7 DEF Next

\* The end of a request that changed no setting, as far as it knows.
LEMMA ReturnKeeps ==
  ASSUME Inv, NEW r \in Requests, NEW answer, Return(r, answer),
         UNCHANGED <<window, policy, known>>, op' => op
  PROVE  Knowledge'
<1>1. KnownIsTrue'
  BY DEF Inv, KnownIsTrue
<1>2. WritersKnown'
  BY DEF Inv, TypeOK, WritersKnown, Return, UpdateCalls
<1>3. WindowStillSet'
  BY DEF Inv, TypeOK, WindowStillSet, Return
<1>4. ReadersUpToDate'
  BY DEF Inv, TypeOK, ReadersUpToDate, Return, Unknown,
         NoReport
<1> QED BY <1>1, <1>2, <1>3, <1>4 DEF Knowledge

\* A request that goes on without having changed a setting.
LEMMA ReadKeeps ==
  ASSUME Inv, NEW r \in Requests, NEW next, Goto(r, next),
         next \notin UpdateCalls, pc[r] \notin UpdateCalls,
         UNCHANGED <<window, policy, op, known>>, ReadersUpToDate'
  PROVE  Knowledge'
<1>1. KnownIsTrue'
  BY DEF Inv, KnownIsTrue
<1>2. WritersKnown'
  BY DEF Inv, TypeOK, WritersKnown, Goto, UpdateCalls
<1>3. WindowStillSet'
  BY DEF Inv, TypeOK, WindowStillSet, Goto, UpdateCalls
<1> QED BY <1>1, <1>2, <1>3 DEF Knowledge

\* Only the setting r writes changes, and it is in doubt, so nobody else is
\* about to write and no reader relies on it.
LEMMA WindowWritten ==
  ASSUME Inv, NEW r \in Requests, pc[r] = "modifyRG", SetWindow(r),
         UNCHANGED policy
  PROVE  /\ known.window = Nil
         /\ \A q \in Requests : base[q].window = Nil
         /\ \A q \in Requests : pc[q] = "modifyPG" => q \in cut
<1>1. known.window = Nil
  BY DEF Inv, TypeOK, WritersKnown, SetWindow, UpdateCalls
<1>2. \A q \in Requests : base[q].window = Nil
  BY <1>1 DEF Inv, ReadersUpToDate
<1>3. \A q \in Requests : pc[q] = "modifyPG" => q \in cut
  BY DEF Inv, WritersKnown, SetWindow, UpdateCalls
<1> QED BY <1>1, <1>2, <1>3

LEMMA PolicyWritten ==
  ASSUME Inv, NEW r \in Requests, pc[r] = "modifyPG", r \notin cut
  PROVE  /\ known.policy = Nil
         /\ \A q \in Requests : base[q].policy = Nil
<1>1. known.policy = Nil
  BY DEF Inv, TypeOK, WritersKnown, UpdateCalls
<1>2. \A q \in Requests : base[q].policy = Nil
  BY <1>1 DEF Inv, ReadersUpToDate
<1> QED BY <1>1, <1>2

\* The only Update under way is accepted: its settings are in place.
LEMMA AcceptedKeeps ==
  ASSUME Inv, NEW r \in Requests, pc[r] \in UpdateCalls, r \notin cut,
         Accepted(r),
         want[r].window # Empty => window' = want[r].window,
         want[r].window = Empty => window' = window,
         want[r].policy # Nil => policy' = want[r].policy,
         want[r].policy = Nil => policy' = policy
  PROVE  Knowledge'
<1>1. /\ want[r].window # Empty => known.window = Nil
      /\ want[r].policy # Nil => known.policy = Nil
      /\ \A q \in Requests : pc[q] \in UpdateCalls /\ q \notin cut => q = r
  BY DEF Inv, WritersKnown
<1>2. /\ pc' = [pc EXCEPT ![r] = "idle"]
      /\ report' = [report EXCEPT ![r] = NoReport]
      /\ base' = [base EXCEPT ![r] = Unknown]
      /\ cut' = cut \ {r}
  BY DEF Accepted, Return
<1>3. /\ known'.window = IF want[r].window # Empty THEN want[r].window
                                                   ELSE known.window
      /\ known'.policy = IF want[r].policy # Nil THEN want[r].policy
                                                 ELSE known.policy
  BY DEF Accepted
<1>4. KnownIsTrue'
  BY <1>3 DEF Inv, KnownIsTrue
<1>5. \A q \in Requests : pc'[q] \in UpdateCalls => q \in cut'
  BY <1>1, <1>2 DEF Inv, TypeOK, UpdateCalls
<1>6. WritersKnown' /\ WindowStillSet'
  BY <1>5 DEF WritersKnown, WindowStillSet, UpdateCalls
<1>7. ReadersUpToDate'
  <2> SUFFICES ASSUME NEW q \in Requests
               PROVE  /\ base'[q].window \in {Nil, known'.window}
                      /\ base'[q].policy \in {Nil, known'.policy}
                      /\ \/ report'[q].window = Empty
                         \/ /\ pc'[q] \in {"getParameters", "getTags"}
                            /\ base'[q].window \in {Nil, report'[q].window}
                      /\ pc'[q] = "getTags" =>
                          base'[q].policy \in {Nil, report'[q].policy}
    BY DEF ReadersUpToDate
  <2>1. CASE q = r
    BY <2>1, <1>2 DEF Inv, TypeOK, Unknown, NoReport
  <2>2. CASE q # r
    BY <2>2, <1>1, <1>2, <1>3 DEF Inv, TypeOK, ReadersUpToDate
  <2> QED BY <2>1, <2>2
<1> QED BY <1>4, <1>6, <1>7 DEF Knowledge

LEMMA InvInit == Init => Inv
<1> SUFFICES ASSUME Init PROVE Inv
  OBVIOUS
<1>1. KnownIsTrue
  BY DEF Init, KnownIsTrue, Unknown
<1>2. WritersKnown /\ WindowStillSet
  BY DEF Init, WritersKnown, WindowStillSet, UpdateCalls
<1>3. ReadersUpToDate
  BY DEF Init, ReadersUpToDate, Unknown, NoReport
<1>4. CutInFlight
  BY DEF Init, CutInFlight
<1> QED BY <1>1, <1>2, <1>3, <1>4, TypeInit DEF Inv

LEMMA UpdateKeeps ==
  ASSUME Inv, NEW r \in Requests, Update(r)
  PROVE  Knowledge'
<1>1. UNCHANGED <<window, policy, status, op>> /\ ~Updating
  BY DEF Update, awsVars
<1>2. PICK d \in Decisions :
        \/ d.answer = "settings" /\ UpdateSettings(r, d.params)
        \/ /\ d.answer # "settings"
           /\ UNCHANGED <<pc, want, report, cut, known, base>>
  BY DEF Update
<1>3. CASE UNCHANGED <<pc, want, report, cut, known, base>>
  <2>1. KnownIsTrue' /\ WindowStillSet' /\ ReadersUpToDate'
    BY <1>1, <1>3
       DEF Inv, KnownIsTrue, WindowStillSet, ReadersUpToDate
  <2>2. WritersKnown'
    BY <1>1, <1>3 DEF Inv, WritersKnown
  <2> QED BY <2>1, <2>2 DEF Knowledge
<1>4. CASE d.answer = "settings" /\ UpdateSettings(r, d.params)
  <2> DEFINE params == d.params
             first == IF params.window # Empty THEN "modifyRG" ELSE "modifyPG"
  <2>1. /\ pc[r] = "idle"
        /\ pc' = [pc EXCEPT ![r] = first]
        /\ want' = [want EXCEPT ![r] = params]
        /\ UNCHANGED <<report, cut>>
        /\ known' = Forget(known, params)
        /\ base' = [q \in Requests |-> Forget(base[q], params)]
    BY <1>4 DEF UpdateSettings, Enter
  <2> HIDE DEF params
  <2>2. \A q \in Requests : pc[q] \in UpdateCalls => q \in cut
    BY <1>1 DEF Updating
  <2>3. ~op
    BY <1>1 DEF Updating
  <2>4. KnownIsTrue'
    BY <1>1, <2>1 DEF Inv, KnownIsTrue, Forget
  <2>5. WritersKnown'
    <3>1. \A q \in Requests : pc'[q] \in UpdateCalls /\ q \notin cut' => q = r
      BY <2>1, <2>2 DEF Inv, TypeOK
    <3>2. want'[r] = params
      BY <2>1 DEF Inv, TypeOK
    <3>3. /\ params.window # Empty => known'.window = Nil
          /\ params.policy # Nil => known'.policy = Nil
      BY <2>1 DEF Forget
    <3>4. ~op'
      BY <1>1, <2>3
    <3> QED BY <3>1, <3>2, <3>3, <3>4 DEF WritersKnown
  <2>6. WindowStillSet'
    BY <1>1, <2>1 DEF Inv, TypeOK, WindowStillSet
  <2>7. ReadersUpToDate'
    BY <2>1 DEF Inv, TypeOK, ReadersUpToDate, Forget
  <2> QED BY <2>4, <2>5, <2>6, <2>7 DEF Knowledge
<1> QED BY <1>2, <1>3, <1>4

LEMMA ModifyReplicationGroupKeeps ==
  ASSUME Inv, NEW r \in Requests, ModifyReplicationGroup(r)
  PROVE  Knowledge'
<1>1. pc[r] = "modifyRG" /\ UNCHANGED policy
  BY DEF ModifyReplicationGroup
<1>2. CASE UNCHANGED window /\ Fails(r)
  BY <1>1, <1>2, ReturnKeeps DEF Fails
<1>3. ASSUME SetWindow(r), Fails(r) PROVE Knowledge'
  <2>1. /\ known.window = Nil
        /\ \A q \in Requests : base[q].window = Nil
        /\ \A q \in Requests : pc[q] = "modifyPG" => q \in cut
    BY <1>1, <1>3, WindowWritten
  <2>2. UNCHANGED <<op, known>> /\ Return(r, "error")
    BY <1>3 DEF Fails
  <2>3. KnownIsTrue'
    BY <1>1, <2>1, <2>2 DEF Inv, KnownIsTrue
  <2>4. WritersKnown'
    BY <2>2 DEF Inv, TypeOK, WritersKnown, Return, UpdateCalls
  <2>5. WindowStillSet'
    BY <2>1, <2>2 DEF Inv, TypeOK, WindowStillSet, Return
  <2>6. ReadersUpToDate'
    BY <2>2 DEF Inv, TypeOK, ReadersUpToDate, Return, Unknown,
         NoReport
  <2> QED BY <2>3, <2>4, <2>5, <2>6 DEF Knowledge
<1>4. ASSUME SetWindow(r), AfterWindow(r) PROVE Knowledge'
  <2>1. /\ known.window = Nil
        /\ \A q \in Requests : base[q].window = Nil
        /\ \A q \in Requests : pc[q] = "modifyPG" => q \in cut
    BY <1>1, <1>4, WindowWritten
  <2>2. r \notin cut /\ window' = want[r].window /\ want[r].window # Empty
    BY <1>1, <1>4 DEF SetWindow, Inv, TypeOK
  <2>3. CASE want[r].policy = Nil /\ Accepted(r)
    BY <2>2, <2>3, <1>1, AcceptedKeeps DEF UpdateCalls
  <2>4. CASE Goto(r, "modifyPG") /\ UNCHANGED <<report, op, known>>
    <3>1. KnownIsTrue'
      BY <1>1, <2>1, <2>4 DEF Inv, KnownIsTrue
    <3>2. WritersKnown'
      BY <1>1, <2>4 DEF Inv, TypeOK, WritersKnown, Goto, UpdateCalls
    <3>3. WindowStillSet'
      BY <2>1, <2>2, <2>4 DEF Inv, TypeOK, WindowStillSet, Goto
    <3>4. ReadersUpToDate'
      BY <1>1, <2>4 DEF Inv, TypeOK, ReadersUpToDate, Goto
    <3> QED BY <3>1, <3>2, <3>3, <3>4 DEF Knowledge
  <2> QED BY <2>3, <2>4, <1>4 DEF AfterWindow
<1> QED BY <1>2, <1>3, <1>4 DEF ModifyReplicationGroup

LEMMA ModifyCacheParameterGroupKeeps ==
  ASSUME Inv, NEW r \in Requests, ModifyCacheParameterGroup(r)
  PROVE  Knowledge'
<1>1. pc[r] = "modifyPG" /\ UNCHANGED <<window, status>>
  BY DEF ModifyCacheParameterGroup
<1>2. CASE UNCHANGED policy /\ Fails(r)
  BY <1>1, <1>2, ReturnKeeps DEF Fails
<1>3. ASSUME r \notin cut, policy' = want[r].policy, Fails(r)
      PROVE  Knowledge'
  <2>1. /\ known.policy = Nil
        /\ \A q \in Requests : base[q].policy = Nil
    BY <1>1, <1>3, PolicyWritten
  <2>2. UNCHANGED <<op, known>> /\ Return(r, "error")
    BY <1>3 DEF Fails
  <2>3. KnownIsTrue'
    BY <1>1, <2>1, <2>2 DEF Inv, KnownIsTrue
  <2>4. WritersKnown'
    BY <2>2 DEF Inv, TypeOK, WritersKnown, Return, UpdateCalls
  <2>5. WindowStillSet'
    BY <1>1, <2>2 DEF Inv, TypeOK, WindowStillSet, Return
  <2>6. ReadersUpToDate'
    BY <2>2 DEF Inv, TypeOK, ReadersUpToDate, Return, Unknown,
         NoReport
  <2> QED BY <2>3, <2>4, <2>5, <2>6 DEF Knowledge
<1>4. ASSUME r \notin cut, policy' = want[r].policy, Accepted(r)
      PROVE  Knowledge'
  <2>1. want[r].policy # Nil /\ want[r].window \in {Empty, window}
    BY <1>1, <1>4 DEF Inv, TypeOK, WindowStillSet
  <2> QED BY <2>1, <1>1, <1>4, AcceptedKeeps DEF UpdateCalls
<1> QED BY <1>2, <1>3, <1>4 DEF ModifyCacheParameterGroup

LEMMA DescribeCacheClusterKeeps ==
  ASSUME Inv, NEW r \in Requests, DescribeCacheCluster(r)
  PROVE  Knowledge'
<1>1. pc[r] = "getCluster" /\ UNCHANGED <<window, policy, op, known>>
  BY DEF DescribeCacheCluster, awsVars
<1>2. CASE Return(r, "dropped")
  BY <1>1, <1>2, ReturnKeeps
<1>3. CASE /\ Goto(r, "getParameters")
           /\ \/ report' = [report EXCEPT ![r].window = window]
              \/ UNCHANGED report
  <2>1. base[r].window \in {Nil, window}
    BY DEF Inv, KnownIsTrue, ReadersUpToDate
  <2>2. \/ base[r].window \in {Nil, report'[r].window}
        \/ report'[r].window = Empty
    <3>1. CASE report' = [report EXCEPT ![r].window = window]
      BY <2>1, <3>1 DEF Inv, TypeOK
    <3>2. CASE UNCHANGED report
      BY <3>2, <1>1 DEF Inv, ReadersUpToDate
    <3> QED BY <3>1, <3>2, <1>3
  <2>3. ReadersUpToDate'
    BY <1>1, <1>3, <2>2 DEF Inv, TypeOK, ReadersUpToDate, Goto
  <2> QED BY <1>1, <1>3, <2>3, ReadKeeps DEF UpdateCalls
<1> QED BY <1>2, <1>3 DEF DescribeCacheCluster

LEMMA DescribeCacheParametersKeeps ==
  ASSUME Inv, NEW r \in Requests, DescribeCacheParameters(r)
  PROVE  Knowledge'
<1>1. pc[r] = "getParameters" /\ UNCHANGED <<window, policy, op, known>>
  BY DEF DescribeCacheParameters, awsVars
<1>2. CASE Return(r, "error")
  BY <1>1, <1>2, ReturnKeeps
<1>3. CASE /\ Goto(r, "getTags")
           /\ report' = [report EXCEPT ![r].policy = policy]
  <2>1. base[r].policy \in {Nil, policy}
    BY DEF Inv, KnownIsTrue, ReadersUpToDate
  <2>2. ReadersUpToDate'
    BY <1>1, <1>3, <2>1 DEF Inv, TypeOK, ReadersUpToDate, Goto
  <2> QED BY <1>1, <1>3, <2>2, ReadKeeps DEF UpdateCalls
<1> QED BY <1>2, <1>3 DEF DescribeCacheParameters

LEMMA EnterKeeps ==
  ASSUME Inv, NEW r \in Requests, NEW first \in {"describe", "getGroup"},
         Enter(r, first, NoParameters), UNCHANGED <<awsVars, op, known>>,
         base' = base \/ base' = [base EXCEPT ![r] = known]
  PROVE  Knowledge'
<1>1. UNCHANGED <<window, policy, op, known>>
  BY DEF awsVars
<1>2. KnownIsTrue'
  BY <1>1 DEF Inv, KnownIsTrue
<1>3. WritersKnown'
  BY <1>1 DEF Inv, TypeOK, WritersKnown, Enter, UpdateCalls
<1>4. WindowStillSet'
  BY <1>1 DEF Inv, TypeOK, WindowStillSet, Enter
<1>5. ReadersUpToDate'
  BY <1>1 DEF Inv, TypeOK, ReadersUpToDate, Enter
<1> QED BY <1>2, <1>3, <1>4, <1>5 DEF Knowledge

LEMMA InvStep == Inv /\ [Next]_vars => Inv'
<1> SUFFICES ASSUME Inv, [Next]_vars PROVE Knowledge'
  BY TypeStep, CutStep DEF Inv, Knowledge
<1>1. ASSUME NEW r \in Requests, LastOperation(r) PROVE Knowledge'
  BY <1>1, EnterKeeps DEF LastOperation, platformVars
<1>2. ASSUME NEW r \in Requests, GetInstance(r) PROVE Knowledge'
  BY <1>2, EnterKeeps DEF GetInstance
<1>3. ASSUME NEW r \in Requests, ProgressState(r) PROVE Knowledge'
  <2>1. UNCHANGED <<window, policy, known>>
    BY <1>3 DEF ProgressState, awsVars
  <2>2. op' => op
    BY <1>3 DEF ProgressState
  <2> QED BY <1>3, <2>1, <2>2, ReturnKeeps DEF ProgressState
<1>4. ASSUME NEW r \in Requests, DescribeReplicationGroup(r)
      PROVE  Knowledge'
  <2>1. pc[r] = "getGroup" /\ UNCHANGED <<window, policy, op, known>>
    BY <1>4 DEF DescribeReplicationGroup, awsVars
  <2>2. CASE Return(r, "error")
    BY <2>1, <2>2, ReturnKeeps
  <2>3. CASE Goto(r, "getCluster") /\ UNCHANGED report
    <3>1. ReadersUpToDate'
      BY <2>1, <2>3 DEF Inv, TypeOK, ReadersUpToDate, Goto
    <3> QED BY <2>1, <2>3, <3>1, ReadKeeps DEF UpdateCalls
  <2> QED BY <1>4, <2>2, <2>3 DEF DescribeReplicationGroup
<1>5. ASSUME NEW r \in Requests, GetInstanceTags(r) PROVE Knowledge'
  BY <1>5, ReturnKeeps DEF GetInstanceTags, awsVars
<1>6. ASSUME NEW r \in Requests, ContextEnds(r) PROVE Knowledge'
  <2>1. /\ UNCHANGED <<window, policy, pc, want, report, op, known, base>>
        /\ cut' = cut \cup {r}
    BY <1>6 DEF ContextEnds, awsVars, platformVars
  <2>2. KnownIsTrue' /\ ReadersUpToDate'
    BY <2>1 DEF Inv, KnownIsTrue, ReadersUpToDate
  <2>3. WindowStillSet'
    BY <2>1 DEF Inv, WindowStillSet
  <2>4. WritersKnown'
    BY <2>1 DEF Inv, WritersKnown
  <2> QED BY <2>2, <2>3, <2>4 DEF Knowledge
<1>7. ASSUME Crash PROVE Knowledge'
  <2>1. /\ UNCHANGED <<window, policy, op, known>>
        /\ \A r \in Requests : /\ pc'[r] = "idle" /\ base'[r] = Unknown
                               /\ report'[r] = NoReport
    BY <1>7 DEF Crash, awsVars
  <2>2. KnownIsTrue'
    BY <2>1 DEF Inv, KnownIsTrue
  <2>3. WritersKnown' /\ WindowStillSet' /\ ReadersUpToDate'
    BY <2>1 DEF WritersKnown, WindowStillSet, ReadersUpToDate, UpdateCalls,
                Unknown, NoReport
  <2> QED BY <2>2, <2>3 DEF Knowledge
<1>8. ASSUME UNCHANGED <<window, policy, pc, want, report, cut, op, known,
                         base>>
      PROVE  Knowledge'
  <2>1. KnownIsTrue' /\ ReadersUpToDate' /\ WindowStillSet'
    BY <1>8 DEF Inv, KnownIsTrue, ReadersUpToDate, WindowStillSet
  <2>2. WritersKnown'
    BY <1>8 DEF Inv, WritersKnown
  <2> QED BY <2>1, <2>2 DEF Knowledge
<1>9. CASE ModificationEnds \/ SnapshotStarts \/ SnapshotEnds
  BY <1>8, <1>9 DEF ModificationEnds, SnapshotStarts, SnapshotEnds, callVars,
                    platformVars
<1>10. CASE UNCHANGED vars
  BY <1>8, <1>10 DEF vars
<1> QED
  BY <1>1, <1>2, <1>3, <1>4, <1>5, <1>6, <1>7, <1>9, <1>10, UpdateKeeps,
     ModifyReplicationGroupKeeps, ModifyCacheParameterGroupKeeps,
     DescribeCacheClusterKeeps, DescribeCacheParametersKeeps
  DEF Next, Begin, Call

(* In every state: what the platform was promised is what AWS has, also    *)
(* while handlers of abandoned Updates of broker.go are still running.     *)
THEOREM Safety == Spec => []Inv
  BY InvInit, InvStep, PTL DEF Spec

(* A setting whose Update was accepted stays until another is asked for.   *)
THEOREM AcceptedIsTrue == Spec => []KnownIsTrue
<1>1. Inv => KnownIsTrue
  BY DEF Inv
<1> QED BY <1>1, Safety, PTL

(* Update writes the maxmemory policy only after the window that was asked *)
(* for with it is in place.                                                *)
THEOREM WindowIsFirst == Spec => WindowBeforePolicy
<1>1. Inv /\ [Next]_vars =>
        [policy' # policy =>
            \E r \in Requests :
                /\ pc[r] \in UpdateCalls /\ want[r].policy = policy'
                /\ want[r].window \in {Empty, window}]_vars
  <2> SUFFICES ASSUME Inv, Next, policy' # policy
               PROVE  \E r \in Requests :
                        /\ pc[r] \in UpdateCalls /\ want[r].policy = policy'
                        /\ want[r].window \in {Empty, window}
    BY DEF vars
  <2>1. PICK r \in Requests : ModifyCacheParameterGroup(r)
    BY DEF Next, Begin, Call, Update, LastOperation, GetInstance, awsVars,
           ModifyReplicationGroup, ProgressState, DescribeReplicationGroup,
           DescribeCacheCluster, DescribeCacheParameters, GetInstanceTags,
           ContextEnds, Crash, ModificationEnds, SnapshotStarts, SnapshotEnds
  <2>2. pc[r] = "modifyPG" /\ r \notin cut /\ policy' = want[r].policy
    BY <2>1 DEF ModifyCacheParameterGroup
  <2> QED BY <2>2 DEF Inv, WindowStillSet, UpdateCalls
<1> QED BY <1>1, Safety, PTL DEF Spec, WindowBeforePolicy

(* GetInstance reports a policy that was accepted before it was sent, and  *)
(* the window likewise or none, although it reads them in separate calls.  *)
THEOREM ReadsAreAccepted == Spec => ReadsAccepted
<1>1. Inv => \A r \in Requests : pc[r] = "getTags" =>
                /\ base[r].policy \in {Nil, report[r].policy}
                /\ base[r].window \in {Nil, report[r].window}
                    \/ report[r].window = Empty
  BY DEF Inv, ReadersUpToDate
<1>2. Inv /\ [Next]_vars =>
        [\A r \in Requests :
            pc[r] = "getTags" /\ reply'[r] = "details" =>
                /\ base[r].policy \in {Nil, report[r].policy}
                /\ base[r].window \in {Nil, report[r].window}
                    \/ report[r].window = Empty]_vars
  BY <1>1
<1> QED BY <1>2, Safety, PTL DEF Spec, ReadsAccepted

-----------------------------------------------------------------------------
(***************************************************************************)
(* Update implements SettingsContract.                                     *)
(***************************************************************************)
Asked == {want[r] : r \in LiveUpdates}

\* A step that the contract does not see.
Hidden == UNCHANGED <<window, policy, op, known>> /\ Asked' = Asked

LEMMA HiddenStutters == Hidden => UNCHANGED Contract!contractVars
  BY DEF Hidden, Asked, Contract!contractVars

\* There is one Update under way at most.
LEMMA OnlyAsked ==
  ASSUME Inv, NEW r \in LiveUpdates
  PROVE  Asked = {want[r]}
<1>1. \A q \in LiveUpdates : q = r
  BY DEF Inv, WritersKnown, LiveUpdates
<1> QED BY <1>1 DEF Asked

LEMMA SameAsked ==
  ASSUME LiveUpdates' = LiveUpdates,
         \A q \in LiveUpdates : want'[q] = want[q]
  PROVE  Asked' = Asked
  BY DEF Asked

\* A request ends, or goes from call to call: it is not under way any more, or
\* as much as before.
LEMMA ReturnEnds ==
  ASSUME Inv, NEW r \in Requests, NEW answer, Return(r, answer)
  PROVE  /\ r \in LiveUpdates => Asked' = {}
         /\ r \notin LiveUpdates => Asked' = Asked
<1>1. /\ LiveUpdates' = LiveUpdates \ {r}
      /\ \A q \in LiveUpdates' : want'[q] = want[q]
  BY DEF Inv, TypeOK, Return, LiveUpdates, UpdateCalls
<1>2. CASE r \in LiveUpdates
  <2>1. LiveUpdates' = {}
    BY <1>1, <1>2 DEF Inv, WritersKnown, LiveUpdates
  <2> QED BY <1>2, <2>1 DEF Asked
<1>3. CASE r \notin LiveUpdates
  BY <1>1, <1>3, SameAsked
<1> QED BY <1>2, <1>3

LEMMA GotoKeepsAsked ==
  ASSUME Inv, NEW r \in Requests, NEW next, Goto(r, next),
         pc[r] \in UpdateCalls <=> next \in UpdateCalls
  PROVE  Asked' = Asked
<1>1. LiveUpdates' = LiveUpdates /\ want' = want
  BY DEF Inv, TypeOK, Goto, LiveUpdates
<1> QED BY <1>1, SameAsked

\* A step of the Update under way is a step of the contract.
LEMMA WorkImplements ==
  ASSUME Inv, NEW r \in LiveUpdates, Contract!Work(want[r])
  PROVE  Contract!ContractNext
<1>1. want[r] \in {want[q] : q \in LiveUpdates}
  OBVIOUS
<1>2. \E w \in {want[q] : q \in LiveUpdates} : Contract!Work(w)
  BY <1>1 DEF Contract!Work, Contract!WriteWindow, Contract!WritePolicy,
     Contract!Accept, Contract!Abandon
<1> QED BY <1>2 DEF Contract!ContractNext

\* The Update under way is accepted.
LEMMA AcceptedAccepts ==
  ASSUME Inv, NEW r \in LiveUpdates, Accepted(r),
         want[r].window \in {Empty, window'}, want[r].policy \in {Nil, policy'}
  PROVE  Contract!Accept(want[r])
<1>1. Asked' = {} /\ op' = TRUE
  BY ReturnEnds DEF Accepted, LiveUpdates
<1>2. known' = [window |-> IF want[r].window # Empty THEN window'
                                                     ELSE known.window,
                policy |-> IF want[r].policy # Nil THEN policy'
                                                   ELSE known.policy]
  BY DEF Accepted
<1> QED BY <1>1, <1>2 DEF Asked, Contract!Accept

LEMMA FailsAbandons ==
  ASSUME Inv, NEW r \in Requests, Fails(r)
  PROVE  /\ r \in LiveUpdates => Contract!Abandon
         /\ r \notin LiveUpdates => Asked' = Asked /\ UNCHANGED <<op, known>>
<1>1. UNCHANGED <<op, known>> /\ Return(r, "error")
  BY DEF Fails
<1> QED BY <1>1, ReturnEnds DEF Asked, Contract!Abandon

LEMMA UpdateImplements ==
  ASSUME Inv, NEW r \in Requests, Update(r)
  PROVE  Contract!ContractNext \/ Hidden
<1>1. /\ UNCHANGED <<window, policy, op>> /\ pc[r] = "idle" /\ ~op
      /\ LiveUpdates = {}
  BY DEF Update, awsVars, Updating, LiveUpdates
<1>2. PICK d \in Decisions :
        \/ d.answer = "settings" /\ UpdateSettings(r, d.params)
        \/ /\ d.answer # "settings"
           /\ UNCHANGED <<pc, want, report, cut, known, base>>
  BY DEF Update
<1>3. CASE UNCHANGED <<pc, want, report, cut, known, base>>
  BY <1>1, <1>3, SameAsked DEF Hidden, LiveUpdates
<1>4. CASE d.answer = "settings" /\ UpdateSettings(r, d.params)
  <2>1. d.params \in UpdateParameters
    BY <1>4, SettingsAsked
  <2>2. LiveUpdates' = {r} /\ want'[r] = d.params
    BY <1>1, <1>4 DEF Inv, TypeOK, CutInFlight, UpdateSettings, Enter,
       LiveUpdates, UpdateCalls
  <2>3. Asked = {} /\ Asked' = {d.params}
    BY <1>1, <2>2 DEF Asked
  <2>4. known' = [window |-> IF d.params.window # Empty THEN Nil
                                                        ELSE known.window,
                  policy |-> IF d.params.policy # Nil THEN Nil
                                                      ELSE known.policy]
    BY <1>4 DEF UpdateSettings, Forget
  <2>5. Contract!Ask(d.params)
    BY <1>1, <2>3, <2>4 DEF Asked, Contract!Ask
  <2> QED BY <2>1, <2>5 DEF UpdateParameters, Contract!ContractNext
<1> QED BY <1>2, <1>3, <1>4

LEMMA ModifyReplicationGroupImplements ==
  ASSUME Inv, NEW r \in Requests, ModifyReplicationGroup(r)
  PROVE  Contract!ContractNext \/ Hidden
<1>1. /\ pc[r] = "modifyRG" /\ UNCHANGED policy /\ want[r].window # Empty
      /\ r \in LiveUpdates <=> r \notin cut
  BY DEF ModifyReplicationGroup, Inv, TypeOK, LiveUpdates, UpdateCalls
<1>2. CASE SetWindow(r)
  <2>1. r \in LiveUpdates /\ Contract!WriteWindow(want[r])
    BY <1>1, <1>2 DEF SetWindow, Contract!WriteWindow
  <2>2. CASE Fails(r)
    BY <2>1, <2>2, FailsAbandons, WorkImplements DEF Contract!Work
  <2>3. CASE want[r].policy = Nil /\ Accepted(r)
    <3>1. Contract!Accept(want[r])
      BY <1>2, <2>1, <2>3, AcceptedAccepts DEF SetWindow
    <3> QED BY <2>1, <3>1, WorkImplements DEF Contract!Work
  <2>4. CASE Goto(r, "modifyPG") /\ UNCHANGED <<report, op, known>>
    <3>1. Asked' = Asked
      BY <1>1, <2>4, GotoKeepsAsked DEF UpdateCalls
    <3> QED BY <2>1, <2>4, <3>1, WorkImplements DEF Asked, Contract!Work
  <2> QED BY <1>2, <2>2, <2>3, <2>4 DEF ModifyReplicationGroup, AfterWindow
<1>3. CASE UNCHANGED <<window, status>> /\ Fails(r)
  <2>1. CASE r \in LiveUpdates
    BY <1>1, <1>3, <2>1, FailsAbandons, WorkImplements DEF Contract!Work
  <2>2. CASE r \notin LiveUpdates
    BY <1>1, <1>3, <2>2, FailsAbandons DEF Hidden
  <2> QED BY <2>1, <2>2
<1> QED BY <1>2, <1>3 DEF ModifyReplicationGroup

LEMMA ModifyCacheParameterGroupImplements ==
  ASSUME Inv, NEW r \in Requests, ModifyCacheParameterGroup(r)
  PROVE  Contract!ContractNext \/ Hidden
<1>1. /\ pc[r] = "modifyPG" /\ UNCHANGED window /\ want[r].policy # Nil
      /\ r \in LiveUpdates <=> r \notin cut
  BY DEF ModifyCacheParameterGroup, Inv, TypeOK, LiveUpdates, UpdateCalls
<1>2. CASE r \notin cut /\ policy' = want[r].policy
  <2>1. want[r].window \in {Empty, window}
    BY <1>1, <1>2 DEF Inv, WindowStillSet
  <2>2. r \in LiveUpdates /\ Contract!WritePolicy(want[r])
    BY <1>1, <1>2, <2>1 DEF Contract!WritePolicy
  <2>3. CASE Fails(r)
    BY <2>2, <2>3, FailsAbandons, WorkImplements DEF Contract!Work
  <2>4. CASE Accepted(r)
    <3>1. Contract!Accept(want[r])
      BY <1>1, <1>2, <2>1, <2>2, <2>4, AcceptedAccepts
    <3> QED BY <2>2, <3>1, WorkImplements DEF Contract!Work
  <2> QED BY <1>2, <2>3, <2>4 DEF ModifyCacheParameterGroup
<1>3. CASE UNCHANGED policy /\ Fails(r)
  <2>1. CASE r \in LiveUpdates
    BY <1>1, <1>3, <2>1, FailsAbandons, WorkImplements DEF Contract!Work
  <2>2. CASE r \notin LiveUpdates
    BY <1>1, <1>3, <2>2, FailsAbandons DEF Hidden
  <2> QED BY <2>1, <2>2
<1> QED BY <1>2, <1>3 DEF ModifyCacheParameterGroup

\* Polls and GetInstance write nothing.
LEMMA ReadersImplement ==
  ASSUME Inv, NEW r \in Requests,
         \/ ProgressState(r) \/ DescribeReplicationGroup(r)
         \/ DescribeCacheCluster(r) \/ DescribeCacheParameters(r)
         \/ GetInstanceTags(r)
  PROVE  Contract!ContractNext \/ Hidden
<1> USE DEF ProgressState, DescribeReplicationGroup, DescribeCacheCluster,
        DescribeCacheParameters, GetInstanceTags
<1>1. /\ UNCHANGED <<window, policy, known>> /\ pc[r] \notin UpdateCalls
      /\ op' = op \/ op' = FALSE
  BY DEF awsVars, UpdateCalls
<1>2. Asked' = Asked
  <2>1. r \notin LiveUpdates
    BY <1>1 DEF LiveUpdates
  <2>2. CASE \E answer \in Replies : Return(r, answer)
    BY <2>1, <2>2, ReturnEnds
  <2>3. CASE \E next \in GetCalls : Goto(r, next)
    BY <1>1, <2>3, GotoKeepsAsked DEF GetCalls, UpdateCalls
  <2> QED BY <2>2, <2>3 DEF Replies, GetCalls
<1>3. CASE op' = op
  BY <1>1, <1>2, <1>3 DEF Hidden
<1>4. CASE op /\ op' = FALSE
  BY <1>1, <1>2, <1>4 DEF Asked, Contract!Done, Contract!ContractNext
<1> QED BY <1>1, <1>3, <1>4 DEF Inv, TypeOK

\* Requests that begin, contexts that end, the end of the process.
LEMMA OthersImplement ==
  ASSUME Inv, NEW r \in Requests,
         \/ LastOperation(r) \/ GetInstance(r) \/ ContextEnds(r) \/ Crash
  PROVE  Contract!ContractNext \/ Hidden
<1>1. UNCHANGED <<window, policy, op, known>>
  BY DEF LastOperation, GetInstance, ContextEnds, Crash, awsVars,
     platformVars
<1>2. CASE LastOperation(r) \/ GetInstance(r)
  <2>1. /\ LiveUpdates' = LiveUpdates
        /\ \A q \in LiveUpdates : want'[q] = want[q]
    BY <1>2 DEF LastOperation, GetInstance, Enter, LiveUpdates, UpdateCalls,
       Inv, TypeOK
  <2> QED BY <1>1, <2>1, SameAsked DEF Hidden
<1>3. ASSUME NEW q \in LiveUpdates, LiveUpdates' = {}
      PROVE  Contract!ContractNext
  <2>1. Asked' = {}
    BY <1>3 DEF Asked
  <2>2. Contract!Work(want[q])
    BY <1>1, <2>1 DEF Asked, Contract!Work, Contract!Abandon
  <2> QED
    BY <2>2, WorkImplements
    DEF Contract!Work, Contract!WriteWindow, Contract!WritePolicy,
        Contract!Accept, Contract!Abandon
<1>4. CASE ContextEnds(r)
  <2>1. LiveUpdates' = LiveUpdates \ {r} /\ want' = want
    BY <1>4 DEF ContextEnds, LiveUpdates
  <2>2. CASE r \in LiveUpdates
    <3>1. LiveUpdates' = {}
      BY <2>1, <2>2 DEF Inv, WritersKnown, LiveUpdates
    <3> QED BY <1>3, <2>2, <3>1
  <2>3. CASE r \notin LiveUpdates
    BY <1>1, <2>1, <2>3, SameAsked DEF Hidden
  <2> QED BY <2>2, <2>3
<1>5. CASE Crash
  <2>1. LiveUpdates' = {}
    BY <1>5 DEF Crash, LiveUpdates, UpdateCalls
  <2>2. CASE LiveUpdates = {}
    BY <1>1, <2>1, <2>2, SameAsked DEF Hidden
  <2> QED BY <1>3, <2>1, <2>2
<1> QED BY <1>2, <1>4, <1>5

LEMMA StepImplements ==
  Inv /\ [Next]_vars => [Contract!ContractNext]_(Contract!contractVars)
<1> SUFFICES ASSUME Inv, [Next]_vars
             PROVE  Contract!ContractNext \/ Hidden
  BY HiddenStutters
<1>1. CASE \/ ModificationEnds \/ SnapshotStarts \/ SnapshotEnds
           \/ UNCHANGED vars
  <2>1. UNCHANGED <<window, policy, pc, want, cut, op, known>>
    BY <1>1 DEF ModificationEnds, SnapshotStarts, SnapshotEnds, callVars,
       platformVars, vars
  <2> QED BY <2>1, SameAsked DEF Hidden, LiveUpdates
<1>2. CASE Crash
  <2>1. \E r \in Requests : pc[r] # "idle"
    BY <1>2 DEF Crash
  <2> QED BY <1>2, <2>1, OthersImplement
<1> QED
  BY <1>1, <1>2, UpdateImplements, ModifyReplicationGroupImplements,
     ModifyCacheParameterGroupImplements, ReadersImplement, OthersImplement
  DEF Next, Begin, Call

(* Update implements its contract: its two calls are one change, written   *)
(* by one Update at a time and never by one that was given up, for any     *)
(* number of requests and any texts.                                       *)
THEOREM UpdatesKeepContract == Spec => UpdateContract
<1>1. Init => Contract!ContractInit
  <2> SUFFICES ASSUME Init PROVE Contract!ContractInit
    OBVIOUS
  <2>1. {want[r] : r \in LiveUpdates} = {}
    BY DEF Init, LiveUpdates, UpdateCalls
  <2> QED BY <2>1 DEF Init, Unknown, Contract!ContractInit
<1>2. Inv /\ [Next]_vars => [Contract!ContractNext]_(Contract!contractVars)
  BY StepImplements
<1> QED BY <1>1, <1>2, Safety, PTL DEF Spec, UpdateContract,
           Contract!ContractSpec

=============================================================================
