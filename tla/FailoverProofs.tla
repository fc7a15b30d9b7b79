--------------------------- MODULE FailoverProofs ---------------------------
(***************************************************************************)
(* Machine-checked proofs about Failover, for any number of nodes and of   *)
(* concurrent requests.                                                    *)
(***************************************************************************)
EXTENDS Failover, TLAPS

-----------------------------------------------------------------------------
(***************************************************************************)
(* Type correctness.                                                       *)
(***************************************************************************)

\* A request that ends, without a modification of its own, keeps the types.
LEMMA LeaveType ==
  ASSUME TypeOK, NEW r \in Requests, NEW answer \in Replies,
         Return(r, answer), Leave(r), moved' \in BOOLEAN,
         op' \in Nodes \cup {NoNode}, expired' \in BOOLEAN,
         warned' \in BOOLEAN
  PROVE  TypeOK'
  BY DEF TypeOK, Return, Leave, groupVars, InFlight, UpdateCalls, PollCalls

\* So does one that ends with a modification.
LEMMA ModifyType ==
  ASSUME TypeOK, NEW r \in Requests, NEW answer \in Replies,
         NEW kind, NEW target,
         [kind |-> kind, target |-> target] \in Modifications,
         Return(r, answer), Modify(r, kind, target), moved' \in BOOLEAN,
         op' \in Nodes \cup {NoNode}, expired' \in BOOLEAN,
         warned' \in BOOLEAN
  PROVE  TypeOK'
  BY DEF TypeOK, Return, Modify, InFlight, UpdateCalls, PollCalls

LEMMA AnswerType ==
  ASSUME TypeOK, NEW r \in Requests, NEW answer \in Replies, Answer(r, answer)
  PROVE  /\ Return(r, answer)
         /\ op' \in Nodes \cup {NoNode} /\ expired' \in BOOLEAN
         /\ warned' \in BOOLEAN
<1>1. Return(r, answer) /\ op' \in Nodes \cup {NoNode}
  BY DEF Answer, TypeOK
<1>2. expired' \in BOOLEAN
  BY DEF Answer, TypeOK
<1>3. warned' \in BOOLEAN
  BY DEF Answer
<1> QED BY <1>1, <1>2, <1>3

LEMMA UpdateFailsType ==
  ASSUME TypeOK, NEW r \in Requests, NEW answer \in Replies,
         UpdateFails(r, answer)
  PROVE  /\ Return(r, answer)
         /\ op' \in Nodes \cup {NoNode} /\ expired' \in BOOLEAN
         /\ warned' \in BOOLEAN
  BY DEF UpdateFails, TypeOK

LEMMA PollModifiesType ==
  ASSUME TypeOK, NEW r \in Requests, NEW kind, NEW target,
         [kind |-> kind, target |-> target] \in Modifications,
         PollModifies(r, kind, target)
  PROVE  TypeOK'
<1>1. moved' \in BOOLEAN
  BY DEF PollModifies, TypeOK
<1>2. CASE \E answer \in {"in progress", "error"} :
             Modify(r, kind, target) /\ Answer(r, answer)
  BY <1>1, <1>2, AnswerType, ModifyType DEF Replies
<1>3. CASE Leave(r) /\ Answer(r, "error")
  BY <1>1, <1>3, AnswerType, LeaveType DEF Replies
<1> QED BY <1>2, <1>3 DEF PollModifies

LEMMA NoModificationType == NoModification \in Modifications
  BY DEF NoModification, Modifications

LEMMA TypeInit == Init => TypeOK
<1> SUFFICES ASSUME Init PROVE TypeOK
  OBVIOUS
<1>1. /\ primary \in Nodes /\ mod \in Modifications
      /\ op \in Nodes \cup {NoNode}
  BY NoModificationType DEF Init
<1>2. /\ ha \in BOOLEAN /\ snapshot \in BOOLEAN
      /\ expired \in BOOLEAN /\ moved \in BOOLEAN /\ warned \in BOOLEAN
  BY Zenon DEF Init
<1>3. /\ pc \in [Requests -> UpdateCalls \cup PollCalls \cup {"idle"}]
      /\ old \in [Requests -> Nodes \cup {NoNode}]
      /\ node \in [Requests -> Nodes \cup {NoNode}]
      /\ reply \in [Requests -> Replies]
      /\ older \subseteq InFlight
  BY DEF Init, Replies
<1>4. \A r \in Requests : pc[r] = "idle"
  BY DEF Init
<1> QED BY <1>1, <1>2, <1>3, <1>4 DEF TypeOK, UpdateCalls, PollCalls

LEMMA TypeStep == TypeOK /\ [Next]_vars => TypeOK'
<1> SUFFICES ASSUME TypeOK, [Next]_vars PROVE TypeOK'
  OBVIOUS
<1>1. ASSUME NEW r \in Requests, Update(r) PROVE TypeOK'
  BY <1>1 DEF TypeOK, Update, groupVars, platformVars, InFlight, UpdateCalls,
         PollCalls, Replies
<1>2. ASSUME NEW r \in Requests, LastOperation(r) PROVE TypeOK'
  <2>1. CASE Return(r, "error")
    BY <1>2, <2>1 DEF TypeOK, LastOperation, Return, groupVars, platformVars,
         InFlight, UpdateCalls, PollCalls, Replies
  <2>2. CASE ~expired
    <3>1. /\ UNCHANGED <<groupVars, older, moved, platformVars>>
          /\ pc[r] = "idle" /\ op \in Nodes
          /\ pc' = [pc EXCEPT ![r] = "describe"]
          /\ old' = [old EXCEPT ![r] = op]
          /\ node' = [node EXCEPT ![r] = NoNode]
          /\ reply' = [reply EXCEPT ![r] = "none"]
      BY <1>2, <2>2 DEF LastOperation, TypeOK
    <3>2. /\ pc' \in [Requests -> UpdateCalls \cup PollCalls \cup {"idle"}]
          /\ old' \in [Requests -> Nodes \cup {NoNode}]
          /\ node' \in [Requests -> Nodes \cup {NoNode}]
          /\ reply' \in [Requests -> Replies]
      BY <3>1 DEF TypeOK, PollCalls, Replies
    <3>3. older' \subseteq InFlight'
      BY <3>1 DEF TypeOK, InFlight
    <3>4. \A q \in Requests :
            /\ pc'[q] # "idle" => reply'[q] = "none"
            /\ pc'[q] \in PollCalls => old'[q] \in Nodes
            /\ pc'[q] \in {"disableHA", "cutover"} => node'[q] \in Nodes
      BY <3>1 DEF TypeOK
    <3> QED BY <3>1, <3>2, <3>3, <3>4 DEF TypeOK, groupVars, platformVars
  <2> QED BY <1>2, <2>1, <2>2 DEF LastOperation
<1>3. ASSUME NEW r \in Requests, StartFailoverTest(r) PROVE TypeOK'
  <2>1. CASE Goto(r, "disableHA", primary) /\ moved' = FALSE
             /\ UNCHANGED <<groupVars, older, platformVars>>
    BY <1>3, <2>1 DEF StartFailoverTest, TypeOK, Goto, groupVars,
         platformVars, InFlight, UpdateCalls, PollCalls
  <2>2. CASE \E answer \in {"dropped", "error"} :
               UpdateFails(r, answer) /\ Leave(r) /\ UNCHANGED moved
    BY <2>2, UpdateFailsType, LeaveType DEF Replies, TypeOK
  <2> QED BY <1>3, <2>1, <2>2 DEF StartFailoverTest
<1>4. ASSUME NEW r \in Requests, DisableHA(r) PROVE TypeOK'
  <2>1. moved' \in BOOLEAN
    BY <1>4 DEF DisableHA, TypeOK
  <2>2. UpdateFails(r, "error") =>
          /\ Return(r, "error") /\ op' \in Nodes \cup {NoNode}
          /\ expired' \in BOOLEAN /\ warned' \in BOOLEAN
    BY UpdateFailsType DEF Replies
  <2>3. ASSUME Return(r, "accepted"), op' = node[r], expired' = FALSE,
               UNCHANGED warned
        PROVE  op' \in Nodes \cup {NoNode} /\ expired' \in BOOLEAN
               /\ warned' \in BOOLEAN
    BY <2>3 DEF TypeOK
  <2>4. CASE Modify(r, "disable", NoNode)
    BY <1>4, <2>1, <2>2, <2>3, <2>4, ModifyType
       DEF DisableHA, Replies, Modifications
  <2>5. CASE Leave(r)
    BY <1>4, <2>1, <2>2, <2>3, <2>5, LeaveType DEF DisableHA, Replies
  <2> QED BY <1>4, <2>4, <2>5 DEF DisableHA
<1>5. ASSUME NEW r \in Requests, ProgressState(r) PROVE TypeOK'
  <2>1. CASE NextCall(r) /\ UNCHANGED <<groupVars, older, platformVars>>
    BY <1>5, <2>1 DEF ProgressState, NextCall, ReplicaCacheClusterIds,
         TypeOK, Goto, groupVars, platformVars, InFlight, UpdateCalls, PollCalls
  <2>2. CASE \E answer \in {"succeeded", "in progress", "error"} :
               Answer(r, answer) /\ Leave(r)
    BY <1>5, <2>2, AnswerType, LeaveType DEF ProgressState, Replies, TypeOK
  <2> QED BY <1>5, <2>1, <2>2 DEF ProgressState
<1>6. ASSUME NEW r \in Requests, Cutover(r) PROVE TypeOK'
  BY <1>6, PollModifiesType DEF Cutover, TypeOK, Modifications
<1>7. ASSUME NEW r \in Requests, EnableHA(r) PROVE TypeOK'
  BY <1>7, PollModifiesType DEF EnableHA, Modifications
<1>8. ASSUME NEW applied \in BOOLEAN, ModificationEnds(applied) PROVE TypeOK'
  <2>1. /\ mod' \in Modifications /\ UNCHANGED <<snapshot, callVars, older>>
        /\ UNCHANGED platformVars
    BY <1>8, NoModificationType DEF ModificationEnds
  <2>2. primary' \in Nodes
    BY <1>8 DEF ModificationEnds, TypeOK, Modifications
  <2>3. ha' \in BOOLEAN /\ moved' \in BOOLEAN
    BY <1>8 DEF ModificationEnds, TypeOK
  <2> QED BY <2>1, <2>2, <2>3 DEF TypeOK, callVars, platformVars, InFlight
<1>9. CASE AutomaticFailover
  BY <1>9 DEF AutomaticFailover, TypeOK, callVars, platformVars, InFlight
<1>10. CASE SnapshotStarts \/ SnapshotEnds
  BY <1>10 DEF SnapshotStarts, SnapshotEnds, TypeOK, callVars, platformVars,
         InFlight
<1>11. CASE TimeOut \/ PlatformGivesUp
  BY <1>11 DEF TimeOut, PlatformGivesUp, TypeOK, groupVars, callVars, InFlight
<1>12. CASE Crash
  BY <1>12 DEF Crash, TypeOK, groupVars, InFlight, UpdateCalls, PollCalls
<1>13. CASE UNCHANGED vars
  BY <1>13 DEF vars, TypeOK, InFlight
<1> QED
  BY <1>1, <1>2, <1>3, <1>4, <1>5, <1>6, <1>7, <1>8, <1>9, <1>10, <1>11,
     <1>12, <1>13 DEF Next, Call

(* Every variable keeps its type, and a request in flight knows the nodes  *)
(* its calls are about.                                                    *)
THEOREM TypeCorrect == Spec => []TypeOK
<1>1. Init => TypeOK
  BY TypeInit
<1>2. TypeOK /\ [Next]_vars => TypeOK'
  BY TypeStep
<1> QED BY <1>1, <1>2, PTL DEF Spec

-----------------------------------------------------------------------------
(***************************************************************************)
(* The inductive invariant, one lemma per kind of step.  The type part is  *)
(* TypeStep; SafeState is the rest.                                        *)
(***************************************************************************)
SafeState ==
    HighAvailabilityRestored /\ ModificationFits /\ PollsUpToDate
        /\ LatePollsHarmless /\ OneOperation /\ StillToMove
        /\ ModificationInOrder /\ PicksReplica

LEMMA UpdateSafe ==
  ASSUME Inv, NEW r \in Requests, Update(r)
  PROVE  SafeState'
<1>1. HighAvailabilityRestored' /\ ModificationFits'
  BY DEF Inv, TypeOK, Update, groupVars, platformVars, Updating,
         HighAvailabilityRestored, ModificationFits, UpdateCalls
<1>2. PollsUpToDate' /\ LatePollsHarmless'
  BY DEF Inv, TypeOK, Update, groupVars, platformVars, PollsUpToDate,
         LatePollsHarmless, PollCalls
<1>3. OneOperation' /\ StillToMove'
  BY DEF Inv, TypeOK, Update, groupVars, platformVars, Updating,
         OneOperation, StillToMove, UpdateCalls
<1>4. ModificationInOrder' /\ PicksReplica'
  BY DEF Inv, TypeOK, Update, groupVars, platformVars, ModificationInOrder,
         PicksReplica
<1> QED BY <1>1, <1>2, <1>3, <1>4 DEF SafeState

LEMMA LastOperationSafe ==
  ASSUME Inv, NEW r \in Requests, LastOperation(r)
  PROVE  SafeState'
<1>1. HighAvailabilityRestored' /\ ModificationFits'
  BY DEF Inv, TypeOK, LastOperation, Return, groupVars, platformVars,
         HighAvailabilityRestored, ModificationFits
<1>2. PollsUpToDate' /\ LatePollsHarmless'
  BY DEF Inv, TypeOK, LastOperation, Return, groupVars, platformVars,
         PollsUpToDate, LatePollsHarmless, PollCalls
<1>3. OneOperation' /\ StillToMove'
  BY DEF Inv, TypeOK, LastOperation, Return, groupVars, platformVars,
         OneOperation, StillToMove, UpdateCalls
<1>4. ModificationInOrder' /\ PicksReplica'
  BY DEF Inv, TypeOK, LastOperation, Return, groupVars, platformVars,
         ModificationInOrder, PicksReplica
<1> QED BY <1>1, <1>2, <1>3, <1>4 DEF SafeState

\* An Update that ends without an operation.
LEMMA UpdateFailsSafe ==
  ASSUME Inv, NEW r \in Requests, NEW answer, pc[r] \in UpdateCalls,
         UpdateFails(r, answer), UNCHANGED moved,
         Leave(r) \/ Modify(r, "disable", NoNode)
  PROVE  SafeState'
<1>1. HighAvailabilityRestored' /\ ModificationFits'
  BY DEF Inv, TypeOK, UpdateFails, Return, Leave, Modify, Available,
         groupVars, HighAvailabilityRestored, ModificationFits
<1>2. PollsUpToDate' /\ LatePollsHarmless'
  BY DEF Inv, TypeOK, UpdateFails, Return, Leave, Modify, Available,
         groupVars, PollsUpToDate, LatePollsHarmless, ModificationFits,
         PollCalls, UpdateCalls, InFlight, OneOperation
<1>3. OneOperation' /\ StillToMove'
  BY DEF Inv, TypeOK, UpdateFails, Return, Leave, Modify, groupVars,
         OneOperation, StillToMove, UpdateCalls
<1>4. ModificationInOrder' /\ PicksReplica'
  BY DEF Inv, TypeOK, UpdateFails, Return, Leave, Modify, Available,
         groupVars, InFlight, ModificationFits, ModificationInOrder,
         PicksReplica
<1> QED BY <1>1, <1>2, <1>3, <1>4 DEF SafeState

LEMMA StartFailoverTestSafe ==
  ASSUME Inv, NEW r \in Requests, StartFailoverTest(r)
  PROVE  SafeState'
<1>1. CASE /\ Goto(r, "disableHA", primary) /\ moved' = FALSE
           /\ UNCHANGED <<groupVars, older, platformVars>>
  <2>1. HighAvailabilityRestored' /\ ModificationFits'
    BY <1>1 DEF Inv, TypeOK, StartFailoverTest, Goto, groupVars, platformVars,
         Updating, HighAvailabilityRestored, ModificationFits, UpdateCalls
  <2>2. PollsUpToDate' /\ LatePollsHarmless'
    BY <1>1 DEF Inv, TypeOK, StartFailoverTest, Goto, groupVars,
         platformVars, PollsUpToDate, LatePollsHarmless, PollCalls
  <2>3. OneOperation' /\ StillToMove'
    BY <1>1 DEF Inv, TypeOK, StartFailoverTest, Goto, groupVars,
         platformVars, OneOperation, StillToMove, UpdateCalls
  <2>4. ModificationInOrder' /\ PicksReplica'
    BY <1>1 DEF Inv, TypeOK, StartFailoverTest, Goto, groupVars,
         platformVars, ModificationInOrder, PicksReplica
  <2> QED BY <2>1, <2>2, <2>3, <2>4 DEF SafeState
<1>2. CASE \E answer \in {"dropped", "error"} :
             UpdateFails(r, answer) /\ Leave(r) /\ UNCHANGED moved
  BY <1>2, UpdateFailsSafe DEF StartFailoverTest, UpdateCalls
<1> QED BY <1>1, <1>2 DEF StartFailoverTest

LEMMA DisableHASafe ==
  ASSUME Inv, NEW r \in Requests, DisableHA(r)
  PROVE  SafeState'
<1>1. CASE UpdateFails(r, "error")
  BY <1>1, UpdateFailsSafe DEF DisableHA, UpdateCalls
<1>2. CASE /\ Modify(r, "disable", NoNode) \/ (Available /\ ~ha /\ Leave(r))
           /\ Return(r, "accepted") /\ op' = node[r] /\ expired' = FALSE
           /\ UNCHANGED warned
  <2>1. op = NoNode /\ op' \in Nodes /\ op' # NoNode /\ UNCHANGED moved
    BY <1>2, NodesAssumption
       DEF Inv, TypeOK, DisableHA, OneOperation, UpdateCalls
  <2>2. HighAvailabilityRestored' /\ ModificationFits'
    BY <1>2, <2>1 DEF Inv, TypeOK, Leave, Modify, Available, groupVars,
         HighAvailabilityRestored, ModificationFits
  <2>3. PollsUpToDate' /\ LatePollsHarmless'
    BY <1>2, <2>1 DEF Inv, TypeOK, DisableHA, Return, Leave, Modify,
         Available, groupVars, PollsUpToDate, LatePollsHarmless,
         ModificationFits, PollCalls, InFlight
  <2>4. OneOperation' /\ StillToMove'
    BY <1>2, <2>1 DEF Inv, TypeOK, DisableHA, Return, Leave, Modify,
         Available, groupVars, OneOperation, StillToMove, UpdateCalls
  <2>5. ModificationInOrder' /\ PicksReplica'
    BY <1>2, <2>1 DEF Inv, TypeOK, DisableHA, Return, Leave, Modify,
         Available, groupVars, InFlight, ModificationFits,
         ModificationInOrder, PicksReplica
  <2> QED BY <2>2, <2>3, <2>4, <2>5 DEF SafeState
<1> QED BY <1>1, <1>2 DEF DisableHA

\* A poll that answers without a modification.
LEMMA AnswerSafe ==
  ASSUME Inv, NEW r \in Requests, NEW answer, pc[r] \in PollCalls,
         Answer(r, answer), Leave(r), UNCHANGED moved,
         answer = "succeeded" => Available /\ ha
  PROVE  SafeState'
<1>1. HighAvailabilityRestored' /\ ModificationFits'
  BY DEF Inv, TypeOK, Answer, Return, Leave, Available, groupVars, Updating,
         HighAvailabilityRestored, ModificationFits, PollCalls, UpdateCalls
<1>2. PollsUpToDate' /\ LatePollsHarmless'
  BY DEF Inv, TypeOK, Answer, Return, Leave, Available, groupVars,
         PollsUpToDate, LatePollsHarmless, PollCalls
<1>3. OneOperation' /\ StillToMove'
  BY DEF Inv, TypeOK, Answer, Return, Leave, groupVars,
         OneOperation, StillToMove, PollCalls, UpdateCalls
<1>4. ModificationInOrder'
  BY DEF Inv, TypeOK, Answer, Leave, Available, groupVars,
         ModificationInOrder
<1>5. PicksReplica'
  BY DEF Inv, TypeOK, Answer, Return, Leave, groupVars, PicksReplica
<1> QED BY <1>1, <1>2, <1>3, <1>4, <1>5 DEF SafeState

LEMMA ProgressStateSafe ==
  ASSUME Inv, NEW r \in Requests, ProgressState(r)
  PROVE  SafeState'
<1>1. CASE /\ Available /\ NextCall(r)
           /\ UNCHANGED <<groupVars, older, platformVars>>
  <2>1. HighAvailabilityRestored' /\ ModificationFits'
    BY <1>1 DEF Inv, TypeOK, ProgressState, NextCall, Goto, groupVars,
         platformVars, Updating, HighAvailabilityRestored, ModificationFits,
         UpdateCalls
  <2>2. PollsUpToDate' /\ LatePollsHarmless'
    BY <1>1 DEF Inv, TypeOK, ProgressState, NextCall, Goto, groupVars,
         platformVars, Available, PollsUpToDate, LatePollsHarmless, PollCalls
  <2>3. OneOperation' /\ StillToMove'
    BY <1>1 DEF Inv, TypeOK, ProgressState, NextCall, Goto, groupVars,
         platformVars, OneOperation, StillToMove, UpdateCalls
  <2>4. ModificationInOrder' /\ PicksReplica'
    BY <1>1 DEF Inv, TypeOK, ProgressState, NextCall, Goto, groupVars,
         platformVars, ReplicaCacheClusterIds, ModificationInOrder,
         PicksReplica
  <2> QED BY <2>1, <2>2, <2>3, <2>4 DEF SafeState
<1>2. CASE Answer(r, "succeeded") /\ Leave(r) /\ Available /\ ha
  BY <1>2, AnswerSafe DEF ProgressState, PollCalls
<1>3. ASSUME NEW answer \in {"in progress", "error"}, Answer(r, answer),
             Leave(r)
      PROVE  SafeState'
  <2>1. pc[r] \in PollCalls /\ UNCHANGED moved /\ answer # "succeeded"
    BY DEF ProgressState, PollCalls
  <2> QED BY <1>3, <2>1, AnswerSafe
<1> QED BY <1>1, <1>2, <1>3 DEF ProgressState

LEMMA PollModifiesSafe ==
  ASSUME Inv, NEW r \in Requests, NEW kind, NEW target,
         \/ pc[r] = "cutover" /\ kind = "promote" /\ target = node[r]
         \/ pc[r] = "enableHA" /\ kind = "enable",
         PollModifies(r, kind, target)
  PROVE  SafeState'
<1>1. CASE Leave(r) /\ Answer(r, "error")
  <2>1. pc[r] \in PollCalls /\ UNCHANGED moved /\ "error" # "succeeded"
    BY DEF PollModifies, PollCalls
  <2> QED BY <1>1, <2>1, AnswerSafe
<1>2. ASSUME NEW answer \in {"in progress", "error"},
             Modify(r, kind, target), Answer(r, answer)
      PROVE  SafeState'
  <2>1. /\ mod.kind = "none" /\ ~snapshot /\ older = {} /\ ~ha
        /\ pc[r] = "cutover" <=> primary = old[r]
    BY <1>2 DEF Inv, Modify, Available, ModificationFits, PollsUpToDate
  <2>2. op # NoNode /\ old[r] = op
    BY <2>1 DEF Inv, LatePollsHarmless, PollCalls
  <2>3. UNCHANGED <<op, warned, moved, primary, ha, snapshot>>
    BY <1>2 DEF Answer, Modify, PollModifies, Inv, TypeOK
  <2>4. mod'.kind = kind /\ older' = InFlight \ {r}
    BY <1>2 DEF Modify
  <2>5. HighAvailabilityRestored' /\ ModificationFits'
    BY <2>1, <2>2, <2>3, <2>4 DEF HighAvailabilityRestored, ModificationFits
  <2>6. PollsUpToDate' /\ LatePollsHarmless'
    BY <1>2, <2>1, <2>2, <2>3, <2>4 DEF Inv, TypeOK, Answer, Return,
         InFlight, PollsUpToDate, LatePollsHarmless, PollCalls
  <2>7. OneOperation' /\ StillToMove'
    BY <1>2, <2>1, <2>2, <2>3, <2>4 DEF Inv, TypeOK, Answer, Return,
         OneOperation, StillToMove, UpdateCalls
  <2>8. ModificationInOrder'
    BY <1>2, <2>1, <2>2, <2>3 DEF Inv, TypeOK, Modify, ModificationInOrder,
         PicksReplica
  <2>9. PicksReplica'
    BY <1>2, <2>4 DEF Inv, TypeOK, Answer, Return, InFlight, PicksReplica
  <2> QED BY <2>5, <2>6, <2>7, <2>8, <2>9 DEF SafeState
<1> QED BY <1>1, <1>2 DEF PollModifies

LEMMA ModificationEndsSafe ==
  ASSUME Inv, NEW applied \in BOOLEAN, ModificationEnds(applied)
  PROVE  SafeState'
<1>1. mod'.kind = "none" /\ older' = {} /\ older = {} /\ mod.kind # "none"
  BY DEF ModificationEnds, NoModification
<1>2. \A q \in Requests : pc[q] \notin {"cutover", "enableHA"}
  BY <1>1 DEF Inv, PollsUpToDate
<1>3. HighAvailabilityRestored' /\ ModificationFits'
  BY <1>1 DEF Inv, TypeOK, ModificationEnds, callVars, platformVars,
         Updating, HighAvailabilityRestored, ModificationFits
<1>4. PollsUpToDate' /\ LatePollsHarmless'
  BY <1>1, <1>2 DEF Inv, TypeOK, ModificationEnds, callVars, platformVars,
         PollsUpToDate, LatePollsHarmless
<1>5. OneOperation' /\ StillToMove'
  BY <1>1 DEF Inv, TypeOK, ModificationEnds, callVars, platformVars,
         OneOperation, StillToMove
<1>6. ModificationInOrder' /\ PicksReplica'
  BY <1>1, <1>2 DEF ModificationEnds, callVars, ModificationInOrder,
         PicksReplica
<1> QED BY <1>3, <1>4, <1>5, <1>6 DEF SafeState

\* What else AWS and the platform do by themselves.
LEMMA BackgroundSafe ==
  ASSUME Inv, AutomaticFailover \/ SnapshotStarts \/ SnapshotEnds \/ TimeOut
  PROVE  SafeState'
<1>1. HighAvailabilityRestored' /\ ModificationFits'
  BY DEF Inv, TypeOK, AutomaticFailover, SnapshotStarts, SnapshotEnds,
         TimeOut, Available, groupVars, callVars, platformVars, Updating,
         HighAvailabilityRestored, ModificationFits
<1>2. PollsUpToDate' /\ LatePollsHarmless'
  BY DEF Inv, TypeOK, AutomaticFailover, SnapshotStarts, SnapshotEnds,
         TimeOut, groupVars, callVars, platformVars, PollsUpToDate,
         LatePollsHarmless, ModificationFits
<1>3. OneOperation' /\ StillToMove'
  BY DEF Inv, TypeOK, AutomaticFailover, SnapshotStarts, SnapshotEnds,
         TimeOut, groupVars, callVars, platformVars, OneOperation,
         StillToMove
<1>4. ModificationInOrder' /\ PicksReplica'
  BY DEF Inv, TypeOK, AutomaticFailover, SnapshotStarts, SnapshotEnds,
         TimeOut, groupVars, callVars, platformVars, PollsUpToDate,
         ModificationFits, ModificationInOrder, PicksReplica
<1> QED BY <1>1, <1>2, <1>3, <1>4 DEF SafeState

\* All requests are gone, in an orderly way or not.
LEMMA StopSafe ==
  ASSUME Inv, PlatformGivesUp \/ Crash
  PROVE  SafeState'
<1>1. \A q \in Requests : pc'[q] = "idle"
  BY DEF PlatformGivesUp, Crash, InFlight, callVars
<1>2. HighAvailabilityRestored'
  <2>1. /\ UNCHANGED <<ha, mod>>
        /\ warned' \/ op' = op
        /\ warned => warned'
    BY DEF PlatformGivesUp, Crash, groupVars
  <2> QED BY <2>1 DEF Inv, HighAvailabilityRestored
<1>3. ModificationFits'
  BY DEF Inv, PlatformGivesUp, Crash, groupVars, ModificationFits
<1>4. PollsUpToDate' /\ LatePollsHarmless' /\ OneOperation'
  BY <1>1 DEF PollsUpToDate, LatePollsHarmless, OneOperation, PollCalls,
         UpdateCalls
<1>5. StillToMove'
  BY <1>1 DEF Inv, PlatformGivesUp, Crash, groupVars, StillToMove
<1>6. ModificationInOrder'
  <2>1. /\ UNCHANGED <<mod, primary>>
        /\ (op' = NoNode /\ warned') \/ (op' = op /\ (warned => warned'))
    BY DEF PlatformGivesUp, Crash, groupVars
  <2>2. NoNode # primary
    BY NodesAssumption DEF Inv, TypeOK
  <2> QED BY <2>1, <2>2 DEF Inv, ModificationInOrder
<1>7. PicksReplica'
  BY <1>1 DEF PicksReplica
<1> QED BY <1>2, <1>3, <1>4, <1>5, <1>6, <1>7 DEF SafeState

LEMMA SafetyStep == Inv /\ [Next]_vars => Inv'
<1> SUFFICES ASSUME Inv, [Next]_vars PROVE Inv'
  OBVIOUS
<1>1. TypeOK'
  BY TypeStep DEF Inv
<1>2. CASE UNCHANGED vars
  BY <1>1, <1>2 DEF vars, Inv, HighAvailabilityRestored, ModificationFits,
         PollsUpToDate, LatePollsHarmless, OneOperation, StillToMove,
         ModificationInOrder, PicksReplica
<1>3. CASE Next
  <2>1. ASSUME NEW r \in Requests,
               Update(r) \/ LastOperation(r) \/ Call(r)
        PROVE  SafeState'
    BY <2>1, UpdateSafe, LastOperationSafe, StartFailoverTestSafe,
       DisableHASafe, ProgressStateSafe, PollModifiesSafe
       DEF Call, Cutover, EnableHA
  <2>2. SafeState'
    BY <1>3, <2>1, ModificationEndsSafe, BackgroundSafe, StopSafe DEF Next
  <2> QED BY <1>1, <2>2 DEF SafeState, Inv
<1> QED BY <1>2, <1>3

-----------------------------------------------------------------------------
(***************************************************************************)
(* The theorems.                                                           *)
(***************************************************************************)

(* The inductive invariant holds in every reachable state: what a poll     *)
(* decided on is still so whenever AWS would accept its modification.      *)
THEOREM Safety == Spec => []Inv
<1>1. Init => Inv
  BY TypeInit DEF Init, Inv, HighAvailabilityRestored, ModificationFits,
         PollsUpToDate, LatePollsHarmless, OneOperation, StillToMove,
         ModificationInOrder, PicksReplica, NoModification, UpdateCalls,
         PollCalls
<1>2. Inv /\ [Next]_vars => Inv'
  BY SafetyStep
<1> QED BY <1>1, <1>2, PTL DEF Spec

(* Automatic failover is never left off behind a success.                  *)
THEOREM AutomaticFailoverRestored == Spec => []HighAvailabilityRestored
<1>1. Inv => HighAvailabilityRestored
  BY DEF Inv
<1> QED BY <1>1, Safety, PTL

(* A poll that ends a failover with "succeeded" does so after the primary  *)
(* has moved.                                                              *)
THEOREM SuccessIsTrue == Spec => SuccessMeansFailedOver
<1>1. ASSUME Inv, [Next]_vars
      PROVE  [\A r \in Requests :
                op # NoNode /\ pc[r] = "describe" /\ reply'[r] = "succeeded"
                    => moved]_vars
  <2> SUFFICES ASSUME NEW r \in Requests, op # NoNode, pc[r] = "describe",
                      reply'[r] = "succeeded"
               PROVE  moved
    OBVIOUS
  <2>1. reply[r] = "none" /\ r \in DOMAIN reply
    BY <1>1 DEF Inv, TypeOK
  <2>2. reply' # reply
    BY <2>1
  <2>3. PICK q \in Requests : Update(q) \/ LastOperation(q) \/ Call(q)
    BY <1>1, <2>2 DEF Next, vars, callVars, ModificationEnds,
         AutomaticFailover, SnapshotStarts, SnapshotEnds, TimeOut,
         PlatformGivesUp, Crash
  <2>4. q = r
    BY <2>1, <2>3 DEF Update, LastOperation, Call, StartFailoverTest,
         UpdateFails, DisableHA, ProgressState, NextCall, Cutover, EnableHA,
         PollModifies, Answer, Goto, Return
  <2>5. ProgressState(r)
    BY <2>3, <2>4 DEF Update, LastOperation, Call, StartFailoverTest,
         DisableHA, Cutover, EnableHA
  <2>6. Available /\ ha
    BY <1>1, <2>1, <2>5 DEF ProgressState, NextCall, Answer, Goto, Return,
         Inv, TypeOK
  <2> QED BY <1>1, <2>6 DEF Inv, StillToMove, Available
<1> QED BY <1>1, Safety, PTL DEF Spec, SuccessMeansFailedOver

(* A failover promotes a node once: AWS starts a promotion only while the  *)
(* primary is the one the Update saw.                                      *)
THEOREM PromotionIsOnce == Spec => PromotesOnce
<1>1. ASSUME Inv, [Next]_vars
      PROVE  [mod'.kind = "promote" /\ mod.kind # "promote"
                => op = primary /\ ~ha]_vars
  <2> SUFFICES ASSUME mod'.kind = "promote", mod.kind # "promote"
               PROVE  op = primary /\ ~ha
    OBVIOUS
  <2>1. PICK r \in Requests : Call(r)
    BY <1>1 DEF Next, vars, groupVars, NoModification, Update, LastOperation,
         ModificationEnds, AutomaticFailover, SnapshotStarts, SnapshotEnds,
         TimeOut, PlatformGivesUp, Crash
  <2>2. ~UNCHANGED groupVars
    BY DEF groupVars
  <2>3. ~StartFailoverTest(r) /\ ~ProgressState(r)
    BY <2>2 DEF StartFailoverTest, ProgressState, Leave
  <2>4. ~Modify(r, "disable", NoNode) /\ ~Modify(r, "enable", NoNode)
    BY DEF Modify
  <2>5. ~DisableHA(r) /\ ~EnableHA(r)
    BY <2>2, <2>4 DEF DisableHA, EnableHA, PollModifies, Leave
  <2>6. Cutover(r) /\ Available
    BY <2>1, <2>2, <2>3, <2>5
       DEF Call, Cutover, PollModifies, Modify, Leave
  <2>7. ~ha /\ primary = old[r]
    BY <1>1, <2>6 DEF Cutover, Available, Inv, ModificationFits,
         PollsUpToDate
  <2> QED
    BY <1>1, <2>6, <2>7 DEF Cutover, Available, Inv, LatePollsHarmless,
         PollCalls
<1> QED BY <1>1, Safety, PTL DEF Spec, PromotesOnce

-----------------------------------------------------------------------------
(***************************************************************************)
(* The failover test implements FailoverContract: one lemma per kind of    *)
(* step that the contract sees.                                            *)
(***************************************************************************)
Guarded == ha /\ mod.kind # "disable"

\* A step that the contract does not see.
Hidden == UNCHANGED <<primary, Guarded, op, moved, warned>>

LEMMA HiddenStutters == Hidden => UNCHANGED Contract!contractVars
  BY DEF Hidden, Guarded, Contract!contractVars

LEMMA ContractInitially == Init => Contract!ContractInit
<1> SUFFICES ASSUME Init PROVE Contract!ContractInit
  OBVIOUS
<1>1. (ha /\ mod.kind # "disable") = TRUE
  BY DEF Init, NoModification
<1> QED BY <1>1 DEF Init, Contract!ContractInit

\* The Update ends without an operation, its modification begun or not.
LEMMA UpdateFailsRefuses ==
  ASSUME Inv, NEW r \in Requests, NEW answer, pc[r] \in UpdateCalls,
         UpdateFails(r, answer), UNCHANGED moved,
         Leave(r) \/ Modify(r, "disable", NoNode)
  PROVE  Contract!Refuse
<1>1. op = NoNode /\ UNCHANGED <<op, primary, moved>> /\ warned' = TRUE
  BY DEF Inv, OneOperation, UpdateFails, Leave, Modify, groupVars
<1>2. CASE Leave(r)
  BY <1>1, <1>2 DEF Leave, groupVars, Contract!Refuse
<1>3. CASE Modify(r, "disable", NoNode)
  <2>1. (ha /\ mod.kind # "disable")' = FALSE
    BY <1>3 DEF Modify
  <2> QED BY <1>1, <2>1 DEF Contract!Refuse
<1> QED BY <1>2, <1>3

LEMMA StartFailoverTestImplements ==
  ASSUME Inv, NEW r \in Requests, StartFailoverTest(r)
  PROVE  Contract!Look \/ Contract!Refuse
<1>1. CASE /\ Goto(r, "disableHA", primary) /\ moved' = FALSE
           /\ UNCHANGED <<groupVars, older, platformVars>>
  BY <1>1 DEF Inv, OneOperation, StartFailoverTest, UpdateCalls, groupVars,
     platformVars, Contract!Look
<1>2. CASE \E answer \in {"dropped", "error"} :
             UpdateFails(r, answer) /\ Leave(r) /\ UNCHANGED moved
  BY <1>2, UpdateFailsRefuses DEF StartFailoverTest, UpdateCalls
<1> QED BY <1>1, <1>2 DEF StartFailoverTest

LEMMA DisableHAImplements ==
  ASSUME Inv, NEW r \in Requests, DisableHA(r)
  PROVE  Contract!Refuse \/ \E n \in Nodes : Contract!Begin(n)
<1>1. CASE UpdateFails(r, "error")
  BY <1>1, UpdateFailsRefuses DEF DisableHA, UpdateCalls
<1>2. CASE /\ Modify(r, "disable", NoNode) \/ (Available /\ ~ha /\ Leave(r))
           /\ Return(r, "accepted") /\ op' = node[r] /\ expired' = FALSE
           /\ UNCHANGED warned
  <2>1. node[r] \in Nodes /\ op = NoNode /\ (moved \/ node[r] = primary)
    BY DEF Inv, TypeOK, OneOperation, StillToMove, DisableHA, UpdateCalls
  <2>2. (ha /\ mod.kind # "disable")' = FALSE /\ UNCHANGED <<primary, moved>>
    BY <1>2 DEF DisableHA, Modify, Leave, groupVars
  <2> QED BY <1>2, <2>1, <2>2 DEF Contract!Begin
<1> QED BY <1>1, <1>2 DEF DisableHA

LEMMA AnswerHidden ==
  ASSUME Inv, NEW r \in Requests, NEW answer, Answer(r, answer),
         answer # "succeeded", UNCHANGED moved,
         UNCHANGED primary, Guarded' = Guarded
  PROVE  Hidden
  BY DEF Inv, TypeOK, Answer, Hidden

LEMMA ProgressStateImplements ==
  ASSUME Inv, NEW r \in Requests, ProgressState(r)
  PROVE  Contract!Succeed \/ Hidden
<1>1. CASE UNCHANGED <<groupVars, older, platformVars>>
  BY <1>1 DEF ProgressState, groupVars, platformVars, Hidden, Guarded
<1>2. CASE Answer(r, "succeeded") /\ Leave(r) /\ Available /\ ha
  <2>1. (ha /\ mod.kind # "disable") /\ (op # NoNode => moved)
    BY <1>2 DEF Inv, StillToMove, Available
  <2>2. op' = NoNode /\ warned' = FALSE
    BY <1>2 DEF Answer
  <2>3. UNCHANGED <<primary, ha, mod, moved>>
    BY <1>2 DEF Leave, groupVars, ProgressState
  <2> QED BY <2>1, <2>2, <2>3 DEF Contract!Succeed
<1>3. ASSUME NEW answer \in {"in progress", "error"}, Answer(r, answer),
             Leave(r)
      PROVE  Hidden
  BY <1>3, AnswerHidden DEF ProgressState, Leave, groupVars, Guarded
<1> QED BY <1>1, <1>2, <1>3 DEF ProgressState

LEMMA PollModifiesImplements ==
  ASSUME Inv, NEW r \in Requests, NEW kind, NEW target,
         pc[r] \in {"cutover", "enableHA"}, kind # "disable",
         PollModifies(r, kind, target)
  PROVE  Hidden
<1>1. PICK answer \in {"in progress", "error"} : Answer(r, answer)
  BY DEF PollModifies
<1>2. UNCHANGED <<primary, moved, ha>>
  BY DEF PollModifies, Modify, Leave, groupVars
<1>3. mod' = mod \/ (mod'.kind = kind /\ mod.kind = "none")
  <2>1. CASE Modify(r, kind, target)
    BY <2>1 DEF Modify, Available
  <2>2. CASE Leave(r)
    BY <2>2 DEF Leave, groupVars
  <2> QED BY <2>1, <2>2 DEF PollModifies
<1>4. Guarded' = Guarded
  BY <1>2, <1>3 DEF Guarded
<1> QED BY <1>1, <1>2, <1>4, AnswerHidden

LEMMA ModificationEndsImplements ==
  ASSUME Inv, NEW applied \in BOOLEAN, ModificationEnds(applied)
  PROVE  Contract!Move \/ Contract!Restore \/ Hidden
<1>1. UNCHANGED <<op, warned>> /\ mod'.kind = "none" /\ mod.kind # "none"
  BY DEF ModificationEnds, platformVars, NoModification
<1>2. CASE applied /\ mod.kind = "promote"
  <2>1. mod.target \in Nodes \ {primary} /\ primary' = mod.target
        /\ moved' = TRUE /\ ha' = ha
    BY <1>2 DEF ModificationEnds, Inv, TypeOK, Modifications,
       ModificationInOrder
  <2>2. op = primary \/ (op = NoNode /\ warned)
    BY <1>2 DEF Inv, ModificationInOrder
  <2>3. (ha /\ mod.kind # "disable")' = (ha /\ mod.kind # "disable")
    BY <1>1, <1>2, <2>1
  <2> QED BY <1>1, <2>1, <2>2, <2>3 DEF Contract!Move
<1>3. CASE applied /\ mod.kind = "enable"
  <2>1. op # primary /\ (op = NoNode => warned) /\ ~ha
    BY <1>3 DEF Inv, ModificationInOrder, ModificationFits
  <2>2. UNCHANGED <<primary, moved>> /\ ha' = TRUE
    BY <1>3 DEF ModificationEnds
  <2>3. (ha /\ mod.kind # "disable")' = TRUE
    BY <1>1, <2>2
  <2> QED BY <1>1, <2>1, <2>2, <2>3 DEF Contract!Restore
<1>4. CASE mod.kind = "disable" \/ ~applied
  <2>1. UNCHANGED <<primary, moved>>
    BY <1>4 DEF ModificationEnds
  <2>2. Guarded = FALSE
    BY <1>1, <1>4 DEF ModificationEnds, Inv, TypeOK, Modifications,
       ModificationFits, Guarded
  <2>3. ha' = FALSE
    BY <1>1, <1>4 DEF ModificationEnds, Inv, TypeOK, Modifications,
       ModificationFits
  <2>4. Guarded' = FALSE
    BY <2>3 DEF Guarded
  <2> QED BY <1>1, <2>1, <2>2, <2>4 DEF Hidden
<1> QED BY <1>2, <1>3, <1>4 DEF ModificationEnds

LEMMA StopImplements ==
  ASSUME Inv, PlatformGivesUp \/ Crash
  PROVE  Contract!GiveUp \/ Contract!Refuse \/ Hidden
<1>1. UNCHANGED <<primary, ha, mod, moved>>
  BY DEF PlatformGivesUp, Crash, groupVars
<1>2. CASE PlatformGivesUp
  BY <1>1, <1>2 DEF PlatformGivesUp, Contract!GiveUp
<1>3. CASE Crash /\ Updating
  <2>1. op = NoNode /\ warned' = TRUE /\ op' = op
    BY <1>3 DEF Crash, Updating, Inv, OneOperation
  <2> QED BY <1>1, <2>1 DEF Contract!Refuse
<1>4. CASE Crash /\ ~Updating
  <2>1. op' = op /\ warned' = warned
    BY <1>4 DEF Crash, Inv, TypeOK
  <2> QED BY <1>1, <2>1 DEF Hidden, Guarded
<1> QED BY <1>2, <1>3, <1>4

\* What else AWS, the platform and time do.
LEMMA BackgroundImplements ==
  ASSUME Inv, AutomaticFailover \/ SnapshotStarts \/ SnapshotEnds \/ TimeOut
  PROVE  Contract!Move \/ Hidden
<1>1. CASE AutomaticFailover
  BY <1>1 DEF AutomaticFailover, platformVars, Contract!Move
<1>2. CASE SnapshotStarts \/ SnapshotEnds \/ TimeOut
  BY <1>2 DEF SnapshotStarts, SnapshotEnds, TimeOut, groupVars, platformVars,
     Hidden, Guarded
<1> QED BY <1>1, <1>2

LEMMA StepImplements ==
  Inv /\ [Next]_vars => [Contract!ContractNext]_(Contract!contractVars)
<1> SUFFICES ASSUME Inv, [Next]_vars
             PROVE  Contract!ContractNext \/ Hidden
  BY HiddenStutters
<1>1. CASE UNCHANGED vars
  BY <1>1 DEF vars, Hidden, Guarded
<1>2. ASSUME NEW r \in Requests, Update(r) \/ LastOperation(r)
      PROVE  Hidden
  BY <1>2 DEF Update, LastOperation, groupVars, platformVars, Hidden, Guarded
<1>3. ASSUME NEW r \in Requests, Cutover(r) \/ EnableHA(r)
      PROVE  Hidden
  BY <1>3, PollModifiesImplements DEF Cutover, EnableHA
<1> QED
  BY <1>1, <1>2, <1>3, StartFailoverTestImplements, DisableHAImplements,
     ProgressStateImplements, ModificationEndsImplements, StopImplements,
     BackgroundImplements DEF Next, Call, Contract!ContractNext

(* The failover test implements its contract: its stages come in order,    *)
(* once each, and success only after the last, for any number of nodes and *)
(* of overlapping polls.                                                   *)
THEOREM TestsKeepContract == Spec => TestContract
<1>1. Init => Contract!ContractInit
  BY ContractInitially
<1>2. Inv /\ [Next]_vars => [Contract!ContractNext]_(Contract!contractVars)
  BY StepImplements
<1> QED BY <1>1, <1>2, Safety, PTL DEF Spec, TestContract,
           Contract!ContractSpec

=============================================================================
