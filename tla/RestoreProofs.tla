--------------------------- MODULE RestoreProofs ----------------------------
(***************************************************************************)
(* Machine-checked proofs about Restore, for any set of snapshots, times   *)
(* and tags.                                                               *)
(***************************************************************************)
EXTENDS Restore, TLAPS

-----------------------------------------------------------------------------
(***************************************************************************)
(* Type correctness.                                                       *)
(***************************************************************************)

\* The part of TypeOK that is about AWS.
AwsOK ==
    /\ state \in [Snapshots -> States]
    /\ created \in [Snapshots -> Times]
    /\ tags \in [Snapshots -> TagLists]

\* A restore is asked for with a text.
LEMMA RestoreIsText ==
  ASSUME NEW params \in ParsedProvisions, params.restore # Nil
  PROVE  params.restore \in Texts
<1>1. PICK raw \in RawParameters : params \in parseProvisionParameters(raw)
  BY DEF ParsedProvisions
<1>2. PICK K \in SUBSET Keys : raw \in [K -> JSON]
  BY DEF RawParameters
<1>3. \A key \in DOMAIN raw : raw[key].text \in Texts
  BY <1>2, TextsAssumption DEF JSON
<1>4. params.restore = TextPointer(raw, RestoreLatestSnapshotOf)
  BY <1>1 DEF parseProvisionParameters
<1> QED BY <1>3, <1>4 DEF TextPointer, IsSet

LEMMA AwsStays == TypeOK /\ UNCHANGED awsVars => AwsOK'
  BY DEF TypeOK, AwsOK, awsVars

LEMMA ReturnType ==
  ASSUME TypeOK, NEW answer \in Replies, Return(answer), AwsOK'
  PROVE  TypeOK'
  BY TextsAssumption, NoSnapshotAssumption DEF TypeOK, AwsOK, Return

LEMMA CheckTagsReplies ==
  ASSUME NEW s PROVE CheckTags(s) \in Replies \cup {"ok"}
  BY DEF CheckTags, Replies

LEMMA ChooseType ==
  ASSUME TypeOK, AwsOK', NEW found \in SUBSET listed, Choose(found),
         pc # "idle"
  PROVE  TypeOK'
<1>1. CASE Return("no snapshots")
  BY <1>1, ReturnType DEF Replies
<1>2. ASSUME NEW s \in ByCreateTime(found), CheckTags(s) = "ok",
             Restorable(found, s)
      PROVE  TypeOK'
  <2>1. s \in Snapshots /\ s # NoSnapshot
    BY <1>2, NoSnapshotAssumption DEF ByCreateTime, TypeOK
  <2> QED BY <1>2, <2>1 DEF Restorable, TypeOK, AwsOK
<1>3. ASSUME NEW s \in ByCreateTime(found), CheckTags(s) # "ok",
             Return(CheckTags(s))
      PROVE  TypeOK'
  BY <1>3, CheckTagsReplies, ReturnType
<1> QED BY <1>1, <1>2, <1>3 DEF Choose

LEMMA TypeInit == Init => TypeOK
  BY TextsAssumption DEF Init, TypeOK, States, Replies

LEMMA TypeStep == TypeOK /\ [Next]_vars => TypeOK'
<1> SUFFICES ASSUME TypeOK, [Next]_vars PROVE TypeOK'
  OBVIOUS
<1>e. Existing \subseteq Snapshots
  BY DEF Existing
<1>1. CASE Provision
  <2>1. instance' \in Texts /\ details' \in Details
    BY <1>1, RestoreIsText DEF Provision
  <2>2. AwsOK'
    BY <1>1, AwsStays DEF Provision
  <2> QED BY <1>1, <2>1, <2>2, <1>e
          DEF Provision, TypeOK, AwsOK, Replies, awsVars
<1>2. CASE DescribeSnapshots
  <2>1. AwsOK'
    BY <1>2, AwsStays DEF DescribeSnapshots
  <2>2. PICK page \in SUBSET (Existing \ listed) :
          \/ page # {} /\ Page(page) /\ UNCHANGED <<pc, todo>>
          \/ /\ listed \cup page # {}
             /\ Page(page) /\ pc' = "tags" /\ todo' = listed \cup page
          \/ Choose({})
          \/ Return("error")
    BY <1>2 DEF DescribeSnapshots
  <2>3. CASE page # {} /\ Page(page) /\ UNCHANGED <<pc, todo>>
    BY <1>2, <2>1, <2>3, <1>e DEF Page, TypeOK, AwsOK
  <2>4. CASE Page(page) /\ pc' = "tags" /\ todo' = listed \cup page
    BY <1>2, <2>1, <2>4, <1>e DEF DescribeSnapshots, Page, TypeOK, AwsOK
  <2>5. CASE Choose({})
    BY <1>2, <2>1, <2>5, ChooseType DEF DescribeSnapshots
  <2>6. CASE Return("error")
    BY <2>1, <2>6, ReturnType DEF Replies
  <2> QED BY <2>2, <2>3, <2>4, <2>5, <2>6
<1>3. CASE ListTagsForResource
  <2>1. AwsOK'
    BY <1>3, AwsStays DEF ListTagsForResource
  <2>2. CASE Return("error")
    BY <2>1, <2>2, ReturnType DEF Replies
  <2>3. ASSUME NEW s \in todo \ unfinished, NEW found,
               found = infos \cup {q \in {s} : tags[q].instance = instance},
               \/ /\ todo' = todo \ {s} /\ infos' = found
                  /\ UNCHANGED <<pc, instance, details, listed, unfinished,
                                 latest, reply, before>>
               \/ Choose(found)
        PROVE  TypeOK'
    <3>1. found \in SUBSET listed
      BY <2>3 DEF TypeOK
    <3>2. CASE Choose(found)
      BY <1>3, <2>1, <3>1, <3>2, ChooseType DEF ListTagsForResource
    <3>3. CASE /\ todo' = todo \ {s} /\ infos' = found
               /\ UNCHANGED <<pc, instance, details, listed, unfinished,
                              latest, reply, before>>
      BY <2>1, <3>1, <3>3 DEF TypeOK, AwsOK
    <3> QED BY <2>3, <3>2, <3>3
  <2> QED BY <1>3, <2>2, <2>3 DEF ListTagsForResource
<1>4. CASE CreateReplicationGroup
  BY <1>4, AwsStays, ReturnType DEF CreateReplicationGroup, Replies
<1>5. CASE Crash
  BY <1>5, AwsStays, ReturnType DEF Crash, Replies
<1>6. ASSUME NEW s \in Snapshots, NEW old, NEW new \in States,
             Becomes(s, old, new)
      PROVE  TypeOK'
  BY <1>6 DEF Becomes, TypeOK, requestVars
<1>7. CASE UNCHANGED vars
  BY <1>7 DEF vars, awsVars, requestVars, TypeOK
<1> QED
  BY <1>1, <1>2, <1>3, <1>4, <1>5, <1>6, <1>7
  DEF Next, BackupStarts, BackupEnds, RetentionEnds, States

(* The variables keep their types: in particular Provision is never left   *)
(* without a snapshot when it goes on to create the group.                 *)
THEOREM TypeCorrect == Spec => []TypeOK
  BY TypeInit, TypeStep, PTL DEF Spec

-----------------------------------------------------------------------------
(***************************************************************************)
(* The inductive invariant.                                                *)
(***************************************************************************)
Findings == ListComplete /\ ListedExisted /\ InfosAreOwn /\ LatestChecked

LEMMA ReturnKeeps ==
  ASSUME NEW answer, Return(answer) PROVE Findings'
  BY DEF Return, Findings, ListComplete, ListedExisted, InfosAreOwn,
         LatestChecked

\* A choice from all of the instance's snapshots on a complete list.
LEMMA ChooseKeeps ==
  ASSUME Inv, UNCHANGED awsVars, NEW found, Choose(found),
         pc = "tags" \/ found = {},
         found = {s \in listed : IsOwn(s)}, unfinished = {} \/ found = {}
  PROVE  Findings'
<1>1. CASE \E answer \in Replies : Return(answer)
  BY <1>1, ReturnKeeps
<1>2. ASSUME NEW s \in ByCreateTime(found), CheckTags(s) = "ok",
             Restorable(found, s)
      PROVE  Findings'
  <2>1. /\ pc' = "create" /\ latest' = s /\ infos' = found /\ todo' = {}
        /\ UNCHANGED <<state, created, tags, instance, details, listed,
                       unfinished, before>>
    BY <1>2 DEF Restorable, awsVars
  <2>2. pc = "tags" /\ unfinished = {}
    BY <1>2 DEF ByCreateTime
  <2>3. ListComplete'
    BY <2>1, <2>2 DEF Inv, ListComplete, Existing
  <2>4. ListedExisted'
    BY <2>1 DEF Inv, ListedExisted
  <2>5. InfosAreOwn'
    BY <2>1, <2>2 DEF InfosAreOwn, IsOwn
  <2>6. LatestChecked'
    BY <1>2, <2>1 DEF LatestChecked, ByCreateTime, CheckTags
  <2> QED BY <2>3, <2>4, <2>5, <2>6 DEF Findings
<1>3. ASSUME NEW s \in ByCreateTime(found), CheckTags(s) # "ok",
             Return(CheckTags(s))
      PROVE  Findings'
  BY <1>3, ReturnKeeps
<1> QED BY <1>1, <1>2, <1>3 DEF Choose, Replies

LEMMA InvInit == Init => Inv
<1> SUFFICES ASSUME Init PROVE Inv
  OBVIOUS
<1>1. ListComplete /\ ListedExisted /\ InfosAreOwn /\ LatestChecked
  BY DEF Init, ListComplete, ListedExisted, InfosAreOwn, LatestChecked
<1> QED BY <1>1, TypeInit DEF Inv

LEMMA ProvisionKeeps ==
  ASSUME Inv, Provision
  PROVE  Findings'
<1>0. listed = {} /\ infos = {} /\ todo = {}
  BY DEF Provision, Inv, ListedExisted, InfosAreOwn
<1>1. /\ pc' = "list" /\ before' = Existing
      /\ UNCHANGED <<state, created, tags, listed, unfinished, todo, infos>>
  BY DEF Provision, awsVars
<1>2. ListedExisted'
  BY <1>0, <1>1 DEF ListedExisted, Existing
<1>3. ListComplete' /\ InfosAreOwn' /\ LatestChecked'
  BY <1>0, <1>1 DEF ListComplete, InfosAreOwn, LatestChecked
<1> QED BY <1>2, <1>3 DEF Findings

LEMMA DescribeSnapshotsKeeps ==
  ASSUME Inv, DescribeSnapshots
  PROVE  Findings'
<1>1. pc = "list" /\ UNCHANGED <<state, created, tags>>
  BY DEF DescribeSnapshots, awsVars
<1>2. infos = {} /\ todo = {}
  BY <1>1 DEF Inv, InfosAreOwn
<1>3. CASE Return("error")
  BY <1>3, ReturnKeeps
<1>4. ASSUME NEW page \in SUBSET (Existing \ listed), Page(page),
             pc' # "idle"
      PROVE  /\ ListedExisted'
             /\ unfinished' \subseteq listed'
             /\ infos' = {} /\ UNCHANGED before
             /\ listed' = listed \cup page
             /\ listed' \ unfinished' \subseteq Snapshots
  <2>1. /\ listed' = listed \cup page
        /\ unfinished' = unfinished \cup {s \in page : state[s] = "creating"}
        /\ UNCHANGED <<infos, before>>
    BY <1>4 DEF Page
  <2>2. ListedExisted'
    <3>1. \A s \in listed' : state'[s] # "absent"
      BY <1>1, <1>4, <2>1 DEF Inv, ListedExisted, Existing
    <3>2. \A s \in listed' \ unfinished' :
            state'[s] \in {"available", "gone"}
      BY <1>1, <1>4, <2>1 DEF Inv, ListedExisted, Existing
    <3>3. \A s \in before' : state'[s] # "absent"
      BY <1>1, <2>1 DEF Inv, ListedExisted
    <3> QED BY <3>1, <3>2, <3>3, <1>4 DEF ListedExisted
  <2> QED BY <1>2, <1>4, <2>1, <2>2 DEF Inv, TypeOK, Existing
<1>5. ASSUME NEW page \in SUBSET (Existing \ listed), Page(page),
             UNCHANGED <<pc, todo>>
      PROVE  Findings'
  BY <1>1, <1>2, <1>4, <1>5
     DEF Findings, ListComplete, InfosAreOwn, LatestChecked
<1>6. ASSUME NEW page \in SUBSET (Existing \ listed), Page(page),
             before \cap Existing \subseteq listed \cup page,
             pc' = "tags", todo' = listed \cup page
      PROVE  Findings'
  <2>1. ListComplete'
    BY <1>1, <1>4, <1>6 DEF ListComplete, Existing
  <2>2. InfosAreOwn' /\ LatestChecked'
    BY <1>4, <1>6 DEF InfosAreOwn, LatestChecked
  <2> QED BY <1>4, <1>6, <2>1, <2>2 DEF Findings
<1>7. CASE Choose({}) /\ listed = {}
  <2>1. {} = {s \in listed : IsOwn(s)}
    BY <1>7
  <2> QED BY <1>1, <1>7, <2>1, ChooseKeeps DEF awsVars
<1> QED BY <1>3, <1>5, <1>6, <1>7 DEF DescribeSnapshots

LEMMA ListTagsForResourceKeeps ==
  ASSUME Inv, ListTagsForResource
  PROVE  Findings'
<1>1. pc = "tags" /\ UNCHANGED <<state, created, tags>>
  BY DEF ListTagsForResource, awsVars
<1>2. CASE Return("error")
  BY <1>2, ReturnKeeps
<1>3. ASSUME NEW s \in todo \ unfinished, NEW found,
             found = infos \cup {q \in {s} : tags[q].instance = instance},
             \/ /\ todo' = todo \ {s} /\ infos' = found
                /\ UNCHANGED <<pc, instance, details, listed, unfinished,
                               latest, reply, before>>
             \/ todo = {s} /\ Choose(found)
      PROVE  Findings'
  <2>1. infos = {q \in listed \ todo : IsOwn(q)} /\ unfinished \subseteq todo
    BY <1>1 DEF Inv, InfosAreOwn
  <2>2. found = {q \in listed \ (todo \ {s}) : IsOwn(q)}
    BY <1>3, <2>1 DEF Inv, TypeOK, IsOwn
  <2>3. CASE todo = {s} /\ Choose(found)
    <3>1. found = {q \in listed : IsOwn(q)} /\ unfinished = {}
      BY <1>3, <2>1, <2>2, <2>3
    <3> QED BY <1>1, <2>3, <3>1, ChooseKeeps DEF awsVars
  <2>4. CASE /\ todo' = todo \ {s} /\ infos' = found
             /\ UNCHANGED <<pc, instance, details, listed, unfinished,
                            latest, reply, before>>
    <3>1. ListComplete' /\ ListedExisted'
      BY <1>1, <2>4 DEF Inv, ListComplete, ListedExisted, Existing
    <3>2. InfosAreOwn'
      BY <1>1, <1>3, <2>1, <2>2, <2>4 DEF InfosAreOwn, IsOwn
    <3>3. LatestChecked'
      BY <1>1, <2>4 DEF LatestChecked
    <3> QED BY <3>1, <3>2, <3>3 DEF Findings
  <2> QED BY <1>3, <2>3, <2>4
<1> QED BY <1>2, <1>3 DEF ListTagsForResource

\* Snapshots only move on, from absent over creating and available to gone.
LEMMA BecomesKeeps ==
  ASSUME Inv, NEW s \in Snapshots, NEW old, NEW new, Becomes(s, old, new),
         <<old, new>> \in {<<"absent", "creating">>,
                           <<"creating", "available">>,
                           <<"available", "gone">>}
  PROVE  Findings'
<1>1. /\ state[s] = old /\ state' = [state EXCEPT ![s] = new]
      /\ UNCHANGED <<created, tags, pc, instance, details, listed, unfinished,
                     todo, infos, latest, before>>
  BY DEF Becomes, requestVars
<1>2. state \in [Snapshots -> States] /\ listed \subseteq Snapshots
      /\ before \subseteq Snapshots
  BY DEF Inv, TypeOK
<1>3. \A q \in before : q \in Existing' => q \in Existing
  BY <1>1, <1>2 DEF Inv, ListedExisted, Existing
<1>4. ListComplete'
  BY <1>1, <1>3 DEF Inv, ListComplete
<1>5. ListedExisted'
  BY <1>1, <1>2 DEF Inv, ListedExisted
<1>6. InfosAreOwn'
  BY <1>1 DEF Inv, InfosAreOwn, IsOwn
<1>7. LatestChecked'
  BY <1>1 DEF Inv, LatestChecked, ByCreateTime, CheckTags
<1> QED BY <1>4, <1>5, <1>6, <1>7 DEF Findings

LEMMA InvStep == Inv /\ [Next]_vars => Inv'
<1> SUFFICES ASSUME Inv, [Next]_vars PROVE Findings'
  BY TypeStep DEF Inv, Findings
<1>1. CASE CreateReplicationGroup \/ Crash
  BY <1>1, ReturnKeeps DEF CreateReplicationGroup, Crash
<1>2. CASE \E s \in Snapshots :
             BackupStarts(s) \/ BackupEnds(s) \/ RetentionEnds(s)
  BY <1>2, BecomesKeeps DEF BackupStarts, BackupEnds, RetentionEnds
<1>3. CASE UNCHANGED vars
  <2>1. UNCHANGED <<state, created, tags, pc, instance, details, listed,
                    unfinished, todo, infos, latest, before>>
    BY <1>3 DEF vars, awsVars, requestVars
  <2>2. ListComplete' /\ ListedExisted'
    BY <2>1 DEF Inv, ListComplete, ListedExisted, Existing
  <2>3. InfosAreOwn' /\ LatestChecked'
    BY <2>1 DEF Inv, InfosAreOwn, LatestChecked, IsOwn, ByCreateTime,
                CheckTags
  <2> QED BY <2>2, <2>3 DEF Findings
<1> QED
  BY <1>1, <1>2, <1>3, ProvisionKeeps, DescribeSnapshotsKeeps,
     ListTagsForResourceKeeps DEF Next

(* What FindSnapshots has gathered in several calls is still true of the   *)
(* snapshots as they are.                                                  *)
THEOREM Safety == Spec => []Inv
  BY InvInit, InvStep, PTL DEF Spec

(* Provision restores only from a snapshot of the right instance, space,   *)
(* organisation and plan.                                                  *)
THEOREM RestoresOnlyOwn == Spec => RestoresOwn
<1>1. Inv /\ [Next]_vars =>
        [pc = "create" /\ reply' = "accepted" =>
            /\ IsOwn(latest)
            /\ tags[latest].space = details.space
            /\ tags[latest].org = details.org
            /\ tags[latest].plan = details.plan]_vars
  <2> SUFFICES ASSUME Inv, pc = "create"
               PROVE  /\ IsOwn(latest)
                      /\ tags[latest].space = details.space
                      /\ tags[latest].org = details.org
                      /\ tags[latest].plan = details.plan
    OBVIOUS
  <2>1. latest \in infos /\ CheckTags(latest) = "ok"
    BY DEF Inv, LatestChecked, ByCreateTime
  <2>2. IsOwn(latest)
    BY <2>1 DEF Inv, InfosAreOwn
  <2> QED BY <2>1, <2>2 DEF CheckTags
<1> QED BY <1>1, Safety, PTL DEF Spec, RestoresOwn

(* Provision restores from the latest of the snapshots that were there     *)
(* when it began and still are.                                            *)
THEOREM RestoresNoOlder == Spec => RestoresLatest
<1>1. Inv /\ [Next]_vars =>
        [pc = "create" /\ reply' = "accepted" =>
            \A s \in before \cap Existing :
                IsOwn(s) => created[s] <= created[latest]]_vars
  <2> SUFFICES ASSUME Inv, pc = "create", NEW s \in before \cap Existing,
                      IsOwn(s)
               PROVE  created[s] <= created[latest]
    OBVIOUS
  <2>1. s \in infos
    BY DEF Inv, ListComplete, InfosAreOwn
  <2> QED BY <2>1 DEF Inv, LatestChecked, ByCreateTime
<1> QED BY <1>1, Safety, PTL DEF Spec, RestoresLatest

(* Provision answers "no snapshots found" only when there are none.        *)
THEOREM NoneFoundIsSo == Spec => NoneFoundIsTrue
<1>1. Inv /\ [Next]_vars =>
        [pc # "idle" /\ reply' = "no snapshots" =>
            \A s \in before \cap Existing : ~IsOwn(s)]_vars
  <2> SUFFICES ASSUME Inv, Next, pc # "idle", reply' = "no snapshots",
                      NEW s \in before \cap Existing, IsOwn(s)
               PROVE  FALSE
    BY DEF Inv, TypeOK, vars
  <2>1. reply = "none"
    BY DEF Inv, TypeOK
  <2>2. CASE DescribeSnapshots
    <3>1. PICK page \in SUBSET (Existing \ listed) :
            /\ before \cap Existing \subseteq listed \cup page
            /\ listed \cup page = {}
      BY <2>1, <2>2 DEF DescribeSnapshots, Page, Return
    <3> QED BY <3>1
  <2>3. CASE ListTagsForResource
    <3>1. PICK q \in todo :
            todo = {q} /\ infos \cup {p \in {q} : IsOwn(p)} = {}
      BY <2>1, <2>3
         DEF ListTagsForResource, Choose, Restorable, Return, CheckTags,
             IsOwn
    <3>2. s \in listed /\ infos = {p \in listed \ todo : IsOwn(p)}
      BY <2>3 DEF ListTagsForResource, Inv, ListComplete, InfosAreOwn
    <3>3. s # q
      BY <3>1
    <3>4. s \in infos
      BY <3>1, <3>2, <3>3
    <3> QED BY <3>1, <3>4
  <2>4. CASE CreateReplicationGroup \/ Crash
    BY <2>4 DEF CreateReplicationGroup, Crash, Return
  <2>5. CASE \E q \in Snapshots :
               BackupStarts(q) \/ BackupEnds(q) \/ RetentionEnds(q)
    BY <2>1, <2>5 DEF BackupStarts, BackupEnds, RetentionEnds, Becomes
  <2> QED BY <2>2, <2>3, <2>4, <2>5 DEF Next, Provision
<1> QED BY <1>1, Safety, PTL DEF Spec, NoneFoundIsTrue

=============================================================================
