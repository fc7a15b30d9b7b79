------------------------------ MODULE Restore -------------------------------
(***************************************************************************)
(* A Provision with restore_from_latest_snapshot_of: the search for the    *)
(* snapshot in broker/broker.go and FindSnapshots of the Redis provider,   *)
(* beside backups that AWS takes, finishes and deletes meanwhile.          *)
(*                                                                         *)
(* DescribeSnapshots is read page by page and lists the snapshots of the   *)
(* whole account; the tags of each are then read by a call of their own.   *)
(* The handlers of different requests share nothing and only read          *)
(* snapshots, so one request at a time is modelled.  Any call can fail,    *)
(* also because the context of the request has ended.  What happens from   *)
(* the choice of the snapshot on is the life cycle of the new instance     *)
(* (module InstanceLifecycle); here its last call, the only one that uses  *)
(* the snapshot, stands for it.                                            *)
(***************************************************************************)
EXTENDS RequestParameters, Naturals

CONSTANTS
    Snapshots,  \* the snapshots there are at some time or other
    Times,      \* the times at which a snapshot may have been taken
    TagLists,   \* the tags a snapshot may have
    Details,    \* the organisation, space and plan of a Provision
    NoSnapshot

ASSUME TimesAssumption == Times \subseteq Nat
ASSUME TagsAssumption ==
    /\ \A t \in TagLists : {"instance", "space", "org", "plan"} = DOMAIN t
    /\ \A d \in Details : {"space", "org", "plan"} = DOMAIN d
    /\ \A d \in Details : Nil \notin {d.space, d.org, d.plan}
ASSUME NoSnapshotAssumption == NoSnapshot \notin Snapshots

VARIABLES
    state,      \* state[s]: what has become of snapshot s
    created,    \* created[s]: the time s was taken, known once it is complete
    tags,       \* tags[s]: the tags of s, Nil for one that is missing
    pc,         \* the AWS call the request makes next
    instance,   \* the instance whose snapshot is asked for
    details,    \* of the Provision
    listed,     \* the snapshots found on the pages so far
    unfinished, \* those of them that were not complete when they were listed
    todo,       \* those whose tags have not been read
    infos,      \* the snapshots of the instance: snapshotInfos
    latest,     \* the one to restore from
    reply,      \* the answer to the request
    before      \* the snapshots that existed when the request arrived

awsVars == <<state, created, tags>>
requestVars == <<pc, instance, details, listed, unfinished, todo, infos,
                 latest, before>>
vars == <<awsVars, requestVars, reply>>

-----------------------------------------------------------------------------
States == {"absent", "creating", "available", "gone"}
Replies == {"none", "error", "accepted", "no snapshots", "other org or space",
            "other plan"}

(* Every variable holds a value of its kind, and what the request has      *)
(* learnt about comes from the list.                                       *)
TypeOK ==
    /\ state \in [Snapshots -> States]
    /\ created \in [Snapshots -> Times]
    /\ tags \in [Snapshots -> TagLists]
    /\ pc \in {"idle", "list", "tags", "create"}
    /\ instance \in Texts /\ details \in Details
    /\ listed \subseteq Snapshots /\ before \subseteq Snapshots
    /\ unfinished \subseteq listed /\ todo \subseteq listed
    /\ infos \subseteq listed
    /\ latest \in Snapshots \cup {NoSnapshot}
    /\ reply \in Replies
    /\ latest # NoSnapshot <=> pc = "create"
    /\ pc # "idle" => reply = "none"

Init ==
    /\ state = [s \in Snapshots |-> "absent"]
    /\ created \in [Snapshots -> Times]
    /\ tags \in [Snapshots -> TagLists]
    /\ pc = "idle"
    /\ instance = Empty /\ details \in Details
    /\ listed = {} /\ before = {} /\ unfinished = {} /\ todo = {}
    /\ infos = {} /\ latest = NoSnapshot
    /\ reply = "none"

-----------------------------------------------------------------------------
\* The handler is done; what it knew is forgotten.
Return(answer) ==
    /\ pc' = "idle" /\ reply' = answer
    /\ listed' = {} /\ before' = {} /\ unfinished' = {} /\ todo' = {}
    /\ infos' = {} /\ latest' = NoSnapshot
    /\ instance' = Empty /\ UNCHANGED details

\* The parameters that can come out of parsing.
ParsedProvisions ==
    UNION {parseProvisionParameters(raw) : raw \in RawParameters}

Existing == {s \in Snapshots : state[s] \in {"creating", "available"}}

\* Requests that do not ask for a restore go on in InstanceLifecycle; those
\* that are refused, for want of asynchronous operations, of a configuration of
\* the plan or of correct parameters, change nothing.
Provision ==
    /\ pc = "idle"
    /\ \E params \in ParsedProvisions, d \in Details :
        /\ params.restore # Nil
        /\ instance' = params.restore /\ details' = d
    /\ pc' = "list" /\ reply' = "none"
    /\ before' = Existing
    /\ UNCHANGED <<awsVars, listed, unfinished, todo, infos, latest>>

-----------------------------------------------------------------------------
(***************************************************************************)
(* The choice of the broker among the snapshots found.                     *)
(***************************************************************************)

\* Mutant: sorted the other way round.
ByCreateTimeAscending(found) ==
    {s \in found : \A q \in found : created[s] <= created[q]}

\* Sorted by descending time: what can come first, as equals come in any order.
ByCreateTime(found) ==
    {s \in found : \A q \in found : created[q] <= created[s]}

\* Mutant: the plan is not compared.
CheckTagsAnyPlan(s) ==
    IF tags[s].space # details.space \/ tags[s].org # details.org
    THEN "other org or space" ELSE "ok"

CheckTags(s) ==
    IF tags[s].space # details.space \/ tags[s].org # details.org
    THEN "other org or space"
    ELSE IF tags[s].plan # details.plan THEN "other plan" ELSE "ok"

Restorable(found, s) ==
    /\ pc' = "create" /\ latest' = s
    /\ infos' = found /\ todo' = {}
    /\ UNCHANGED <<instance, details, listed, unfinished, reply, before>>

\* Mutant: an empty list is not refused.
ChooseOrNone(found) ==
    \/ found = {} /\ Restorable(found, NoSnapshot)
    \/ \E s \in ByCreateTime(found) :
        \/ CheckTags(s) = "ok" /\ Restorable(found, s)
        \/ CheckTags(s) # "ok" /\ Return(CheckTags(s))

Choose(found) ==
    \/ found = {} /\ Return("no snapshots")
    \/ \E s \in ByCreateTime(found) :
        \/ CheckTags(s) = "ok" /\ Restorable(found, s)
        \/ CheckTags(s) # "ok" /\ Return(CheckTags(s))

-----------------------------------------------------------------------------
(***************************************************************************)
(* FindSnapshots.                                                          *)
(***************************************************************************)

\* One more page.  What exists from the first page to the last is listed.
Page(page) ==
    /\ listed' = listed \cup page
    /\ unfinished' = unfinished \cup {s \in page : state[s] = "creating"}
    /\ UNCHANGED <<instance, details, infos, latest, reply, before>>

\* Mutant: the list ends with any page.
DescribeSnapshotsSomePages ==
    /\ pc = "list"
    /\ \E page \in SUBSET (Existing \ listed) :
        \/ page # {} /\ Page(page) /\ UNCHANGED <<pc, todo>>
        \/ /\ listed \cup page # {}
           /\ Page(page) /\ pc' = "tags" /\ todo' = listed \cup page
        \/ listed \cup page = {} /\ Return("no snapshots")
        \/ Return("error")
    /\ UNCHANGED awsVars

DescribeSnapshots ==
    /\ pc = "list"
    /\ \E page \in SUBSET (Existing \ listed) :
        \/ page # {} /\ Page(page) /\ UNCHANGED <<pc, todo>>
        \/ /\ before \cap Existing \subseteq listed \cup page
           /\ \/ /\ listed \cup page # {}
                 /\ Page(page) /\ pc' = "tags" /\ todo' = listed \cup page
              \/ listed \cup page = {} /\ Choose({})
        \/ Return("error")
    /\ UNCHANGED awsVars

\* The tags of one more snapshot.  One that was listed without a time, and one
\* that is gone by now, fail the request, whatever instance they belong to.
ListTagsForResource ==
    /\ pc = "tags"
    /\ \/ \E s \in todo \ unfinished :
            LET found == infos \cup {q \in {s} : tags[q].instance = instance}
            IN  /\ state[s] = "available"
                /\ \/ /\ todo # {s}
                      /\ todo' = todo \ {s} /\ infos' = found
                      /\ UNCHANGED <<pc, instance, details, listed,
                                     unfinished, latest, reply, before>>
                   \/ todo = {s} /\ Choose(found)
       \/ Return("error")
    /\ UNCHANGED awsVars

\* AWS refuses to restore from a snapshot that is gone.
CreateReplicationGroup ==
    /\ pc = "create"
    /\ (state[latest] = "available" /\ Return("accepted")) \/ Return("error")
    /\ UNCHANGED awsVars

-----------------------------------------------------------------------------
(***************************************************************************)
(* What happens to the broker, and what AWS does by itself.                *)
(***************************************************************************)
Crash == pc # "idle" /\ Return("none") /\ UNCHANGED awsVars

Becomes(s, old, new) ==
    /\ state[s] = old
    /\ state' = [state EXCEPT ![s] = new]
    /\ UNCHANGED <<created, tags, requestVars, reply>>

BackupStarts(s) == Becomes(s, "absent", "creating")
BackupEnds(s) == Becomes(s, "creating", "available")
RetentionEnds(s) == Becomes(s, "available", "gone")

-----------------------------------------------------------------------------
Next ==
    \/ Provision
    \/ DescribeSnapshots \/ ListTagsForResource \/ CreateReplicationGroup
    \/ Crash
    \/ \E s \in Snapshots :
        BackupStarts(s) \/ BackupEnds(s) \/ RetentionEnds(s)

Spec == Init /\ [][Next]_vars

-----------------------------------------------------------------------------
(***************************************************************************)
(* Properties.                                                             *)
(***************************************************************************)
IsOwn(s) == tags[s].instance = instance

(* A new instance is only restored from a snapshot of the instance that    *)
(* was asked for, with the organisation, the space and the plan of the     *)
(* request, and with all four tags present.  FindSnapshots lists the       *)
(* snapshots of the whole account.                                         *)
RestoresOwn ==
    [][pc = "create" /\ reply' = "accepted" =>
        /\ IsOwn(latest)
        /\ tags[latest].space = details.space
        /\ tags[latest].org = details.org
        /\ tags[latest].plan = details.plan]_vars

(* "Latest": no snapshot of the instance that existed when the request     *)
(* arrived, be it unfinished then, and still exists is newer than the one  *)
(* that is restored, however the pages and the tag calls interleave with   *)
(* backups and deletions.                                                  *)
RestoresLatest ==
    [][pc = "create" /\ reply' = "accepted" =>
        \A s \in before \cap Existing :
            IsOwn(s) => created[s] <= created[latest]]_vars

(* "No snapshots found" is only answered when no snapshot of the instance  *)
(* has existed since the request arrived.                                  *)
NoneFoundIsTrue ==
    [][pc # "idle" /\ reply' = "no snapshots" =>
        \A s \in before \cap Existing : ~IsOwn(s)]_vars

-----------------------------------------------------------------------------
(***************************************************************************)
(* The inductive invariant.                                                *)
(***************************************************************************)

\* When the list is complete, what is left of before is on it.
ListComplete ==
    pc \in {"tags", "create"} => before \cap Existing \subseteq listed

\* Snapshots once listed have been created, those with a time are complete.
ListedExisted ==
    /\ \A s \in listed : state[s] # "absent"
    /\ \A s \in listed \ unfinished : state[s] \in {"available", "gone"}
    /\ \A s \in before : state[s] # "absent"
    /\ pc = "idle" => listed = {}

\* The instance's snapshots among those whose tags were read.
InfosAreOwn ==
    /\ pc \in {"idle", "list"} => infos = {} /\ todo = {}
    /\ pc \in {"tags", "create"} =>
        /\ infos = {s \in listed \ todo : IsOwn(s)}
        /\ unfinished \subseteq todo
    /\ pc = "create" => todo = {}

\* The choice has passed the checks.
LatestChecked ==
    pc = "create" =>
        latest \in ByCreateTime(infos) /\ CheckTags(latest) = "ok"

(* What the request has read so far holds of the snapshots as they are     *)
(* now.                                                                    *)
Inv ==
    /\ TypeOK
    /\ ListComplete
    /\ ListedExisted
    /\ InfosAreOwn
    /\ LatestChecked

=============================================================================
