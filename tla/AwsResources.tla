---------------------------- MODULE AwsResources ----------------------------
(***************************************************************************)
(* The three kinds of AWS resource that the Redis provider creates for a   *)
(* service instance, and when AWS accepts each call made on them.  AWS is  *)
(* outside the repository: the rules below are the ones the provider       *)
(* relies on, as the API comments of the vendored aws-sdk-go state them.   *)
(* A rule says when a call MAY succeed; every call may also fail.          *)
(***************************************************************************)

CONSTANTS
    Tokens,     \* auth tokens (passwords) GenerateAuthToken can produce
    NoToken     \* stands for "no token"

(***************************************************************************)
(* A cache parameter group is absent, holds the defaults of its family, or *)
(* has had the plan's parameters set on it.                                *)
(***************************************************************************)
ParameterGroups == {"absent", "default", "set"}

(***************************************************************************)
(* A secret keeps its value while it is scheduled for deletion, but cannot *)
(* be read, created again or deleted again until it is purged.             *)
(***************************************************************************)
NoSecret == [state |-> "absent", token |-> NoToken]

Secrets == [state : {"active", "scheduled"}, token : Tokens] \cup {NoSecret}

(***************************************************************************)
(* A replication group is the Redis server of an instance.  Its token is   *)
(* the password it was created with and never changes.                     *)
(***************************************************************************)
Statuses == {"creating", "available", "snapshotting", "create-failed",
             "deleting"}

NoReplicationGroup == [status |-> "none", token |-> NoToken]

ReplicationGroups ==
    [status : Statuses, token : Tokens] \cup {NoReplicationGroup}

Exists(group) == group.status # "none"

-----------------------------------------------------------------------------
\* "CacheParameterGroupAlreadyExists" otherwise.
AcceptsCreateParameterGroup(params) == params = "absent"

\* "CacheParameterGroupNotFound" otherwise.
AcceptsModifyParameterGroup(params) == params # "absent"

\* "You cannot delete a cache parameter group if it is associated with any
\* cache clusters."
AcceptsDeleteParameterGroup(params, group) ==
    params # "absent" /\ ~Exists(group)

\* "ReplicationGroupAlreadyExists", "CacheParameterGroupNotFound" otherwise.
AcceptsCreateReplicationGroup(params, group) ==
    params # "absent" /\ ~Exists(group)

\* "The requested replication group is not in the available state" otherwise;
\* a group whose creation failed can be deleted too.
AcceptsDeleteReplicationGroup(group) ==
    group.status \in {"available", "create-failed"}

\* "ResourceExistsException", or "The secret is scheduled for deletion",
\* otherwise.
AcceptsCreateSecret(entry) == entry.state = "absent"

\* "ResourceNotFoundException", or "The secret is scheduled for deletion",
\* otherwise.
AcceptsDeleteSecret(entry) == entry.state = "active"

\* "When a secret is scheduled for deletion, you cannot retrieve the secret
\* value."
AcceptsGetSecretValue(entry) == entry.state = "active"
=============================================================================
