------------------------- MODULE RequestParameters -------------------------
(***************************************************************************)
(* The parameters a user may add to a Provision or an Update:              *)
(* broker/parameters.go.  The raw parameters are a JSON object, here a     *)
(* function from the keys it holds to their values, the empty one also for *)
(* no text at all and for null.  Other text fails as an unknown key does.  *)
(***************************************************************************)
CONSTANTS
    Texts,      \* JSON strings
    Empty,      \* the empty string, one of Texts
    Nil         \* a Go pointer that was left nil

ASSUME TextsAssumption == Empty \in Texts /\ Nil \notin Texts

RestoreLatestSnapshotOf == "restore_from_latest_snapshot_of"
MaxMemoryPolicy == "maxmemory_policy"
PreferredMaintenanceWindow == "preferred_maintenance_window"
TestFailover == "test_failover"

ProvisionKeys ==
    {RestoreLatestSnapshotOf, MaxMemoryPolicy, PreferredMaintenanceWindow}
UpdateKeys == {MaxMemoryPolicy, PreferredMaintenanceWindow, TestFailover}
Keys == ProvisionKeys \cup UpdateKeys \cup {"unknown"}

\* A JSON value: a string, null, a Boolean, or something else.
JSON == [kind : {"text"}, text : Texts] \cup
        [kind : {"null", "true", "false", "other"}, text : {Empty}]

RawParameters == UNION {[K -> JSON] : K \in SUBSET Keys}

\* json.Unmarshal can put the value of key, if there is one, into a field that
\* takes values of these kinds.
Fits(raw, key, kinds) ==
    key \in DOMAIN raw => raw[key].kind \in kinds \cup {"null"}

\* What it puts into a field of type string and of a pointer type.
IsSet(raw, key) == key \in DOMAIN raw /\ raw[key].kind # "null"
TextField(raw, key) == IF IsSet(raw, key) THEN raw[key].text ELSE Empty
TextPointer(raw, key) == IF IsSet(raw, key) THEN raw[key].text ELSE Nil

\* unmarshalParameters succeeds: only known keys, and values that fit.
Unmarshals(raw, validKeys) ==
    /\ DOMAIN raw \subseteq validKeys
    /\ \A key \in ProvisionKeys : Fits(raw, key, {"text"})
    /\ Fits(raw, TestFailover, {"true", "false"})

\* The outcome of parsing: one record, or none when there is an error.
parseProvisionParameters(raw) ==
    IF Unmarshals(raw, ProvisionKeys)
    THEN {[restore |-> TextPointer(raw, RestoreLatestSnapshotOf),
           policy  |-> TextPointer(raw, MaxMemoryPolicy),
           window  |-> TextField(raw, PreferredMaintenanceWindow)]}
    ELSE {}

\* TestFailover is a *bool: set is what matters below, not its value.
parseUpdateParameters(raw) ==
    IF Unmarshals(raw, UpdateKeys)
    THEN {[policy   |-> TextPointer(raw, MaxMemoryPolicy),
           window   |-> TextField(raw, PreferredMaintenanceWindow),
           failover |-> IsSet(raw, TestFailover)]}
    ELSE {}

checkIfNoUpdateParametersAreSet(params) ==
    params.policy = Nil /\ params.window = Empty /\ ~params.failover

ProvisionParameters ==
    [restore : Texts \cup {Nil}, policy : Texts \cup {Nil}, window : Texts]
UpdateParameters ==
    [policy : Texts \cup {Nil}, window : Texts, failover : BOOLEAN]

=============================================================================
